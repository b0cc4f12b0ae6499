# A verification of the Senpai agent runtime

Senpai runs long-lived research agents: one *advisor* and several *students*, each a process that
wakes a model when something happens (a human writes an issue, a pull request is reviewed, a child
task ends, a training run crosses a gate) and records, durably, that it did. This directory models
the parts of it that have to be right for that promise to hold, checks them with TLC on small
instances, and proves nearly all the safety of the runs with TLAPS. Paths below are relative to `senpai_agent/` unless
they say otherwise.

## The system

### Parts, their state and their operations

| Part | State | Operations | Talks to |
|---|---|---|---|
| Durable inbox (`inbox.py`) | SQLite tables `inbox_messages`, `inbox_turns`, `provider_cooldown` | enqueue, steer, next_turn, record_delivered / progress / inference_attempt / processed, reset_turn, recover_turn, quarantine, acknowledge, retract_pending_prefix | called by controller, runner, pump |
| Controller (`controller.py`) | what the last poll saw, failure counts, deferred conversations (memory) | one cycle: acknowledge, poll, enqueue, serve ready turns | mailboxes, inbox, runner |
| Local event store (`local_events.py`) | SQLite table of events and receipts | enqueue, pending, acknowledge, discard_prefix | child tasks, GitHub watcher, pump, controller |
| Event pump (`advisor.py`) | steering generation, mode and flags under `_steer_lock`; two events; a boundary thread | transfer to inbox, pause at a boundary, interrupt, prepare_run / run_started / finish_run | store, inbox, conversation, runner |
| Runner (`openhands_runner.py`) | the OpenHands conversation's branch | activate a turn, decide whether to infer, run steerably, record the outcome | inbox, pump, conversation |
| Mailboxes (`mailbox.py`, `github/mailbox/`) | feedback ledger on disk, keys of the last poll, the watcher's known keys | poll both roles' view of GitHub, merge with local events, withdraw availability, acknowledge; watch GitHub during a turn | controller, local store, GitHub |
| Conversation ledgers (`state.py`) | JSON files: assignment to conversation, started, divergence handled last | bind, mark, clear | controller |
| Supervisor (`supervisor.py`, `processes.py`, `inference_heartbeat.py`) | lease file; failures and backoff | spawn, read the lease, end an overdue worker, back off; the worker publishes phases, renews turns, shows model requests | controller process and its threads |
| Delegation (`delegation.py`) | SQLite table of tasks and operations, child processes | spawn, claim, finish, cancel tree, reconcile, await | local event store |
| Training (`training.py`) | result file of each run, table of active runs | start, watch, cancel, close, recover | its processes, the supervisor's kill |
| Training monitor (`monitor.py`, `tools.py`, `hooks.py`) | monitor table, signals, presence markers | register, poll W&B, gate, signal, complete; the Stop hook reads the markers | local events through a mailbox |
| GitHub workflow (`github/workflow/`) | pull requests, issues and comments at GitHub, nothing of its own | create, repair, submit, revise, accept, merge, close, message, answer an issue | tools of the agents, the other worker through GitHub |
| Workspace (`workspace.py`, `git_workflow.py`) | git checkout of the student | create, check out, detect divergence, push | controller, tools, helpers in the same directory |

An event is *posted* to a mailbox or to the local store. The controller polls it into the inbox
between turns; while a turn runs, the pump transfers it. The inbox binds queued events to a *turn*
(a prompt and up to 16 events), the runner brings the turn's messages onto the conversation's
branch, runs the model, and marks the turn processed when the model finished. The controller then
acknowledges the turn to the mailboxes and to the inbox. A turn that makes no progress is
*recovered*: its events are copied to a successor on an empty branch; a turn that exhausts its
recoveries is *quarantined* until a human speaks.

### What is hard

* **Crashes between two files.** Event store, inbox, conversation and mailbox ledgers commit
  separately. Every retry has to recognise what the cut-off attempt already did.
* **Three threads around one run.** Pump, boundary thread and runner share flags and wake-ups; the
  conversation can be interrupted without the steering lock.
* **The same event twice.** Polls, reminders, the pump, recoveries and restarts all offer an event
  that may be queued, running, answered or superseded.
* **Budgets.** Attempts without progress, attempts in all, recoveries and provider failures are
  counted in different places and given back in some.
* **Deciding on what was read earlier.** A poll reads pull requests first and comments later; a
  merge reads base, head, evidence and labels one by one; git is asked about a checkout that
  helpers write to; `await_agents` shows a snapshot and acknowledges later.
* **Two writers without a lock.** Advisor and student change the same pull request by separate
  HTTP requests, each of which may be lost.
* **Files that speak for processes.** Lease, result file, task row and presence marker are read by
  someone else, perhaps after the process is gone and its pid was given away.
* **Liveness** through failure: nothing may wait for ever because a conversation is not listed as
  ready, a wake-up is lost, or a failure count is forgotten by a restart.

`PROJECT.json` lists each hazard at its line with the properties aimed at it.

## The modules

| Module | Models | Abstracts |
|---|---|---|
| `PersistentInbox` | every state-changing operation of the inbox, with a client that may call them in any order the callers can | delivery identifiers, timestamps, SQL |
| `EventDelivery` | what the worker promises of an event | everything else |
| `TurnDelivery` | one worker: store, controller cycle, turn activation, model run, pump, failures, crashes; extends `PersistentInbox` and calls its operations | threads of the pump |
| `SteeringPump` | pump, boundary and runner threads, conversation status and its lock | the inbox, reduced to a state per row |
| `Delegation` | the task registry under its file lock, the four tools, child processes and their monitors, reconciliation, the supervisor's kill, and the way of a terminal event to the root | keys, prompts, results, models, the store and the inbox reduced to a state per event |
| `Training` | processes, result file, watcher thread, cancellation and recovery of training runs | logs, arguments, exact deadlines |
| `TrainingMonitor` | the tools, the monitor store, the markers and the controller's polls; extends `Training` | W&B, the text of messages |
| `Supervisor` | the supervisor's loop, the worker's lease and its inference heartbeat | what the worker does in its phases |
| `MailboxCycle` | the controller's cycle over mailboxes, inbox, store and watcher, for several conversations | the inside of inbox and turn |
| `GitHubMailbox` | the two roles' mailboxes over one pull request and one issue; extends `MailboxCycle` | trust, parsing, wording |
| `AssignmentWorkflow` | the workers' operations on pull requests and issues, request by request | texts, students, bases' names |
| `StudentWorkspace` | the checkout, its reconciliation, the divergence ledger | file contents, the inside of a turn |
| `PersistentInboxProofs`, `SteeringPumpProofs`, `DelegationProofs`, `TrainingProofs`, `SupervisorProofs`, `GitHubMailboxProofs`, `AssignmentWorkflowProofs`, `StudentWorkspaceProofs` | inductive invariants and theorems | |
| `MCInbox`, `MCDelivery`, `MCSteering`, `MCDelegation`, `MCTraining`, `MCSupervisor`, `MCMailbox`, `MCWorkflow`, `MCWorkspace` | small instances | |

`TurnDelivery` composes inbox, store, controller and runner and refines both `PersistentInbox` and
`EventDelivery`. `TrainingMonitor` composes training, tools, monitor, controller and inbox.
`GitHubMailbox` composes mailboxes, controller, inbox and store.

**Scopes.** `Delegation`, `GitHubMailbox`, `AssignmentWorkflow` and `StudentWorkspace` ask
questions that need different bounds: a helper *or* a batch, lost requests *or* a moving base. A
product of all of them is out of reach, and one configuration each would repeat the model's other
half. So the bounds are a record in the variable `scope`, chosen in `Init` among the constant
`Scopes` and never changed; a run explores the union of the state spaces of its scopes, and each
scope is named and commented in its MC module. A scope only bounds what may happen (how many, how
often, which operations); the actions are the same in all.

### PersistentInbox

A row of `inbox_messages` is an element of `messages`, keyed by its `sequence`; a row of
`inbox_turns` an element of `turns`, numbered in creation order. The prompt row of a turn is the
field `prompt` of the turn. Superseding (`supersededBy`, `recoveryOf`, `generation`), quarantine
and acknowledgement are fields of the turn, as in the table. Each operation of the class is one
action, because each is one SQLite transaction (`recover_turn` is several, called by one thread in
immediate succession, and one action). An operation that raises changes nothing and is a step not
taken. The kinds of events carry what the code distinguishes: priority (`STEER_PRIORITY`,
`QUEUE_PRIORITY`, 0), once-only or not, and whether it can be retracted.

`Next` is the most general client: controller, runner and pump use it in every order their own
guards allow. `TurnDelivery` then shows that the real client stays within it
(`InboxUsedAsSpecified`, a theorem), so what is checked and proved of `PersistentInbox` holds of
the worker.

### TurnDelivery

One conversation and one payload. `pc` is where the controller thread is, and the memory of the
process (`active`, `reset`, `failures`, `todo`, `visible`, `deferred`) is lost in a `Crash` and
when too many turns fail in a row. Store, inbox and branch survive. Each action commits to one of
the three, so a crash can fall between any two commits: between the inbox row and the store
receipt (`PumpTakes`, `PumpAcknowledges`), between the mailbox and the inbox
(`AcknowledgeMailbox`, `AcknowledgeInbox`), between a message and its receipt (`SendMessage`,
`NoteDelivered`), between the branch reset and its record (`LeaveBranch`, `NoteContextReset`).

The branch is the sequence of what the conversation's active branch shows: prompts, event rows,
completed tool calls and finishes. The model is external: it may call tools, finish, stop, fail,
lose its provider or its history at any time.

The local store stands for the mailbox as well: `ReceiveTurn` writes the receipt of every event of
the turn, as `OpenHandsTurnRunner.run` does.

### SteeringPump

A critical section of `_steer_lock` is one action, as is a check under the conversation's state
lock, which an agent step (`stepping`) holds. What lies between two sections is where the other
threads come in: between `finish_run` and `_deliver_steer`, between `interrupt()` and the note
that it was the pump's own, between reading the turn and sending its messages. `flags` holds the
fields `_steer_lock` guards under their own names.

The 61 second limit on waiting for a steering boundary, and stop signals, are left out: both end
the run as `RunRaises` does. A conversation in status ERROR is paused to this code.

### Delegation

A task is a row of `tasks`: `status`, `collected`, `pid` are its columns, `proc` is where its
process is in its run, `monitor` the thread (and the `_LOCAL_RUNNERS` entry) of the process that
launched it. A caller is the root or a task whose conversation has helpers.

Everything that writes the registry holds `DelegationRegistry.lifecycle`, a file lock, and commits
several times under it: a status, a kill, an event, a receipt. `holder` is the process with the
lock and `work` what its section has still to do, by kind, in the order of `Rank`. The operation's
own action takes the lock and makes the first commit (`Spawn`, `AwaitReturns`, `CancelTasks`,
`RecordResult`, `Detach`, `MonitorCompletes`, `RootStarts`, ...); `Prune`, `Kill`, `Post`,
`Settle`, `AckCollected`, `LeaveRow`, `FailRow`, `Reserve`, `claim_launch`, `StartProcess`,
`mark_running` are the commits that follow. A process may die between any two (`Cut`). What needs
no lock runs on meanwhile: the child's own work, the supervisor, the pump that moves an event to
the inbox. `cancel_agents` kills and posts task by task; the model kills all and posts then.

A child ends as `run_openhands` and `main` do: an error is recorded first (`RecordRaised`), then
uncollected helpers are cancelled and turn a success into a failure (`DetachHelpers`,
`RecordDetached`), then the outcome is recorded (`RecordOutcome`), and only the process' exit
starts the monitor (`MonitorCompletes`).

What may go wrong is bounded by `scope`: deaths of the worker (`crashes`), of children nobody
asked for (`deaths`), of either in the middle of a section (`cuts`); `scope.tree` and
`scope.parallel` are the two capacities.

`unseen` holds the children the supervisor's sampling of descendants has not met when the worker
dies: those live on. `told`, `given` and `launches` are history: what the event said, what the
response that collected a task said, how often a task was launched.

Left out: an exception of the runner factory between `claim_launch` and `start`, which leaves the
row to the ten-second rule as a death there does, and the ten seconds themselves: a row younger
than that is left or closed as a process pleases, save one reserved in the same section.

### Training and TrainingMonitor

A training is its id; `record` is the state in its result file, `leader` and `group` what lives of
its process group, `watch` the step of the watcher thread `_monitor`, `active` and `cancelled` the
supervisor's table. `run_training` starts the process, writes the file and starts the watcher in
three actions, so that a crash falls between them. The watcher decides (`Decide`), terminates the
whole group (`Stop`) and only then writes (`WriteOutcome`). A new worker first ends the runs it
finds recorded as running (`RecoverRun`): it kills the group only when the recorded leader is
still there, and the model keeps the two cases apart (`recovered`, `lost`).

`TrainingMonitor` adds what makes a training heard of. Tools run inside a turn, in threads that
overlap; the polls run in the controller between turns. `Launched` is the critical section in
which `run_training` lists the run in flight and compares the interrupt's generation; the default
monitor is registered and marked after it (`RegisterDefault`, `MarkDefault`). A registration that
raises (`RegisterRaises`) leaves the run going, out of the list of those in flight, and, before its
commit, without a row, which the other tools need. A poll of an ended training reads the record and
commits the signal, then completes the row, then removes the marker (`PollEnded`, `CompleteRow`,
`CompleteMarker`).

A turn ends in one of three ways. `EndTurn`: the agent finishes, which takes the Stop hook, and the
turn is processed. `TurnFails`: the deadline or an interrupt stops the conversation, the turn
raises, its history cannot be restored, or the provider asks for a pause; no hook is asked, nothing
is processed, and the turn stays `open` and is offered again as it was, in a later cycle.
`Shutdown`: the controller gives up, at the limit of consecutive failures or on a provider failure
that no retry mends. The model does not count failures: what is counted only decides when
`Shutdown` comes, which it may at any time. In each of them the calls of tools are over, since the
event loop joins their threads. A cycle that leaves an open turn alone, because it is deferred or
in quarantine, is one whose turn fails before it does anything.

The inbox is a map from a signal's key to its body and state, which refuses a known key with
another body (`Accepts`), as the inbox' payload check does.

W&B holds numbered samples, of which the odd ones lie beyond the threshold; the policies `above`
and `gain` stand for a gate on the value and one on the change since the baseline.

### Supervisor

Deadlines are timers that count down to 0. The supervisor's round is three steps, read the lease
(`ReadLease`), compare it with the clock (`JudgeLease`), look at the process (`StillRuns`,
`HasExited`), between which the worker runs on. The worker's side has the controller thread, which
publishes phases in the order of `Controller.run` (`Follows`), the events of a turn, which renew
its lease at most once per interval, and the heartbeat's publisher, which takes the earliest
active request from its queue and rewrites the lease with the deadline it had. `own` in the lease
is history: it says that the present worker wrote it. A pid may be given to the next worker.

### MailboxCycle and GitHubMailbox

`pc` is the controller's thread: acknowledge mailboxes, then the inbox, poll, enqueue, serve
turns, sleep. A poll is two steps, the list of pull requests and then everything else
(`ReadPulls`, `StudentPoll` or `AdvisorPoll`), for the controller as for the watcher thread of a
turn. `visible` are the keys of the last poll; an event is new when its key was not visible or a
reminder is due. The poll after a served turn sends no reminders (`post`).

A key is a kind and what makes it one: a comment's number and version, a revision, a base head.
The feedback ledger binds each version of a comment to a revision (`Bind`), offers that of earlier
revisions first, a batch at a time, and is acknowledged with the turn. An advisor's poll reads the
base and the comments one by one, and each may fail alone (`Broken`); the composite mailbox goes
on without GitHub (`GitHubFails`). `DiscardPrefix` and `RetractPending` are the availability
mailbox. The watcher stages what it finds in the local store (`WatcherStages`), from which the
pump takes it into the turn.

`told` is history: how often a processed turn carried a key.

### AssignmentWorkflow

An action is one HTTP request and what its answer makes the operation do next; `w[p]` is the
operation worker `p` runs, with the step it is at and what it has read.
`_assignment_lifecycle_lock` lets a worker run one operation at a time; between the advisor's and
the student's worker there is only GitHub, so their requests interleave freely. A call that its
first read refuses changes nothing and is no step. A mutating request is applied with its answer
received, or is lost; the operation goes on and verifies in both cases, as `mutation.py` does
(`Sent`). An operation may also be cut off at any request (`Fails`). `Route` translates the
routing change: draft state, labels to add, labels to remove, each request left out when the
snapshot shows nothing to do.

Comments are sets of marks and texts, found by their mark (`FindComment`), rechecked, posted or
edited, and verified (`Upsert`). Commits are numbered, with the newest research base each
contains; that is what `merge.py` asks the compare API.

`halfway` and `parked` are history that delimit `RoutingFollowsEvidence`: an operation that raised
in the middle of its routing leaves it as it is and tells its caller, and the advisor may send a
pull request with a result back to work in progress.

Abstractions: the several blockers of a merge are one (`hold`); the labels of student and base are
left out; revision identifiers are fresh (`github/tools/contracts.py:160-163`); the text of a
decision goes with its mark; a closed issue only turns an answer into an error. A lost request is
one that was never applied or whose answer was lost, not one applied after a later one.

Two scopes leave operations out. The conflict check of a creation looks at labels
(`assignments.py:53`), and a pull request whose labels an operation left empty halfway, or that was
opened and not labelled yet, is invisible to it; the repair that then labels it checks no
conflicts, and neither does a submission. So a second active assignment is possible: the
configuration `MCWorkflowRepair` ends in one, see *Findings*. `OneActiveAssignment` is therefore
about scopes without submissions and repairs (`Create`), and is proved of those.

### StudentWorkspace

A commit is the sequence of changes that leads to it, an ancestor a prefix. The controller's
reconciliation is a chain of steps, because helpers, GitHub and death come between: the batch of
one conversation (`Poll`), the fetch (`Hydrate`), the looks at branch, worktree and heads
(`Inspect`), `git checkout` (`Checkout`) or the divergence (`Tell`), and the queueing one by one
(`Enqueue`). The model edits, commits, rewrites, switches and pushes during a turn; a helper edits
and commits at any other time, and one that writes between the looks and the checkout sets `late`.

The key of a divergence holds assignment, revision, expected and local head, branch and the state
of the worktree; base and fingerprint are abstracted to that state. `Acknowledge` records the
first divergence of the turn, after the mailbox and before the inbox. `last` is history: the
divergences of the last processed turn that told some. A turn whose events are queued may wait
(cooldown, deferral, failed turn) while further polls happen. A git failure ends the controller,
as `Dies`.

## What is checked

| Run | Question | Bounds | Distinct states |
|---|---|---|---|
| `inbox_core` | Is an event ever lost, duplicated, answered twice or left behind by its turn, with two conversations sharing a human and an ordinary event? | 2 conversations, 2 keys | 83 915 |
| `delivery` | Is each event sent once, answered once and settled in the end, with a crash anywhere? | a human and an ordinary event, 4 turns, 4 rows, 1 recovery, 2 attempts, 1 provider failure, 1 crash besides a restart after failed turns | 456 128 |
| `steering` | Can a run close on an undelivered message or be ended by a pause; does a human reach a model that never ends its step, feedback one whose steps end? | a human, a feedback event, an ordinary one, 1 timed-out run | 64 094 |
| `delegation_safe` | Do outcome, event, cancellation, collection and launches agree, whoever closes a row? | scope `Helping`: a task and its helper, 1 crash; scope `Batches`: a batch of 2 and a third task for 2 places, 1 crash, 1 cut section | 1 211 740 |
| `delegation_live` | Does a task end and the root hear of it? | scope `Dying`: 1 task that may hang or die | 11 804 |
| `training` | Do processes, result file, marker, monitor and signal of a run agree, through interrupts, failures and a crash? | 1 training, 2 policies, 1 crash or stop, 1 changed policy, 1 sample, 1 failed registration | 4 838 458 |
| `supervisor` | Is a worker judged by what it wrote, is the backoff earned, is a hung worker replaced? | 1 pid for all workers, 2 requests, timers up to 2, 1 failed write, 1 queued state, 1 event of a hung turn | 926 317 |
| `mailbox` | Is each input told, once, in its conversation, and does each cycle end? | seven scopes of `MCMailbox` | 728 207 |
| `workflow` | Do evidence, routing, comments and merges stay consistent while two workers interleave request by request? | six scopes of `MCWorkflow` | 2 052 805 |
| `workspace` | Does uncommitted work stay on its branch, is a divergence told and then not repeated? | six scopes of `MCWorkspace` | 5 175 598 |

Two more runs end in a violation, `training_refused` and `workflow_race`; see *Findings*.

The directory holds further configurations that are not among the runs but can be checked in the
same way. These pass:

| Configuration | Checks | Distinct states |
|---|---|---|
| `MCInboxLimits.cfg` | `TypeOK`, `OnePayload`, `BatchBounded`, `AttemptsBounded`, `PositionsContiguous`, `ReadyCoversWork`, `RecoveryChain`, `QuarantineHolds`, with two payloads of different sizes and two progress marks | 293 200 |
| `MCDeliveryStores.cfg` | `ReceiptsBacked`, `RecoveryContextFresh`, `ReceiptCovered` | 217 856 |
| `MCSteeringFailures.cfg` | `InterruptHitsOwnRun`, `PumpFailureSurfaces`, with two feedback events | 99 787 |
| `MCDelegationTrees.cfg` | `TypeOK`, `CapsHold`, `CollectedIsQuiet`, `HelpersEndWithTask`, `OneOutcome` | 3 038 798 |
| `MCTrainingPolicy.cfg` | `TypeOK`, `SignalsOfPolicy`, `HandledUnlessRefused`, with two changes of the policy (five minutes with 4 workers) | 2 492 551 |
| `MCTrainingLive.cfg` | `SignalIsHandled` with one metric policy, one changed policy and one sample: each signal is handled in the end, however often turns fail | 669 565 |

and `MCDelegationCut`, `MCDelegationRepeat`, `MCTrainingDenied`, `MCMailboxOnce`,
`MCMailboxWatcher`, `MCWorkflowRepair` and `MCWorkspaceTurn` end in the violations of *Findings*.

**Why the bounds are enough.**

* *Inbox, delivery, steering.* Two conversations are needed for once-only keys and for rows that
  look live elsewhere; a third would only repeat the second. Two events are needed for one to be
  steered into the turn of the other, and for a batch that is cut. Recovery is interesting up to
  the last generation, one recovery and a quarantine. One crash suffices for each two-commit
  window, and a second interruption of the same window is reached by a failed turn. `MaxTurns`,
  `MaxMessages` and `MaxCooldown` only cut the state space: actions that would exceed them are
  disabled; in `delivery` no behaviour is stuck at such a bound, since the bounds on turns and
  rows exceed what recovery and quarantine let two events use.
* *Delegation.* A task and its helper are the deepest tree the code admits. One crash and one cut
  section reach every window between two commits. The constraint `Followed` keeps the scope
  `Batches` to the launch (`Launching`: nothing is awaited or cancelled yet, no child has ended
  its work, no deadline has passed, no event is taken), where three tasks make a large space; in
  `Helping` it leaves out deadlines that pass after a restart when there is a helper.
  `MCDelegationTrees` leaves those in. No temporal property is checked under a constraint.
  `scope.tree` and `scope.parallel` are 2, so that the third task is refused.
* *Training.* Trainings share only the controller's cycle; one reaches each order of launch,
  interrupt, cancellation, end and poll. One upgrade gives a training a metric policy, a second
  change a signal whose key is taken (`training_refused`), one sample a gate. The
  constraint `SamplesOrFaults` gives a behaviour of `training` a sample, or deaths, failed
  registrations and interrupted launches: samples decide which signals there are, the others what
  becomes of a run. The invariants of the run are proved for both together.
* *Supervisor.* One pid makes every worker a namesake of the last. Two requests overlap and end in
  either order. A backoff of 1 that may double once shows the ceiling.
* *Mailbox.* A batch of one with two comments is a full batch; two versions are an edit, two
  revisions a comment that is overtaken. Comment 2 carries its revision in a marker, comment 1
  does not. Each scope has the inputs of one question: `Feedback`, `Edits`, `Issues` and `Threads`
  for a student, `Edges`, `Students` and `Remarks` for an advisor.
* *Workflow.* Two revisions and two heads are one race; a race between three is one of two after
  another. Two bases are one that moved. `Loss` has one lost request, `Create` two, since a
  creation that lost one is repeated after another was made.
* *Workspace.* One change beside the root makes heads equal, ahead, behind and apart. Two states
  of uncommitted work are needed for a fingerprint that changes. Each scope combines two of heads,
  work, feedback, deaths, revisions and assignments.

`CHECK_DEADLOCK FALSE` is set where a system stops legitimately: an inbox with every event
answered at its bounds, a worker with nothing posted, a runner that has left, a supervisor that
was told to stop, pull requests that are merged or closed, a student without an assignment. It is
not set, and deadlock is checked, in the configurations of `MCTraining` and `MCMailbox`: those
controllers never stop polling.

**Symmetry.** `inbox_core` exchanges the two conversations, which the model treats alike; no other
run uses symmetry, and none with a temporal property of liveness.

### The properties

* *Inbox.* `OneOpenTurn`, `OneLiveMessage`, `OnceNeverRepeats`: one place for each event and one
  turn in flight. `ProcessedTurnComplete`, `NoEventLost`: what is accepted stays until it is
  answered.
* *Worker.* `SentOnce`: branch and inbox agree at every crash point. `ProcessedWasAnswered`: an
  answer counts only if it comes after every message of its turn. `InboxUsedAsSpecified`: the
  worker refines `PersistentInbox`. `AnsweredOnce`: it implements `EventDelivery` under the
  refinement mapping at the end of `TurnDelivery`. `EventSettled`: every posted event is answered,
  or its conversation is in quarantine.
* *Steering.* `ClosedRunHasNothingPending`, `SteeringNeverEndsRun`; `HumanReachesModel`,
  `FeedbackReachesModel`.
* *Delegation.* `EventTellsOutcome`: the first of child, monitor, cancellation and reconciliation
  decides, and the event says so. `CancelledIsDead`, `NoDetachedWork`: nobody works on unseen.
  `CollectedWasGiven`, `OutcomeReachesRoot`: the root hears of an outcome, and collects what it
  was shown. `LaunchedOnce`. Some hold only while no section (`cuts = 0`) or worker (`crashes =
  0`) is cut short, and say so: a process that dies before its `Kill` leaves a cancelled task
  running, and a helper that survives worker and parent has nobody to close it until the next
  reconciliation.
* *Training.* `QuietWhenTerminal`, `StrayWasUnrecorded`: what a result file says of processes.
  `UnwatchedKeepsTurnOpen`, `InterruptedIsCancelled`: no turn passes for processed over a run that
  nobody watches, whatever its tools did and however turns end. `CompletedWasTold`: a monitor that
  ended has left its signal; `SignalIsHandled`: a turn that finishes handles it.
* *Supervisor.* `JudgedByOwnLease`, `BackoffIsEarned`, `LeaseShowsRequests`, and `HungIsReplaced`:
  no heartbeat keeps a hung worker.
* *Mailbox.* `ToldOnce`, `EveryInputIsTold`: feedback and human messages are processed, and once.
  `FeedbackKeepsRevision`: an edited or overtaken comment stays with its revision. `CycleEnds`:
  reminders do not keep the controller awake.
* *Workflow.* `MergeIsBacked`: a merge has one result, contains its required base, and that base
  is the named one or was accepted. `OneCommentPerMark`: repeats find their own comment.
  `RoutingFollowsEvidence`: review exactly when there is a result. `OneActiveAssignment`: creations
  and revision requests make one pull request active at a time.
* *Workspace.* `WorkStaysOnItsBranch`; `SuppressedWasTold`, `ReminderIsQuiet`: the divergence
  ledger neither hides what was not told nor repeats what was.

Each has a mutant in `PROJECT.json`: a plausible slip in the code (a dropped guard, a swapped
order, a forgotten case), kept in the module beside the definition it replaces and marked as a
fault or mutant, under which the run fails.

### Fairness

* `FairDelivery`: weak fairness of the controller thread as a whole (`Cycle`, `Activation`,
  `Run`): it is one loop that only sleeps. Weak fairness of `PumpAcknowledges`, the pump thread's
  next statement, and of the clock (`CooldownEnds`, `DeferralEnds`). Strong fairness of
  `OpenConversation` says that a conversation does not fail to load for ever: one that always does
  is deferred again and again without using up a recovery (`controller.py:509-522`), so the code
  promises nothing for it. Nothing is assumed of the model or its provider; provider failures are
  bounded by `MaxCooldown`, in the code only by the provider's recovery.
* `FairThreads`: pump and runner threads are scheduled; a boundary thread asks for the state lock
  of the conversation, a FIFO lock, with a timeout and again, and gets it between two steps in the
  end: strong fairness. No fairness of the agent's steps, so `HumanReachesModel` holds for a step
  that never ends. `FeedbackReachesModel` assumes that steps end (`StepsEnd`), as it must by
  design: feedback waits for a step boundary.
* `Fairness` of `Delegation`: the section under the lock goes on unless its process dies; the lock
  is free between two sections, so whoever waits for it gets it (strong fairness of `RunEnds`,
  `MonitorCompletes`, `RootStarts`). Time passes (`Expire`), and the wait of a monitor times out;
  strong fairness because a child inside a section can be killed only while `scope.cuts` allows.
  `await_agents` returns, at the latest at its timeout (`AwaitReturns(Root)`), and an event in the
  store or inbox is taken on, which is what `TurnDelivery` is about. No child has to end its work
  and no caller has to call anything.
* `Spec` of `Supervisor`: weak fairness of the supervisor's loop and of time. The worker owes
  nothing, it may hang at once; that is what `HungIsReplaced` is about.
* `FairSpec` of `GitHubMailbox`: weak fairness of the controller's thread outside of turns, and of
  the end of a turn, which the supervisor's lease and the runner's timeout bound. Errors and
  crashes are bounded by the scope; that polls are answered at last is the assumption the code
  makes too.
* `Fairness` of `TrainingMonitor`: the threads of tools, watchers, recovery and controller run; a
  turn ends, at its deadline if not before, and reminders fall due (strong fairness, since both
  wait for what comes and goes). A turn that the Stop hook would let finish again and again does
  finish: the provider answers at last, before the inbox quarantines the turn. Whether the hook
  lets it is not assumed. Trainings, tool calls and W&B owe nothing.

The escape `Retried` in the steering properties is real: after a run that was ended from outside,
`_deliver_steer` hands over what was pending and then returns False with steering still accepted,
so a message that arrives just then stays in the turn, and the next attempt at the turn delivers
it; `delivery` shows that it does.

## What is proved

All theorems hold for every value of the constants that satisfies the modules' named assumptions.
Each rests on an inductive invariant, found with TLC on the runs' instances first; a lemma per
action, or group of actions alike, shows that it is kept, and the last step is temporal.

**`PersistentInboxProofs`** proves, for every set of conversations, keys and payloads and every
value of the limits, that every reachable state of `PersistentInbox` satisfies `TypeOK`,
`OneOpenTurn`, `OneLiveMessage`, `OnceNeverRepeats`, `ProcessedTurnComplete` and `RecoveryChain`.
The inductive invariant `IInv` adds three facts the properties need but do not state:

* `TurnStates`: only a processed turn is acknowledged and only an unprocessed one superseded.
  Without it a reset could revive a processed turn and `OneOpenTurn` would not survive.
* `Owners`: a row belongs to the conversation of its turn. `OneLiveMessage` speaks of
  conversations of rows, `reset_turn` copies by turn.
* `Positions`: the rows of a turn have distinct positions in 1..n. `next_turn` and `reset_turn`
  map positions to rows, and only distinct positions make the copy of a turn one row per event.

Operations that only set states and counters share `KeepsIInv`, which reduces them to the fact
that the states they set fit; `MarksIInv` covers those that set counters alone. `enqueue` and
`steer` share `AcceptedIInv` and `QueuedRows`; the two operations that create turns, `next_turn`
and `reset_turn`, stand on `BatchPositions` and `ResetRows`.

Two action properties stand on `IInv`: `NoEventLost`, no operation forgets a live event before its
turn was acknowledged, and `QuarantineHolds`. Both follow a row through a step: `RowsStay` and
`OpenRowsStay` say what the operations leave of the rows that are live, and a recovery, whose
original rows are superseded, has a copy of each.

Four more invariants rest on `IInv`. `PositionsContiguous` follows from `Positions` by counting
(`NoHoles`), `ReadyCoversWork` from `OneOpenTurn`: a conversation with a turn to run has no other
turn in quarantine. `OnePayload` and `AttemptsBounded` are inductive beside it: every row carries
on one that was there or is the row of an accepted event (`RowsCarryOn`), the copies of a recovery
included; and the counters grow only where `TerminalRecoveryDue` was asked before.

The second half of the module is about the worker (`DeliverySpec`), for every limit and any number
of crashes, from `InboxAssumption` and `DeliveryAssumption`. It proves that the worker uses the
inbox as specified (`DeliveryUsesInbox`), so that the theorems above hold of it; `SentOnce`,
`ReceiptsBacked`, `ProcessedWasAnswered`, `RecoveryContextFresh` and `ReceiptCovered`; and that it
implements `EventDelivery` (`DeliveryAnsweredOnce`). Three stores commit one after another and a
crash forgets what the process knew, so the invariant `DInv` says what each store implies of the
others at every point:

* `IInv`, of the inbox, as above; each call of the worker is a step of `PersistentInbox`.
* `Control`: a controller thread inside a turn has one that may run, its context reset once it has
  passed the activation, and no processed turn waits while a poll or a turn goes on. Without the
  last, a second turn could be answered before the first was acknowledged.
* `RowsInv`: no turn is without events, a recovery is newer than what it recovers. `Answer` of
  `EventDelivery` is about a set of events that is not empty.
* `StoreInv`: the store has let go of exactly what the inbox holds or has answered, save what is
  still to be receipted; what was polled or is in the pump's hands is known to the store, and what
  the pump holds is in the inbox before its receipt. This is `ReceiptCovered` made inductive.
* `BranchInv`: `ContextFirst`, a turn whose context was not reset has nothing on the branch, and
  `ContextFresh`, a recovery that was reset shares no branch with its predecessor. They are what
  makes `SentOnce` survive a crash between the branch reset and its record, after which the
  branch is left again.

The lemma of an action shows `Fine`: the invariant holds after it, it is a step of the inbox or
none, and `Effects` says which step of `EventDelivery` it is (an event posted, held, or the events
of a turn answered). `SameRowsInv`, `SameRowsBranch` and `MarksKeep` serve the actions that only
mark rows and turns; `AcceptsKeeps` those that accept an event, `OpensKeeps` those that create a
turn, and `AcknowledgeAnswers` the end of one. `PromiseStep` then turns `Effects` into a step of
the abstract specification; that a turn counts once among the answers of its keys is a fact about
cardinalities (`AnswersCount`).

**`SteeringPumpProofs`** proves the three safety properties of `SteeringPump`, for any number of
events of any kinds and any bound on runs ended from outside, from `SteeringAssumption` alone. Its
invariant `SInv` says how the places of the threads fit the fields they share:

* `RowsAnnounced`: while no steer is open, the pending rows are those a delivery has read or is
  about to read. `ClosedRunHasNothingPending` needs it at the moment `finish_run` looks.
* `ClosedIsOver`: a run that takes no steering has no steer and nothing pending, and its runner is
  on its way out.
* `SteerModes`: a steer is open exactly when it has a mode, no run is armed while the runner
  prepares or delivers, and no boundary thread is of a generation to come.
* `Opening` and `Aiming`: from the section that opens a steer until the pump announces it,
  `steer_ready` is unset and the runner does not deliver. Only this keeps a late `interrupt()`
  from a later run. It rests on every other thread that sets `steer_ready` being held off: a
  boundary thread by its generation or by the mode of the steer, a failure by `stop`.
* `PausesNoted`: a run nobody stopped from outside is paused by a steer that is marked as
  interrupted or paused, or is about to be marked, until the runner takes it and resumes.
* `RunStatus`, `StoppedFailed`: what the place of the runner says of the conversation and outcome.

There is one lemma per action, with one step per part of the invariant; `UnconcernedSInv` serves
the actions that change nothing the invariant speaks of.

**`DelegationProofs`** proves `EventTellsOutcome`, `LaunchedOnce`, `CollectedWasGiven`,
`CancelledIsDead`, `CollectedIsQuiet`, `NoDetachedWork`, `CapsHold`, the types and the action
property `OneOutcome`, for any tasks, trees and capacities and any number of deaths, of workers and
children, inside a section or between two. Outcome, kill, event and receipt are commits of their
own, so an invariant of the tables alone is not inductive; `IInv` says what the section under the
lock still owes them:

* `RInv`: a row says how far its launch has come and carries what was told and given of it.
* `SInv`: each kind of remaining work fits its rows. A task that is to be settled, posted or
  acknowledged is over, one that is to be launched was not yet, one that is to be confirmed is the
  only one. `LaunchedOnce` and `EventTellsOutcome` need it in the middle of a section.
* `CInv`: `await_agents` waits for helpers of its caller, and shows those that are over.
* `EInv`: a child about to record that it finished has left no helper (`NoneLeft`). The helper may
  be closed by anyone in between, so this is about rows that can only become more final.
* `UInv`: while nobody died inside a section, whoever is alive has a pid or is being started,
  whoever is cancelled is about to be killed, and the event of a collected task is about to be
  settled. The guards `cuts = 0` of the properties are those of the code's windows.

`CapsHold` counts rows: a step adds none except `Reserve`, which refuses a batch that does not fit,
and finite-set theorems bound the union; `OneOutcome` follows from what a step does to rows
(`RowsAdvance`). `HelpersEndWithTask` stands on `IInv` and `HInv`: an active helper's parent is
watched by its monitor or is about to be pruned, so the end that nobody recorded is the monitor's
to clean up after. All but a new batch, a monitor that ends, a kill and a death move in ways that
cannot disturb it (`Leaves`). The new batch is why `HInv` needs `UInv`: its caller is at work, so
its pid is known, and whoever has a pid and is at work is watched.

**`TrainingProofs`** proves `QuietWhenTerminal`, `StrayWasUnrecorded`, the types and
`UnwatchedKeepsTurnOpen`, for any number of trainings, policies, samples, crashes, failed
registrations and failed turns, under the whole next-state relation of `TrainingMonitor`. A
terminal state is written from what a watcher did steps before, or by a recovery that must not meet
a launch: `OrderedFor` says how far launch and watcher have come (a watcher past its stop has left
no process; a worker that is down or recovering runs neither), `QuietFor` what a record then says.
For `UnwatchedKeepsTurnOpen`, `WatchedFor` adds that a running training with a marker, one about to
get it, or one with a row has an active monitor: the Stop hook only sees markers, so this is what
makes its check enough; and that the turn which runs is open, so that an end without the hook
leaves it so. `InterruptedIsCancelled` adds `HitFor`: while a launch and an interrupt pass each
other, it says which of the two has still to cancel. `CompletedWasTold` adds `ToldFor`: between the
signal and the completion of the monitor, two commits, the poll holds the record it read, and
nothing that a tool or a changed policy does in between can take the signal back. `SignalsOfPolicy`
stands on the same invariant: derived signals carry the present policy because a new one deletes
the rows of its training in the same commit.

**`SupervisorProofs`** proves `JudgedByOwnLease`, `BackoffIsEarned` and `LeaseShowsRequests` for
any pids, timeouts, backoff and requests. `OwnInv`: the lease file and what the supervisor read of
it are of the present worker or of none, which is why comparing the pid is enough although pids
repeat. `CountInv`: a lease that is not behind says whether a turn was acknowledged, and the
failure count stays what the worker was spawned with until it is judged. `RequestInv`: the last
state in the publisher's queue is the present one.

**`GitHubMailboxProofs`** proves `FeedbackKeepsRevision` and `ToldOnce`, for any comments, human
messages, batches and bounds on failures and crashes, under the whole next-state relation of
controller, mailboxes, store, watcher and pump. That a key is told once is a matter of three
stores: `Holds` and `DoneAcked` say that what the inbox has forgotten is pending in neither ledger
nor local store, `AckedFirst` that both hear of a turn before the inbox forgets it, which keeps
the two, and `Offers` that a poll under way offers only what is open. `Belongs` (feedback is
offered in the conversation of its revision only) and `RowsOnce` make a key one row: the inbox
recognises a human's words in any conversation, feedback only in its own.

**`AssignmentWorkflowProofs`** proves `MergeIsBacked`, `OneCommentPerMark`,
`OneActiveAssignment` and `RoutingFollowsEvidence`, for any number of pull requests, issues, revisions, commits and lost
requests. `GitInv` is about GitHub. `ResultsBuilt`, a result's head contains the base that its
revision requires, is what a merge's comparison rests on; `Backed` is `MergeIsBacked` with what
keeps it so. `CallInv` is about what a worker has read and still relies on, request after request:
its mark is not posted (`Unposted`), the base it names was accepted (`BindsBases`), the revision it
wants is new (`Revising`), nobody else is active (`Alone`). Each has to survive every request of
the other worker, and that is the proof: reads leave GitHub alone (`ReadsKeep`), writes that keep
revisions and bases leave the other call's knowledge alone (`SteadyKeeps`), a new revision or pull
request (`RenewalKeeps`), a comment (`PostKeeps`, `EditKeeps`) and a merge (`PutKeeps`) are argued
one by one.

`RoutingFollowsEvidence` compares a pull request with its results when nobody works on it; its
invariant `RInv` has to say what it shows meanwhile, which depends on both calls at once. A call
that wrote something owes its pull request the routing (`Owes`), and `Rested` is the property for
pull requests that nobody owes. What a submission owes follows from what it knows (`Known`): the
result it saw is there for its revision and head, or its revision is no longer the current one
(`Stale`). In the second case no result of the newer revision can exist, as submissions come one
after the other (`NoneNewer`), so all it still requests is in favour of work in progress
(`Restored`), and what the advisor requests at the same time on this evidence is too (`Plans`).
The advisor's restoring is the difficult one: between its last read and its return the student may
have published a result for the very revision and changed draft state and labels in between.
`Between` says that either routing stays what the advisor read, or the student has still to return
and its remaining requests lead to what the results say (`Reaches`). The proof takes losses only to
end it: after the first nothing is claimed. The property's other two exceptions stay (an operation
that raised, and work in progress that the advisor asked for), and `Rested` carries them.

**`StudentWorkspaceProofs`** proves `WorkStaysOnItsBranch`, `SuppressedWasTold` and
`ReminderIsQuiet` for any number of assignments, revisions, commits, messages and deaths.
`WorkInv` adds to the first that a controller which has decided to change the checkout meets no
uncommitted work of another branch, unless a helper wrote since it looked. The other two are about
a key in a file and what a model was told turns ago. `ToldInv` relates them: the ledger has one of
the divergences told last (`Recorded`), or the turn that told them is processed and still to be
recorded (`LedgerOf`); and because the controller acknowledges before it polls, no batch is
reconciled while a turn waits so (`BatchType`). A crash between the ledger and the inbox leaves a
processed turn that is recorded again, with the same keys. What the steps do to events of unknown
number rests on three facts about sequences (`AppendIsSeq`, `InOrderIsSeq`, `FirstIsDivergence`).

### Only model-checked

Of every component its liveness: the prover has no support for fairness and ENABLED. Of the inbox
`BatchBounded`: the sum of the bytes of a batch is a fold over a set, and what it computes is a
fact by induction over data, which the prover cannot do. `MailboxCycle` by itself.

## Findings

Places where the code does not do what its documents say. Most are not a slip of a line: each is a
window the protocol leaves open. The first two are runs.

* `training_refused` (`monitor.py:304`): a changed policy forgets its signals, and may then emit
  one under a key the inbox knows with another payload. The inbox refuses it, the controller ends,
  and so does each successor: a signal that is never handled, against `SPEC.md:636` and
  `SPEC.md:640`.
* `workflow_race` (`github/workflow/results.py:81`): a submission that pushed a new head and finds
  its revision replaced before its first read fails without restoring work in progress, against
  `SPEC.md:437-438`; the pull request stays up for review with no result.
* `MCDelegationCut` (`delegation.py:1281-1288`): status and event of an outcome are two commits.
  If the worker dies between them, the row is terminal and `reconcile_delegated_tasks` looks at
  active rows only: the root is never resumed (`SPEC.md:514`).
* `MCDelegationRepeat` (`advisor.py:243`): the pump has moved the event to the inbox when
  `await_agents` collects the result; the receipt in the store withdraws nothing from the inbox,
  and a later turn hears the result again (`SPEC.md:503`).
* A child's tools reconcile every active row but have no event store (`openhands_runner.py:1732`).
  A task of the root that a child finds expired or dead, itself included, is closed without an
  event; if the worker restarts before the task's monitor speaks, nobody announces it.
  `OutcomeIsAnnounced` fails so in the scope `Helping`.
* A child the supervisor had not met outlives the worker, and dies. Nothing records its deadline
  (`SPEC.md:538`) until another turn builds its tools: `DeadlineIsRecorded` fails under `FairSpec`
  in the scope `Dying` with one crash.
* `MCTrainingDenied` (`tools.py:518`): the Stop hook denies a running training without a marker and
  says "call monitor_training to repair it" (`hooks.py:604-607`), but that tool needs the row, and so
  does `cancel_training`. After a registration that raised before its commit there is none: the
  hook denies until the training ends or the turn fails.
* `MCMailboxOnce` (`controller.py:880`): `README.md:404` promises that a changed base and a
  student's comment are delivered once per version. They are recognised by the keys of the last
  poll alone; when one read fails, or the whole GitHub poll, their keys leave `_visible` and the
  next poll finds them new.
* `MCMailboxWatcher` (`controller.py:381`): a human message is staged under the conversation of
  the running turn. One that was staged for another conversation is refused by the local store
  (`local_events.py:90`), which ends the watcher for the rest of the turn (`SPEC.md:121`).
* `MCWorkflowRepair` (`github/workflow/assignments.py:159`): a student gets a second active
  assignment (`README.md:240` says it cannot). A creation is cut off before its pull request has
  labels, a second creation finds no active assignment, and the repair of the first labels it
  without `_active_student_assignment_numbers`, which creation and revision request ask.
* `MCWorkspaceTurn` (`controller.py:666`): the checkout is reconciled when a batch is queued, not
  when its turn starts (`README.md:243`). A turn that waits for a provider cooldown may start in
  the checkout of the next assignment, and its conversation is not told.

## What is not modelled

* The adoption of legacy prompts by the inbox (`adopt_legacy_prompt`, `prepare_legacy_turn`,
  `record_pending` of a row written before this version): a ledger written by this version has no
  such rows, and `legacy` is false throughout.
* Start gates, and the order in which conversations are served within a cycle: nothing is said
  about one conversation starving another.
* The inbox-less pump (`_deliver_pending_events`), used by lightweight adapters.
* The interruption notice that `_deliver_steer` may send: it is no delivery of an event.
* In `Delegation`, an exception of the runner factory before `start` (see above), and resuming the
  conversation of a child, whose protocol is the runner's.
* In `AssignmentWorkflow`, a lost request that is applied after later ones, and a submission
  beside two creations (see above).
* The hooks' policies on shell commands, argument validation, rendering and prompt building:
  functions of their input without state. Building agents and tools, secrets, telemetry: no
  protocol state.
* Deployment (`k8s/`, start scripts) and the figures under `paper/`: outside the program.

## Plan

Every safety property of the runs is proved; what remains there is outside the prover's reach.

In the models: start gates and several conversations in the worker's cycle (fairness among
conversations), two trainings with overlapping polls, and a request to GitHub that is applied
late.
