----------------------------- MODULE Delegation -----------------------------
(***************************************************************************)
(* Delegated tasks (senpai_agent/delegation.py, the end of a child's run   *)
(* in openhands_runner.py).                                                *)
(*                                                                         *)
(* The root conversation and a child of it spawn, await and cancel tasks;  *)
(* each task is an operating-system process that ends by recording its own *)
(* outcome, watched by a monitor thread of the process that launched it.   *)
(* They share one registry (SQLite) and take DelegationRegistry.lifecycle, *)
(* a file lock, around whatever they change in it.  A section under the    *)
(* lock commits several times and its process may die between two commits: *)
(* the operation's first commit is the action that takes the lock, and     *)
(* "work" holds the ones still to come, by kind, in the order of Rank.     *)
(*                                                                         *)
(* The worker supervisor kills the children it has seen when it restarts a *)
(* worker (supervisor.py).  The terminal event of a task of the root is    *)
(* followed from the local store through the inbox into a turn.            *)
(***************************************************************************)
EXTENDS Naturals, FiniteSets

CONSTANTS
    Task,           \* tasks
    Root, Nobody,   \* the worker's process; no process
    Parent,         \* Task -> the task whose conversation asks for it, or Root
    BatchOf,        \* Task -> the batch_key it is spawned under
    Scopes          \* bounds, one of which a behaviour has: the tasks that are asked for, the
                    \* two capacities, deaths of the worker, deaths of children nobody asked
                    \* for, deaths of either in the middle of a section

Batch == {BatchOf[t] : t \in Task}
Caller == {Root} \cup {Parent[t] : t \in Task}

ASSUME DelegationAssumption ==
    /\ Root \notin Task /\ Nobody \notin Task \cup {Root}
    /\ IsFiniteSet(Task) /\ Parent \in [Task -> Task \cup {Root}]
    /\ \A t \in Task : Parent[t] # Root => Parent[Parent[t]] = Root
    /\ \A t, u \in Task : BatchOf[t] = BatchOf[u] => Parent[t] = Parent[u]
    /\ \A s \in Scopes : /\ s.tasks \subseteq Task
                         /\ {s.tree, s.parallel, s.crashes, s.deaths, s.cuts} \subseteq Nat

VARIABLES
    \* the rows of the registry
    status,     \* "none" (no row), "queued", "starting", "running" or a terminal status
    collected,  \* collected_at is set
    pid,        \* pid, process group and start time are recorded
    \* the processes
    expired,    \* deadline_epoch has passed
    proc,       \* "none", where the child is in its run, "done" or "dead"
    ending,     \* the outcome the child records: "finished" or "failed"
    monitor,    \* the monitor thread of the task (and its entry of _LOCAL_RUNNERS)
    root,       \* the worker: "up", "down" or "starting"
    unseen,     \* children no _remember_descendants of this worker has met
    \* the lifecycle lock and the section under it
    holder, work,
    \* await_agents of each caller: the tasks it waits for, those last seen terminal
    awaiting, shown,
    \* the terminal event of a task of the root
    event,      \* in the local store: "none", "posted" or "acked"
    message,    \* in the inbox: "none", "queued" or "heard"
    \* history, and how much of the bounds is used
    given,      \* the status in the response that collected the task, and the call it was of
    told,       \* the status the event carries
    launches, crashes, deaths, cuts,
    scope       \* the bounds of this behaviour

registry == <<status, collected, pid>>
processes == <<expired, proc, ending, monitor, root, unseen>>
section == <<holder, work>>
calls == <<awaiting, shown>>
wake == <<event, message, told>>
bounds == <<scope, crashes, deaths, cuts>>
vars == <<registry, processes, section, calls, wake, given, launches, bounds>>

MAX_TREE_AGENTS == scope.tree
MAX_PARALLEL_AGENTS == scope.parallel

ACTIVE == {"queued", "starting", "running"}
TERMINAL_TASK_STATUSES == {"finished", "failed", "cancelled"}

\* What a section has still to do, and in which order.
Rank == [prune |-> 1, kill |-> 2, settle |-> 3, post |-> 4, ack |-> 5,
         check |-> 6, reserve |-> 7, confirm |-> 8, launch |-> 9, show |-> 10]
Idle == [k \in DOMAIN Rank |-> {}]

Init ==
    /\ status = [t \in Task |-> "none"]
    /\ collected = [t \in Task |-> FALSE] /\ pid = [t \in Task |-> FALSE]
    /\ expired = [t \in Task |-> FALSE]
    /\ proc = [t \in Task |-> "none"] /\ ending = [t \in Task |-> "failed"]
    /\ monitor = [t \in Task |-> FALSE]
    /\ root = "up" /\ unseen = {}
    /\ holder = Nobody /\ work = Idle
    /\ awaiting = [p \in Caller |-> {}] /\ shown = [p \in Caller |-> {}]
    /\ event = [t \in Task |-> "none"] /\ message = [t \in Task |-> "none"]
    /\ given = [t \in Task |-> [by |-> "none", status |-> "none"]] /\ told = [t \in Task |-> "none"]
    /\ launches = [t \in Task |-> 0]
    /\ crashes = 0 /\ deaths = 0 /\ cuts = 0 /\ scope \in Scopes

-----------------------------------------------------------------------------
(* The registry, and who is alive.                                          *)

Rows == {t \in scope.tasks : status[t] # "none"}
active_rows == {t \in scope.tasks : status[t] \in ACTIVE}
Terminal(t) == status[t] \in TERMINAL_TASK_STATUSES
Direct(p) == {t \in Rows : Parent[t] = p}
Subtree(S) == {t \in Rows : t \in S \/ Parent[t] \in S}
Tree(t) == IF Parent[t] = Root THEN BatchOf[t] ELSE BatchOf[Parent[t]]

Alive(t) == proc[t] \in {"working", "raised", "detach", "detached", "record", "exiting"}
\* A process that can call the tools of its conversation.
CanCall(p) == IF p = Root THEN root = "up" ELSE proc[p] = "working"

\* Fault: the last writer wins.
FinishAnyway(t, outcome) ==
    status' = [status EXCEPT ![t] = outcome]
\* The first terminal status stays.
finish(t, outcome) ==
    status' = [status EXCEPT ![t] = IF @ \in ACTIVE THEN outcome ELSE @]

\* Fault: rows that had ended are cancelled too.
CancelEveryRow(S, rootStatus, closed) ==
    /\ status' = [t \in Task |-> IF t \notin Subtree(S) THEN status[t]
                                 ELSE IF t \in S THEN rootStatus ELSE "cancelled"]
    /\ collected' = [t \in Task |-> collected[t] \/ t \in closed]
\* One transaction: the tasks of S take rootStatus, their helpers are cancelled,
\* where they had no terminal status; "closed" are the rows marked collected.
cancel_tree(S, rootStatus, closed) ==
    /\ status' = [t \in Task |->
                    IF t \notin Subtree(S) \cap active_rows THEN status[t]
                    ELSE IF t \in S THEN rootStatus ELSE "cancelled"]
    /\ collected' = [t \in Task |-> collected[t] \/ t \in closed]

\* The processes of S end, with their threads and tool calls.
Gone(S) ==
    /\ monitor' = [t \in Task |-> monitor[t] /\ Parent[t] \notin S]
    /\ awaiting' = [p \in Caller |-> IF p \in S THEN {} ELSE awaiting[p]]
    /\ shown' = [p \in Caller |-> IF p \in S THEN {} ELSE shown[p]]
Dead(S) ==
    /\ proc' = [t \in Task |-> IF t \in S THEN "dead" ELSE proc[t]]
    /\ Gone(S)

-----------------------------------------------------------------------------
(* Taking the lock, and the section under it.                               *)

\* A section of process p begins with this much work; with none left the lock is free.
Lock(p, todo) ==
    /\ holder = Nobody /\ holder' = IF todo = Idle THEN Nobody ELSE p
    /\ work' = todo
\* Fault: the lock is not released after the last commit.
NeverReleases(todo) == holder' = holder /\ work' = todo
\* The section goes on with this much work.
Goes(todo) ==
    /\ holder' = IF todo = Idle THEN Nobody ELSE holder
    /\ work' = todo
Doing(kind, x) ==
    /\ x \in work[kind]
    /\ \A k \in DOMAIN Rank : Rank[k] < Rank[kind] => work[k] = {}
Done(kind, x) == [work EXCEPT ![kind] = @ \ {x}]

\* Fault: a row that is closed for its process wakes nobody.
AnnouncedNever(t) == {}
\* The root's tools have the event store; those of a child have none.
Announced(t) == IF Parent[t] = Root /\ holder = Root THEN {t} ELSE {}

\* _complete after an error: the helpers of a failed task are cancelled.
Prune(t) ==
    /\ Doing("prune", t)
    /\ cancel_tree({t}, "cancelled", Subtree({t}) \ {t})
    /\ Goes([Done("prune", t) EXCEPT !.kill = Subtree({t}) \cap active_rows])
    /\ UNCHANGED <<pid, processes, calls, wake, given, launches, bounds>>

\* Fault: only processes this one launched are signalled.
ReachedLocally(S) == {t \in S : Alive(t) /\ monitor[t] /\ Parent[t] = holder}
\* _signal_active_tasks: through the runner of this process, or the pid of the row.
Reached(S) == {t \in S : Alive(t) /\ (pid[t] \/ (monitor[t] /\ Parent[t] = holder))}

\* Nothing of a killed group runs on: not even the section, if it is the caller's own.
Kill ==
    /\ holder # Nobody /\ work.prune = {} /\ work.kill # {}
    /\ Dead(Reached(work.kill))
    /\ IF holder \in Reached(work.kill)
       THEN Goes(Idle)
       ELSE Goes([work EXCEPT !.kill = {}])
    /\ UNCHANGED <<registry, expired, ending, root, unseen, wake, given, launches, bounds>>

\* LocalEventStore.enqueue: the key of an event is used once.
Post(t) ==
    /\ Doing("post", t)
    /\ IF event[t] = "none"
       THEN event' = [event EXCEPT ![t] = "posted"] /\ told' = [told EXCEPT ![t] = status[t]]
       ELSE UNCHANGED <<event, told>>
    /\ Goes([Done("post", t) EXCEPT !.settle = {t}])
    /\ UNCHANGED <<registry, processes, calls, message, given, launches, bounds>>

Acknowledged(S) ==
    event' = [t \in Task |-> IF t \in S /\ event[t] = "posted" THEN "acked" ELSE event[t]]

\* Fault: the event of a collected task is left to wake the parent.
NeverSettled(t) == {}
\* A task collected before its event was there needs no event.
Settled(t) == IF collected[t] THEN {t} ELSE {}

Settle(t) ==
    /\ Doing("settle", t)
    /\ Acknowledged(Settled(t))
    /\ Goes(Done("settle", t))
    /\ UNCHANGED <<registry, processes, calls, message, told, given, launches,
                   bounds>>

AckCollected ==
    /\ \E t \in work.ack : Doing("ack", t)
    /\ Acknowledged(work.ack)
    /\ Goes([work EXCEPT !.ack = {}])
    /\ UNCHANGED <<registry, processes, calls, message, told, given, launches,
                   bounds>>

-----------------------------------------------------------------------------
(* _reconcile_active_tasks.                                                 *)

\* A row without a process is left alone for ten seconds, unless a worker starts.
MayWait(t) ==
    (status[t] = "queued" \/ ~pid[t]) /\ ~expired[t] /\ ~(holder = Root /\ root = "starting")
MayFail(t) == /\ expired[t] \/ status[t] = "queued" \/ ~pid[t] \/ ~Alive(t)
              /\ ~(t \in work.launch /\ MayWait(t))

\* active_rows come helpers first.
Deepest(S) == {t \in S : Parent[t] = Root => \A u \in S : Parent[u] = Root}

LeaveRow(t) ==
    /\ Doing("check", t) /\ t \in Deepest(work.check)
    /\ MayWait(t) \/ ~MayFail(t)
    /\ Goes(Done("check", t))
    /\ UNCHANGED <<registry, processes, calls, wake, given, launches, bounds>>

\* Rows a caller asks for may be terminal: those only get their event again.
FailRow(t) ==
    /\ Doing("check", t) /\ t \in Deepest(work.check) /\ MayFail(t)
    /\ cancel_tree({t}, "failed", Subtree({t}) \ {t})
    /\ Goes([Done("check", t) EXCEPT !.kill = Subtree({t}) \cap active_rows,
                                        !.post = Announced(t)])
    /\ UNCHANGED <<pid, processes, calls, wake, given, launches, bounds>>

-----------------------------------------------------------------------------
(* spawn_agents.                                                            *)

Tasks(b) == {t \in Task : BatchOf[t] = b}
\* Fault: only what still runs is remembered.
ExistingActive(b) == Tasks(b) \cap active_rows
\* The rows of a batch_key used before.
Existing(b) == Tasks(b) \cap Rows

\* Fault: the batch itself is not counted.
LoadBefore(b) == Cardinality(active_rows)
\* Tasks of the role that would be active.
LoadWith(b) == Cardinality(active_rows) + Cardinality(Tasks(b))
InTree(t) == {u \in Rows : Tree(u) = Tree(t)}

\* reserve: an active parent, room in the tree and in the role.
Admits(b) ==
    /\ \A t \in Tasks(b) :
        /\ Parent[t] # Root => Parent[t] \in active_rows
        /\ Cardinality(InTree(t)) + Cardinality(Tasks(b)) <= MAX_TREE_AGENTS
    /\ LoadWith(b) <= MAX_PARALLEL_AGENTS

Spawn(p, b) ==
    /\ CanCall(p) /\ (p # Root => ~expired[p])
    /\ Tasks(b) \subseteq scope.tasks /\ \E t \in Tasks(b) : Parent[t] = p
    /\ Lock(p, [Idle EXCEPT !.check = active_rows, !.reserve = {b}])
    /\ UNCHANGED <<registry, processes, calls, wake, given, launches, bounds>>

\* A batch_key used before: its rows are reconciled and returned, nothing is launched.
Replay(b) ==
    /\ Doing("reserve", b) /\ Existing(b) # {}
    /\ Goes([Done("reserve", b) EXCEPT !.check = Existing(b)])
    /\ UNCHANGED <<registry, processes, calls, wake, given, launches, bounds>>

Refuse(b) ==
    /\ Doing("reserve", b) /\ Existing(b) = {} /\ ~Admits(b)
    /\ Goes(Done("reserve", b))
    /\ UNCHANGED <<registry, processes, calls, wake, given, launches, bounds>>

Reserve(b) ==
    /\ Doing("reserve", b) /\ Existing(b) = {} /\ Admits(b)
    /\ status' = [t \in Task |-> IF t \in Tasks(b) THEN "queued" ELSE status[t]]
    /\ Goes([Done("reserve", b) EXCEPT !.check = Tasks(b), !.launch = Tasks(b)])
    /\ UNCHANGED <<collected, pid, processes, calls, wake, given, launches, bounds>>

\* The tasks of a batch are launched one after the other; a row that was closed is not.
claim_launch(t) ==
    /\ Doing("launch", t) /\ \A u \in work.launch : status[u] # "starting"
    /\ IF status[t] = "queued"
       THEN status' = [status EXCEPT ![t] = "starting"] /\ UNCHANGED section
       ELSE Goes(Done("launch", t)) /\ UNCHANGED status
    /\ UNCHANGED <<collected, pid, processes, calls, wake, given, launches,
                   bounds>>

\* OpenHandsChildProcess.start up to Popen.
StartProcess(t) ==
    /\ Doing("launch", t) /\ status[t] = "starting"
    /\ proc' = [proc EXCEPT ![t] = "working"] /\ launches' = [launches EXCEPT ![t] = @ + 1]
    /\ unseen' = IF root = "down" THEN unseen \cup {t} ELSE unseen
    /\ Goes([Done("launch", t) EXCEPT !.confirm = {t}])
    /\ UNCHANGED <<registry, expired, ending, monitor, root, calls, wake, given, bounds>>

\* Nothing is started, or it is killed again before anybody knows its pid.
StartFails(t) ==
    /\ status[t] = "starting" /\ finish(t, "failed")
    /\ \E stage \in {"launch", "confirm"} :
        /\ Doing(stage, t)
        /\ Goes([Done(stage, t) EXCEPT !.post = Announced(t)])
    /\ Dead({t} \cap work.confirm)
    /\ UNCHANGED <<collected, pid, expired, ending, root, unseen, wake, given, launches, bounds>>

mark_running(t) ==
    /\ Doing("confirm", t)
    /\ status' = [status EXCEPT ![t] = "running"] /\ pid' = [pid EXCEPT ![t] = TRUE]
    /\ monitor' = [monitor EXCEPT ![t] = TRUE]
    /\ Goes(Done("confirm", t))
    /\ UNCHANGED <<collected, expired, proc, ending, root, unseen, calls, wake,
                   given, launches, bounds>>

-----------------------------------------------------------------------------
(* The other tools of a conversation.                                       *)

\* _DelegationManager.__init__: a turn, or a child's run, builds its tools.
ConfigureTools(p) ==
    /\ CanCall(p) /\ active_rows # {}
    /\ Lock(p, [Idle EXCEPT !.check = active_rows])
    /\ UNCHANGED <<registry, processes, calls, wake, given, launches, bounds>>

\* agent_status.
InspectTasks(p, S) ==
    /\ CanCall(p)
    /\ Lock(p, [Idle EXCEPT !.check = S])
    /\ UNCHANGED <<registry, processes, calls, wake, given, launches, bounds>>

\* await_agents: await_snapshot, first and again while the call waits.
AwaitPolls(p, S) ==
    /\ CanCall(p) /\ awaiting[p] \in {{}, S}
    /\ Lock(p, [Idle EXCEPT !.check = S, !.show = S])
    /\ UNCHANGED <<registry, processes, calls, wake, given, launches, bounds>>

TakeSnapshot ==
    /\ \E t \in work.show : Doing("show", t)
    /\ awaiting' = [awaiting EXCEPT ![holder] = work.show]
    /\ shown' = [shown EXCEPT ![holder] = {t \in work.show : Terminal(t)}]
    /\ Goes([work EXCEPT !.show = {}])
    /\ UNCHANGED <<registry, processes, wake, given, launches, bounds>>

RootTasks(S) == {t \in S : Parent[t] = Root}

\* Fault: what is terminal by now is collected.
CollectsNow(p) == {t \in awaiting[p] : Terminal(t)}
\* What the response shows as terminal.
Collects(p) == shown[p]

\* The join is satisfied, or its timeout or an interrupt ended it: _acknowledge.
AwaitReturns(p) ==
    /\ CanCall(p) /\ awaiting[p] # {}
    /\ Lock(p, [Idle EXCEPT !.ack = IF p = Root THEN Collects(p) ELSE {}])
    /\ collected' = [t \in Task |-> collected[t] \/ t \in Collects(p)]
    /\ given' = [t \in Task |-> IF t \in shown[p] THEN [by |-> "await", status |-> status[t]]
                              ELSE given[t]]
    /\ awaiting' = [awaiting EXCEPT ![p] = {}] /\ shown' = [shown EXCEPT ![p] = {}]
    /\ UNCHANGED <<status, pid, processes, wake, launches, bounds>>

\* cancel_agents.  Its response shows the tasks, those that had ended too.
CancelTasks(p, S) ==
    LET targets == Subtree(S) \cap active_rows IN
    /\ CanCall(p)
    /\ cancel_tree(S, "cancelled", Subtree(S))
    /\ Lock(p, [Idle EXCEPT !.kill = targets,
                            !.post = IF p = Root THEN RootTasks(targets) ELSE {},
                            !.ack = IF p = Root THEN RootTasks(S) ELSE {}])
    /\ given' = [t \in Task |-> IF t \in S THEN [by |-> "cancel", status |-> status'[t]]
                              ELSE given[t]]
    /\ UNCHANGED <<pid, processes, calls, wake, launches, bounds>>

-----------------------------------------------------------------------------
(* The end of a child: run_openhands, main, and the monitor of its parent.  *)

Step(t, from, to) == proc[t] = from /\ proc' = [proc EXCEPT ![t] = to]

WorkEnds(t) ==
    /\ Step(t, "working", "detach") /\ holder # t /\ (t \in Caller => awaiting[t] = {})
    /\ \E e \in {"finished", "failed"} : ending' = [ending EXCEPT ![t] = e]
    /\ UNCHANGED <<registry, expired, monitor, root, unseen, section, calls, wake, given, launches,
                   bounds>>

\* A timeout of the run, SIGTERM, a provider error.
WorkRaises(t) ==
    /\ Step(t, "working", "raised") /\ holder # t
    /\ ending' = [ending EXCEPT ![t] = "failed"]
    /\ UNCHANGED <<registry, expired, monitor, root, unseen, section, calls, wake, given, launches,
                   bounds>>

\* record_delegated_task_result: the process records its own outcome.
RecordResult(t, from, to) ==
    /\ Step(t, from, to)
    /\ finish(t, ending[t])
    /\ Lock(t, [Idle EXCEPT !.post = RootTasks({t})])
    /\ UNCHANGED <<collected, pid, expired, ending, monitor, root, unseen, calls, wake,
                   given, launches, bounds>>

RecordRaised(t) == RecordResult(t, "raised", "detach")
RecordDetached(t) == RecordResult(t, "detached", "record")
RecordOutcome(t) == RecordResult(t, "record", "exiting")

\* Fault: only the helpers that still run count.
PendingHelpers(t) == Direct(t) \cap active_rows
\* uncollected_for_parent
Uncollected(t) == {u \in Direct(t) : status[u] # "cancelled" /\ ~collected[u]}

\* cancel_pending_descendants: a child that left helpers behind has failed.
Detach(t) ==
    IF Uncollected(t) = {}
    THEN /\ Step(t, "detach", "record") /\ holder = Nobody
         /\ UNCHANGED <<registry, ending, section>>
    ELSE /\ Step(t, "detach", "detached")
         /\ cancel_tree(Uncollected(t), "cancelled", Subtree(Uncollected(t)))
         /\ Lock(t, [Idle EXCEPT !.kill = Uncollected(t) \cap active_rows])
         /\ ending' = [ending EXCEPT ![t] = "failed"]
         /\ UNCHANGED <<pid>>

DetachHelpers(t) ==
    /\ Detach(t)
    /\ UNCHANGED <<expired, monitor, root, unseen, calls, wake, given, launches, bounds>>

Exit(t) ==
    /\ Step(t, "exiting", "done") /\ holder # t
    /\ Gone({t})
    /\ UNCHANGED <<registry, expired, ending, root, unseen, section, wake, given, launches, bounds>>

\* Fault: the monitor leaves the event to whoever closed the row.
PostsIfClosing(t) == IF t \in active_rows THEN RootTasks({t}) ELSE {}
\* The monitor posts whether or not the child has recorded its outcome.
CompletionEvent(t) == RootTasks({t})
\* Fault: the helpers of a failed task run on.
PrunesNothing(t, ok) == {}
PrunedAfter(t, ok) == IF ok THEN {} ELSE {t}

\* _monitor saw the process end: _complete.
MonitorCompletes(t) ==
    LET ok == proc[t] = "done" /\ ending[t] = "finished" IN
    /\ monitor[t] /\ proc[t] \in {"done", "dead"}
    /\ finish(t, IF ok THEN "finished" ELSE "failed")
    /\ Lock(Parent[t], [Idle EXCEPT !.prune = PrunedAfter(t, ok), !.post = CompletionEvent(t)])
    /\ monitor' = [monitor EXCEPT ![t] = FALSE]
    /\ UNCHANGED <<collected, pid, expired, proc, ending, root, unseen, calls, wake, given,
                   launches, bounds>>

-----------------------------------------------------------------------------
(* Time, deaths, the supervisor.                                            *)

\* A helper's deadline is never later than its parent's.
Expire(t) ==
    /\ t \in Rows /\ ~expired[t]
    /\ expired' = [u \in Task |-> expired[u] \/ u \in Subtree({t})]
    /\ UNCHANGED <<registry, proc, ending, monitor, root, unseen, section, calls, wake, given,
                   launches, bounds>>

\* The file lock of a dead process is released; what it had still to commit is lost.
Cut(p) ==
    IF holder = p
    THEN /\ cuts < scope.cuts /\ cuts' = cuts + 1
         /\ holder' = Nobody /\ work' = Idle
    ELSE UNCHANGED <<cuts, section>>

\* The monitor's wait times out: the child's process group is killed.
MonitorTimesOut(t) ==
    /\ monitor[t] /\ expired[t] /\ Alive(t)
    /\ Dead({t}) /\ Cut(t)
    /\ UNCHANGED <<registry, expired, ending, root, unseen, wake, given, launches, scope, crashes,
                   deaths>>

ChildDies(t) ==
    /\ Alive(t) /\ deaths < scope.deaths /\ deaths' = deaths + 1
    /\ Dead({t}) /\ Cut(t)
    /\ UNCHANGED <<registry, expired, ending, root, unseen, wake, given, launches, scope, crashes>>

\* The supervisor looks at the worker's descendants every few seconds: it may not have met
\* the last ones, and who has met a helper has met its parent.
Missed == {S \in SUBSET {t \in Rows : Alive(t)} :
             \A t \in S, u \in Rows : Parent[u] = t /\ Alive(u) => u \in S}

RootDies ==
    /\ root # "down" /\ crashes < scope.crashes /\ crashes' = crashes + 1
    /\ root' = "down"
    /\ \E S \in Missed : unseen' = unseen \cup S
    /\ Gone({Root}) /\ Cut(Root)
    /\ UNCHANGED <<registry, expired, proc, ending, wake, given, launches, scope, deaths>>

\* _signal_descendants, between the death of a worker and the next one.
Known == {t \in Rows : Alive(t) /\ t \notin unseen}
SupervisorKills(t) ==
    /\ root = "down" /\ t \in Known
    /\ Dead({t}) /\ Cut(t)
    /\ UNCHANGED <<registry, expired, ending, root, unseen, wake, given, launches, scope, crashes,
                   deaths>>

\* reconcile_delegated_tasks, before the new worker does anything else.
RootStarts ==
    /\ root = "down" /\ Known = {}
    /\ Lock(Root, [Idle EXCEPT !.check = active_rows])
    /\ root' = "starting"
    /\ UNCHANGED <<registry, expired, proc, ending, monitor, unseen, calls, wake, given, launches,
                   bounds>>

RootReady ==
    /\ root = "starting" /\ holder # Root /\ root' = "up"
    /\ UNCHANGED <<registry, expired, proc, ending, monitor, unseen, section, calls, wake, given,
                   launches, bounds>>

-----------------------------------------------------------------------------
(* The event's way to the conversation: the pump or the controller moves it *)
(* to the inbox, a later turn hears it.                                     *)

TransferEvent(t) ==
    /\ root = "up" /\ event[t] = "posted"
    /\ event' = [event EXCEPT ![t] = "acked"] /\ message' = [message EXCEPT ![t] = "queued"]
    /\ UNCHANGED <<registry, processes, section, calls, told, given, launches, bounds>>

HearEvent(t) ==
    /\ root = "up" /\ message[t] = "queued" /\ awaiting[Root] = {}
    /\ message' = [message EXCEPT ![t] = "heard"]
    /\ UNCHANGED <<registry, processes, section, calls, event, told, given, launches, bounds>>

-----------------------------------------------------------------------------
SectionStep ==
    holder # Nobody /\
        (\/ Kill \/ AckCollected \/ TakeSnapshot
         \/ \E t \in scope.tasks :
              \/ Prune(t) \/ Post(t) \/ Settle(t) \/ LeaveRow(t) \/ FailRow(t)
              \/ claim_launch(t) \/ StartProcess(t) \/ StartFails(t) \/ mark_running(t)
         \/ \E b \in Batch : Replay(b) \/ Refuse(b) \/ Reserve(b))

Call ==
    holder = Nobody /\ \E p \in Caller :
        \/ ConfigureTools(p) \/ AwaitReturns(p)
        \/ \E b \in Batch : Spawn(p, b)
        \/ \E S \in SUBSET Direct(p) \ {{}} :
              InspectTasks(p, S) \/ AwaitPolls(p, S) \/ CancelTasks(p, S)

RunEnds(t) ==
    \/ RecordRaised(t) \/ RecordDetached(t) \/ RecordOutcome(t) \/ DetachHelpers(t) \/ Exit(t)

Next ==
    \/ SectionStep \/ Call
    \/ \E t \in scope.tasks : \/ WorkEnds(t) \/ WorkRaises(t) \/ RunEnds(t)
                       \/ MonitorCompletes(t) \/ MonitorTimesOut(t)
                       \/ Expire(t) \/ ChildDies(t) \/ SupervisorKills(t)
                       \/ TransferEvent(t) \/ HearEvent(t)
    \/ RootDies \/ RootStarts \/ RootReady

Spec == Init /\ [][Next]_vars

\* The lock is released between two polls, threads and processes run on, time passes.
\* No caller has to call a tool, no child has to end before its deadline.
Fairness ==
    /\ WF_vars(SectionStep)
    /\ \A t \in Task : /\ SF_vars(RunEnds(t)) /\ SF_vars(MonitorCompletes(t))
                       /\ WF_vars(Expire(t)) /\ SF_vars(MonitorTimesOut(t))
                       /\ WF_vars(TransferEvent(t)) /\ SF_vars(HearEvent(t))
    /\ SF_vars(AwaitReturns(Root))
    /\ WF_vars(\E t \in Task : SupervisorKills(t)) /\ SF_vars(RootStarts) /\ SF_vars(RootReady)
FairSpec == Spec /\ Fairness

-----------------------------------------------------------------------------
(* Properties.                                                              *)

Status == ACTIVE \cup TERMINAL_TASK_STATUSES \cup {"none"}
TypeOK ==
    /\ status \in [Task -> Status] /\ collected \in [Task -> BOOLEAN] /\ pid \in [Task -> BOOLEAN]
    /\ expired \in [Task -> BOOLEAN] /\ monitor \in [Task -> BOOLEAN] /\ unseen \subseteq Task
    /\ proc \in [Task -> {"none", "working", "raised", "detach", "detached", "record", "exiting",
                          "done", "dead"}]
    /\ ending \in [Task -> {"finished", "failed"}] /\ root \in {"up", "down", "starting"}
    /\ holder \in Caller \cup {Nobody} \cup Task
    /\ DOMAIN work = DOMAIN Rank /\ work.reserve \subseteq Batch
    /\ \A k \in DOMAIN Rank \ {"reserve"} : work[k] \subseteq Task
    /\ awaiting \in [Caller -> SUBSET Task] /\ shown \in [Caller -> SUBSET Task]
    /\ event \in [Task -> {"none", "posted", "acked"}]
    /\ message \in [Task -> {"none", "queued", "heard"}]
    /\ given \in [Task -> [by : {"none", "await", "cancel"}, status : Status]]
    /\ told \in [Task -> Status]
    /\ (holder = Nobody <=> work = Idle) /\ \A p \in Caller : shown[p] \subseteq awaiting[p]
    /\ \A t \in Task : pid[t] => status[t] \notin {"none", "queued", "starting"}
    /\ launches \in [Task -> Nat] /\ {crashes, deaths, cuts} \subseteq Nat

\* A task ends once: the record of the child, its monitor, a cancellation and the
\* reconciliation of a dead process may all try, in any order, and the first stays.
OneOutcome == [][\A t \in Task : Terminal(t) => status'[t] = status[t]]_vars

\* The event of a task carries the outcome of its row.  (enqueue raises when a key is
\* used again with another payload.)
EventTellsOutcome == \A t \in Task : told[t] # "none" => told[t] = status[t]

\* A batch is launched once, however often it is asked for again, and after any crash.
LaunchedOnce == \A t \in Task : launches[t] <= 1

\* The two capacities hold over every caller.
CapsHold ==
    /\ Cardinality(active_rows) <= MAX_PARALLEL_AGENTS
    /\ \A t \in Rows : Cardinality(InTree(t)) <= MAX_TREE_AGENTS

\* When no process died inside a section, a cancelled task has no process left once the
\* section that cancelled it is over.
CancelledIsDead ==
    cuts = 0 /\ holder = Nobody => \A t \in Task : status[t] = "cancelled" => ~Alive(t)

\* A result of a task of the root is marked collected only if a response gave that very
\* outcome to the root.
CollectedWasGiven ==
    \A t \in RootTasks(Task) : collected[t] => given[t].status = status[t]

\* When no process died inside a section, no event of a collected task is left to wake the
\* root, whichever of the collection and the event came first.
CollectedIsQuiet ==
    cuts = 0 /\ holder = Nobody => \A t \in Task : collected[t] => event[t] # "posted"

\* A task that finished left no helper behind: each was cancelled, or is over and collected.
NoDetachedWork ==
    \A t \in Task : Parent[t] # Root /\ status[Parent[t]] = "finished" /\ t \in Rows =>
        Terminal(t) /\ (status[t] = "cancelled" \/ collected[t])

\* While no worker and no section was cut short: when a task is over, its process gone and
\* its monitor done, no helper of it has an active row or a process still at work.
HelpersEndWithTask ==
    crashes = 0 /\ cuts = 0 /\ holder = Nobody =>
        \A h \in Task : Parent[h] # Root /\ Terminal(Parent[h]) /\ ~monitor[Parent[h]]
                            /\ ~Alive(Parent[h]) =>
            h \notin active_rows /\ proc[h] # "working"

\* Every task that is spawned ends.
EveryTaskEnds == \A t \in Task : status[t] = "queued" ~> Terminal(t)

\* The outcome of a task of the root reaches the root: in a response, or in a later turn.
OutcomeReachesRoot ==
    \A t \in RootTasks(Task) : Terminal(t) ~> (given[t].by # "none" \/ message[t] = "heard")

\* Once a task of the root is over and nobody is left who would report it, its event is in
\* the store, or the root had the outcome in a response.
OutcomeIsAnnounced ==
    root = "up" /\ holder = Nobody =>
        \A t \in RootTasks(Task) : Terminal(t) /\ ~monitor[t] /\ ~Alive(t) =>
            event[t] # "none" \/ given[t].by # "none"

\* A later event does not repeat what await_agents returned.
NotRepeated ==
    [][\A t \in RootTasks(Task) : message[t] = "queued" /\ message'[t] = "heard" =>
            given[t].by # "await"]_vars

\* When the deadline of a running task has passed, its row becomes terminal.
DeadlineIsRecorded == \A t \in Task : expired[t] /\ status[t] = "running" ~> Terminal(t)

=============================================================================
