-------------------------- MODULE DelegationProofs --------------------------
(***************************************************************************)
(* What the registry of delegated tasks promises in every behaviour,       *)
(* whatever the tasks, the trees they form, the capacities and the number  *)
(* of deaths are.                                                          *)
(*                                                                         *)
(* The promises are about rows, processes and events that are written in   *)
(* commits of their own, so the invariant says what a section under the    *)
(* lifecycle lock has still to do (SInv), what await_agents has seen of    *)
(* the tasks it waits for (CInv), what a row says of the launch (RInv),    *)
(* what is left when a child is about to record that it finished (EInv)    *)
(* and, while nobody died inside a section, who can still be signalled and *)
(* whose event is still to be settled (UInv).                              *)
(*                                                                         *)
(* The lemmas of the actions are laid out alike: what the section has left *)
(* after the step, what the step changes, then one step per part of the    *)
(* invariant it can disturb; Frames answers for the parts it leaves alone. *)
(***************************************************************************)
EXTENDS Delegation, FiniteSetTheorems, TLAPS

Kinds == DOMAIN Rank

\* The types of TypeOK in five parts, and that a section is a function.
SectionTyped ==
    /\ holder \in Caller \cup {Nobody} \cup Task
    /\ work \in [Kinds -> SUBSET (Task \cup Batch)] /\ work.reserve \subseteq Batch
    /\ \A k \in Kinds \ {"reserve"} : work[k] \subseteq Task
    /\ holder = Nobody <=> work = Idle
RowsTyped ==
    /\ status \in [Task -> Status] /\ collected \in [Task -> BOOLEAN] /\ pid \in [Task -> BOOLEAN]
    /\ \A t \in Task : pid[t] => status[t] \notin {"none", "queued", "starting"}
ProcessesTyped ==
    /\ expired \in [Task -> BOOLEAN] /\ monitor \in [Task -> BOOLEAN] /\ unseen \subseteq Task
    /\ proc \in [Task -> {"none", "working", "raised", "detach", "detached", "record", "exiting",
                          "done", "dead"}]
    /\ ending \in [Task -> {"finished", "failed"}] /\ root \in {"up", "down", "starting"}
CallsTyped ==
    /\ awaiting \in [Caller -> SUBSET Task] /\ shown \in [Caller -> SUBSET Task]
    /\ \A p \in Caller : shown[p] \subseteq awaiting[p]
EventsTyped ==
    /\ event \in [Task -> {"none", "posted", "acked"}]
    /\ message \in [Task -> {"none", "queued", "heard"}]
    /\ given \in [Task -> [by : {"none", "await", "cancel"}, status : Status]]
    /\ told \in [Task -> Status]
BoundsTyped ==
    /\ launches \in [Task -> Nat] /\ {crashes, deaths, cuts} \subseteq Nat /\ scope \in Scopes
TInv ==
    /\ SectionTyped /\ RowsTyped /\ ProcessesTyped /\ CallsTyped /\ EventsTyped /\ BoundsTyped

\* A row says how far the launch of its task has come, and only an ended task is
\* collected, announced or told.
RowFor(t) ==
    /\ status[t] # "none" => t \in scope.tasks
    /\ launches[t] <= 1
    /\ status[t] \in {"none", "queued"} => launches[t] = 0
    /\ launches[t] = 0 => proc[t] = "none"
    /\ monitor[t] => pid[t]
    /\ collected[t] => Terminal(t)
    /\ told[t] # "none" => told[t] = status[t] /\ Terminal(t)
    /\ event[t] # "none" => Parent[t] = Root
    /\ collected[t] /\ Parent[t] = Root => given[t].status = status[t]
RInv == \A t \in Task : RowFor(t)

\* await_agents waits for tasks of its caller and shows those that are over.
CInv ==
    \A p \in Caller : \A t \in awaiting[p] :
        Parent[t] = p /\ status[t] # "none" /\ (t \in shown[p] => Terminal(t))

\* What a section has still to do fits the rows and its process.
SInv ==
    /\ \A t \in work.check \cup work.launch \cup work.show : status[t] # "none"
    /\ \A t \in work.settle \cup work.post \cup work.ack : Parent[t] = Root /\ Terminal(t)
    /\ \A t \in work.launch : status[t] \in {"queued", "starting"} => launches[t] = 0
    /\ \A t \in work.confirm : status[t] = "starting" /\ launches[t] # 0 /\ work.confirm = {t}
    /\ work.confirm # {} => \A k \in Kinds \ {"confirm", "launch"} : work[k] = {}
    /\ \A b \in work.reserve :
        /\ Tasks(b) \subseteq scope.tasks /\ \A t \in Tasks(b) : Parent[t] = holder
        /\ holder \in Task => proc[holder] = "working"
    /\ \A t \in work.show : Parent[t] = holder
    /\ work.reserve \cup work.launch # {} => work.show = {}
    /\ \A t, u \in work.prune : t = u
    /\ work.prune # {} => work.kill = {}
    /\ holder \in Task /\ work.prune \cup work.kill # {} =>
        work.settle = {} /\ work.post = {} /\ work.ack = {}

\* No helper of p is left: each was cancelled, or is over and collected.
NoneLeft(p) ==
    \A t \in Task : Parent[t] = p /\ status[t] # "none" =>
        Terminal(t) /\ (status[t] = "cancelled" \/ collected[t])
\* A task that is about to record that it finished has left none.
EndFor(p) ==
    /\ status[p] = "finished" => NoneLeft(p)
    /\ proc[p] \in {"record", "exiting", "done"} /\ ending[p] = "finished" => NoneLeft(p)
    /\ proc[p] \in {"raised", "detached"} => ending[p] = "failed"
EInv == \A p \in Task : EndFor(p)

\* Without a death in a section: who is alive can be reached, who is cancelled is about
\* to be killed, and the event of a collected task is about to be settled.
UncutFor(t) ==
    /\ Alive(t) => pid[t] \/ t \in work.confirm
    /\ Alive(t) /\ status[t] = "cancelled" => t \in work.kill
    /\ collected[t] /\ event[t] = "posted" => t \in work.settle \cup work.ack
UInv == cuts = 0 => \A t \in Task : UncutFor(t)

IInv == TInv /\ RInv /\ CInv /\ SInv /\ EInv /\ UInv

-----------------------------------------------------------------------------
(* Sections, rows and what a step leaves alone.                             *)

\* The kinds of commits, and their order.
LEMMA KindsAre ==
    /\ Kinds = {"prune", "kill", "settle", "post", "ack", "check", "reserve", "confirm",
                "launch", "show"}
    /\ Rank \in [Kinds -> Nat]
    /\ Idle = [k \in Kinds |-> {}]
  BY DEF Kinds, Rank, Idle

\* What a section can have to do, by kind.
Todo == {todo \in [Kinds -> SUBSET (Task \cup Batch)] :
            todo.reserve \subseteq Batch /\ \A k \in Kinds \ {"reserve"} : todo[k] \subseteq Task}

\* An operation that takes the lock begins a section with this work, or leaves none.
LEMMA LockTaken ==
    ASSUME NEW p \in Caller \cup Task, NEW todo \in Todo, Lock(p, todo)
    PROVE  /\ SectionTyped' /\ work' = todo
           /\ holder' = p \/ (holder' = Nobody /\ \A k \in Kinds : work'[k] = {})
<1>1. p # Nobody
  BY DelegationAssumption DEF Caller
<1> QED  BY <1>1, KindsAre DEF Lock, Todo, SectionTyped

\* A section that goes on keeps the lock while anything is left.
LEMMA GoesOn ==
    ASSUME IInv, holder # Nobody, NEW todo \in Todo, Goes(todo)
    PROVE  /\ SectionTyped' /\ work' = todo
           /\ holder' = holder \/ (holder' = Nobody /\ \A k \in Kinds : work'[k] = {})
  BY KindsAre DEF IInv, TInv, Goes, Todo, SectionTyped

LEMMA WorkTyped ==
    ASSUME IInv
    PROVE  work \in Todo /\ Idle \in Todo
  BY KindsAre DEF IInv, TInv, SectionTyped, Todo

\* Only tasks that are asked for have rows, so the registry's queries need not say so.
LEMMA RowsAre ==
    ASSUME IInv
    PROVE  /\ scope.tasks \subseteq Task
           /\ Rows = {t \in Task : status[t] # "none"}
           /\ active_rows = {t \in Task : status[t] \in ACTIVE}
           /\ \A S : Subtree(S) = {t \in Task : status[t] # "none" /\ (t \in S \/ Parent[t] \in S)}
<1>1. scope.tasks \subseteq Task
  BY DelegationAssumption DEF IInv, TInv, BoundsTyped
<1> QED  BY <1>1 DEF IInv, RInv, RowFor, Rows, active_rows, Subtree, ACTIVE

LEMMA ParentsAre ==
    \A t \in Task : Parent[t] \in Caller /\ (Parent[t] \in Task <=> Parent[t] # Root)
  BY DelegationAssumption DEF Caller

\* cancel_tree ends the active rows of S and of their helpers, and no other.
LEMMA Cancelling ==
    ASSUME IInv, NEW S, NEW r, NEW closed, cancel_tree(S, r, closed)
    PROVE  \A u \in Task :
             /\ status'[u] = IF status[u] \in ACTIVE /\ (u \in S \/ Parent[u] \in S)
                             THEN IF u \in S THEN r ELSE "cancelled" ELSE status[u]
             /\ collected'[u] = (collected[u] \/ u \in closed)
  BY RowsAre DEF cancel_tree, ACTIVE

\* What a step leaves alone keeps what is said of it.
LEMMA Frames ==
    ASSUME IInv
    PROVE  /\ UNCHANGED section => SectionTyped'
           /\ UNCHANGED registry => RowsTyped'
           /\ UNCHANGED processes => ProcessesTyped'
           /\ UNCHANGED calls => CallsTyped'
           /\ UNCHANGED <<wake, given>> => EventsTyped'
           /\ UNCHANGED <<launches, bounds>> => BoundsTyped'
           /\ UNCHANGED <<status, calls>> => CInv'
           /\ UNCHANGED <<status, collected, proc, ending>> => EInv'
           /\ UNCHANGED <<registry, proc, monitor, launches, told, event, given, scope>> => RInv'
<1>1. UNCHANGED section => SectionTyped'
  BY DEF IInv, TInv, section, SectionTyped
<1>2. UNCHANGED registry => RowsTyped'
  BY DEF IInv, TInv, registry, RowsTyped
<1>3. UNCHANGED processes => ProcessesTyped'
  BY DEF IInv, TInv, processes, ProcessesTyped
<1>4. UNCHANGED calls => CallsTyped'
  BY DEF IInv, TInv, calls, CallsTyped
<1>5. UNCHANGED <<wake, given>> => EventsTyped'
  BY DEF IInv, TInv, wake, EventsTyped
<1>6. UNCHANGED <<launches, bounds>> => BoundsTyped'
  BY DEF IInv, TInv, bounds, BoundsTyped
<1>7. UNCHANGED <<status, calls>> => CInv'
  BY DEF IInv, CInv, calls, Terminal
<1>8. UNCHANGED <<status, collected, proc, ending>> => EInv'
  BY DEF IInv, EInv, EndFor, NoneLeft, Terminal
<1>9. UNCHANGED <<registry, proc, monitor, launches, told, event, given, scope>> => RInv'
  BY DEF IInv, RInv, RowFor, Terminal, registry
<1> QED  BY <1>1, <1>2, <1>3, <1>4, <1>5, <1>6, <1>7, <1>8, <1>9

\* A process that dies leaves its section, which counts as a cut.
LEMMA Cutting ==
    ASSUME IInv, NEW p, Cut(p)
    PROVE  /\ SectionTyped' /\ cuts' \in Nat
           /\ \/ holder # p /\ holder' = holder /\ work' = work /\ cuts' = cuts
              \/ holder = p /\ holder' = Nobody /\ (\A k \in Kinds : work'[k] = {}) /\ cuts' # 0
<1>1. CASE holder = p
  <2>1. holder' = Nobody /\ work' = Idle /\ cuts' = cuts + 1
    BY <1>1 DEF Cut
  <2> QED  BY <1>1, <2>1, KindsAre DEF IInv, TInv, SectionTyped, BoundsTyped
<1>2. CASE holder # p
  BY <1>2, Frames DEF Cut, section, IInv, TInv, BoundsTyped
<1> QED  BY <1>1, <1>2

-----------------------------------------------------------------------------
(* One lemma per action.                                                    *)

\* The helpers of a failed task are closed as collected, but their parent is a task: nothing
\* is due to the root for them.
LEMMA PruneKeeps ==
    ASSUME IInv, holder # Nobody, NEW t \in scope.tasks, Prune(t)
    PROVE  IInv'
<1>1. t \in work.prune
  BY KindsAre DEF Prune, Doing, Rank
<1>2. /\ \A u \in Task : status'[u] =
             IF status[u] \in ACTIVE /\ (u = t \/ Parent[u] = t)
             THEN "cancelled"
             ELSE status[u]
      /\ \A u \in Task :
             collected'[u] = (collected[u] \/ (status[u] # "none" /\ Parent[u] = t /\ u # t))
  BY Cancelling, RowsAre DEF Prune
<1>3. /\ SectionTyped'
      /\ (\A k \in Kinds : work'[k] =
           IF k = "prune" THEN work.prune \ {t}
           ELSE IF k = "kill" THEN Subtree({t}) \cap active_rows
           ELSE work[k])
      /\ holder' = holder \/ (holder' = Nobody /\ \A k \in Kinds : work'[k] = {})
  <2> DEFINE todo == [Done("prune", t) EXCEPT !.kill = Subtree({t}) \cap active_rows]
  <2>1. /\ todo \in Todo
        /\ \A k \in Kinds :
             todo[k] = IF k = "prune" THEN work.prune \ {t}
                       ELSE IF k = "kill" THEN Subtree({t}) \cap active_rows
                       ELSE work[k]
    BY KindsAre, WorkTyped, <1>1, RowsAre DEF Done, Todo, Idle
  <2>2. Goes(todo)
    BY DEF Prune, Done
  <2> HIDE DEF todo
  <2> QED  BY <2>1, <2>2, GoesOn
<1>4. ProcessesTyped' /\ CallsTyped' /\ EventsTyped' /\ BoundsTyped'
  BY Frames DEF Prune, registry, processes, calls, wake, bounds
<1>5. RowsTyped'
  BY RowsAre DEF Prune, cancel_tree, IInv, TInv, RowsTyped, Status, ACTIVE, TERMINAL_TASK_STATUSES
<1>6. RInv'
  BY <1>2, RowsAre, ParentsAre, DelegationAssumption DEF IInv, TInv, RowsTyped, Status, RInv,
     RowFor, Terminal, ACTIVE, TERMINAL_TASK_STATUSES, Prune, processes, wake, bounds
<1>7. CInv'
  BY <1>2 DEF IInv, TInv, CallsTyped, RowsTyped, Status, CInv, Terminal, ACTIVE,
     TERMINAL_TASK_STATUSES, Prune, calls
<1>8. SInv'
  BY <1>1, <1>2, <1>3, KindsAre DEF IInv, TInv, RowsTyped, Status, SInv, Terminal, ACTIVE,
     TERMINAL_TASK_STATUSES, SectionTyped, Prune, processes, bounds
<1>9. EInv'
  BY <1>2 DEF IInv, TInv, RowsTyped, Status, EInv, EndFor, NoneLeft, Terminal, ACTIVE,
     TERMINAL_TASK_STATUSES, Prune, processes
<1>10. UInv'
  <2> SUFFICES ASSUME cuts = 0, NEW u \in Task PROVE UncutFor(u)'
    BY DEF UInv, Prune, bounds
  <2>1. UncutFor(u)
    BY DEF IInv, UInv
  <2>2. proc' = proc /\ pid' = pid /\ event' = event
    BY DEF Prune, processes, wake
  <2>3. (Alive(u) => pid[u] \/ u \in work.confirm)'
    BY <2>1, <2>2, <1>3, KindsAre DEF UncutFor, Alive
  <2>4. (Alive(u) /\ status[u] = "cancelled" => u \in work.kill)'
    BY <2>1, <2>2, <1>1, <1>2, <1>3, KindsAre, RowsAre DEF UncutFor, Alive, IInv, SInv, ACTIVE
  <2>5. (collected[u] /\ event[u] = "posted" => u \in work.settle \cup work.ack)'
    BY <2>1, <2>2, <1>2, <1>3, KindsAre, RowsAre, ParentsAre, DelegationAssumption DEF UncutFor,
       IInv, TInv, RowsTyped, RInv, RowFor
  <2> QED  BY <2>3, <2>4, <2>5 DEF UncutFor
<1> QED  BY <1>3, <1>4, <1>5, <1>6, <1>7, <1>8, <1>9, <1>10 DEF IInv, TInv

\* Who is not reached was dead before; a caller that kills itself leaves no work.
LEMMA KillKeeps == ASSUME IInv, holder # Nobody, Kill PROVE IInv'
<1>1. /\ \A u \in Task : proc'[u] = IF u \in Reached(work.kill) THEN "dead" ELSE proc[u]
      /\ \A u \in Task : monitor'[u] => monitor[u]
  BY DEF Kill, Dead, Gone, IInv, TInv, ProcessesTyped
<1>2. work.prune = {} /\ work.kill # {} /\ work.confirm = {}
  BY KindsAre DEF Kill, IInv, SInv
<1>3. /\ SectionTyped'
      /\ (\A k \in Kinds : work'[k] =
           IF k = "kill" \/ holder \in Reached(work.kill) THEN {} ELSE work[k])
      /\ holder' = holder \/ (holder' = Nobody /\ \A k \in Kinds : work'[k] = {})
  <2> DEFINE todo == IF holder \in Reached(work.kill) THEN Idle ELSE [work EXCEPT !.kill = {}]
  <2>1. /\ todo \in Todo
        /\ \A k \in Kinds :
             todo[k] = IF k = "kill" \/ holder \in Reached(work.kill) THEN {} ELSE work[k]
    BY KindsAre, WorkTyped DEF Idle, Todo
  <2>2. Goes(todo)
    BY DEF Kill, Done
  <2> HIDE DEF todo
  <2> QED  BY <2>1, <2>2, GoesOn
<1>4. RowsTyped' /\ EventsTyped' /\ BoundsTyped'
  BY Frames DEF Kill, registry, processes, calls, wake, bounds
<1>5. ProcessesTyped'
  BY DEF Kill, Dead, Gone, IInv, TInv, ProcessesTyped
<1>6. CallsTyped'
  BY DEF Kill, Dead, Gone, IInv, TInv, CallsTyped
<1>7. RInv'
  BY <1>1 DEF IInv, TInv, RowsTyped, Status, RInv, RowFor, Terminal, ACTIVE,
     TERMINAL_TASK_STATUSES, BoundsTyped, Reached, Alive, Kill, registry, wake, bounds
<1>8. CInv'
  BY DEF IInv, TInv, CallsTyped, RowsTyped, Status, CInv, Terminal, ACTIVE,
     TERMINAL_TASK_STATUSES, Kill, Dead, Gone, registry
<1>9. SInv'
  BY <1>1, <1>2, <1>3, KindsAre DEF IInv, TInv, RowsTyped, Status, SInv, Terminal, ACTIVE,
     TERMINAL_TASK_STATUSES, SectionTyped, Reached, Kill, registry, bounds
<1>10. EInv'
  BY <1>1 DEF IInv, TInv, RowsTyped, Status, EInv, EndFor, NoneLeft, Terminal, ACTIVE,
     TERMINAL_TASK_STATUSES, Kill, registry
<1>11. UInv'
  BY <1>1, <1>2, <1>3, KindsAre DEF IInv, TInv, RowsTyped, ProcessesTyped, BoundsTyped, Status,
     UInv, UncutFor, Alive, Terminal, ACTIVE, TERMINAL_TASK_STATUSES, SInv, SectionTyped, Reached,
     Kill, registry, wake, bounds
<1> QED  BY <1>3, <1>4, <1>5, <1>6, <1>7, <1>8, <1>9, <1>10, <1>11 DEF IInv, TInv

\* An event is posted with the status of its row, and settled in the same section.
LEMMA PostKeeps == ASSUME IInv, holder # Nobody, NEW t \in scope.tasks, Post(t) PROVE IInv'
<1>1. t \in work.post /\ work.prune = {} /\ work.kill = {} /\ work.settle = {}
  BY KindsAre DEF Post, Doing, Rank
<1>2. Parent[t] = Root /\ Terminal(t) /\ t \in Task
  BY <1>1, RowsAre DEF IInv, SInv
<1>3. /\ SectionTyped'
      /\ (\A k \in Kinds : work'[k] =
           IF k = "post" THEN work.post \ {t} ELSE IF k = "settle" THEN {t} ELSE work[k])
      /\ holder' = holder \/ (holder' = Nobody /\ \A k \in Kinds : work'[k] = {})
  <2> DEFINE todo == [Done("post", t) EXCEPT !.settle = {t}]
  <2>1. /\ todo \in Todo
        /\ \A k \in Kinds :
             todo[k] = IF k = "post" THEN work.post \ {t}
                       ELSE IF k = "settle" THEN {t}
                       ELSE work[k]
    BY KindsAre, WorkTyped, <1>1, RowsAre DEF Done, Todo, Idle
  <2>2. Goes(todo)
    BY DEF Post, Done
  <2> HIDE DEF todo
  <2> QED  BY <2>1, <2>2, GoesOn
<1>4. RowsTyped' /\ ProcessesTyped' /\ CallsTyped' /\ BoundsTyped' /\ CInv' /\ EInv'
  BY Frames DEF Post, registry, processes, calls, wake, bounds
<1>5. EventsTyped'
  BY RowsAre DEF Post, wake, IInv, TInv, EventsTyped, RowsTyped
<1>6. RInv'
  BY <1>2 DEF IInv, TInv, RowsTyped, Status, RInv, RowFor, Terminal, ACTIVE,
     TERMINAL_TASK_STATUSES, EventsTyped, Post, registry, processes, bounds
<1>7. SInv'
  BY <1>1, <1>2, <1>3, KindsAre DEF IInv, TInv, RowsTyped, Status, SInv, Terminal, ACTIVE,
     TERMINAL_TASK_STATUSES, SectionTyped, Post, registry, processes, bounds
<1>8. UInv'
  BY <1>1, <1>2, <1>3, KindsAre DEF IInv, TInv, RowsTyped, ProcessesTyped, BoundsTyped, Status,
     UInv, UncutFor, Alive, Terminal, ACTIVE, TERMINAL_TASK_STATUSES, EventsTyped, Post, registry,
     processes, bounds
<1> QED  BY <1>3, <1>4, <1>5, <1>6, <1>7, <1>8 DEF IInv, TInv

LEMMA SettleKeeps ==
    ASSUME IInv, holder # Nobody, NEW t \in scope.tasks, Settle(t)
    PROVE  IInv'
<1>1. t \in work.settle /\ work.prune = {} /\ work.kill = {}
  BY KindsAre DEF Settle, Doing, Rank
<1>2. /\ SectionTyped'
      /\ (\A k \in Kinds : work'[k] =
           IF k = "settle" THEN work.settle \ {t} ELSE work[k])
      /\ holder' = holder \/ (holder' = Nobody /\ \A k \in Kinds : work'[k] = {})
  <2> DEFINE todo == Done("settle", t)
  <2>1. /\ todo \in Todo
        /\ \A k \in Kinds :
             todo[k] = IF k = "settle" THEN work.settle \ {t} ELSE work[k]
    BY KindsAre, WorkTyped, <1>1, RowsAre DEF Done, Todo, Idle
  <2>2. Goes(todo)
    BY DEF Settle, Done
  <2> HIDE DEF todo
  <2> QED  BY <2>1, <2>2, GoesOn
<1>3. RowsTyped' /\ ProcessesTyped' /\ CallsTyped' /\ BoundsTyped' /\ CInv' /\ EInv'
  BY Frames DEF Settle, registry, processes, calls, wake, bounds
<1>4. EventsTyped'
  BY DEF Settle, Acknowledged, wake, IInv, TInv, EventsTyped
<1>5. RInv'
  BY DEF IInv, TInv, RowsTyped, Status, RInv, RowFor, Terminal, ACTIVE, TERMINAL_TASK_STATUSES,
     EventsTyped, Settle, Acknowledged, registry, processes, bounds
<1>6. SInv'
  BY <1>1, <1>2, KindsAre DEF IInv, TInv, RowsTyped, Status, SInv, Terminal, ACTIVE,
     TERMINAL_TASK_STATUSES, SectionTyped, Settle, registry, processes, bounds
<1>7. UInv'
  BY <1>1, <1>2, KindsAre DEF IInv, TInv, RowsTyped, ProcessesTyped, BoundsTyped, Status, UInv,
     UncutFor, Alive, Terminal, ACTIVE, TERMINAL_TASK_STATUSES, EventsTyped, Settle, Acknowledged,
     Settled, registry, processes, bounds
<1> QED  BY <1>2, <1>3, <1>4, <1>5, <1>6, <1>7 DEF IInv, TInv

LEMMA AckCollectedKeeps == ASSUME IInv, holder # Nobody, AckCollected PROVE IInv'
<1>1. /\ SectionTyped'
      /\ (\A k \in Kinds : work'[k] =
           IF k = "ack" THEN {} ELSE work[k])
      /\ holder' = holder \/ (holder' = Nobody /\ \A k \in Kinds : work'[k] = {})
  <2> DEFINE todo == [work EXCEPT !.ack = {}]
  <2>1. /\ todo \in Todo
        /\ \A k \in Kinds :
             todo[k] = IF k = "ack" THEN {} ELSE work[k]
    BY KindsAre, WorkTyped  DEF Todo
  <2>2. Goes(todo)
    BY DEF AckCollected, Done
  <2> HIDE DEF todo
  <2> QED  BY <2>1, <2>2, GoesOn
<1>2. RowsTyped' /\ ProcessesTyped' /\ CallsTyped' /\ BoundsTyped' /\ CInv' /\ EInv'
  BY Frames DEF AckCollected, registry, processes, calls, wake, bounds
<1>3. EventsTyped'
  BY DEF AckCollected, Acknowledged, wake, IInv, TInv, EventsTyped
<1>4. RInv'
  BY DEF IInv, TInv, RowsTyped, Status, RInv, RowFor, Terminal, ACTIVE, TERMINAL_TASK_STATUSES,
     EventsTyped, AckCollected, Acknowledged, registry, processes, bounds
<1>5. SInv'
  BY <1>1, KindsAre DEF IInv, TInv, RowsTyped, Status, SInv, Terminal, ACTIVE,
     TERMINAL_TASK_STATUSES, SectionTyped, AckCollected, registry, processes, bounds
<1>6. UInv'
  BY <1>1, KindsAre DEF IInv, TInv, RowsTyped, ProcessesTyped, BoundsTyped, Status, UInv,
     UncutFor, Alive, Terminal, ACTIVE, TERMINAL_TASK_STATUSES, EventsTyped, AckCollected,
     Acknowledged, registry, processes, bounds
<1> QED  BY <1>1, <1>2, <1>3, <1>4, <1>5, <1>6 DEF IInv, TInv

LEMMA LeaveRowKeeps ==
    ASSUME IInv, holder # Nobody, NEW t \in scope.tasks, LeaveRow(t)
    PROVE  IInv'
<1>1. /\ t \in work.check /\ work.prune = {} /\ work.kill = {} /\ work.settle = {}
      /\ work.post = {} /\ work.ack = {}
  BY KindsAre DEF LeaveRow, Doing, Rank
<1>2. /\ SectionTyped'
      /\ (\A k \in Kinds : work'[k] =
           IF k = "check" THEN work.check \ {t} ELSE work[k])
      /\ holder' = holder \/ (holder' = Nobody /\ \A k \in Kinds : work'[k] = {})
  <2> DEFINE todo == Done("check", t)
  <2>1. /\ todo \in Todo
        /\ \A k \in Kinds :
             todo[k] = IF k = "check" THEN work.check \ {t} ELSE work[k]
    BY KindsAre, WorkTyped, <1>1, RowsAre DEF Done, Todo, Idle
  <2>2. Goes(todo)
    BY DEF LeaveRow, Done
  <2> HIDE DEF todo
  <2> QED  BY <2>1, <2>2, GoesOn
<1>3. /\ RowsTyped' /\ ProcessesTyped' /\ CallsTyped' /\ EventsTyped' /\ BoundsTyped' /\ CInv'
      /\ EInv' /\ RInv'
  BY Frames DEF LeaveRow, registry, processes, calls, wake, bounds
<1>4. SInv'
  BY <1>1, <1>2, KindsAre DEF IInv, TInv, RowsTyped, Status, SInv, Terminal, ACTIVE,
     TERMINAL_TASK_STATUSES, SectionTyped, LeaveRow, registry, processes, bounds
<1>5. UInv'
  BY <1>1, <1>2, KindsAre DEF IInv, TInv, RowsTyped, ProcessesTyped, BoundsTyped, Status, UInv,
     UncutFor, Alive, Terminal, ACTIVE, TERMINAL_TASK_STATUSES, LeaveRow, registry, processes,
     wake, bounds
<1> QED  BY <1>2, <1>3, <1>4, <1>5 DEF IInv, TInv

\* A row found without a process fails; what it has left running goes to the kills.
LEMMA FailRowKeeps ==
    ASSUME IInv, holder # Nobody, NEW t \in scope.tasks, FailRow(t)
    PROVE  IInv'
<1>1. /\ t \in work.check /\ work.prune = {} /\ work.kill = {} /\ work.settle = {}
      /\ work.post = {} /\ work.ack = {}
  BY KindsAre DEF FailRow, Doing, Rank
<1>2. /\ \A u \in Task : status'[u] =
             IF status[u] \in ACTIVE /\ (u = t \/ Parent[u] = t)
             THEN IF u = t THEN "failed" ELSE "cancelled"
             ELSE status[u]
      /\ \A u \in Task :
             collected'[u] = (collected[u] \/ (status[u] # "none" /\ Parent[u] = t /\ u # t))
  BY Cancelling, RowsAre DEF FailRow
<1>3. t \in Task /\ Announced(t) \subseteq {t} /\ Subtree({t}) \subseteq Task
  BY RowsAre DEF Announced
<1>4. Terminal(t)'
  BY <1>1, <1>2, <1>3, RowsAre DEF IInv, TInv, RowsTyped, SInv, Status, Terminal, ACTIVE,
     TERMINAL_TASK_STATUSES
<1>5. /\ SectionTyped'
      /\ (\A k \in Kinds : work'[k] =
           IF k = "check" THEN work.check \ {t}
           ELSE IF k = "kill" THEN Subtree({t}) \cap active_rows
           ELSE IF k = "post" THEN Announced(t)
           ELSE work[k])
      /\ holder' = holder \/ (holder' = Nobody /\ \A k \in Kinds : work'[k] = {})
  <2> DEFINE todo == [Done("check", t) EXCEPT !.kill = Subtree({t}) \cap active_rows,
                                             !.post = Announced(t)]
  <2>1. /\ todo \in Todo
        /\ \A k \in Kinds :
             todo[k] = IF k = "check" THEN work.check \ {t}
                       ELSE IF k = "kill" THEN Subtree({t}) \cap active_rows
                       ELSE IF k = "post" THEN Announced(t)
                       ELSE work[k]
    BY KindsAre, WorkTyped, <1>1, <1>3 DEF Done, Todo, Idle
  <2>2. Goes(todo)
    BY DEF FailRow, Done
  <2> HIDE DEF todo
  <2> QED  BY <2>1, <2>2, GoesOn
<1>6. ProcessesTyped' /\ CallsTyped' /\ EventsTyped' /\ BoundsTyped'
  BY Frames DEF FailRow, registry, processes, calls, wake, bounds
<1>7. RowsTyped'
  BY RowsAre DEF FailRow, cancel_tree, IInv, TInv, RowsTyped, Status, ACTIVE,
     TERMINAL_TASK_STATUSES
<1>8. RInv'
  BY <1>2, RowsAre, ParentsAre, DelegationAssumption DEF IInv, TInv, RowsTyped, Status, RInv,
     RowFor, Terminal, ACTIVE, TERMINAL_TASK_STATUSES, FailRow, processes, wake, bounds
<1>9. CInv'
  BY <1>2 DEF IInv, TInv, CallsTyped, RowsTyped, Status, CInv, Terminal, ACTIVE,
     TERMINAL_TASK_STATUSES, FailRow, calls
<1>10. SInv'
  BY <1>1, <1>2, <1>4, <1>5, KindsAre, DelegationAssumption DEF IInv, TInv, RowsTyped, Status,
     SInv, Terminal, ACTIVE, TERMINAL_TASK_STATUSES, SectionTyped, Announced, FailRow, processes,
     bounds
<1>11. EInv'
  BY <1>2 DEF IInv, TInv, RowsTyped, Status, EInv, EndFor, NoneLeft, Terminal, ACTIVE,
     TERMINAL_TASK_STATUSES, FailRow, processes
<1>12. UInv'
  <2> SUFFICES ASSUME cuts = 0, NEW u \in Task PROVE UncutFor(u)'
    BY DEF UInv, FailRow, bounds
  <2>1. UncutFor(u)
    BY DEF IInv, UInv
  <2>2. proc' = proc /\ pid' = pid /\ event' = event
    BY DEF FailRow, processes, wake
  <2>3. (Alive(u) => pid[u] \/ u \in work.confirm)'
    BY <2>1, <2>2, <1>5, KindsAre DEF UncutFor, Alive
  <2>4. (Alive(u) /\ status[u] = "cancelled" => u \in work.kill)'
    BY <2>1, <2>2, <1>1, <1>2, <1>5, KindsAre, RowsAre DEF UncutFor, Alive, IInv, SInv, ACTIVE
  <2>5. (collected[u] /\ event[u] = "posted" => u \in work.settle \cup work.ack)'
    BY <2>1, <2>2, <1>2, <1>5, KindsAre, RowsAre, ParentsAre, DelegationAssumption DEF UncutFor,
       IInv, TInv, RowsTyped, RInv, RowFor
  <2> QED  BY <2>3, <2>4, <2>5 DEF UncutFor
<1> QED  BY <1>5, <1>6, <1>7, <1>8, <1>9, <1>10, <1>11, <1>12 DEF IInv, TInv

\* A batch_key used before launches nothing.
LEMMA ReplayKeeps == ASSUME IInv, holder # Nobody, NEW b \in Batch, Replay(b) PROVE IInv'
<1>1. /\ b \in work.reserve /\ work.prune = {} /\ work.kill = {} /\ work.settle = {}
      /\ work.post = {} /\ work.ack = {} /\ work.check = {}
  BY KindsAre DEF Replay, Doing, Rank
<1>2. /\ SectionTyped'
      /\ (\A k \in Kinds : work'[k] =
           IF k = "reserve" THEN work.reserve \ {b}
           ELSE IF k = "check" THEN Existing(b)
           ELSE work[k])
      /\ holder' = holder \/ (holder' = Nobody /\ \A k \in Kinds : work'[k] = {})
  <2> DEFINE todo == [Done("reserve", b) EXCEPT !.check = Existing(b)]
  <2>1. /\ todo \in Todo
        /\ \A k \in Kinds :
             todo[k] = IF k = "reserve" THEN work.reserve \ {b}
                       ELSE IF k = "check" THEN Existing(b)
                       ELSE work[k]
    BY KindsAre, WorkTyped, <1>1, RowsAre DEF Existing, Done, Todo, Idle
  <2>2. Goes(todo)
    BY DEF Replay, Done
  <2> HIDE DEF todo
  <2> QED  BY <2>1, <2>2, GoesOn
<1>3. /\ RowsTyped' /\ ProcessesTyped' /\ CallsTyped' /\ EventsTyped' /\ BoundsTyped' /\ CInv'
      /\ EInv' /\ RInv'
  BY Frames DEF Replay, registry, processes, calls, wake, bounds
<1>4. SInv'
  BY <1>1, <1>2, KindsAre, RowsAre DEF IInv, TInv, RowsTyped, Status, SInv, Terminal, ACTIVE,
     TERMINAL_TASK_STATUSES, SectionTyped, Existing, Replay, registry, processes, bounds
<1>5. UInv'
  BY <1>1, <1>2, KindsAre DEF IInv, TInv, RowsTyped, ProcessesTyped, BoundsTyped, Status, UInv,
     UncutFor, Alive, Terminal, ACTIVE, TERMINAL_TASK_STATUSES, Replay, registry, processes, wake,
     bounds
<1> QED  BY <1>2, <1>3, <1>4, <1>5 DEF IInv, TInv

LEMMA RefuseKeeps == ASSUME IInv, holder # Nobody, NEW b \in Batch, Refuse(b) PROVE IInv'
<1>1. /\ b \in work.reserve /\ work.prune = {} /\ work.kill = {} /\ work.settle = {}
      /\ work.post = {} /\ work.ack = {} /\ work.check = {}
  BY KindsAre DEF Refuse, Doing, Rank
<1>2. /\ SectionTyped'
      /\ (\A k \in Kinds : work'[k] =
           IF k = "reserve" THEN work.reserve \ {b} ELSE work[k])
      /\ holder' = holder \/ (holder' = Nobody /\ \A k \in Kinds : work'[k] = {})
  <2> DEFINE todo == Done("reserve", b)
  <2>1. /\ todo \in Todo
        /\ \A k \in Kinds :
             todo[k] = IF k = "reserve" THEN work.reserve \ {b} ELSE work[k]
    BY KindsAre, WorkTyped, <1>1 DEF Done, Todo, Idle
  <2>2. Goes(todo)
    BY DEF Refuse, Done
  <2> HIDE DEF todo
  <2> QED  BY <2>1, <2>2, GoesOn
<1>3. /\ RowsTyped' /\ ProcessesTyped' /\ CallsTyped' /\ EventsTyped' /\ BoundsTyped' /\ CInv'
      /\ EInv' /\ RInv'
  BY Frames DEF Refuse, registry, processes, calls, wake, bounds
<1>4. SInv'
  BY <1>1, <1>2, KindsAre DEF IInv, TInv, RowsTyped, Status, SInv, Terminal, ACTIVE,
     TERMINAL_TASK_STATUSES, SectionTyped, Refuse, registry, processes, bounds
<1>5. UInv'
  BY <1>1, <1>2, KindsAre DEF IInv, TInv, RowsTyped, ProcessesTyped, BoundsTyped, Status, UInv,
     UncutFor, Alive, Terminal, ACTIVE, TERMINAL_TASK_STATUSES, Refuse, registry, processes, wake,
     bounds
<1> QED  BY <1>2, <1>3, <1>4, <1>5 DEF IInv, TInv

\* New rows have no process, no event and no result yet.
LEMMA ReserveKeeps == ASSUME IInv, holder # Nobody, NEW b \in Batch, Reserve(b) PROVE IInv'
<1>1. /\ b \in work.reserve /\ work.prune = {} /\ work.kill = {} /\ work.settle = {}
      /\ work.post = {} /\ work.ack = {} /\ work.check = {}
  BY KindsAre DEF Reserve, Doing, Rank
<1>2. \A t \in Tasks(b) :
        /\ t \in Task /\ status[t] = "none" /\ t \in scope.tasks
        /\ Parent[t] = holder /\ (holder \in Task => proc[holder] = "working")
        /\ (Parent[t] # Root => status[Parent[t]] \in ACTIVE)
  BY <1>1, RowsAre DEF IInv, SInv, Reserve, Admits, Existing, Tasks
<1>3. status' = [u \in Task |-> IF u \in Tasks(b) THEN "queued" ELSE status[u]]
      /\ UNCHANGED <<collected, pid>>
  BY DEF Reserve
<1>4. /\ SectionTyped'
      /\ (\A k \in Kinds : work'[k] =
           IF k = "reserve" THEN work.reserve \ {b}
           ELSE IF k = "check" THEN Tasks(b)
           ELSE IF k = "launch" THEN Tasks(b)
           ELSE work[k])
      /\ holder' = holder \/ (holder' = Nobody /\ \A k \in Kinds : work'[k] = {})
  <2> DEFINE todo == [Done("reserve", b) EXCEPT !.check = Tasks(b), !.launch = Tasks(b)]
  <2>1. /\ todo \in Todo
        /\ \A k \in Kinds :
             todo[k] = IF k = "reserve" THEN work.reserve \ {b}
                       ELSE IF k = "check" THEN Tasks(b)
                       ELSE IF k = "launch" THEN Tasks(b)
                       ELSE work[k]
    BY KindsAre, WorkTyped, <1>1 DEF Done, Tasks, Todo, Idle
  <2>2. Goes(todo)
    BY DEF Reserve, Done
  <2> HIDE DEF todo
  <2> QED  BY <2>1, <2>2, GoesOn
<1>5. ProcessesTyped' /\ CallsTyped' /\ EventsTyped' /\ BoundsTyped'
  BY Frames DEF Reserve, registry, processes, calls, wake, bounds
<1>6. RowsTyped'
  BY <1>2, <1>3 DEF IInv, TInv, RowsTyped, Status, ACTIVE, TERMINAL_TASK_STATUSES
<1>7. RInv'
  BY <1>2, <1>3 DEF IInv, TInv, RowsTyped, Status, RInv, RowFor, Terminal, ACTIVE,
     TERMINAL_TASK_STATUSES, BoundsTyped, Reserve, processes, wake, bounds
<1>8. CInv'
  BY <1>2, <1>3 DEF IInv, TInv, CallsTyped, RowsTyped, Status, CInv, Terminal, ACTIVE,
     TERMINAL_TASK_STATUSES, Reserve, calls
<1>9. SInv'
  BY <1>1, <1>2, <1>3, <1>4, KindsAre DEF IInv, TInv, RowsTyped, Status, SInv, Terminal, ACTIVE,
     TERMINAL_TASK_STATUSES, RInv, RowFor, SectionTyped, Reserve, processes, bounds
<1>10. EInv'
  BY <1>2, <1>3, ParentsAre DEF IInv, TInv, RowsTyped, Status, EInv, EndFor, NoneLeft, Terminal,
     ACTIVE, TERMINAL_TASK_STATUSES, Reserve, processes
<1>11. UInv'
  BY <1>1, <1>2, <1>3, <1>4, KindsAre DEF IInv, TInv, RowsTyped, ProcessesTyped, BoundsTyped,
     Status, UInv, UncutFor, Alive, Terminal, ACTIVE, TERMINAL_TASK_STATUSES, Reserve, processes,
     wake, bounds
<1> QED  BY <1>4, <1>5, <1>6, <1>7, <1>8, <1>9, <1>10, <1>11 DEF IInv, TInv

\* The claim is what keeps a second launch from the row.
LEMMA claim_launchKeeps ==
    ASSUME IInv, holder # Nobody, NEW t \in scope.tasks, claim_launch(t)
    PROVE  IInv'
<1>1. /\ t \in work.launch /\ work.prune = {} /\ work.kill = {} /\ work.settle = {}
      /\ work.post = {} /\ work.ack = {} /\ work.check = {} /\ work.reserve = {}
      /\ work.confirm = {}
  BY KindsAre DEF claim_launch, Doing, Rank
<1>2. t \in Task
  BY RowsAre
<1>3. /\ SectionTyped'
      /\ \A k \in Kinds :
           \/ work'[k] = work[k] /\ holder' = holder
           \/ k = "launch" /\ work'[k] = work[k] \ {t} /\ holder' = holder
           \/ work'[k] = {} /\ holder' = Nobody
  <2>1. CASE status[t] = "queued"
    BY <2>1, Frames DEF claim_launch, section
  <2>2. CASE status[t] # "queued"
    <3> DEFINE todo == Done("launch", t)
    <3>1. todo \in Todo /\ \A k \in Kinds : todo[k] = IF k = "launch" THEN work.launch \ {t}
                                                      ELSE work[k]
    BY KindsAre, WorkTyped, <1>1 DEF Todo, Done
    <3>2. Goes(todo)
    BY <2>2 DEF claim_launch
    <3> HIDE DEF todo
    <3> QED
    BY <3>1, <3>2, GoesOn
  <2> QED  BY <2>1, <2>2
<1>4. \/ status[t] = "queued" /\ status' = [status EXCEPT ![t] = "starting"] /\ UNCHANGED section
      \/ status[t] # "queued" /\ UNCHANGED status
  BY DEF claim_launch
<1>5. ProcessesTyped' /\ CallsTyped' /\ EventsTyped' /\ BoundsTyped'
  BY Frames DEF claim_launch, registry, processes, calls, wake, bounds
<1>6. SectionTyped'
  BY <1>3
<1>7. RowsTyped'
  BY <1>2, <1>4 DEF claim_launch, IInv, TInv, RowsTyped, Status, ACTIVE, TERMINAL_TASK_STATUSES
<1>8. RInv'
  BY <1>2, <1>4 DEF IInv, TInv, RowsTyped, Status, RInv, RowFor, Terminal, ACTIVE,
     TERMINAL_TASK_STATUSES, claim_launch, processes, wake, bounds
<1>9. CInv'
  BY <1>2, <1>4 DEF IInv, TInv, CallsTyped, RowsTyped, Status, CInv, Terminal, ACTIVE,
     TERMINAL_TASK_STATUSES, claim_launch, calls
<1>10. SInv'
  BY <1>1, <1>2, <1>3, <1>4, KindsAre DEF IInv, TInv, RowsTyped, Status, SInv, Terminal, ACTIVE,
     TERMINAL_TASK_STATUSES, RInv, RowFor, SectionTyped, claim_launch, processes, bounds
<1>11. EInv'
  BY <1>2, <1>4 DEF IInv, TInv, RowsTyped, Status, EInv, EndFor, NoneLeft, Terminal, ACTIVE,
     TERMINAL_TASK_STATUSES, claim_launch, processes
<1>12. UInv'
  BY <1>1, <1>2, <1>3, <1>4, KindsAre DEF IInv, TInv, RowsTyped, ProcessesTyped, BoundsTyped,
     Status, UInv, UncutFor, Alive, Terminal, ACTIVE, TERMINAL_TASK_STATUSES, SectionTyped,
     claim_launch, processes, wake, bounds
<1> QED  BY <1>5, <1>6, <1>7, <1>8, <1>9, <1>10, <1>11, <1>12 DEF IInv, TInv

\* Only a claimed row whose launch has not begun gets a process.
LEMMA StartProcessKeeps ==
    ASSUME IInv, holder # Nobody, NEW t \in scope.tasks, StartProcess(t)
    PROVE  IInv'
<1>1. /\ t \in work.launch /\ work.prune = {} /\ work.kill = {} /\ work.settle = {}
      /\ work.post = {} /\ work.ack = {} /\ work.check = {} /\ work.reserve = {}
      /\ work.confirm = {}
  BY KindsAre DEF StartProcess, Doing, Rank
<1>2. t \in Task /\ status[t] = "starting" /\ launches[t] = 0 /\ proc[t] = "none"
  BY <1>1, RowsAre DEF StartProcess, IInv, SInv, RInv, RowFor
<1>3. proc' = [proc EXCEPT ![t] = "working"] /\ launches' = [launches EXCEPT ![t] = @ + 1]
  BY DEF StartProcess
<1>4. /\ SectionTyped'
      /\ (\A k \in Kinds : work'[k] =
           IF k = "launch" THEN work.launch \ {t} ELSE IF k = "confirm" THEN {t} ELSE work[k])
      /\ holder' = holder \/ (holder' = Nobody /\ \A k \in Kinds : work'[k] = {})
  <2> DEFINE todo == [Done("launch", t) EXCEPT !.confirm = {t}]
  <2>1. /\ todo \in Todo
        /\ \A k \in Kinds :
             todo[k] = IF k = "launch" THEN work.launch \ {t}
                       ELSE IF k = "confirm" THEN {t}
                       ELSE work[k]
    BY KindsAre, WorkTyped, <1>1, <1>2 DEF Done, Todo, Idle
  <2>2. Goes(todo)
    BY DEF StartProcess, Done
  <2> HIDE DEF todo
  <2> QED  BY <2>1, <2>2, GoesOn
<1>5. RowsTyped' /\ CallsTyped' /\ EventsTyped' /\ CInv'
  BY Frames DEF StartProcess, registry, processes, calls, wake, bounds
<1>6. ProcessesTyped'
  BY <1>2, <1>3 DEF StartProcess, IInv, TInv, ProcessesTyped
<1>7. BoundsTyped'
  BY <1>2, <1>3 DEF StartProcess, bounds, IInv, TInv, BoundsTyped
<1>8. RInv'
  BY <1>2, <1>3 DEF IInv, TInv, RowsTyped, Status, RInv, RowFor, Terminal, ACTIVE,
     TERMINAL_TASK_STATUSES, ProcessesTyped, BoundsTyped, StartProcess, registry, wake, bounds
<1>9. SInv'
  BY <1>1, <1>2, <1>3, <1>4, KindsAre DEF IInv, TInv, RowsTyped, Status, SInv, Terminal, ACTIVE,
     TERMINAL_TASK_STATUSES, BoundsTyped, ProcessesTyped, SectionTyped, StartProcess, registry,
     bounds
<1>10. EInv'
  BY <1>2, <1>3 DEF IInv, TInv, RowsTyped, Status, EInv, EndFor, NoneLeft, Terminal, ACTIVE,
     TERMINAL_TASK_STATUSES, ProcessesTyped, StartProcess, registry
<1>11. UInv'
  BY <1>1, <1>2, <1>3, <1>4, KindsAre DEF IInv, TInv, RowsTyped, ProcessesTyped, BoundsTyped,
     Status, UInv, UncutFor, Alive, Terminal, ACTIVE, TERMINAL_TASK_STATUSES, StartProcess,
     registry, wake, bounds
<1> QED  BY <1>4, <1>5, <1>6, <1>7, <1>8, <1>9, <1>10, <1>11 DEF IInv, TInv

\* The process whose pid nobody recorded is killed by the one who started it.
LEMMA StartFailsKeeps ==
    ASSUME IInv, holder # Nobody, NEW t \in scope.tasks, StartFails(t)
    PROVE  IInv'
<1>1. PICK stage \in {"launch", "confirm"} :
        Doing(stage, t) /\ Goes([Done(stage, t) EXCEPT !.post = Announced(t)])
  BY DEF StartFails
<1>2. /\ t \in work[stage]
      /\ \A k \in Kinds \ {"launch", "confirm", "show"} : work[k] = {}
      /\ stage = "launch" => work.confirm = {}
  BY <1>1, KindsAre DEF Doing, Rank
<1>3. t \in Task /\ status[t] = "starting" /\ Announced(t) \subseteq {t}
  BY RowsAre DEF StartFails, Announced
<1>4. \A u \in Task : status'[u] = IF u = t THEN "failed" ELSE status[u]
  BY <1>3 DEF StartFails, finish, ACTIVE, IInv, TInv, RowsTyped
<1>5. /\ \A u \in Task : proc'[u] = IF u \in {t} \cap work.confirm THEN "dead" ELSE proc[u]
      /\ \A u \in Task : monitor'[u] => monitor[u]
  BY DEF StartFails, Dead, Gone, IInv, TInv, ProcessesTyped
<1>6. /\ SectionTyped'
      /\ (\A k \in Kinds : work'[k] =
           IF k = "post" THEN Announced(t) ELSE IF k = stage THEN work[k] \ {t} ELSE work[k])
      /\ holder' = holder \/ (holder' = Nobody /\ \A k \in Kinds : work'[k] = {})
  <2> DEFINE todo == [Done(stage, t) EXCEPT !.post = Announced(t)]
  <2>1. /\ todo \in Todo
        /\ \A k \in Kinds :
             todo[k] = IF k = "post" THEN Announced(t)
                       ELSE IF k = stage THEN work[k] \ {t}
                       ELSE work[k]
    BY KindsAre, WorkTyped, <1>2, <1>3 DEF Done, Todo, Idle
  <2>2. Goes(todo)
    BY <1>1
  <2> HIDE DEF todo
  <2> QED  BY <2>1, <2>2, GoesOn
<1>7. EventsTyped' /\ BoundsTyped'
  BY Frames DEF StartFails, registry, processes, calls, wake, bounds
<1>8. RowsTyped'
  BY <1>3 DEF StartFails, finish, IInv, TInv, RowsTyped, Status, ACTIVE, TERMINAL_TASK_STATUSES
<1>9. ProcessesTyped'
  BY DEF StartFails, Dead, Gone, IInv, TInv, ProcessesTyped
<1>10. CallsTyped'
  BY DEF StartFails, Dead, Gone, IInv, TInv, CallsTyped
<1>11. RInv'
  BY <1>2, <1>3, <1>4, <1>5 DEF IInv, TInv, RowsTyped, Status, RInv, RowFor, Terminal, ACTIVE,
     TERMINAL_TASK_STATUSES, SInv, ProcessesTyped, BoundsTyped, StartFails, wake, bounds
<1>12. CInv'
  BY <1>3, <1>4 DEF IInv, TInv, CallsTyped, RowsTyped, Status, CInv, Terminal, ACTIVE,
     TERMINAL_TASK_STATUSES, StartFails, Dead, Gone
<1>13. SInv'
  BY <1>2, <1>3, <1>4, <1>5, <1>6, KindsAre, DelegationAssumption DEF IInv, TInv, RowsTyped,
     Status, SInv, Terminal, ACTIVE, TERMINAL_TASK_STATUSES, Announced, SectionTyped, StartFails,
     bounds
<1>14. EInv'
  BY <1>3, <1>4, <1>5 DEF IInv, TInv, RowsTyped, Status, EInv, EndFor, NoneLeft, Terminal, ACTIVE,
     TERMINAL_TASK_STATUSES, StartFails
<1>15. UInv'
  BY <1>2, <1>3, <1>4, <1>5, <1>6, KindsAre DEF IInv, TInv, RowsTyped, ProcessesTyped,
     BoundsTyped, Status, UInv, UncutFor, Alive, Terminal, ACTIVE, TERMINAL_TASK_STATUSES, RInv,
     RowFor, StartFails, wake, bounds
<1> QED  BY <1>6, <1>7, <1>8, <1>9, <1>10, <1>11, <1>12, <1>13, <1>14, <1>15 DEF IInv, TInv

\* From here on the process can be signalled by its pid.
LEMMA mark_runningKeeps ==
    ASSUME IInv, holder # Nobody, NEW t \in scope.tasks, mark_running(t)
    PROVE  IInv'
<1>1. /\ t \in work.confirm /\ work.prune = {} /\ work.kill = {} /\ work.settle = {}
      /\ work.post = {} /\ work.ack = {} /\ work.check = {} /\ work.reserve = {}
  BY KindsAre DEF mark_running, Doing, Rank
<1>2. t \in Task /\ status[t] = "starting"
  BY <1>1, RowsAre DEF IInv, SInv
<1>3. /\ status' = [status EXCEPT ![t] = "running"] /\ pid' = [pid EXCEPT ![t] = TRUE]
      /\ monitor' = [monitor EXCEPT ![t] = TRUE]
  BY DEF mark_running
<1>4. /\ SectionTyped'
      /\ (\A k \in Kinds : work'[k] =
           IF k = "confirm" THEN work.confirm \ {t} ELSE work[k])
      /\ holder' = holder \/ (holder' = Nobody /\ \A k \in Kinds : work'[k] = {})
  <2> DEFINE todo == Done("confirm", t)
  <2>1. /\ todo \in Todo
        /\ \A k \in Kinds :
             todo[k] = IF k = "confirm" THEN work.confirm \ {t} ELSE work[k]
    BY KindsAre, WorkTyped, <1>1, <1>2 DEF Done, Todo, Idle
  <2>2. Goes(todo)
    BY DEF mark_running, Done
  <2> HIDE DEF todo
  <2> QED  BY <2>1, <2>2, GoesOn
<1>5. CallsTyped' /\ EventsTyped' /\ BoundsTyped'
  BY Frames DEF mark_running, registry, processes, calls, wake, bounds
<1>6. RowsTyped'
  BY <1>2, <1>3 DEF mark_running, IInv, TInv, RowsTyped, Status, ACTIVE, TERMINAL_TASK_STATUSES
<1>7. ProcessesTyped'
  BY <1>2, <1>3 DEF mark_running, IInv, TInv, ProcessesTyped
<1>8. RInv'
  BY <1>2, <1>3 DEF IInv, TInv, RowsTyped, Status, RInv, RowFor, Terminal, ACTIVE,
     TERMINAL_TASK_STATUSES, ProcessesTyped, mark_running, wake, bounds
<1>9. CInv'
  BY <1>2, <1>3 DEF IInv, TInv, CallsTyped, RowsTyped, Status, CInv, Terminal, ACTIVE,
     TERMINAL_TASK_STATUSES, mark_running, calls
<1>10. SInv'
  BY <1>1, <1>2, <1>3, <1>4, KindsAre DEF IInv, TInv, RowsTyped, Status, SInv, Terminal, ACTIVE,
     TERMINAL_TASK_STATUSES, SectionTyped, mark_running, bounds
<1>11. EInv'
  BY <1>2, <1>3 DEF IInv, TInv, RowsTyped, Status, EInv, EndFor, NoneLeft, Terminal, ACTIVE,
     TERMINAL_TASK_STATUSES, mark_running
<1>12. UInv'
  BY <1>1, <1>2, <1>3, <1>4, KindsAre DEF IInv, TInv, RowsTyped, ProcessesTyped, BoundsTyped,
     Status, UInv, UncutFor, Alive, Terminal, ACTIVE, TERMINAL_TASK_STATUSES, mark_running, wake,
     bounds
<1> QED  BY <1>4, <1>5, <1>6, <1>7, <1>8, <1>9, <1>10, <1>11, <1>12 DEF IInv, TInv

\* What a poll shows as over is over: no terminal row becomes active again.
LEMMA TakeSnapshotKeeps == ASSUME IInv, holder # Nobody, TakeSnapshot PROVE IInv'
<1>1. work.show # {} /\ holder \in Caller /\ \A k \in Kinds \ {"show"} : work[k] = {}
  BY KindsAre, ParentsAre DEF TakeSnapshot, Doing, Rank, IInv, TInv, SectionTyped, SInv
<1>2. /\ awaiting' = [awaiting EXCEPT ![holder] = work.show]
      /\ shown' = [shown EXCEPT ![holder] = {t \in work.show : Terminal(t)}]
  BY DEF TakeSnapshot
<1>3. /\ SectionTyped'
      /\ (\A k \in Kinds : work'[k] =
           IF k = "show" THEN {} ELSE work[k])
      /\ holder' = holder \/ (holder' = Nobody /\ \A k \in Kinds : work'[k] = {})
  <2> DEFINE todo == [work EXCEPT !.show = {}]
  <2>1. /\ todo \in Todo
        /\ \A k \in Kinds :
             todo[k] = IF k = "show" THEN {} ELSE work[k]
    BY KindsAre, WorkTyped  DEF Todo
  <2>2. Goes(todo)
    BY DEF TakeSnapshot, Done
  <2> HIDE DEF todo
  <2> QED  BY <2>1, <2>2, GoesOn
<1>4. RowsTyped' /\ ProcessesTyped' /\ EventsTyped' /\ BoundsTyped' /\ EInv' /\ RInv'
  BY Frames DEF TakeSnapshot, registry, processes, calls, wake, bounds
<1>5. CallsTyped'
  BY <1>1, <1>2, KindsAre DEF IInv, TInv, CallsTyped, SectionTyped
<1>6. CInv'
  BY <1>1, <1>2, KindsAre DEF IInv, TInv, CallsTyped, RowsTyped, Status, CInv, Terminal, ACTIVE,
     TERMINAL_TASK_STATUSES, SInv, SectionTyped, TakeSnapshot, registry
<1>7. SInv'
  BY <1>1, <1>3, KindsAre DEF IInv, TInv, RowsTyped, Status, SInv, Terminal, ACTIVE,
     TERMINAL_TASK_STATUSES, SectionTyped, TakeSnapshot, registry, processes, bounds
<1>8. UInv'
  BY <1>1, <1>3, KindsAre DEF IInv, TInv, RowsTyped, ProcessesTyped, BoundsTyped, Status, UInv,
     UncutFor, Alive, Terminal, ACTIVE, TERMINAL_TASK_STATUSES, TakeSnapshot, registry, processes,
     wake, bounds
<1> QED  BY <1>3, <1>4, <1>5, <1>6, <1>7, <1>8 DEF IInv, TInv

LEMMA ConfigureToolsKeeps == ASSUME IInv, NEW p \in Caller, ConfigureTools(p) PROVE IInv'
<1>1. holder = Nobody /\ \A k \in Kinds : work[k] = {}
  BY KindsAre DEF ConfigureTools, Lock, IInv, TInv, SectionTyped
<1>2. /\ SectionTyped'
      /\ (\A k \in Kinds : work'[k] =
           IF k = "check" THEN active_rows ELSE {})
      /\ holder' = p \/ (holder' = Nobody /\ \A k \in Kinds : work'[k] = {})
  <2> DEFINE todo == [Idle EXCEPT !.check = active_rows]
  <2>1. /\ todo \in Todo
        /\ \A k \in Kinds :
             todo[k] = IF k = "check" THEN active_rows ELSE {}
    BY KindsAre, WorkTyped, RowsAre DEF Idle, Todo
  <2>2. Lock(p, todo)
    BY DEF ConfigureTools
  <2> HIDE DEF todo
  <2> QED  BY <2>1, <2>2, LockTaken, ParentsAre
<1>3. /\ RowsTyped' /\ ProcessesTyped' /\ CallsTyped' /\ EventsTyped' /\ BoundsTyped' /\ CInv'
      /\ EInv' /\ RInv'
  BY Frames DEF ConfigureTools, registry, processes, calls, wake, bounds
<1>4. SInv'
  BY <1>1, <1>2, KindsAre, RowsAre DEF IInv, TInv, RowsTyped, Status, SInv, Terminal, ACTIVE,
     TERMINAL_TASK_STATUSES, SectionTyped, ConfigureTools, ACTIVE, registry, processes, bounds
<1>5. UInv'
  BY <1>1, <1>2, KindsAre DEF IInv, TInv, RowsTyped, ProcessesTyped, BoundsTyped, Status, UInv,
     UncutFor, Alive, Terminal, ACTIVE, TERMINAL_TASK_STATUSES, ConfigureTools, registry,
     processes, wake, bounds
<1> QED  BY <1>2, <1>3, <1>4, <1>5 DEF IInv, TInv

LEMMA SpawnKeeps == ASSUME IInv, NEW p \in Caller, NEW b \in Batch, Spawn(p, b) PROVE IInv'
<1>1. holder = Nobody /\ \A k \in Kinds : work[k] = {}
  BY KindsAre DEF Spawn, Lock, IInv, TInv, SectionTyped
<1>2. /\ Tasks(b) \subseteq scope.tasks /\ \A t \in Tasks(b) : Parent[t] = p
      /\ p \in Task => proc[p] = "working"
  BY DelegationAssumption DEF Spawn, Tasks, CanCall
<1>3. /\ SectionTyped'
      /\ (\A k \in Kinds : work'[k] =
           IF k = "check" THEN active_rows ELSE IF k = "reserve" THEN {b} ELSE {})
      /\ holder' = p \/ (holder' = Nobody /\ \A k \in Kinds : work'[k] = {})
  <2> DEFINE todo == [Idle EXCEPT !.check = active_rows, !.reserve = {b}]
  <2>1. /\ todo \in Todo
        /\ \A k \in Kinds :
             todo[k] = IF k = "check" THEN active_rows ELSE IF k = "reserve" THEN {b} ELSE {}
    BY KindsAre, WorkTyped, RowsAre DEF Idle, Todo
  <2>2. Lock(p, todo)
    BY DEF Spawn
  <2> HIDE DEF todo
  <2> QED  BY <2>1, <2>2, LockTaken, ParentsAre
<1>4. /\ RowsTyped' /\ ProcessesTyped' /\ CallsTyped' /\ EventsTyped' /\ BoundsTyped' /\ CInv'
      /\ EInv' /\ RInv'
  BY Frames DEF Spawn, registry, processes, calls, wake, bounds
<1>5. SInv'
  BY <1>1, <1>3, <1>2, KindsAre, RowsAre DEF IInv, TInv, RowsTyped, Status, SInv, Terminal,
     ACTIVE, TERMINAL_TASK_STATUSES, SectionTyped, Spawn, registry, processes, bounds
<1>6. UInv'
  BY <1>1, <1>3, KindsAre DEF IInv, TInv, RowsTyped, ProcessesTyped, BoundsTyped, Status, UInv,
     UncutFor, Alive, Terminal, ACTIVE, TERMINAL_TASK_STATUSES, Spawn, registry, processes, wake,
     bounds
<1> QED  BY <1>3, <1>4, <1>5, <1>6 DEF IInv, TInv

LEMMA InspectTasksKeeps ==
    ASSUME IInv, NEW p \in Caller, NEW S \in SUBSET Direct(p) \ {{}}, InspectTasks(p, S)
    PROVE  IInv'
<1>1. holder = Nobody /\ \A k \in Kinds : work[k] = {}
  BY KindsAre DEF InspectTasks, Lock, IInv, TInv, SectionTyped
<1>2. S \subseteq Task /\ \A t \in S : Parent[t] = p /\ status[t] # "none"
  BY RowsAre DEF Direct
<1>3. /\ SectionTyped'
      /\ (\A k \in Kinds : work'[k] =
           IF k = "check" THEN S ELSE {})
      /\ holder' = p \/ (holder' = Nobody /\ \A k \in Kinds : work'[k] = {})
  <2> DEFINE todo == [Idle EXCEPT !.check = S]
  <2>1. /\ todo \in Todo
        /\ \A k \in Kinds :
             todo[k] = IF k = "check" THEN S ELSE {}
    BY KindsAre, WorkTyped, <1>2 DEF Idle, Todo
  <2>2. Lock(p, todo)
    BY DEF InspectTasks
  <2> HIDE DEF todo
  <2> QED  BY <2>1, <2>2, LockTaken, ParentsAre
<1>4. /\ RowsTyped' /\ ProcessesTyped' /\ CallsTyped' /\ EventsTyped' /\ BoundsTyped' /\ CInv'
      /\ EInv' /\ RInv'
  BY Frames DEF InspectTasks, registry, processes, calls, wake, bounds
<1>5. SInv'
  BY <1>1, <1>3, <1>2, KindsAre, RowsAre DEF IInv, TInv, RowsTyped, Status, SInv, Terminal,
     ACTIVE, TERMINAL_TASK_STATUSES, SectionTyped, InspectTasks, registry, processes, bounds
<1>6. UInv'
  BY <1>1, <1>3, KindsAre DEF IInv, TInv, RowsTyped, ProcessesTyped, BoundsTyped, Status, UInv,
     UncutFor, Alive, Terminal, ACTIVE, TERMINAL_TASK_STATUSES, InspectTasks, registry, processes,
     wake, bounds
<1> QED  BY <1>3, <1>4, <1>5, <1>6 DEF IInv, TInv

LEMMA AwaitPollsKeeps ==
    ASSUME IInv, NEW p \in Caller, NEW S \in SUBSET Direct(p) \ {{}}, AwaitPolls(p, S)
    PROVE  IInv'
<1>1. holder = Nobody /\ \A k \in Kinds : work[k] = {}
  BY KindsAre DEF AwaitPolls, Lock, IInv, TInv, SectionTyped
<1>2. S \subseteq Task /\ \A t \in S : Parent[t] = p /\ status[t] # "none"
  BY RowsAre DEF Direct
<1>3. /\ SectionTyped'
      /\ (\A k \in Kinds : work'[k] =
           IF k = "check" THEN S ELSE IF k = "show" THEN S ELSE {})
      /\ holder' = p \/ (holder' = Nobody /\ \A k \in Kinds : work'[k] = {})
  <2> DEFINE todo == [Idle EXCEPT !.check = S, !.show = S]
  <2>1. /\ todo \in Todo
        /\ \A k \in Kinds :
             todo[k] = IF k = "check" THEN S ELSE IF k = "show" THEN S ELSE {}
    BY KindsAre, WorkTyped, <1>2 DEF Idle, Todo
  <2>2. Lock(p, todo)
    BY DEF AwaitPolls
  <2> HIDE DEF todo
  <2> QED  BY <2>1, <2>2, LockTaken, ParentsAre
<1>4. /\ RowsTyped' /\ ProcessesTyped' /\ CallsTyped' /\ EventsTyped' /\ BoundsTyped' /\ CInv'
      /\ EInv' /\ RInv'
  BY Frames DEF AwaitPolls, registry, processes, calls, wake, bounds
<1>5. SInv'
  BY <1>1, <1>3, <1>2, KindsAre, RowsAre DEF IInv, TInv, RowsTyped, Status, SInv, Terminal,
     ACTIVE, TERMINAL_TASK_STATUSES, SectionTyped, AwaitPolls, registry, processes, bounds
<1>6. UInv'
  BY <1>1, <1>3, KindsAre DEF IInv, TInv, RowsTyped, ProcessesTyped, BoundsTyped, Status, UInv,
     UncutFor, Alive, Terminal, ACTIVE, TERMINAL_TASK_STATUSES, AwaitPolls, registry, processes,
     wake, bounds
<1> QED  BY <1>3, <1>4, <1>5, <1>6 DEF IInv, TInv

LEMMA RootStartsKeeps == ASSUME IInv, RootStarts PROVE IInv'
<1>1. holder = Nobody /\ \A k \in Kinds : work[k] = {}
  BY KindsAre DEF RootStarts, Lock, IInv, TInv, SectionTyped
<1>2. /\ SectionTyped'
      /\ (\A k \in Kinds : work'[k] =
           IF k = "check" THEN active_rows ELSE {})
      /\ holder' = Root \/ (holder' = Nobody /\ \A k \in Kinds : work'[k] = {})
  <2> DEFINE todo == [Idle EXCEPT !.check = active_rows]
  <2>1. /\ todo \in Todo
        /\ \A k \in Kinds :
             todo[k] = IF k = "check" THEN active_rows ELSE {}
    BY KindsAre, WorkTyped, RowsAre DEF Idle, Todo
  <2>2. Lock(Root, todo)
    BY DEF RootStarts
  <2> HIDE DEF todo
  <2> QED  BY <2>1, <2>2, LockTaken, ParentsAre DEF Caller
<1>3. RowsTyped' /\ CallsTyped' /\ EventsTyped' /\ BoundsTyped' /\ CInv' /\ EInv' /\ RInv'
  BY Frames DEF RootStarts, registry, processes, calls, wake, bounds
<1>4. ProcessesTyped'
  BY DEF RootStarts, IInv, TInv, ProcessesTyped
<1>5. SInv'
  BY <1>1, <1>2, KindsAre, RowsAre DEF IInv, TInv, RowsTyped, Status, SInv, Terminal, ACTIVE,
     TERMINAL_TASK_STATUSES, SectionTyped, RootStarts, ACTIVE, registry, processes, bounds
<1>6. UInv'
  BY <1>1, <1>2, KindsAre DEF IInv, TInv, RowsTyped, ProcessesTyped, BoundsTyped, Status, UInv,
     UncutFor, Alive, Terminal, ACTIVE, TERMINAL_TASK_STATUSES, RootStarts, registry, processes,
     wake, bounds
<1> QED  BY <1>2, <1>3, <1>4, <1>5, <1>6 DEF IInv, TInv

\* What is collected was shown, so the response holds the status of the row; its event is
\* acknowledged in the same section.
LEMMA AwaitReturnsKeeps == ASSUME IInv, NEW p \in Caller, AwaitReturns(p) PROVE IInv'
<1>1. holder = Nobody /\ \A k \in Kinds : work[k] = {}
  BY KindsAre DEF AwaitReturns, Lock, IInv, TInv, SectionTyped
<1>2. Collects(p) = shown[p] /\ \A t \in shown[p] : t \in Task /\ Parent[t] = p /\ Terminal(t)
  BY DEF Collects, IInv, TInv, CallsTyped, RowsTyped, Status, CInv, Terminal, ACTIVE,
     TERMINAL_TASK_STATUSES, AwaitReturns
<1>3. /\ \A u \in Task : collected'[u] = (collected[u] \/ u \in shown[p])
      /\ \A u \in Task : given'[u] =
             IF u \in shown[p]
             THEN [by |-> "await", status |-> status[u]]
             ELSE given[u]
  BY <1>2 DEF AwaitReturns
<1>4. /\ SectionTyped'
      /\ (\A k \in Kinds : work'[k] =
           IF k = "ack" THEN IF p = Root THEN Collects(p) ELSE {} ELSE {})
      /\ holder' = p \/ (holder' = Nobody /\ \A k \in Kinds : work'[k] = {})
  <2> DEFINE todo == [Idle EXCEPT !.ack = IF p = Root THEN Collects(p) ELSE {}]
  <2>1. /\ todo \in Todo
        /\ \A k \in Kinds :
             todo[k] = IF k = "ack" THEN IF p = Root THEN Collects(p) ELSE {} ELSE {}
    BY KindsAre, WorkTyped, <1>2 DEF Idle, Todo
  <2>2. Lock(p, todo)
    BY DEF AwaitReturns
  <2> HIDE DEF todo
  <2> QED  BY <2>1, <2>2, LockTaken, ParentsAre
<1>5. ProcessesTyped' /\ BoundsTyped'
  BY Frames DEF AwaitReturns, registry, processes, calls, wake, bounds
<1>6. RowsTyped'
  BY DEF AwaitReturns, IInv, TInv, RowsTyped, Status, ACTIVE, TERMINAL_TASK_STATUSES
<1>7. CallsTyped'
  BY DEF AwaitReturns, IInv, TInv, CallsTyped
<1>8. EventsTyped'
  BY DEF AwaitReturns, wake, IInv, TInv, EventsTyped, RowsTyped
<1>9. RInv'
  BY <1>2, <1>3 DEF IInv, TInv, RowsTyped, Status, RInv, RowFor, Terminal, ACTIVE,
     TERMINAL_TASK_STATUSES, AwaitReturns, processes, wake, bounds
<1>10. CInv'
  BY DEF IInv, TInv, CallsTyped, RowsTyped, Status, CInv, Terminal, ACTIVE,
     TERMINAL_TASK_STATUSES, AwaitReturns
<1>11. SInv'
  BY <1>1, <1>2, <1>4, KindsAre DEF IInv, TInv, RowsTyped, Status, SInv, Terminal, ACTIVE,
     TERMINAL_TASK_STATUSES, SectionTyped, AwaitReturns, processes, bounds
<1>12. EInv'
  BY <1>3 DEF IInv, TInv, RowsTyped, Status, EInv, EndFor, NoneLeft, Terminal, ACTIVE,
     TERMINAL_TASK_STATUSES, AwaitReturns, processes
<1>13. UInv'
  <2> SUFFICES ASSUME cuts = 0, NEW u \in Task PROVE UncutFor(u)'
    BY DEF UInv, AwaitReturns, bounds
  <2>1. UncutFor(u)
    BY DEF IInv, UInv
  <2>2. status' = status /\ proc' = proc /\ pid' = pid /\ event' = event
    BY DEF AwaitReturns, processes, wake
  <2>3. (Alive(u) => pid[u] \/ u \in work.confirm)'
    BY <2>1, <2>2, <1>1, <1>4, KindsAre DEF UncutFor, Alive
  <2>4. (Alive(u) /\ status[u] = "cancelled" => u \in work.kill)'
    BY <2>1, <2>2, <1>1, <1>4, KindsAre DEF UncutFor, Alive
  <2>5. (collected[u] /\ event[u] = "posted" => u \in work.settle \cup work.ack)'
    BY <2>1, <2>2, <1>1, <1>2, <1>3, <1>4, KindsAre DEF UncutFor, IInv, TInv, RowsTyped, RInv,
       RowFor
  <2> QED  BY <2>3, <2>4, <2>5 DEF UncutFor
<1> QED  BY <1>4, <1>5, <1>6, <1>7, <1>8, <1>9, <1>10, <1>11, <1>12, <1>13 DEF IInv, TInv

\* The response to a cancellation holds the statuses that it leaves.
LEMMA CancelTasksKeeps ==
    ASSUME IInv, NEW p \in Caller, NEW S \in SUBSET Direct(p) \ {{}}, CancelTasks(p, S)
    PROVE  IInv'
<1>1. holder = Nobody /\ \A k \in Kinds : work[k] = {}
  BY KindsAre DEF CancelTasks, Lock, IInv, TInv, SectionTyped
<1>2. S \subseteq Task /\ \A t \in S : Parent[t] = p /\ status[t] # "none"
  BY RowsAre DEF Direct
<1>3. /\ \A u \in Task : status'[u] =
             IF status[u] \in ACTIVE /\ (u \in S \/ Parent[u] \in S)
             THEN "cancelled"
             ELSE status[u]
      /\ \A u \in Task :
             collected'[u] = (collected[u] \/ (status[u] # "none" /\ (u \in S \/ Parent[u] \in S)))
  BY Cancelling, RowsAre DEF CancelTasks
<1>4. \A u \in Task : given'[u] =
          IF u \in S
          THEN [by |-> "cancel", status |-> status'[u]]
          ELSE given[u]
  BY DEF CancelTasks
<1>5. \A u \in S : Terminal(u)'
  BY <1>2, <1>3 DEF Terminal, IInv, TInv, RowsTyped, Status, ACTIVE, TERMINAL_TASK_STATUSES
<1>6. /\ SectionTyped'
      /\ (\A k \in Kinds : work'[k] =
           IF k = "kill" THEN Subtree(S) \cap active_rows
           ELSE IF k = "post" THEN (IF p = Root THEN RootTasks(Subtree(S) \cap active_rows) ELSE {})
           ELSE IF k = "ack" THEN (IF p = Root THEN RootTasks(S) ELSE {})
           ELSE {})
      /\ holder' = p \/ (holder' = Nobody /\ \A k \in Kinds : work'[k] = {})
  <2> DEFINE todo == [Idle EXCEPT !.kill = Subtree(S) \cap active_rows,
                             !.post = IF p = Root THEN RootTasks(Subtree(S) \cap active_rows) ELSE {},
                             !.ack = IF p = Root THEN RootTasks(S) ELSE {}]
  <2>1. /\ todo \in Todo
        /\ \A k \in Kinds :
             todo[k] = IF k = "kill" THEN Subtree(S) \cap active_rows
                       ELSE IF k = "post" THEN (IF p = Root THEN RootTasks(Subtree(S) \cap active_rows) ELSE {})
                       ELSE IF k = "ack" THEN (IF p = Root THEN RootTasks(S) ELSE {})
                       ELSE {}
    BY KindsAre, WorkTyped, <1>2, RowsAre DEF Idle, RootTasks, Todo, Idle
  <2>2. Lock(p, todo)
    BY DEF CancelTasks
  <2> HIDE DEF todo
  <2> QED  BY <2>1, <2>2, LockTaken, ParentsAre
<1>7. ProcessesTyped' /\ CallsTyped' /\ BoundsTyped'
  BY Frames DEF CancelTasks, registry, processes, calls, wake, bounds
<1>8. RowsTyped'
  BY RowsAre DEF CancelTasks, cancel_tree, IInv, TInv, RowsTyped, Status, ACTIVE,
     TERMINAL_TASK_STATUSES
<1>9. EventsTyped'
  BY <1>2, <1>8 DEF CancelTasks, wake, IInv, TInv, EventsTyped, RowsTyped
<1>10. RInv'
  BY <1>2, <1>3, <1>4, <1>5, <1>8, RowsAre, ParentsAre, DelegationAssumption DEF IInv, TInv,
     RowsTyped, Status, RInv, RowFor, Terminal, ACTIVE, TERMINAL_TASK_STATUSES, CancelTasks,
     processes, wake, bounds
<1>11. CInv'
  BY <1>3 DEF IInv, TInv, CallsTyped, RowsTyped, Status, CInv, Terminal, ACTIVE,
     TERMINAL_TASK_STATUSES, CancelTasks, calls
<1>12. SInv'
  BY <1>1, <1>2, <1>3, <1>5, <1>6, RowsAre, KindsAre, DelegationAssumption DEF IInv, TInv,
     RowsTyped, Status, SInv, Terminal, ACTIVE, TERMINAL_TASK_STATUSES, SectionTyped, RootTasks,
     CancelTasks, processes, bounds
<1>13. EInv'
  BY <1>3 DEF IInv, TInv, RowsTyped, Status, EInv, EndFor, NoneLeft, Terminal, ACTIVE,
     TERMINAL_TASK_STATUSES, CancelTasks, processes
<1>14. UInv'
  <2> SUFFICES ASSUME cuts = 0, NEW u \in Task PROVE UncutFor(u)'
    BY DEF UInv, CancelTasks, bounds
  <2>1. UncutFor(u)
    BY DEF IInv, UInv
  <2>2. proc' = proc /\ pid' = pid /\ event' = event
    BY DEF CancelTasks, processes, wake
  <2>3. (Alive(u) => pid[u] \/ u \in work.confirm)'
    BY <2>1, <2>2, <1>1, <1>6, KindsAre DEF UncutFor, Alive
  <2>4. (Alive(u) /\ status[u] = "cancelled" => u \in work.kill)'
    BY <2>1, <2>2, <1>1, <1>3, <1>6, KindsAre, RowsAre DEF UncutFor, Alive, ACTIVE
  <2>5. (collected[u] /\ event[u] = "posted" => u \in work.settle \cup work.ack)'
    BY <2>1, <2>2, <1>1, <1>2, <1>3, <1>6, KindsAre, RowsAre, ParentsAre, DelegationAssumption DEF
       UncutFor, IInv, TInv, RowsTyped, RInv, RowFor, RootTasks
  <2> QED  BY <2>3, <2>4, <2>5 DEF UncutFor
<1> QED  BY <1>6, <1>7, <1>8, <1>9, <1>10, <1>11, <1>12, <1>13, <1>14 DEF IInv, TInv

LEMMA WorkEndsKeeps == ASSUME IInv, NEW t \in scope.tasks, WorkEnds(t) PROVE IInv'
<1>1. SectionTyped' /\ RowsTyped' /\ CallsTyped' /\ EventsTyped' /\ BoundsTyped' /\ CInv'
  BY Frames DEF WorkEnds, registry, processes, calls, wake, bounds, section
<1>2. ProcessesTyped'
  BY DEF WorkEnds, Step, IInv, TInv, ProcessesTyped
<1>3. RInv'
  BY RowsAre DEF IInv, TInv, RowsTyped, Status, RInv, RowFor, Terminal, ACTIVE,
     TERMINAL_TASK_STATUSES, ProcessesTyped, EventsTyped, WorkEnds, Step, registry, wake, bounds
<1>4. SInv'
  BY RowsAre, DelegationAssumption DEF IInv, TInv, RowsTyped, Status, SInv, Terminal, ACTIVE,
     TERMINAL_TASK_STATUSES, SectionTyped, ProcessesTyped, WorkEnds, Step, section, registry,
     wake, bounds
<1>5. EInv'
  BY RowsAre DEF IInv, TInv, RowsTyped, Status, EInv, EndFor, NoneLeft, Terminal, ACTIVE,
     TERMINAL_TASK_STATUSES, ProcessesTyped, WorkEnds, Step, registry, wake, bounds
<1>6. UInv'
  BY RowsAre DEF IInv, TInv, RowsTyped, ProcessesTyped, BoundsTyped, Status, UInv, UncutFor,
     Alive, Terminal, ACTIVE, TERMINAL_TASK_STATUSES, WorkEnds, Step, section, registry, wake,
     bounds
<1> QED  BY <1>1, <1>2, <1>3, <1>4, <1>5, <1>6 DEF IInv, TInv

LEMMA WorkRaisesKeeps == ASSUME IInv, NEW t \in scope.tasks, WorkRaises(t) PROVE IInv'
<1>1. SectionTyped' /\ RowsTyped' /\ CallsTyped' /\ EventsTyped' /\ BoundsTyped' /\ CInv'
  BY Frames DEF WorkRaises, registry, processes, calls, wake, bounds, section
<1>2. ProcessesTyped'
  BY DEF WorkRaises, Step, IInv, TInv, ProcessesTyped
<1>3. RInv'
  BY RowsAre DEF IInv, TInv, RowsTyped, Status, RInv, RowFor, Terminal, ACTIVE,
     TERMINAL_TASK_STATUSES, ProcessesTyped, EventsTyped, WorkRaises, Step, registry, wake, bounds
<1>4. SInv'
  BY RowsAre, DelegationAssumption DEF IInv, TInv, RowsTyped, Status, SInv, Terminal, ACTIVE,
     TERMINAL_TASK_STATUSES, SectionTyped, ProcessesTyped, WorkRaises, Step, section, registry,
     wake, bounds
<1>5. EInv'
  BY RowsAre DEF IInv, TInv, RowsTyped, Status, EInv, EndFor, NoneLeft, Terminal, ACTIVE,
     TERMINAL_TASK_STATUSES, ProcessesTyped, WorkRaises, Step, registry, wake, bounds
<1>6. UInv'
  BY RowsAre DEF IInv, TInv, RowsTyped, ProcessesTyped, BoundsTyped, Status, UInv, UncutFor,
     Alive, Terminal, ACTIVE, TERMINAL_TASK_STATUSES, WorkRaises, Step, section, registry, wake,
     bounds
<1> QED  BY <1>1, <1>2, <1>3, <1>4, <1>5, <1>6 DEF IInv, TInv

LEMMA ExitKeeps == ASSUME IInv, NEW t \in scope.tasks, Exit(t) PROVE IInv'
<1>1. SectionTyped' /\ RowsTyped' /\ EventsTyped' /\ BoundsTyped'
  BY Frames DEF Exit, registry, processes, calls, wake, bounds, section
<1>2. ProcessesTyped'
  BY DEF Exit, Step, Gone, IInv, TInv, ProcessesTyped
<1>3. CallsTyped'
  BY DEF Exit, Step, Gone, IInv, TInv, CallsTyped
<1>4. RInv'
  BY RowsAre DEF IInv, TInv, RowsTyped, Status, RInv, RowFor, Terminal, ACTIVE,
     TERMINAL_TASK_STATUSES, ProcessesTyped, EventsTyped, Exit, Step, Gone, registry, wake, bounds
<1>5. CInv'
  BY DEF IInv, TInv, CallsTyped, RowsTyped, Status, CInv, Terminal, ACTIVE,
     TERMINAL_TASK_STATUSES, Exit, Step, Gone, registry
<1>6. SInv'
  BY RowsAre, DelegationAssumption DEF IInv, TInv, RowsTyped, Status, SInv, Terminal, ACTIVE,
     TERMINAL_TASK_STATUSES, SectionTyped, ProcessesTyped, Exit, Step, Gone, section, registry,
     wake, bounds
<1>7. EInv'
  BY RowsAre DEF IInv, TInv, RowsTyped, Status, EInv, EndFor, NoneLeft, Terminal, ACTIVE,
     TERMINAL_TASK_STATUSES, ProcessesTyped, Exit, Step, Gone, registry, wake, bounds
<1>8. UInv'
  BY RowsAre DEF IInv, TInv, RowsTyped, ProcessesTyped, BoundsTyped, Status, UInv, UncutFor,
     Alive, Terminal, ACTIVE, TERMINAL_TASK_STATUSES, Exit, Step, Gone, section, registry, wake,
     bounds
<1> QED  BY <1>1, <1>2, <1>3, <1>4, <1>5, <1>6, <1>7, <1>8 DEF IInv, TInv

LEMMA ExpireKeeps == ASSUME IInv, NEW t \in scope.tasks, Expire(t) PROVE IInv'
<1>1. /\ SectionTyped' /\ RowsTyped' /\ CallsTyped' /\ EventsTyped' /\ BoundsTyped' /\ RInv'
      /\ CInv' /\ EInv'
  BY Frames DEF Expire, registry, processes, calls, wake, bounds, section
<1>2. ProcessesTyped'
  BY DEF Expire, processes, IInv, TInv, ProcessesTyped
<1>3. SInv'
  BY RowsAre, DelegationAssumption DEF IInv, TInv, RowsTyped, Status, SInv, Terminal, ACTIVE,
     TERMINAL_TASK_STATUSES, SectionTyped, ProcessesTyped, Expire, processes, section, registry,
     wake, bounds
<1>4. UInv'
  BY RowsAre DEF IInv, TInv, RowsTyped, ProcessesTyped, BoundsTyped, Status, UInv, UncutFor,
     Alive, Terminal, ACTIVE, TERMINAL_TASK_STATUSES, Expire, processes, section, registry, wake,
     bounds
<1> QED  BY <1>1, <1>2, <1>3, <1>4 DEF IInv, TInv

LEMMA RootReadyKeeps == ASSUME IInv, RootReady PROVE IInv'
<1>1. /\ SectionTyped' /\ RowsTyped' /\ CallsTyped' /\ EventsTyped' /\ BoundsTyped' /\ RInv'
      /\ CInv' /\ EInv'
  BY Frames DEF RootReady, registry, processes, calls, wake, bounds, section
<1>2. ProcessesTyped'
  BY DEF RootReady, processes, IInv, TInv, ProcessesTyped
<1>3. SInv'
  BY RowsAre, DelegationAssumption DEF IInv, TInv, RowsTyped, Status, SInv, Terminal, ACTIVE,
     TERMINAL_TASK_STATUSES, SectionTyped, ProcessesTyped, RootReady, processes, section,
     registry, wake, bounds
<1>4. UInv'
  BY RowsAre DEF IInv, TInv, RowsTyped, ProcessesTyped, BoundsTyped, Status, UInv, UncutFor,
     Alive, Terminal, ACTIVE, TERMINAL_TASK_STATUSES, RootReady, processes, section, registry,
     wake, bounds
<1> QED  BY <1>1, <1>2, <1>3, <1>4 DEF IInv, TInv

LEMMA TransferEventKeeps == ASSUME IInv, NEW t \in scope.tasks, TransferEvent(t) PROVE IInv'
<1>1. /\ SectionTyped' /\ RowsTyped' /\ ProcessesTyped' /\ CallsTyped' /\ BoundsTyped'
      /\ CInv' /\ EInv'
  BY Frames DEF TransferEvent, registry, processes, calls, wake, bounds, section
<1>2. EventsTyped'
  BY DEF TransferEvent, processes, wake, IInv, TInv, EventsTyped
<1>3. RInv'
  BY RowsAre DEF IInv, TInv, RowsTyped, Status, RInv, RowFor, Terminal, ACTIVE,
     TERMINAL_TASK_STATUSES, ProcessesTyped, EventsTyped, TransferEvent, processes, registry,
     wake, bounds
<1>4. SInv'
  BY RowsAre, DelegationAssumption DEF IInv, TInv, RowsTyped, Status, SInv, Terminal, ACTIVE,
     TERMINAL_TASK_STATUSES, SectionTyped, ProcessesTyped, TransferEvent, processes, section,
     registry, wake, bounds
<1>5. UInv'
  BY RowsAre DEF IInv, TInv, RowsTyped, ProcessesTyped, BoundsTyped, Status, UInv, UncutFor,
     Alive, Terminal, ACTIVE, TERMINAL_TASK_STATUSES, TransferEvent, processes, section, registry,
     wake, bounds
<1> QED  BY <1>1, <1>2, <1>3, <1>4, <1>5 DEF IInv, TInv

LEMMA HearEventKeeps == ASSUME IInv, NEW t \in scope.tasks, HearEvent(t) PROVE IInv'
<1>1. /\ SectionTyped' /\ RowsTyped' /\ ProcessesTyped' /\ CallsTyped' /\ BoundsTyped'
      /\ CInv' /\ EInv' /\ RInv'
  BY Frames DEF HearEvent, registry, processes, calls, wake, bounds, section
<1>2. EventsTyped'
  BY DEF HearEvent, processes, wake, IInv, TInv, EventsTyped
<1>3. SInv'
  BY RowsAre, DelegationAssumption DEF IInv, TInv, RowsTyped, Status, SInv, Terminal, ACTIVE,
     TERMINAL_TASK_STATUSES, SectionTyped, ProcessesTyped, HearEvent, processes, section,
     registry, wake, bounds
<1>4. UInv'
  BY RowsAre DEF IInv, TInv, RowsTyped, ProcessesTyped, BoundsTyped, Status, UInv, UncutFor,
     Alive, Terminal, ACTIVE, TERMINAL_TASK_STATUSES, HearEvent, processes, section, registry,
     wake, bounds
<1> QED  BY <1>1, <1>2, <1>3, <1>4 DEF IInv, TInv

\* A child records the outcome it ends with; a cancellation that came first stays.
LEMMA RecordResultKeeps ==
    ASSUME IInv, NEW t \in scope.tasks, 
           NEW from, NEW to,
           <<from, to>> \in {<<"raised", "detach">>, <<"detached", "record">>, <<"record", "exiting">>},
           RecordResult(t, from, to)
    PROVE  IInv'
<1>1. holder = Nobody /\ \A k \in Kinds : work[k] = {}
  BY KindsAre DEF RecordResult, Lock, IInv, TInv, SectionTyped
<1>2. /\ t \in Task /\ proc[t] = from /\ proc' = [proc EXCEPT ![t] = to]
      /\ \/ from = "raised" /\ to = "detach"
         \/ from = "detached" /\ to = "record"
         \/ from = "record" /\ to = "exiting"
      /\ ending[t] \in {"finished", "failed"}
  BY RowsAre DEF RecordResult, Step, IInv, TInv, ProcessesTyped
<1>3. status[t] \notin {"none", "queued"}
  BY <1>2 DEF IInv, RInv, RowFor
<1>4. \A u \in Task : status'[u] = IF u = t /\ status[t] \in ACTIVE THEN ending[t] ELSE status[u]
  BY <1>2 DEF RecordResult, finish, IInv, TInv, RowsTyped
<1>5. Terminal(t)'
  BY <1>2, <1>3, <1>4 DEF Terminal, IInv, TInv, RowsTyped, Status, ACTIVE, TERMINAL_TASK_STATUSES
<1>6. /\ SectionTyped'
      /\ (\A k \in Kinds : work'[k] =
           IF k = "post" THEN RootTasks({t}) ELSE {})
      /\ holder' = t \/ (holder' = Nobody /\ \A k \in Kinds : work'[k] = {})
  <2> DEFINE todo == [Idle EXCEPT !.post = RootTasks({t})]
  <2>1. /\ todo \in Todo
        /\ \A k \in Kinds :
             todo[k] = IF k = "post" THEN RootTasks({t}) ELSE {}
    BY KindsAre, WorkTyped, <1>2 DEF Idle, RootTasks, Todo, Idle
  <2>2. Lock(t, todo)
    BY DEF RecordResult
  <2> HIDE DEF todo
  <2> QED  BY <2>1, <2>2, LockTaken, ParentsAre, <1>2
<1>7. CallsTyped' /\ EventsTyped' /\ BoundsTyped'
  BY Frames DEF RecordResult, registry, processes, calls, wake, bounds
<1>8. RowsTyped'
  BY <1>2, <1>3 DEF RecordResult, finish, IInv, TInv, RowsTyped, Status, ACTIVE,
     TERMINAL_TASK_STATUSES
<1>9. ProcessesTyped'
  BY <1>2 DEF RecordResult, IInv, TInv, ProcessesTyped
<1>10. RInv'
  BY <1>2, <1>3, <1>4, <1>5 DEF IInv, TInv, RowsTyped, Status, RInv, RowFor, Terminal, ACTIVE,
     TERMINAL_TASK_STATUSES, ProcessesTyped, RecordResult, wake, bounds
<1>11. CInv'
  BY <1>2, <1>4, <1>5 DEF IInv, TInv, CallsTyped, RowsTyped, Status, CInv, Terminal, ACTIVE,
     TERMINAL_TASK_STATUSES, RecordResult, calls
<1>12. SInv'
  BY <1>1, <1>2, <1>4, <1>5, <1>6, KindsAre DEF IInv, TInv, RowsTyped, Status, SInv, Terminal,
     ACTIVE, TERMINAL_TASK_STATUSES, RootTasks, SectionTyped, RecordResult, bounds
<1>13. EInv'
  BY <1>2, <1>4, <1>5 DEF IInv, TInv, RowsTyped, Status, EInv, EndFor, NoneLeft, Terminal, ACTIVE,
     TERMINAL_TASK_STATUSES, ProcessesTyped, RecordResult
<1>14. UInv'
  BY <1>1, <1>2, <1>4, <1>6, KindsAre DEF IInv, TInv, RowsTyped, ProcessesTyped, BoundsTyped,
     Status, UInv, UncutFor, Alive, Terminal, ACTIVE, TERMINAL_TASK_STATUSES, RecordResult, wake,
     bounds
<1> QED  BY <1>6, <1>7, <1>8, <1>9, <1>10, <1>11, <1>12, <1>13, <1>14 DEF IInv, TInv

\* The monitor records what the process can no longer record.
LEMMA MonitorCompletesKeeps ==
    ASSUME IInv, NEW t \in scope.tasks, MonitorCompletes(t)
    PROVE  IInv'
<1>1. holder = Nobody /\ \A k \in Kinds : work[k] = {}
  BY KindsAre DEF MonitorCompletes, Lock, IInv, TInv, SectionTyped
<1>2. /\ t \in Task /\ Parent[t] \in Caller /\ RootTasks({t}) \subseteq {t}
  BY RowsAre, ParentsAre DEF RootTasks
<1>3. monitor[t] /\ status[t] \notin {"none", "queued", "starting"}
  BY <1>2 DEF MonitorCompletes, RInv, RowFor, IInv, TInv, RowsTyped, Status, ACTIVE,
     TERMINAL_TASK_STATUSES
<1>4. \A u \in Task : status'[u] = IF u = t /\ status[t] \in ACTIVE
           THEN IF proc[t] = "done" /\ ending[t] = "finished" THEN "finished" ELSE "failed" ELSE status[u]
  BY <1>2 DEF MonitorCompletes, finish, IInv, TInv, RowsTyped
<1>5. Terminal(t)'
  BY <1>2, <1>3, <1>4 DEF Terminal, IInv, TInv, RowsTyped, Status, ACTIVE, TERMINAL_TASK_STATUSES
<1>6. monitor' = [monitor EXCEPT ![t] = FALSE]
  BY DEF MonitorCompletes
<1>7. PICK pruned \in SUBSET {t} :
        pruned = IF proc[t] = "done" /\ ending[t] = "finished" THEN {} ELSE {t}
  OBVIOUS
<1>8. /\ SectionTyped'
      /\ (\A k \in Kinds : work'[k] =
           IF k = "prune" THEN pruned ELSE IF k = "post" THEN RootTasks({t}) ELSE {})
      /\ holder' = Parent[t] \/ (holder' = Nobody /\ \A k \in Kinds : work'[k] = {})
  <2> DEFINE todo == [Idle EXCEPT !.prune = pruned,
                             !.post = RootTasks({t})]
  <2>1. /\ todo \in Todo
        /\ \A k \in Kinds :
             todo[k] = IF k = "prune" THEN pruned ELSE IF k = "post" THEN RootTasks({t}) ELSE {}
    BY KindsAre, WorkTyped, <1>2 DEF Idle, Todo
  <2>2. Lock(Parent[t], todo)
    BY <1>7 DEF MonitorCompletes, CompletionEvent, PrunedAfter
  <2> HIDE DEF todo
  <2> QED  BY <2>1, <2>2, LockTaken, ParentsAre, <1>2
<1>9. CallsTyped' /\ EventsTyped' /\ BoundsTyped'
  BY Frames DEF MonitorCompletes, registry, processes, calls, wake, bounds
<1>10. RowsTyped'
  BY <1>2, <1>3 DEF MonitorCompletes, finish, IInv, TInv, RowsTyped, Status, ACTIVE,
     TERMINAL_TASK_STATUSES
<1>11. ProcessesTyped'
  BY <1>2, <1>6 DEF MonitorCompletes, IInv, TInv, ProcessesTyped
<1>12. RInv'
  BY <1>2, <1>3, <1>4, <1>5, <1>6 DEF IInv, TInv, RowsTyped, Status, RInv, RowFor, Terminal,
     ACTIVE, TERMINAL_TASK_STATUSES, ProcessesTyped, MonitorCompletes, wake, bounds
<1>13. CInv'
  BY <1>2, <1>4, <1>5 DEF IInv, TInv, CallsTyped, RowsTyped, Status, CInv, Terminal, ACTIVE,
     TERMINAL_TASK_STATUSES, MonitorCompletes, calls
<1>14. SInv'
  BY <1>1, <1>2, <1>4, <1>5, <1>8, KindsAre, ParentsAre DEF IInv, TInv, RowsTyped, Status, SInv,
     Terminal, ACTIVE, TERMINAL_TASK_STATUSES, RootTasks, SectionTyped, MonitorCompletes, bounds
<1>15. EInv'
  BY <1>2, <1>4, <1>5 DEF IInv, TInv, RowsTyped, Status, EInv, EndFor, NoneLeft, Terminal, ACTIVE,
     TERMINAL_TASK_STATUSES, ProcessesTyped, MonitorCompletes
<1>16. UInv'
  BY <1>1, <1>2, <1>4, <1>8, KindsAre DEF IInv, TInv, RowsTyped, ProcessesTyped, BoundsTyped,
     Status, UInv, UncutFor, Alive, Terminal, ACTIVE, TERMINAL_TASK_STATUSES, MonitorCompletes,
     wake, bounds
<1> QED  BY <1>8, <1>9, <1>10, <1>11, <1>12, <1>13, <1>14, <1>15, <1>16 DEF IInv, TInv

LEMMA MonitorTimesOutKeeps ==
    ASSUME IInv, NEW t \in scope.tasks, MonitorTimesOut(t)
    PROVE  IInv'
<1>1. /\ SectionTyped' /\ cuts' \in Nat
      /\ \/ holder # t /\ holder' = holder /\ work' = work /\ cuts' = cuts
         \/ holder = t /\ holder' = Nobody /\ (\A k \in Kinds : work'[k] = {}) /\ cuts' # 0
  BY Cutting DEF MonitorTimesOut
<1>2. t \in Task /\ Alive(t) /\ proc' = [proc EXCEPT ![t] = "dead"]
  BY RowsAre DEF MonitorTimesOut, Dead, IInv, TInv, ProcessesTyped
<1>3. /\ UNCHANGED <<registry, ending, launches, event, told, given, scope>>
      /\ \A u \in Task : monitor'[u] => monitor[u]
  BY DEF MonitorTimesOut, Dead, Gone, wake, IInv, TInv, ProcessesTyped
<1>4. RowsTyped' /\ EventsTyped'
  BY Frames DEF MonitorTimesOut, registry, processes, calls, wake, bounds
<1>5. SectionTyped'
  BY <1>1
<1>6. ProcessesTyped'
  BY <1>2 DEF MonitorTimesOut, Dead, Gone, IInv, TInv, ProcessesTyped
<1>7. CallsTyped'
  BY DEF MonitorTimesOut, Dead, Gone, IInv, TInv, CallsTyped
<1>8. BoundsTyped'
  BY <1>1 DEF MonitorTimesOut, Cut, IInv, TInv, BoundsTyped
<1>9. RInv'
  BY <1>2, <1>3 DEF IInv, TInv, RowsTyped, Status, RInv, RowFor, Terminal, ACTIVE,
     TERMINAL_TASK_STATUSES, Alive, ProcessesTyped, BoundsTyped, registry
<1>10. CInv'
  BY DEF IInv, TInv, CallsTyped, RowsTyped, Status, CInv, Terminal, ACTIVE,
     TERMINAL_TASK_STATUSES, MonitorTimesOut, Dead, Gone, registry
<1>11. SInv'
  BY <1>1, <1>2, <1>3, KindsAre, DelegationAssumption DEF IInv, TInv, RowsTyped, Status, SInv,
     Terminal, ACTIVE, TERMINAL_TASK_STATUSES, ProcessesTyped, SectionTyped, registry
<1>12. EInv'
  BY <1>2, <1>3 DEF IInv, TInv, RowsTyped, Status, EInv, EndFor, NoneLeft, Terminal, ACTIVE,
     TERMINAL_TASK_STATUSES, Alive, ProcessesTyped, registry
<1>13. UInv'
  BY <1>1, <1>2, <1>3, KindsAre DEF IInv, TInv, RowsTyped, ProcessesTyped, BoundsTyped, Status,
     UInv, UncutFor, Alive, Terminal, ACTIVE, TERMINAL_TASK_STATUSES, registry
<1> QED  BY <1>4, <1>5, <1>6, <1>7, <1>8, <1>9, <1>10, <1>11, <1>12, <1>13 DEF IInv, TInv

LEMMA ChildDiesKeeps == ASSUME IInv, NEW t \in scope.tasks, ChildDies(t) PROVE IInv'
<1>1. /\ SectionTyped' /\ cuts' \in Nat
      /\ \/ holder # t /\ holder' = holder /\ work' = work /\ cuts' = cuts
         \/ holder = t /\ holder' = Nobody /\ (\A k \in Kinds : work'[k] = {}) /\ cuts' # 0
  BY Cutting DEF ChildDies
<1>2. t \in Task /\ Alive(t) /\ proc' = [proc EXCEPT ![t] = "dead"]
  BY RowsAre DEF ChildDies, Dead, IInv, TInv, ProcessesTyped
<1>3. /\ UNCHANGED <<registry, ending, launches, event, told, given, scope>>
      /\ \A u \in Task : monitor'[u] => monitor[u]
  BY DEF ChildDies, Dead, Gone, wake, IInv, TInv, ProcessesTyped
<1>4. RowsTyped' /\ EventsTyped'
  BY Frames DEF ChildDies, registry, processes, calls, wake, bounds
<1>5. SectionTyped'
  BY <1>1
<1>6. ProcessesTyped'
  BY <1>2 DEF ChildDies, Dead, Gone, IInv, TInv, ProcessesTyped
<1>7. CallsTyped'
  BY DEF ChildDies, Dead, Gone, IInv, TInv, CallsTyped
<1>8. BoundsTyped'
  BY <1>1 DEF ChildDies, Cut, IInv, TInv, BoundsTyped
<1>9. RInv'
  BY <1>2, <1>3 DEF IInv, TInv, RowsTyped, Status, RInv, RowFor, Terminal, ACTIVE,
     TERMINAL_TASK_STATUSES, Alive, ProcessesTyped, BoundsTyped, registry
<1>10. CInv'
  BY DEF IInv, TInv, CallsTyped, RowsTyped, Status, CInv, Terminal, ACTIVE,
     TERMINAL_TASK_STATUSES, ChildDies, Dead, Gone, registry
<1>11. SInv'
  BY <1>1, <1>2, <1>3, KindsAre, DelegationAssumption DEF IInv, TInv, RowsTyped, Status, SInv,
     Terminal, ACTIVE, TERMINAL_TASK_STATUSES, ProcessesTyped, SectionTyped, registry
<1>12. EInv'
  BY <1>2, <1>3 DEF IInv, TInv, RowsTyped, Status, EInv, EndFor, NoneLeft, Terminal, ACTIVE,
     TERMINAL_TASK_STATUSES, Alive, ProcessesTyped, registry
<1>13. UInv'
  BY <1>1, <1>2, <1>3, KindsAre DEF IInv, TInv, RowsTyped, ProcessesTyped, BoundsTyped, Status,
     UInv, UncutFor, Alive, Terminal, ACTIVE, TERMINAL_TASK_STATUSES, registry
<1> QED  BY <1>4, <1>5, <1>6, <1>7, <1>8, <1>9, <1>10, <1>11, <1>12, <1>13 DEF IInv, TInv

LEMMA SupervisorKillsKeeps ==
    ASSUME IInv, NEW t \in scope.tasks, SupervisorKills(t)
    PROVE  IInv'
<1>1. /\ SectionTyped' /\ cuts' \in Nat
      /\ \/ holder # t /\ holder' = holder /\ work' = work /\ cuts' = cuts
         \/ holder = t /\ holder' = Nobody /\ (\A k \in Kinds : work'[k] = {}) /\ cuts' # 0
  BY Cutting DEF SupervisorKills
<1>2. t \in Task /\ Alive(t) /\ proc' = [proc EXCEPT ![t] = "dead"]
  BY RowsAre DEF SupervisorKills, Known, Dead, IInv, TInv, ProcessesTyped
<1>3. /\ UNCHANGED <<registry, ending, launches, event, told, given, scope>>
      /\ \A u \in Task : monitor'[u] => monitor[u]
  BY DEF SupervisorKills, Dead, Gone, wake, IInv, TInv, ProcessesTyped
<1>4. RowsTyped' /\ EventsTyped'
  BY Frames DEF SupervisorKills, registry, processes, calls, wake, bounds
<1>5. SectionTyped'
  BY <1>1
<1>6. ProcessesTyped'
  BY <1>2 DEF SupervisorKills, Known, Dead, Gone, IInv, TInv, ProcessesTyped
<1>7. CallsTyped'
  BY DEF SupervisorKills, Known, Dead, Gone, IInv, TInv, CallsTyped
<1>8. BoundsTyped'
  BY <1>1 DEF SupervisorKills, Cut, IInv, TInv, BoundsTyped
<1>9. RInv'
  BY <1>2, <1>3 DEF IInv, TInv, RowsTyped, Status, RInv, RowFor, Terminal, ACTIVE,
     TERMINAL_TASK_STATUSES, Alive, ProcessesTyped, BoundsTyped, registry
<1>10. CInv'
  BY DEF IInv, TInv, CallsTyped, RowsTyped, Status, CInv, Terminal, ACTIVE,
     TERMINAL_TASK_STATUSES, SupervisorKills, Known, Dead, Gone, registry
<1>11. SInv'
  BY <1>1, <1>2, <1>3, KindsAre, DelegationAssumption DEF IInv, TInv, RowsTyped, Status, SInv,
     Terminal, ACTIVE, TERMINAL_TASK_STATUSES, ProcessesTyped, SectionTyped, registry
<1>12. EInv'
  BY <1>2, <1>3 DEF IInv, TInv, RowsTyped, Status, EInv, EndFor, NoneLeft, Terminal, ACTIVE,
     TERMINAL_TASK_STATUSES, Alive, ProcessesTyped, registry
<1>13. UInv'
  BY <1>1, <1>2, <1>3, KindsAre DEF IInv, TInv, RowsTyped, ProcessesTyped, BoundsTyped, Status,
     UInv, UncutFor, Alive, Terminal, ACTIVE, TERMINAL_TASK_STATUSES, registry
<1> QED  BY <1>4, <1>5, <1>6, <1>7, <1>8, <1>9, <1>10, <1>11, <1>12, <1>13 DEF IInv, TInv

\* The worker's sections and monitors die with it.
LEMMA RootDiesKeeps == ASSUME IInv, RootDies PROVE IInv'
<1>1. /\ SectionTyped' /\ cuts' \in Nat
      /\ \/ holder # Root /\ holder' = holder /\ work' = work /\ cuts' = cuts
         \/ holder = Root /\ holder' = Nobody /\ (\A k \in Kinds : work'[k] = {}) /\ cuts' # 0
  BY Cutting DEF RootDies
<1>2. /\ UNCHANGED <<registry, proc, ending, launches, event, told, given, scope>>
      /\ \A u \in Task : monitor'[u] => monitor[u]
  BY DEF RootDies, Gone, wake, IInv, TInv, ProcessesTyped
<1>3. RowsTyped' /\ EventsTyped' /\ EInv'
  BY Frames DEF RootDies, registry, processes, calls, wake, bounds
<1>4. SectionTyped'
  BY <1>1
<1>5. ProcessesTyped'
  BY RowsAre DEF RootDies, Missed, Gone, IInv, TInv, ProcessesTyped
<1>6. CallsTyped'
  BY DEF RootDies, Missed, Gone, IInv, TInv, CallsTyped
<1>7. BoundsTyped'
  BY <1>1 DEF RootDies, Cut, IInv, TInv, BoundsTyped
<1>8. RInv'
  BY <1>2 DEF IInv, TInv, RowsTyped, Status, RInv, RowFor, Terminal, ACTIVE,
     TERMINAL_TASK_STATUSES, Alive, ProcessesTyped, BoundsTyped, registry
<1>9. CInv'
  BY DEF IInv, TInv, CallsTyped, RowsTyped, Status, CInv, Terminal, ACTIVE,
     TERMINAL_TASK_STATUSES, RootDies, Missed, Gone, registry
<1>10. SInv'
  BY <1>1, <1>2, KindsAre, DelegationAssumption DEF IInv, TInv, RowsTyped, Status, SInv, Terminal,
     ACTIVE, TERMINAL_TASK_STATUSES, ProcessesTyped, SectionTyped, registry
<1>11. UInv'
  BY <1>1, <1>2, KindsAre DEF IInv, TInv, RowsTyped, ProcessesTyped, BoundsTyped, Status, UInv,
     UncutFor, Alive, Terminal, ACTIVE, TERMINAL_TASK_STATUSES, registry
<1> QED  BY <1>3, <1>4, <1>5, <1>6, <1>7, <1>8, <1>9, <1>10, <1>11 DEF IInv, TInv

\* A child with no helper left keeps its outcome.
LEMMA DetachNothingKeeps ==
    ASSUME IInv, NEW t \in scope.tasks, DetachHelpers(t), Uncollected(t) = {}
    PROVE  IInv'
<1>1. /\ t \in Task /\ proc[t] = "detach" /\ proc' = [proc EXCEPT ![t] = "record"]
      /\ UNCHANGED <<registry, ending, section>>
  BY RowsAre DEF DetachHelpers, Detach, Step
<1>2. NoneLeft(t)
  BY <1>1, RowsAre DEF Uncollected, Direct, NoneLeft, IInv, RInv, RowFor, Terminal,
     TERMINAL_TASK_STATUSES
<1>3. CallsTyped' /\ EventsTyped' /\ BoundsTyped'
  BY Frames DEF DetachHelpers, registry, processes, calls, wake, bounds
<1>4. SectionTyped'
  BY <1>1, Frames
<1>5. RowsTyped'
  BY <1>1, Frames
<1>6. ProcessesTyped'
  BY <1>1 DEF DetachHelpers, IInv, TInv, ProcessesTyped
<1>7. RInv'
  BY <1>1 DEF IInv, TInv, RowsTyped, Status, RInv, RowFor, Terminal, ACTIVE,
     TERMINAL_TASK_STATUSES, ProcessesTyped, DetachHelpers, registry, wake, bounds
<1>8. CInv'
  BY <1>1 DEF IInv, TInv, CallsTyped, RowsTyped, Status, CInv, Terminal, ACTIVE,
     TERMINAL_TASK_STATUSES, DetachHelpers, registry, calls
<1>9. SInv'
  BY <1>1 DEF IInv, TInv, RowsTyped, Status, SInv, Terminal, ACTIVE, TERMINAL_TASK_STATUSES,
     SectionTyped, ProcessesTyped, DetachHelpers, section, registry, wake, bounds
<1>10. EInv'
  BY <1>1, <1>2 DEF IInv, TInv, RowsTyped, Status, EInv, EndFor, NoneLeft, Terminal, ACTIVE,
     TERMINAL_TASK_STATUSES, ProcessesTyped, DetachHelpers, registry
<1>11. UInv'
  BY <1>1 DEF IInv, TInv, RowsTyped, ProcessesTyped, BoundsTyped, Status, UInv, UncutFor, Alive,
     Terminal, ACTIVE, TERMINAL_TASK_STATUSES, DetachHelpers, section, registry, wake, bounds
<1> QED  BY <1>3, <1>4, <1>5, <1>6, <1>7, <1>8, <1>9, <1>10, <1>11 DEF IInv, TInv

\* A child that left helpers behind cancels them and fails.
LEMMA DetachHelpersKeeps ==
    ASSUME IInv, NEW t \in scope.tasks, DetachHelpers(t), Uncollected(t) # {}
    PROVE  IInv'
<1>1. holder = Nobody /\ \A k \in Kinds : work[k] = {}
  BY KindsAre DEF DetachHelpers, Detach, Lock, IInv, TInv, SectionTyped
<1>2. /\ t \in Task /\ proc[t] = "detach" /\ proc' = [proc EXCEPT ![t] = "detached"]
      /\ ending' = [ending EXCEPT ![t] = "failed"]
  BY RowsAre DEF DetachHelpers, Detach, Step
<1>3. /\ Uncollected(t) \subseteq Task /\ \A u \in Uncollected(t) : Parent[u] = t
      /\ \A u \in Task : Parent[u] \notin Uncollected(t)
  BY <1>2, RowsAre, DelegationAssumption DEF Uncollected, Direct
<1>4. /\ \A u \in Task : status'[u] =
             IF status[u] \in ACTIVE /\ u \in Uncollected(t)
             THEN "cancelled"
             ELSE status[u]
      /\ \A u \in Task :
             collected'[u] = (collected[u] \/ (status[u] # "none" /\ u \in Uncollected(t)))
  BY <1>3, Cancelling, RowsAre DEF DetachHelpers, Detach
<1>5. /\ SectionTyped'
      /\ (\A k \in Kinds : work'[k] =
           IF k = "kill" THEN Uncollected(t) \cap active_rows ELSE {})
      /\ holder' = t \/ (holder' = Nobody /\ \A k \in Kinds : work'[k] = {})
  <2> DEFINE todo == [Idle EXCEPT !.kill = Uncollected(t) \cap active_rows]
  <2>1. /\ todo \in Todo
        /\ \A k \in Kinds :
             todo[k] = IF k = "kill" THEN Uncollected(t) \cap active_rows ELSE {}
    BY KindsAre, WorkTyped, <1>3 DEF Idle, Todo
  <2>2. Lock(t, todo)
    BY DEF DetachHelpers, Detach
  <2> HIDE DEF todo
  <2> QED  BY <2>1, <2>2, LockTaken, ParentsAre, <1>2
<1>6. CallsTyped' /\ EventsTyped' /\ BoundsTyped'
  BY Frames DEF DetachHelpers, registry, processes, calls, wake, bounds
<1>7. RowsTyped'
  BY RowsAre DEF DetachHelpers, Detach, cancel_tree, IInv, TInv, RowsTyped, Status, ACTIVE,
     TERMINAL_TASK_STATUSES
<1>8. ProcessesTyped'
  BY <1>2 DEF DetachHelpers, IInv, TInv, ProcessesTyped
<1>9. RInv'
  BY <1>2, <1>3, <1>4, ParentsAre, DelegationAssumption DEF IInv, TInv, RowsTyped, Status, RInv,
     RowFor, Terminal, ACTIVE, TERMINAL_TASK_STATUSES, ProcessesTyped, DetachHelpers, Detach,
     wake, bounds
<1>10. CInv'
  BY <1>4 DEF IInv, TInv, CallsTyped, RowsTyped, Status, CInv, Terminal, ACTIVE,
     TERMINAL_TASK_STATUSES, DetachHelpers, calls
<1>11. SInv'
  BY <1>1, <1>2, <1>3, <1>4, <1>5, RowsAre, KindsAre DEF IInv, TInv, RowsTyped, Status, SInv,
     Terminal, ACTIVE, TERMINAL_TASK_STATUSES, SectionTyped, DetachHelpers, Detach, bounds
<1>12. EInv'
  BY <1>2, <1>4 DEF IInv, TInv, RowsTyped, Status, EInv, EndFor, NoneLeft, Terminal, ACTIVE,
     TERMINAL_TASK_STATUSES, ProcessesTyped, DetachHelpers
<1>13. UInv'
  <2> SUFFICES ASSUME cuts = 0, NEW u \in Task PROVE UncutFor(u)'
    BY DEF UInv, DetachHelpers, bounds
  <2>1. UncutFor(u)
    BY DEF IInv, UInv
  <2>2. (Alive(u)' => Alive(u)) /\ pid' = pid /\ event' = event
    BY <1>2 DEF DetachHelpers, Detach, wake, Alive, IInv, TInv, ProcessesTyped
  <2>3. (Alive(u) => pid[u] \/ u \in work.confirm)'
    BY <2>1, <2>2, <1>1, <1>5, KindsAre DEF UncutFor
  <2>4. (Alive(u) /\ status[u] = "cancelled" => u \in work.kill)'
    BY <2>1, <2>2, <1>1, <1>4, <1>5, KindsAre, RowsAre DEF UncutFor
  <2>5. (collected[u] /\ event[u] = "posted" => u \in work.settle \cup work.ack)'
    BY <2>1, <2>2, <1>1, <1>2, <1>3, <1>4, <1>5, KindsAre, DelegationAssumption DEF UncutFor,
       IInv, TInv, RowsTyped, RInv, RowFor
  <2> QED  BY <2>3, <2>4, <2>5 DEF UncutFor
<1> QED  BY <1>5, <1>6, <1>7, <1>8, <1>9, <1>10, <1>11, <1>12, <1>13 DEF IInv, TInv

-----------------------------------------------------------------------------
(* The invariant, and what it says.                                         *)

LEMMA InitIInv == Init => IInv
<1> SUFFICES ASSUME Init PROVE IInv
  OBVIOUS
<1>1. SectionTyped
  BY KindsAre, DelegationAssumption DEF Init, SectionTyped
<1>2. RowsTyped /\ ProcessesTyped /\ CallsTyped
  BY DEF Init, RowsTyped, ProcessesTyped, CallsTyped, Status
<1>3. EventsTyped /\ BoundsTyped
  BY DEF Init, EventsTyped, BoundsTyped, Status
<1>4. RInv
  BY DEF Init, RInv, RowFor, Terminal, TERMINAL_TASK_STATUSES
<1>5. CInv /\ EInv
  BY DEF Init, CInv, EInv, EndFor, NoneLeft
<1>6. SInv
  BY KindsAre DEF Init, SInv
<1>7. UInv
  BY DEF Init, UInv, UncutFor, Alive
<1> QED  BY <1>1, <1>2, <1>3, <1>4, <1>5, <1>6, <1>7 DEF IInv, TInv

LEMMA StutterKeeps == ASSUME IInv, UNCHANGED vars PROVE IInv'
<1>1. /\ SectionTyped' /\ RowsTyped' /\ ProcessesTyped' /\ CallsTyped' /\ EventsTyped' /\ BoundsTyped'
      /\ RInv' /\ CInv' /\ EInv'
  BY Frames DEF vars, registry, processes, section, calls, wake, bounds
<1>2. SInv'
  BY DEF IInv, SInv, Terminal, vars, registry, processes, section, bounds
<1>3. UInv'
  BY DEF IInv, UInv, UncutFor, Alive, vars, registry, processes, section, wake, bounds
<1> QED  BY <1>1, <1>2, <1>3 DEF IInv, TInv

LEMMA SectionStepKeeps == ASSUME IInv, SectionStep PROVE IInv'
  BY PruneKeeps, KillKeeps, PostKeeps, SettleKeeps, AckCollectedKeeps, LeaveRowKeeps, FailRowKeeps,
     ReplayKeeps, RefuseKeeps, ReserveKeeps, claim_launchKeeps, StartProcessKeeps, StartFailsKeeps,
     mark_runningKeeps, TakeSnapshotKeeps
  DEF SectionStep

LEMMA CallKeeps == ASSUME IInv, Call PROVE IInv'
  BY ConfigureToolsKeeps, SpawnKeeps, InspectTasksKeeps, AwaitPollsKeeps, AwaitReturnsKeeps,
     CancelTasksKeeps
  DEF Call

LEMMA RunEndsKeeps == ASSUME IInv, NEW t \in scope.tasks, RunEnds(t) PROVE IInv'
<1>1. CASE RecordRaised(t) \/ RecordDetached(t) \/ RecordOutcome(t)
  BY <1>1, RecordResultKeeps DEF RecordRaised, RecordDetached, RecordOutcome
<1>2. CASE DetachHelpers(t)
  BY <1>2, DetachNothingKeeps, DetachHelpersKeeps
<1>3. CASE Exit(t)
  BY <1>3, ExitKeeps
<1> QED  BY <1>1, <1>2, <1>3 DEF RunEnds

\* Every step keeps the invariant.
LEMMA NextKeeps == IInv /\ [Next]_vars => IInv'
<1> SUFFICES ASSUME IInv, [Next]_vars PROVE IInv'
  OBVIOUS
<1>1. CASE SectionStep
  BY <1>1, SectionStepKeeps
<1>2. CASE Call
  BY <1>2, CallKeeps
<1>3. ASSUME NEW t \in scope.tasks,
             \/ WorkEnds(t) \/ WorkRaises(t) \/ RunEnds(t) \/ MonitorCompletes(t) \/ MonitorTimesOut(t)
             \/ Expire(t) \/ ChildDies(t) \/ SupervisorKills(t) \/ TransferEvent(t) \/ HearEvent(t)
      PROVE  IInv'
  BY <1>3, WorkEndsKeeps, WorkRaisesKeeps, RunEndsKeeps, MonitorCompletesKeeps, MonitorTimesOutKeeps,
     ExpireKeeps, ChildDiesKeeps, SupervisorKillsKeeps, TransferEventKeeps, HearEventKeeps
<1>4. CASE RootDies \/ RootStarts \/ RootReady
  BY <1>4, RootDiesKeeps, RootStartsKeeps, RootReadyKeeps
<1>5. CASE UNCHANGED vars
  BY <1>5, StutterKeeps
<1> QED  BY <1>1, <1>2, <1>3, <1>4, <1>5 DEF Next

\* Whatever the callers, the children, the supervisor and the faults do, in any order: the
\* rows, the processes and the section under the lock fit each other.
THEOREM DelegationInvariant == Spec => []IInv
  BY InitIInv, NextKeeps, PTL DEF Spec

\* The rows, processes, sections and calls stay in their types, a free lock leaves nothing
\* undone (lifecycle, delegation.py:801-811), and only a row whose process was started has a
\* pid (mark_running, delegation.py:964-1005).
THEOREM DelegationTypes == Spec => []TypeOK
<1>1. IInv => TypeOK
  BY KindsAre DEF IInv, TInv, SectionTyped, RowsTyped, ProcessesTyped, CallsTyped, EventsTyped,
     BoundsTyped, TypeOK, Kinds
<1> QED  BY <1>1, DelegationInvariant, PTL

\* The payload of the terminal event is the outcome of the row, although row and event are
\* written by different processes in commits of their own (_enqueue_task_event,
\* delegation.py:1196-1228).
THEOREM EventsTellOutcomes == Spec => []EventTellsOutcome
<1>1. IInv => EventTellsOutcome
  BY DEF IInv, RInv, RowFor, EventTellsOutcome
<1> QED  BY <1>1, DelegationInvariant, PTL

\* No task is launched twice, whatever batch_key is used again and whoever dies: the claim of
\* a queued row is one commit (claim_launch, delegation.py:1007-1014).
THEOREM TasksLaunchOnce == Spec => []LaunchedOnce
<1>1. IInv => LaunchedOnce
  BY DEF IInv, RInv, RowFor, LaunchedOnce
<1> QED  BY <1>1, DelegationInvariant, PTL

\* A task of the root marked collected was given to the root with its outcome: _acknowledge
\* marks what the response shows, no more (delegation.py:1836-1845).
THEOREM CollectedGiven == Spec => []CollectedWasGiven
<1>1. IInv => CollectedWasGiven
  BY DEF IInv, RInv, RowFor, CollectedWasGiven, RootTasks
<1> QED  BY <1>1, DelegationInvariant, PTL

\* Without a death inside a section, nothing of a cancelled task is alive once the lock is
\* free: _signal_active_tasks reaches every process it has to (delegation.py:1231-1240).
THEOREM CancelledAreDead == Spec => []CancelledIsDead
<1>1. IInv => CancelledIsDead
  BY KindsAre DEF IInv, TInv, SectionTyped, UInv, UncutFor, CancelledIsDead
<1> QED  BY <1>1, DelegationInvariant, PTL

\* Without a death inside a section, the event of a collected task does not wake the root,
\* whether the task was collected before its event was posted (delegation.py:1226-1228) or
\* after (delegation.py:1842-1845).
THEOREM CollectedAreQuiet == Spec => []CollectedIsQuiet
<1>1. IInv => CollectedIsQuiet
  BY KindsAre DEF IInv, TInv, SectionTyped, UInv, UncutFor, CollectedIsQuiet
<1> QED  BY <1>1, DelegationInvariant, PTL

\* A task that finished leaves no helper at work or with an outcome nobody took: its process
\* cancels them first, and then fails (cancel_pending_descendants, delegation.py:1323-1346).
THEOREM FinishedLeaveNothing == Spec => []NoDetachedWork
<1>1. IInv => NoDetachedWork
  BY RowsAre, ParentsAre DEF IInv, EInv, EndFor, NoneLeft, NoDetachedWork
<1> QED  BY <1>1, DelegationInvariant, PTL

-----------------------------------------------------------------------------
(* What a step does to the rows: only reserve adds rows, none comes back.   *)

RowsAdvance ==
    /\ UNCHANGED scope
    /\ \A t \in Task :
        /\ status[t] = "none" <=> status'[t] = "none"
        /\ status[t] \notin ACTIVE => status'[t] = status[t]

LEMMA SectionAdvances ==
    ASSUME IInv, SectionStep, \A b \in Batch : ~Reserve(b)
    PROVE  RowsAdvance
<1> USE DEF RowsAdvance, ACTIVE
<1>1. ASSUME NEW t \in scope.tasks, Prune(t) \/ FailRow(t) PROVE RowsAdvance
  BY <1>1, Cancelling DEF Prune, FailRow, bounds
<1>2. ASSUME NEW t \in scope.tasks, claim_launch(t) PROVE RowsAdvance
  BY <1>2, RowsAre DEF claim_launch, bounds, IInv, TInv, RowsTyped
<1>3. ASSUME NEW t \in scope.tasks, StartFails(t) PROVE RowsAdvance
  BY <1>3, RowsAre DEF StartFails, finish, bounds, IInv, TInv, RowsTyped
<1>4. ASSUME NEW t \in scope.tasks, mark_running(t) PROVE RowsAdvance
  <2>1. t \in Task /\ status[t] = "starting"
    BY <1>4, RowsAre DEF mark_running, Doing, IInv, SInv
  <2> QED  BY <1>4, <2>1 DEF mark_running, bounds, IInv, TInv, RowsTyped
<1>5. ASSUME NEW t \in scope.tasks, Post(t) \/ Settle(t) \/ LeaveRow(t) \/ StartProcess(t)
      PROVE  RowsAdvance
  BY <1>5 DEF Post, Settle, LeaveRow, StartProcess, registry, bounds
<1>6. ASSUME NEW b \in Batch, Replay(b) \/ Refuse(b) PROVE RowsAdvance
  BY <1>6 DEF Replay, Refuse, registry, bounds
<1>7. CASE Kill \/ AckCollected \/ TakeSnapshot
  BY <1>7 DEF Kill, AckCollected, TakeSnapshot, registry, bounds
<1> QED  BY <1>1, <1>2, <1>3, <1>4, <1>5, <1>6, <1>7 DEF SectionStep

LEMMA CallAdvances == ASSUME IInv, Call PROVE RowsAdvance
<1> USE DEF RowsAdvance, ACTIVE
<1>1. ASSUME NEW p \in Caller, NEW S \in SUBSET Direct(p) \ {{}}, CancelTasks(p, S)
      PROVE  RowsAdvance
  BY <1>1, Cancelling DEF CancelTasks, bounds
<1>2. ASSUME NEW p \in Caller, NEW S \in SUBSET Direct(p) \ {{}},
             InspectTasks(p, S) \/ AwaitPolls(p, S)
      PROVE  RowsAdvance
  BY <1>2 DEF InspectTasks, AwaitPolls, registry, bounds
<1>3. ASSUME NEW p \in Caller, ConfigureTools(p) \/ AwaitReturns(p) \/ \E b \in Batch : Spawn(p, b)
      PROVE  RowsAdvance
  BY <1>3 DEF ConfigureTools, AwaitReturns, Spawn, registry, bounds
<1> QED  BY <1>1, <1>2, <1>3 DEF Call

LEMMA EndAdvances ==
    ASSUME IInv, NEW t \in scope.tasks, RunEnds(t) \/ MonitorCompletes(t)
    PROVE  RowsAdvance
<1> USE DEF RowsAdvance, ACTIVE
<1>1. ASSUME NEW from, NEW to, RecordResult(t, from, to) PROVE RowsAdvance
  BY <1>1, RowsAre DEF RecordResult, finish, bounds, IInv, TInv, RowsTyped, ProcessesTyped
<1>2. CASE DetachHelpers(t)
  BY <1>2, Cancelling DEF DetachHelpers, Detach, registry, bounds
<1>3. CASE MonitorCompletes(t)
  BY <1>3, RowsAre DEF MonitorCompletes, finish, bounds, IInv, TInv, RowsTyped
<1>4. CASE Exit(t)
  BY <1>4 DEF Exit, registry, bounds
<1> QED  BY <1>1, <1>2, <1>3, <1>4 DEF RunEnds, RecordRaised, RecordDetached, RecordOutcome

\* Every step but reserve leaves the set of rows alone and ends rows for good.
LEMMA StepAdvances ==
    ASSUME IInv, [Next]_vars
    PROVE  RowsAdvance \/ \E b \in Batch : holder # Nobody /\ Reserve(b)
<1>1. CASE SectionStep
  BY <1>1, SectionAdvances DEF SectionStep
<1>2. CASE Call
  BY <1>2, CallAdvances
<1>3. ASSUME NEW t \in scope.tasks, RunEnds(t) \/ MonitorCompletes(t)
      PROVE  RowsAdvance
  BY <1>3, EndAdvances
<1>4. ASSUME NEW t \in scope.tasks,
             \/ WorkEnds(t) \/ WorkRaises(t) \/ MonitorTimesOut(t) \/ Expire(t) \/ ChildDies(t)
             \/ SupervisorKills(t) \/ TransferEvent(t) \/ HearEvent(t)
      PROVE  RowsAdvance
  BY <1>4 DEF RowsAdvance, WorkEnds, WorkRaises, MonitorTimesOut, Expire, ChildDies, SupervisorKills,
     TransferEvent, HearEvent, registry, bounds
<1>5. CASE RootDies \/ RootStarts \/ RootReady \/ UNCHANGED vars
  BY <1>5 DEF RowsAdvance, RootDies, RootStarts, RootReady, vars, registry, bounds
<1> QED  BY <1>1, <1>2, <1>3, <1>4, <1>5 DEF Next

\* The first terminal status of a task stays, whoever else has an outcome for it: the child,
\* its monitor, a cancellation or the reconciliation of a dead process (finish,
\* delegation.py:1016-1031; cancel_tree, 1076-1140).
THEOREM OutcomesStay == Spec => OneOutcome
<1>1. IInv /\ [Next]_vars => [\A t \in Task : Terminal(t) => status'[t] = status[t]]_vars
  <2> SUFFICES ASSUME IInv, [Next]_vars, NEW t \in Task, Terminal(t) PROVE status'[t] = status[t]
    OBVIOUS
  <2>1. CASE RowsAdvance
    BY <2>1 DEF RowsAdvance, Terminal, ACTIVE, TERMINAL_TASK_STATUSES
  <2>2. ASSUME NEW b \in Batch, Reserve(b) PROVE status'[t] = status[t]
    BY <2>2, RowsAre DEF Reserve, Existing, Tasks, Terminal, TERMINAL_TASK_STATUSES
  <2> QED  BY <2>1, <2>2, StepAdvances
<1> QED  BY <1>1, DelegationInvariant, PTL DEF Spec, OneOutcome

-----------------------------------------------------------------------------
(* Counting the rows of a tree and of the worker.                           *)

LEMMA UnionAtMost ==
    ASSUME NEW A, NEW B, IsFiniteSet(A), IsFiniteSet(B)
    PROVE  /\ Cardinality(A) \in Nat /\ Cardinality(A \cup B) \in Nat
           /\ Cardinality(A \cup B) <= Cardinality(A) + Cardinality(B)
<1>1. IsFiniteSet(A \cap B)
  BY FS_Subset
<1>2. IsFiniteSet(A \cup B) /\ Cardinality(A \cup B)
        = Cardinality(A) + Cardinality(B) - Cardinality(A \cap B)
  BY FS_Union
<1>3. /\ Cardinality(A) \in Nat /\ Cardinality(B) \in Nat /\ Cardinality(A \cap B) \in Nat
      /\ Cardinality(A \cup B) \in Nat
  BY <1>1, <1>2, FS_CardinalityType
<1> QED  BY <1>2, <1>3

LEMMA RowsOfTask ==
    IInv => /\ scope \in Scopes
            /\ Rows = {t \in Task : status[t] # "none"}
            /\ active_rows = {t \in Task : status[t] \in ACTIVE}
  BY RowsAre DEF IInv, TInv, BoundsTyped

LEMMA RowsOfTaskNext ==
    IInv' => /\ scope' \in Scopes
             /\ Rows' = {t \in Task : status'[t] # "none"}
             /\ active_rows' = {t \in Task : status'[t] \in ACTIVE}
<1>1. IInv' => (/\ scope \in Scopes
                /\ Rows = {t \in Task : status[t] # "none"}
                /\ active_rows = {t \in Task : status[t] \in ACTIVE})'
  BY RowsOfTask, PTL
<1> QED  BY <1>1 DEF ACTIVE

LEMMA TreesFinite ==
    ASSUME IInv
    PROVE  /\ IsFiniteSet(active_rows) /\ \A t : IsFiniteSet(InTree(t))
           /\ \A b : IsFiniteSet(Tasks(b))
           /\ MAX_TREE_AGENTS \in Nat /\ MAX_PARALLEL_AGENTS \in Nat
<1>1. active_rows \subseteq Task /\ (\A t : InTree(t) \subseteq Task) /\ \A b : Tasks(b) \subseteq Task
  BY RowsOfTask DEF InTree, Tasks
<1>2. \A S : S \subseteq Task => IsFiniteSet(S)
  BY DelegationAssumption, FS_Subset
<1> QED
  BY <1>1, <1>2, RowsOfTask, DelegationAssumption DEF MAX_TREE_AGENTS, MAX_PARALLEL_AGENTS

\* reserve counts the batch before it inserts it; all of a batch is in one tree.
LEMMA ReserveCaps ==
    ASSUME IInv, IInv', CapsHold, NEW b \in Batch, holder # Nobody, Reserve(b)
    PROVE  CapsHold'
<1>1. /\ Tasks(b) \subseteq Task /\ Admits(b)
      /\ \A t \in Task : status'[t] = IF t \in Tasks(b) THEN "queued" ELSE status[t]
  BY DEF Reserve, Tasks
<1>2. MAX_TREE_AGENTS' = MAX_TREE_AGENTS /\ MAX_PARALLEL_AGENTS' = MAX_PARALLEL_AGENTS
  BY DEF Reserve, bounds, MAX_TREE_AGENTS, MAX_PARALLEL_AGENTS
<1>3. active_rows' \subseteq active_rows \cup Tasks(b) /\ Rows' = Rows \cup Tasks(b)
  BY <1>1, RowsOfTask, RowsOfTaskNext DEF ACTIVE
<1>4. Cardinality(active_rows') <= MAX_PARALLEL_AGENTS
  <2>1. IsFiniteSet(active_rows \cup Tasks(b))
    BY TreesFinite, FS_Union
  <2>2. /\ Cardinality(active_rows') <= Cardinality(active_rows \cup Tasks(b))
        /\ Cardinality(active_rows') \in Nat
    BY <1>3, <2>1, FS_Subset, FS_CardinalityType
  <2>3. /\ Cardinality(active_rows \cup Tasks(b)) \in Nat
        /\ Cardinality(active_rows \cup Tasks(b)) <= Cardinality(active_rows) + Cardinality(Tasks(b))
    BY TreesFinite, UnionAtMost
  <2>4. Cardinality(active_rows) \in Nat /\ Cardinality(Tasks(b)) \in Nat
    BY TreesFinite, FS_CardinalityType
  <2>5. Cardinality(active_rows) + Cardinality(Tasks(b)) <= MAX_PARALLEL_AGENTS
    BY <1>1 DEF Admits, LoadWith
  <2> QED  BY <2>2, <2>3, <2>4, <2>5, TreesFinite
<1>5. ASSUME NEW u \in Rows' PROVE Cardinality(InTree(u)') <= MAX_TREE_AGENTS
  <2> DEFINE near == {t \in Tasks(b) : Tree(t) = Tree(u)}
  <2>1. InTree(u)' = InTree(u) \cup near
    BY <1>3 DEF InTree, Tree
  <2>2. CASE near = {}
    <3>1. u \in Rows
      BY <1>3, <2>2
    <3> QED  BY <2>1, <2>2, <3>1 DEF CapsHold
  <2>3. ASSUME NEW t \in near PROVE Cardinality(InTree(u)') <= MAX_TREE_AGENTS
    <3>1. InTree(u) = InTree(t)
      BY DEF InTree
    <3>2. near = Tasks(b)
      BY <1>1, <2>3, DelegationAssumption DEF Tasks, Tree
    <3>3. /\ Cardinality(InTree(t) \cup Tasks(b)) \in Nat /\ Cardinality(InTree(t)) \in Nat
          /\ Cardinality(InTree(t) \cup Tasks(b)) <= Cardinality(InTree(t)) + Cardinality(Tasks(b))
      BY TreesFinite, UnionAtMost
    <3>4. Cardinality(Tasks(b)) \in Nat
      BY TreesFinite, FS_CardinalityType
    <3>5. Cardinality(InTree(t)) + Cardinality(Tasks(b)) <= MAX_TREE_AGENTS
      BY <1>1, <2>3 DEF Admits
    <3>6. InTree(u)' = InTree(t) \cup Tasks(b)
      BY <2>1, <3>1, <3>2
    <3>7. Cardinality(InTree(t) \cup Tasks(b)) <= MAX_TREE_AGENTS
      BY <3>3, <3>4, <3>5, TreesFinite
    <3> QED  BY <3>6, <3>7
  <2> QED  BY <2>2, <2>3
<1> QED  BY <1>2, <1>4, <1>5 DEF CapsHold

LEMMA AdvanceCaps ==
    ASSUME IInv, IInv', CapsHold, RowsAdvance
    PROVE  CapsHold'
<1>1. MAX_TREE_AGENTS' = MAX_TREE_AGENTS /\ MAX_PARALLEL_AGENTS' = MAX_PARALLEL_AGENTS
  BY DEF RowsAdvance, MAX_TREE_AGENTS, MAX_PARALLEL_AGENTS
<1>2. Rows' = Rows
  BY RowsOfTask, RowsOfTaskNext DEF RowsAdvance
<1>3. \A t : InTree(t)' = InTree(t)
  BY <1>2 DEF InTree, Tree
<1>4. active_rows' \subseteq active_rows
  BY RowsOfTask, RowsOfTaskNext DEF RowsAdvance
<1>5. /\ Cardinality(active_rows') <= Cardinality(active_rows)
      /\ Cardinality(active_rows) \in Nat /\ Cardinality(active_rows') \in Nat
  BY <1>4, TreesFinite, FS_Subset, FS_CardinalityType
<1> QED  BY <1>1, <1>2, <1>3, <1>5, TreesFinite DEF CapsHold

\* However many callers spawn at once, and whoever dies between reservation and launch, the
\* capacities of a tree and of the worker hold (reserve, delegation.py:858-888).
THEOREM CapacitiesHold == Spec => []CapsHold
<1>1. Init => CapsHold
  <2> SUFFICES ASSUME Init PROVE CapsHold
    OBVIOUS
  <2>1. IInv
    BY InitIInv
  <2>2. active_rows = {} /\ Rows = {}
    BY <2>1, RowsOfTask DEF Init, ACTIVE
  <2> QED  BY <2>1, <2>2, TreesFinite, FS_EmptySet DEF CapsHold
<1>2. IInv /\ IInv' /\ CapsHold /\ [Next]_vars => CapsHold'
  BY StepAdvances, ReserveCaps, AdvanceCaps
<1> QED  BY <1>1, <1>2, DelegationInvariant, PTL DEF Spec

-----------------------------------------------------------------------------
(* Helpers end with their task.                                            *)

\* While no section was cut short: who is over and still at work is about to be killed and,
\* while the worker lives, a child with a pid is watched until it ended, a helper has a parent
\* with a pid, and the parent of an active helper is watched or is about to be pruned.
HelpersOf(t) ==
    /\ pid[t] /\ ~monitor[t] /\ Parent[t] = Root => proc[t] \in {"done", "dead"}
    /\ status[t] # "none" /\ Parent[t] # Root => pid[Parent[t]]
    /\ status[t] \in ACTIVE /\ Parent[t] # Root => monitor[Parent[t]] \/ Parent[t] \in work.prune
HInv ==
    cuts = 0 =>
        /\ \A t \in Task : Terminal(t) /\ proc[t] = "working" => t \in work.kill
        /\ crashes = 0 => \A t \in Task : HelpersOf(t)

\* What every step does to a task, but for a new batch, a monitor that ends and a death of the
\* worker: the watch of a child of the root stays, who is closed at work goes to the kills, and
\* a pruning that is due stays due while it has something to close.
LeavesTask(t) ==
    /\ pid[t] => pid'[t]
    /\ Parent[t] = Root => /\ pid'[t] /\ ~monitor'[t] => pid[t] /\ ~monitor[t]
                           /\ monitor[t] => monitor'[t]
    /\ proc[t] \in {"done", "dead"} => proc'[t] \in {"done", "dead"}
    /\ status'[t] # "none" => status[t] # "none"
    /\ status'[t] \in ACTIVE =>
        status[t] \in ACTIVE /\ (Parent[t] \in work.prune => Parent[t] \in work'.prune)
    /\ Terminal(t)' /\ proc'[t] = "working" =>
        t \in work'.kill \/ (Terminal(t) /\ proc[t] = "working" /\ t \notin work.kill)
Leaves ==
    /\ cuts' = 0 => cuts = 0
    /\ crashes' = 0 => crashes = 0
    /\ \A t \in Task : LeavesTask(t)

LEMMA LeavesKeeps ==
    ASSUME HInv, Leaves
    PROVE  HInv'
<1> SUFFICES ASSUME cuts' = 0
             PROVE  /\ \A t \in Task : (Terminal(t) /\ proc[t] = "working" => t \in work.kill)'
                    /\ crashes' = 0 => \A t \in Task : HelpersOf(t)'
  BY DEF HInv
<1>1. ASSUME NEW t \in Task PROVE (Terminal(t) /\ proc[t] = "working" => t \in work.kill)'
  BY DEF HInv, Leaves, LeavesTask
<1>2. ASSUME crashes' = 0, NEW t \in Task PROVE HelpersOf(t)'
  <2>1. HelpersOf(t) /\ LeavesTask(t)
    BY <1>2 DEF HInv, Leaves
  <2>2. Parent[t] # Root => Parent[t] \in Task /\ Parent[Parent[t]] = Root
    BY ParentsAre, DelegationAssumption
  <2>3. Parent[t] # Root => LeavesTask(Parent[t])
    BY <2>2 DEF Leaves
  <2> QED  BY <2>1, <2>2, <2>3 DEF HelpersOf, LeavesTask
<1> QED  BY <1>1, <1>2

\* What a section has left of a kind after one commit of it.
LEMMA AfterDone ==
    ASSUME IInv, NEW kind \in Kinds, NEW x
    PROVE  /\ Done(kind, x) \in [Kinds -> SUBSET (Task \cup Batch)]
           /\ \A k \in Kinds : Done(kind, x)[k] = IF k = kind THEN work[k] \ {x} ELSE work[k]
  BY DEF Done, IInv, TInv, SectionTyped

\* A step that changes no row, process or watch, with nothing to prune or kill before it.
LEMMA QuietLeaves ==
    ASSUME IInv, work.prune = {}, work.kill = {},
           UNCHANGED <<status, pid, proc, monitor, crashes, cuts>>
    PROVE  Leaves
  BY DEF Leaves, LeavesTask, Terminal

LEMMA NothingLeft ==
    ASSUME IInv, holder = Nobody
    PROVE  \A k \in Kinds : work[k] = {}
  BY KindsAre DEF IInv, TInv, SectionTyped

LEMMA PrunedAndKilled ==
    ASSUME NEW kind \in Kinds \ {"prune", "kill"}, NEW x, Doing(kind, x)
    PROVE  x \in work[kind] /\ work.prune = {} /\ work.kill = {}
  BY KindsAre DEF Doing, Rank

LEMMA QuietSections ==
    ASSUME IInv, holder # Nobody,
           \/ AckCollected \/ TakeSnapshot
           \/ \E t \in scope.tasks : Post(t) \/ Settle(t) \/ LeaveRow(t)
           \/ \E b \in Batch : Replay(b) \/ Refuse(b)
    PROVE  Leaves
<1>1. work.prune = {} /\ work.kill = {}
  BY PrunedAndKilled, KindsAre DEF AckCollected, TakeSnapshot, Post, Settle, LeaveRow, Replay,
     Refuse
<1>2. UNCHANGED <<status, pid, proc, monitor, crashes, cuts>>
  BY DEF AckCollected, TakeSnapshot, Post, Settle, LeaveRow, Replay, Refuse, registry, processes,
     bounds
<1> QED  BY <1>1, <1>2, QuietLeaves

LEMMA QuietCalls ==
    ASSUME IInv,
           \/ \E p \in Caller :
                \/ ConfigureTools(p) \/ AwaitReturns(p) \/ \E b \in Batch : Spawn(p, b)
                \/ \E S \in SUBSET Direct(p) : InspectTasks(p, S) \/ AwaitPolls(p, S)
           \/ RootStarts
    PROVE  Leaves
<1>1. holder = Nobody
  BY DEF ConfigureTools, AwaitReturns, Spawn, InspectTasks, AwaitPolls, RootStarts, Lock
<1>2. UNCHANGED <<status, pid, proc, monitor, crashes, cuts>>
  BY DEF ConfigureTools, AwaitReturns, Spawn, InspectTasks, AwaitPolls, RootStarts, registry,
     processes, bounds
<1>3. work.prune = {} /\ work.kill = {}
  BY <1>1, NothingLeft, KindsAre
<1> QED  BY <1>2, <1>3, QuietLeaves

\* Processes move on in their run, or the event on its way: no section takes part.
LEMMA ProcessesLeave ==
    ASSUME IInv, NEW t \in scope.tasks,
           \/ WorkEnds(t) \/ WorkRaises(t) \/ Exit(t) \/ Expire(t) \/ TransferEvent(t)
           \/ HearEvent(t) \/ RootReady
    PROVE  Leaves
<1>1. UNCHANGED <<status, pid, work, crashes, cuts>>
  BY DEF WorkEnds, WorkRaises, Exit, Expire, TransferEvent, HearEvent, RootReady, registry, section,
     bounds
<1>2. t \in Task
  BY RowsAre
<1>3. ASSUME NEW u \in Task
      PROVE  /\ proc[u] \in {"done", "dead"} => proc'[u] \in {"done", "dead"}
             /\ proc'[u] = "working" => proc[u] = "working"
             /\ Parent[u] = Root => monitor'[u] = monitor[u]
  <2>1. CASE Exit(t)
    BY <1>2, <2>1, DelegationAssumption DEF Exit, Step, Gone, IInv, TInv, ProcessesTyped
  <2>2. CASE WorkEnds(t) \/ WorkRaises(t)
    BY <1>2, <2>2 DEF WorkEnds, WorkRaises, Step, IInv, TInv, ProcessesTyped
  <2>3. CASE Expire(t) \/ TransferEvent(t) \/ HearEvent(t) \/ RootReady
    BY <2>3 DEF Expire, TransferEvent, HearEvent, RootReady, processes
  <2> QED  BY <2>1, <2>2, <2>3
<1> QED  BY <1>1, <1>3 DEF Leaves, LeavesTask, Terminal

\* The rows a cancellation closes go to the kills in the same commit.
LEMMA CancelLeaves ==
    ASSUME IInv, NEW S, NEW r \in TERMINAL_TASK_STATUSES, NEW closed, cancel_tree(S, r, closed),
           work.kill = {}, work'.kill = Subtree(S) \cap active_rows,
           \A u \in Task : status[u] \in ACTIVE /\ Parent[u] \in work.prune =>
               Parent[u] \in work'.prune \/ Parent[u] \in S,
           \A u \in Task : proc[u] \in {"done", "dead"} => proc'[u] \in {"done", "dead"},
           \A u \in Task : proc'[u] = "working" => proc[u] = "working",
           UNCHANGED <<pid, monitor, crashes, cuts>>
    PROVE  Leaves
<1> SUFFICES ASSUME NEW u \in Task PROVE LeavesTask(u)
  BY DEF Leaves
<1>1. status'[u] = IF status[u] \in ACTIVE /\ (u \in S \/ Parent[u] \in S)
                   THEN IF u \in S THEN r ELSE "cancelled" ELSE status[u]
  BY Cancelling
<1>2. status[u] \in ACTIVE /\ (u \in S \/ Parent[u] \in S) => u \in work'.kill
  BY RowsAre DEF ACTIVE
<1>3. status'[u] # "none" => status[u] # "none"
  BY <1>1 DEF ACTIVE
<1>4. status'[u] \in ACTIVE => status[u] \in ACTIVE /\ u \notin S /\ Parent[u] \notin S
  BY <1>1 DEF ACTIVE, TERMINAL_TASK_STATUSES
<1>5. Terminal(u)' => u \in work'.kill \/ Terminal(u)
  BY <1>1, <1>2 DEF Terminal
<1> QED  BY <1>3, <1>4, <1>5 DEF LeavesTask

LEMMA CancelsLeave ==
    ASSUME IInv,
           \/ \E t \in scope.tasks : holder # Nobody /\ (Prune(t) \/ FailRow(t))
           \/ \E p \in Caller : \E S \in SUBSET Direct(p) : CancelTasks(p, S)
           \/ \E t \in scope.tasks : DetachHelpers(t) /\ Uncollected(t) # {}
    PROVE  Leaves
<1> USE DEF TERMINAL_TASK_STATUSES
<1>1. ASSUME NEW t \in scope.tasks, Prune(t), holder # Nobody PROVE Leaves
  <2>1. work.kill = {} /\ \A u \in work.prune : u = t
    BY <1>1, KindsAre DEF Prune, Doing, IInv, SInv
  <2>2. work'.kill = Subtree({t}) \cap active_rows
    BY <1>1, AfterDone, KindsAre DEF Prune, Goes
  <2>3. UNCHANGED <<pid, proc, monitor, crashes, cuts>> /\ \E c : cancel_tree({t}, "cancelled", c)
    BY <1>1 DEF Prune, processes, bounds
  <2> QED  BY <2>1, <2>2, <2>3, CancelLeaves
<1>2. ASSUME NEW t \in scope.tasks, FailRow(t), holder # Nobody PROVE Leaves
  <2>1. work.kill = {} /\ work.prune = {}
    BY <1>2, PrunedAndKilled, KindsAre DEF FailRow
  <2>2. work'.kill = Subtree({t}) \cap active_rows
    BY <1>2, AfterDone, KindsAre DEF FailRow, Goes
  <2>3. UNCHANGED <<pid, proc, monitor, crashes, cuts>> /\ \E c : cancel_tree({t}, "failed", c)
    BY <1>2 DEF FailRow, processes, bounds
  <2> QED  BY <2>1, <2>2, <2>3, CancelLeaves
<1>3. ASSUME NEW p \in Caller, NEW S \in SUBSET Direct(p), CancelTasks(p, S) PROVE Leaves
  <2>1. work.kill = {} /\ work.prune = {}
    BY <1>3, NothingLeft, KindsAre DEF CancelTasks, Lock
  <2>2. work'.kill = Subtree(S) \cap active_rows
    BY <1>3, KindsAre DEF CancelTasks, Lock
  <2>3. UNCHANGED <<pid, proc, monitor, crashes, cuts>> /\ \E c : cancel_tree(S, "cancelled", c)
    BY <1>3 DEF CancelTasks, processes, bounds
  <2> QED  BY <2>1, <2>2, <2>3, CancelLeaves
<1>4. ASSUME NEW t \in scope.tasks, DetachHelpers(t), Uncollected(t) # {} PROVE Leaves
  <2>1. work.kill = {} /\ work.prune = {}
    BY <1>4, NothingLeft, KindsAre DEF DetachHelpers, Detach, Lock
  <2>2. Subtree(Uncollected(t)) \cap active_rows = Uncollected(t) \cap active_rows
    <3>1. \A u \in Task : Parent[u] \notin Uncollected(t)
      BY RowsAre, DelegationAssumption DEF Uncollected, Direct
    <3>2. \A u \in Task : u \in active_rows => status[u] # "none"
      BY RowsAre DEF ACTIVE
    <3> QED  BY <3>1, <3>2, RowsAre
  <2>3. work'.kill = Subtree(Uncollected(t)) \cap active_rows
    BY <1>4, <2>2, KindsAre DEF DetachHelpers, Detach, Lock
  <2>4. t \in Task /\ proc[t] = "detach" /\ proc' = [proc EXCEPT ![t] = "detached"]
    BY <1>4, RowsAre DEF DetachHelpers, Detach, Step
  <2>5. \A u \in Task : /\ proc[u] \in {"done", "dead"} => proc'[u] \in {"done", "dead"}
                        /\ proc'[u] = "working" => proc[u] = "working"
    BY <2>4 DEF IInv, TInv, ProcessesTyped
  <2>6. /\ UNCHANGED <<pid, monitor, crashes, cuts>>
        /\ \E c : cancel_tree(Uncollected(t), "cancelled", c)
    BY <1>4 DEF DetachHelpers, Detach, bounds
  <2> QED  BY <2>1, <2>3, <2>5, <2>6, CancelLeaves
<1> QED  BY <1>1, <1>2, <1>3, <1>4

\* A child that records its outcome, or detaches from nothing, is no longer at work.
LEMMA RecordsLeave ==
    ASSUME IInv, NEW t \in scope.tasks,
           \/ RecordRaised(t) \/ RecordDetached(t) \/ RecordOutcome(t)
           \/ DetachHelpers(t) /\ Uncollected(t) = {}
    PROVE  Leaves
<1>1. t \in Task
  BY RowsAre
<1>2. holder = Nobody /\ UNCHANGED <<pid, monitor, crashes, cuts>>
  BY DEF RecordRaised, RecordDetached, RecordOutcome, RecordResult, Lock, DetachHelpers, Detach,
     registry, bounds
<1>3. work.prune = {} /\ work.kill = {}
  BY <1>2, NothingLeft, KindsAre
<1>4. /\ proc[t] \in {"raised", "detach", "detached", "record"}
      /\ proc' = [proc EXCEPT ![t] = proc'[t]] /\ proc'[t] # "working"
  BY <1>1 DEF RecordRaised, RecordDetached, RecordOutcome, RecordResult, DetachHelpers, Detach,
     Step, IInv, TInv, ProcessesTyped
<1>5. \A u \in Task : /\ proc[u] \in {"done", "dead"} => proc'[u] \in {"done", "dead"}
                      /\ proc'[u] = "working" => proc[u] = "working" /\ u # t
  BY <1>1, <1>4 DEF IInv, TInv, ProcessesTyped
<1>6. \A u \in Task : /\ u # t => status'[u] = status[u]
                      /\ status'[u] # "none" => status[u] # "none"
                      /\ status'[u] \in ACTIVE => status[u] \in ACTIVE
  <2>1. status' = status \/ status' = [status EXCEPT ![t] = IF @ \in ACTIVE THEN ending[t] ELSE @]
    BY DEF RecordRaised, RecordDetached, RecordOutcome, RecordResult, finish, DetachHelpers, Detach,
       registry
  <2> QED  BY <1>1, <2>1 DEF IInv, TInv, RowsTyped, ProcessesTyped, ACTIVE
<1> QED  BY <1>2, <1>3, <1>5, <1>6 DEF Leaves, LeavesTask, Terminal

\* A launch: what it starts has an active row, what it gives up is not at work.
LEMMA LaunchesLeave ==
    ASSUME IInv, holder # Nobody, NEW t \in scope.tasks,
           claim_launch(t) \/ StartProcess(t) \/ StartFails(t) \/ mark_running(t)
    PROVE  Leaves
<1>1. work.prune = {} /\ work.kill = {}
  BY PrunedAndKilled, KindsAre DEF claim_launch, StartProcess, StartFails, mark_running
<1>2. t \in Task
  BY RowsAre
<1>3. UNCHANGED <<crashes, cuts>>
  BY DEF claim_launch, StartProcess, StartFails, mark_running, bounds
<1>4. CASE claim_launch(t)
  BY <1>1, <1>2, <1>3, <1>4 DEF claim_launch, processes, IInv, TInv, RowsTyped, Leaves, LeavesTask,
     Terminal, ACTIVE, TERMINAL_TASK_STATUSES
<1>5. CASE StartProcess(t)
  <2>1. status[t] = "starting" /\ proc[t] = "none"
    BY <1>2, <1>5, PrunedAndKilled, KindsAre DEF StartProcess, IInv, SInv, RInv, RowFor
  <2>2. UNCHANGED <<status, pid, monitor>> /\ proc' = [proc EXCEPT ![t] = "working"]
    BY <1>5 DEF StartProcess, registry
  <2> QED  BY <1>1, <1>2, <1>3, <2>1, <2>2 DEF IInv, TInv, ProcessesTyped, Leaves, LeavesTask,
           Terminal, TERMINAL_TASK_STATUSES
<1>6. CASE StartFails(t)
  <2>1. status[t] = "starting" /\ pid' = pid
        /\ \A u \in Task : status'[u] = IF u = t THEN "failed" ELSE status[u]
    BY <1>2, <1>6 DEF StartFails, finish, ACTIVE, IInv, TInv, RowsTyped
  <2>2. t \in work.confirm \/ proc[t] = "none"
    <3>1. t \in work.confirm \/ t \in work.launch
      BY <1>6 DEF StartFails, Doing
    <3> QED  BY <1>2, <2>1, <3>1 DEF IInv, SInv, RInv, RowFor
  <2>3. \A u \in Task : proc'[u] = IF u \in {t} \cap work.confirm THEN "dead" ELSE proc[u]
    BY <1>6 DEF StartFails, Dead
  <2>4. \A u \in Task : Parent[u] = Root => monitor'[u] = monitor[u]
    BY <1>2, <1>6, DelegationAssumption DEF StartFails, Dead, Gone, IInv, TInv, ProcessesTyped
  <2> QED  BY <1>1, <1>2, <1>3, <2>1, <2>2, <2>3, <2>4 DEF Leaves, LeavesTask, Terminal, ACTIVE
<1>7. CASE mark_running(t)
  <2>1. status[t] = "starting"
    BY <1>2, <1>7, PrunedAndKilled, KindsAre DEF mark_running, IInv, SInv
  <2>2. /\ status' = [status EXCEPT ![t] = "running"] /\ pid' = [pid EXCEPT ![t] = TRUE]
        /\ monitor' = [monitor EXCEPT ![t] = TRUE] /\ proc' = proc
    BY <1>7 DEF mark_running
  <2> QED  BY <1>1, <1>2, <1>3, <2>1, <2>2 DEF IInv, TInv, RowsTyped, ProcessesTyped, Leaves,
           LeavesTask, Terminal, ACTIVE, TERMINAL_TASK_STATUSES
<1> QED  BY <1>4, <1>5, <1>6, <1>7

\* Without a cut everybody at work who is to be killed is reached.
LEMMA KillHelpers == ASSUME IInv, HInv, holder # Nobody, Kill PROVE HInv'
<1>1. UNCHANGED <<registry, crashes, cuts>> /\ work.prune = {} /\ work.kill # {}
  BY DEF Kill, bounds
<1>2. CASE cuts # 0
  BY <1>1, <1>2 DEF HInv
<1>3. CASE cuts = 0
  <2>1. work.confirm = {}
    BY <1>1, KindsAre DEF IInv, SInv
  <2>2. \A u \in Task : u \in work.kill /\ Alive(u) => u \in Reached(work.kill)
    BY <1>3, <2>1 DEF IInv, UInv, UncutFor, Reached
  <2>3. \A u \in Task : proc'[u] = IF u \in Reached(work.kill) THEN "dead" ELSE proc[u]
    BY DEF Kill, Dead
  <2>4. \A u \in Task : Parent[u] = Root => monitor'[u] = monitor[u]
    <3>1. Root \notin Reached(work.kill)
      BY KindsAre, DelegationAssumption DEF Reached, IInv, TInv, SectionTyped
    <3> QED  BY <3>1 DEF Kill, Dead, Gone, IInv, TInv, ProcessesTyped
  <2>5. \A u \in Task : proc'[u] = "working" => proc[u] = "working" /\ u \notin work.kill
    BY <2>2, <2>3 DEF Alive
  <2>6. Leaves
    BY <1>1, <2>3, <2>4, <2>5 DEF registry, Leaves, LeavesTask, Terminal
  <2> QED  BY <2>6, LeavesKeeps
<1> QED  BY <1>2, <1>3

\* A child that dies, outside its section.
LEMMA DeathHelpers ==
    ASSUME IInv, HInv, NEW t \in scope.tasks,
           MonitorTimesOut(t) \/ ChildDies(t) \/ SupervisorKills(t)
    PROVE  HInv'
<1>1. Dead({t}) /\ Cut(t) /\ UNCHANGED <<registry, crashes>>
  BY DEF MonitorTimesOut, ChildDies, SupervisorKills
<1>2. t \in Task
  BY RowsAre
<1>3. CASE cuts' # 0
  BY <1>3 DEF HInv
<1>4. CASE work' = work /\ cuts' = cuts
  <2>1. \A u \in Task : proc'[u] = IF u = t THEN "dead" ELSE proc[u]
    BY <1>1 DEF Dead
  <2>2. \A u \in Task : Parent[u] = Root => monitor'[u] = monitor[u]
    BY <1>1, <1>2, DelegationAssumption DEF Dead, Gone, IInv, TInv, ProcessesTyped
  <2>3. Leaves
    BY <1>1, <1>4, <2>1, <2>2 DEF registry, Leaves, LeavesTask, Terminal
  <2> QED  BY <2>3, LeavesKeeps
<1> QED  BY <1>1, <1>3, <1>4, Cutting

\* After a death of the worker nothing is said of helpers but who is to be killed.
LEMMA RootDiesHelpers == ASSUME IInv, HInv, RootDies PROVE HInv'
<1>1. crashes' # 0 /\ UNCHANGED <<status, proc>>
  BY DEF RootDies, registry, IInv, TInv, BoundsTyped
<1>2. cuts' # 0 \/ (work' = work /\ cuts' = cuts)
  BY Cutting DEF RootDies
<1> QED  BY <1>1, <1>2 DEF HInv, Terminal

\* The parent of a new helper is at work: its pid is known and its monitor watches it.
LEMMA ReserveHelpers ==
    ASSUME IInv, HInv, holder # Nobody, NEW b \in Batch, Reserve(b)
    PROVE  HInv'
<1>1. b \in work.reserve /\ work.prune = {} /\ work.kill = {}
  BY PrunedAndKilled, KindsAre DEF Reserve
<1>2. UNCHANGED <<pid, proc, monitor, crashes, cuts>>
      /\ \A u \in Task : status'[u] = IF u \in Tasks(b) THEN "queued" ELSE status[u]
  BY DEF Reserve, processes, bounds
<1>3. \A u \in Tasks(b) : Parent[u] = holder /\ (holder \in Task => proc[holder] = "working")
  BY <1>1 DEF IInv, SInv
<1>4. work.confirm = {}
  BY <1>1, KindsAre DEF IInv, SInv
<1>5. CASE cuts # 0
  BY <1>2, <1>5 DEF HInv
<1>6. CASE cuts = 0
  <2>1. \A u \in Task : Terminal(u)' /\ proc'[u] = "working" => u \in work'.kill
    BY <1>1, <1>2, <1>6 DEF HInv, Terminal, TERMINAL_TASK_STATUSES
  <2>2. ASSUME crashes = 0, NEW u \in Task PROVE HelpersOf(u)'
    <3>1. HelpersOf(u)
      BY <1>6, <2>2 DEF HInv
    <3>2. CASE u \notin Tasks(b)
      BY <1>1, <1>2, <3>1, <3>2 DEF HelpersOf
    <3>3. CASE u \in Tasks(b) /\ Parent[u] = Root
      BY <1>2, <3>1, <3>3 DEF HelpersOf
    <3>4. CASE u \in Tasks(b) /\ Parent[u] # Root
      <4>1. Parent[u] \in Task /\ Parent[Parent[u]] = Root /\ proc[Parent[u]] = "working"
        BY <1>3, <3>4, ParentsAre, DelegationAssumption
      <4>2. pid[Parent[u]]
        BY <1>4, <1>6, <4>1 DEF IInv, UInv, UncutFor, Alive
      <4>3. monitor[Parent[u]]
        BY <1>6, <2>2, <4>1, <4>2 DEF HInv, HelpersOf
      <4> QED  BY <1>2, <3>4, <4>2, <4>3 DEF HelpersOf
    <3> QED  BY <3>2, <3>3, <3>4
  <2> QED  BY <1>2, <2>1, <2>2 DEF HInv
<1> QED  BY <1>5, <1>6

\* Who ends without a finished run is pruned next; who finished has left nobody active.
LEMMA MonitorHelpers ==
    ASSUME IInv, HInv, NEW t \in scope.tasks, MonitorCompletes(t)
    PROVE  HInv'
<1> DEFINE ok == proc[t] = "done" /\ ending[t] = "finished"
<1>1. /\ t \in Task /\ proc[t] \in {"done", "dead"} /\ holder = Nobody
      /\ UNCHANGED <<pid, proc, crashes, cuts>>
      /\ \A u \in Task : monitor'[u] = (monitor[u] /\ u # t)
  BY RowsAre DEF MonitorCompletes, Lock, bounds, IInv, TInv, ProcessesTyped
<1>2. work.prune = {} /\ work.kill = {}
  BY <1>1, NothingLeft, KindsAre
<1>3. work'.kill = {} /\ work'.prune = IF ok THEN {} ELSE {t}
  BY KindsAre DEF MonitorCompletes, Lock, PrunedAfter
<1>4. \A u \in Task : /\ u # t => status'[u] = status[u]
                      /\ status'[u] # "none" => status[u] # "none"
                      /\ status'[u] \in ACTIVE => status[u] \in ACTIVE /\ u # t
  BY <1>1 DEF MonitorCompletes, finish, ACTIVE, IInv, TInv, RowsTyped
<1>5. CASE cuts # 0
  BY <1>1, <1>5 DEF HInv
<1>6. CASE cuts = 0
  <2>1. \A u \in Task : Terminal(u)' /\ proc'[u] = "working" => u \in work'.kill
    BY <1>1, <1>2, <1>4, <1>6 DEF HInv, Terminal
  <2>2. ASSUME crashes = 0, NEW u \in Task PROVE HelpersOf(u)'
    <3>1. HelpersOf(u)
      BY <1>6, <2>2 DEF HInv
    <3>2. ok /\ Parent[u] = t => status[u] \notin ACTIVE
      BY <1>1 DEF IInv, EInv, EndFor, NoneLeft, Terminal, ACTIVE, TERMINAL_TASK_STATUSES
    <3>3. Parent[u] # Root => Parent[u] \in Task
      BY ParentsAre
    <3>4. status'[u] \in ACTIVE /\ Parent[u] # Root
            => monitor'[Parent[u]] \/ Parent[u] \in work'.prune
      BY <1>1, <1>2, <1>3, <1>4, <3>1, <3>2, <3>3 DEF HelpersOf
    <3> QED  BY <1>1, <1>4, <3>1, <3>4 DEF HelpersOf
  <2> QED  BY <1>1, <2>1, <2>2 DEF HInv
<1> QED  BY <1>5, <1>6

LEMMA NextHelpers == IInv /\ HInv /\ [Next]_vars => HInv'
<1> SUFFICES ASSUME IInv, HInv, [Next]_vars PROVE HInv'
  OBVIOUS
<1>1. CASE SectionStep
  <2>1. CASE Kill
    BY <1>1, <2>1, KillHelpers DEF SectionStep
  <2>2. ASSUME NEW b \in Batch, Reserve(b) PROVE HInv'
    BY <1>1, <2>2, ReserveHelpers DEF SectionStep
  <2>3. ASSUME NEW t \in scope.tasks,
               claim_launch(t) \/ StartProcess(t) \/ StartFails(t) \/ mark_running(t)
        PROVE  HInv'
    BY <1>1, <2>3, LaunchesLeave, LeavesKeeps DEF SectionStep
  <2>4. ASSUME NEW t \in scope.tasks, Prune(t) \/ FailRow(t) PROVE HInv'
    BY <1>1, <2>4, CancelsLeave, LeavesKeeps DEF SectionStep
  <2>5. CASE \/ AckCollected \/ TakeSnapshot
             \/ \E t \in scope.tasks : Post(t) \/ Settle(t) \/ LeaveRow(t)
             \/ \E b \in Batch : Replay(b) \/ Refuse(b)
    BY <1>1, <2>5, QuietSections, LeavesKeeps DEF SectionStep
  <2> QED  BY <1>1, <2>1, <2>2, <2>3, <2>4, <2>5 DEF SectionStep
<1>2. CASE Call \/ RootStarts
  BY <1>2, QuietCalls, CancelsLeave, LeavesKeeps DEF Call
<1>3. ASSUME NEW t \in scope.tasks,
             \/ WorkEnds(t) \/ WorkRaises(t) \/ Exit(t) \/ Expire(t) \/ TransferEvent(t)
             \/ HearEvent(t) \/ RootReady
      PROVE  HInv'
  BY <1>3, ProcessesLeave, LeavesKeeps
<1>4. ASSUME NEW t \in scope.tasks, RunEnds(t) PROVE HInv'
  <2>1. CASE RecordRaised(t) \/ RecordDetached(t) \/ RecordOutcome(t)
    BY <2>1, RecordsLeave, LeavesKeeps
  <2>2. CASE DetachHelpers(t)
    BY <2>2, RecordsLeave, CancelsLeave, LeavesKeeps
  <2> QED  BY <1>3, <1>4, <2>1, <2>2 DEF RunEnds
<1>5. ASSUME NEW t \in scope.tasks,
             \/ MonitorCompletes(t) \/ MonitorTimesOut(t) \/ ChildDies(t) \/ SupervisorKills(t)
      PROVE  HInv'
  BY <1>5, MonitorHelpers, DeathHelpers
<1>6. CASE RootDies
  BY <1>6, RootDiesHelpers
<1>7. CASE RootReady
  <2>1. UNCHANGED <<status, pid, proc, monitor, work, crashes, cuts>>
    BY <1>7 DEF RootReady, registry, section, bounds
  <2> QED  BY <2>1 DEF HInv, HelpersOf, Terminal
<1>8. CASE UNCHANGED vars
  BY <1>8 DEF vars, registry, processes, section, bounds, HInv, HelpersOf, Terminal
<1> QED  BY <1>1, <1>2, <1>3, <1>4, <1>5, <1>6, <1>7, <1>8 DEF Next

\* Without a death of the worker or inside a section: once a task is over, its process gone and
\* its monitor done, no helper of it is active or at work.  The process cancels them before it
\* records that it finished (cancel_pending_descendants, delegation.py:1323-1346), after any
\* other end its monitor does.
THEOREM HelpersEnd == Spec => []HelpersEndWithTask
<1>1. Init => HInv
  BY DEF Init, HInv, HelpersOf, Terminal, ACTIVE, TERMINAL_TASK_STATUSES
<1>2. IInv /\ HInv => HelpersEndWithTask
  <2> SUFFICES ASSUME IInv, HInv, crashes = 0, cuts = 0, holder = Nobody,
                      NEW h \in Task, Parent[h] # Root, Terminal(Parent[h]), ~monitor[Parent[h]]
               PROVE  h \notin active_rows /\ proc[h] # "working"
    BY DEF HelpersEndWithTask
  <2>1. work.prune = {} /\ work.kill = {}
    BY NothingLeft, KindsAre
  <2>2. HelpersOf(h) /\ (Terminal(h) => proc[h] # "working")
    BY <2>1 DEF HInv
  <2>3. status[h] \notin ACTIVE
    BY <2>1, <2>2 DEF HelpersOf
  <2>4. status[h] = "none" => proc[h] # "working"
    BY DEF IInv, RInv, RowFor
  <2> QED  BY <2>2, <2>3, <2>4, RowsAre DEF IInv, TInv, RowsTyped, Status, Terminal
<1> QED  BY <1>1, <1>2, NextHelpers, DelegationInvariant, PTL DEF Spec

=============================================================================
