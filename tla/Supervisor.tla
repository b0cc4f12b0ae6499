----------------------------- MODULE Supervisor -----------------------------
(***************************************************************************)
(* The supervisor of a controller worker (senpai_agent/supervisor.py): it  *)
(* spawns the worker, reads the lease the worker publishes, ends a worker  *)
(* whose lease has run out, and starts the next one after a backoff.       *)
(*                                                                         *)
(* In the worker the controller thread publishes each of its phases with a *)
(* deadline (controller.py), events of a turn renew it, and the publisher  *)
(* of the inference heartbeat (inference_heartbeat.py) rewrites the lease  *)
(* for every model request, from a thread that outlives a hung one.        *)
(*                                                                         *)
(* Deadlines are timers that count down: a timer at 0 lies in the past.    *)
(* A pid may be given to a later worker.                                   *)
(***************************************************************************)
EXTENDS Naturals, Sequences, FiniteSetsExt

CONSTANTS
    Pid,             \* process ids
    Requests,        \* model requests of a turn, numbered in order of their start
    TurnLease,       \* timeout of a turn and of its renewals
    OperationLease,  \* timeout of any other phase
    StartupTimeout,  \* how long a worker may go without a lease
    InitialBackoff,  \* delay after the first failure
    MaxBackoff,      \* ceiling of the delay
    MaxErrors,       \* bound: lease writes that fail
    MaxQueue,        \* bound: states the publisher has not taken
    MaxSteers        \* bound: events a worker emits without its controller thread

ASSUME SupervisorAssumption ==
    /\ 0 \notin Pid
    /\ Requests \subseteq Nat \ {0}
    /\ {TurnLease, OperationLease, StartupTimeout, InitialBackoff, MaxBackoff} \subseteq Nat \ {0}
    /\ {MaxErrors, MaxQueue, MaxSteers} \subseteq Nat

VARIABLES
    sup,        \* step of the supervisor
    stop,       \* the stop event
    seen,       \* the lease as the supervisor read it
    made,       \* made_progress
    reason,     \* why the worker was ended
    failures,   \* failures, as far as the delay tells them apart
    before,     \* history: failures when this worker was spawned
    age,        \* timer: startup timeout
    delay,      \* timer: backoff
    worker,     \* "none", "alive" or "dead"
    pid,        \* its pid
    hung,       \* its controller thread will never take another step
    phase,      \* ProgressLease._phase
    deadline,   \* timer: ProgressLease._deadline
    turned,     \* ProgressLease.completed_turns > 0
    request,    \* ProgressLease._llm_request_started_at
    renewed,    \* an event renewed the lease less than the renewal interval ago
    active,     \* InferenceHeartbeat._active
    queue,      \* InferenceHeartbeat._states
    started,    \* started_at of the publisher
    steers,     \* events so far that a hung turn emitted
    behind,     \* the last write of the lease failed
    errors,     \* writes that failed
    file        \* the lease file

supVars == <<sup, stop, seen, made, reason, failures, before, age, delay>>
leaseVars == <<phase, deadline, turned, request>>
beatVars == <<active, queue, started>>
writeVars == <<behind, errors, file>>
vars == <<supVars, worker, pid, hung, leaseVars, renewed, beatVars, steers, writeVars>>

NoLease == [pid |-> 0, phase |-> "none", left |-> 0, turned |-> FALSE, request |-> 0,
            own |-> FALSE]

Phase == {"startup", "gate", "acknowledge", "complete", "poll", "reconcile", "turn", "sleep"}

\* The phases the controller publishes, each after which.
Follows ==
    [none        |-> {"startup"},
     startup     |-> {"gate", "acknowledge", "complete", "poll"},
     gate        |-> {"gate", "acknowledge", "complete", "poll"},
     acknowledge |-> {"complete"},
     complete    |-> {"acknowledge", "complete", "poll"},
     poll        |-> {"reconcile", "turn", "sleep"},
     reconcile   |-> {"reconcile", "turn", "sleep"},
     turn        |-> {"turn", "acknowledge", "complete", "sleep"},
     sleep       |-> {"acknowledge", "complete", "poll"}]

Lease(p) == IF p = "turn" THEN TurnLease ELSE OperationLease

\* The delay doubles from failure to failure up to its ceiling.
Delay(f) ==
    LET full == InitialBackoff * 2 ^ (f - 1) IN IF full > MaxBackoff THEN MaxBackoff ELSE full
Settled(f) == f > 1 /\ Delay(f - 1) = MaxBackoff

LeaseFile == [pid : Pid, phase : Phase, left : Nat, turned : BOOLEAN,
              request : Requests \cup {0}, own : BOOLEAN]

TypeOK ==
    /\ sup \in {"spawning", "watching", "judging", "checking", "ending", "backoff", "done"}
    /\ {stop, made, hung, turned, renewed, behind} \subseteq BOOLEAN
    /\ {file, seen} \subseteq LeaseFile \cup {NoLease}
    /\ reason \in {"none", "overdue", "startup-timeout", "exit", "shutdown"}
    /\ {failures, before, age, delay, deadline} \subseteq Nat
    /\ worker \in {"none", "alive", "dead"} /\ pid \in Pid \cup {0}
    /\ phase \in Phase \cup {"none"}
    /\ active \subseteq Requests /\ {request, started} \subseteq Requests \cup {0}
    /\ queue \in Seq(Requests \cup {0}) /\ Len(queue) <= MaxQueue
    /\ errors \in 0..MaxErrors /\ steers \in 0..MaxSteers

Init ==
    /\ sup = "spawning" /\ stop = FALSE /\ seen = NoLease /\ made = FALSE /\ reason = "none"
    /\ failures = 0 /\ before = 0 /\ age = 0 /\ delay = 0
    /\ worker = "none" /\ pid = 0 /\ hung = FALSE
    /\ phase = "none" /\ deadline = 0 /\ turned = FALSE /\ request = 0 /\ renewed = FALSE
    /\ active = {} /\ queue = <<>> /\ started = 0
    /\ steers = 0 /\ behind = FALSE /\ errors = 0 /\ file = NoLease

-----------------------------------------------------------------------------
(* The lease file, replaced atomically under the lock of ProgressLease. *)

Written(p, left, t, r) ==
    [pid |-> pid, phase |-> p, left |-> left, turned |-> t, request |-> r, own |-> TRUE]

Write(p, left, t, r) ==
    /\ file' = Written(p, left, t, r) /\ behind' = FALSE
    /\ UNCHANGED errors

WriteFails ==
    /\ errors < MaxErrors /\ errors' = errors + 1 /\ behind' = TRUE
    /\ UNCHANGED file

-----------------------------------------------------------------------------
(* The controller thread. *)

Runs == worker = "alive" /\ ~hung

\* What a worker had in memory ends with it.
Gone ==
    /\ worker' = "dead" /\ hung' = FALSE
    /\ phase' = "none" /\ deadline' = 0 /\ request' = 0 /\ renewed' = FALSE
    /\ active' = {} /\ queue' = <<>> /\ started' = 0 /\ steers' = 0
    /\ UNCHANGED <<pid, turned>>

\* Fault: closing the heartbeat does not wait for its publisher.
ClosedUnflushed == active = {}
\* InferenceHeartbeat.close: no request is active, the queue has been published.
Closed == active = {} /\ queue = <<>>

\* ProgressLease.update by _publish_progress.  A turn has a heartbeat of its
\* own, which it closes.
Publish(p) ==
    /\ Runs /\ p \in Follows[phase]
    /\ phase = "turn" => Closed
    /\ phase' = p /\ deadline' = Lease(p) /\ turned' = (turned \/ p = "complete")
    /\ Write(p, Lease(p), turned', request)
    /\ started' = IF phase = "turn" THEN 0 ELSE started
    /\ UNCHANGED <<supVars, worker, pid, hung, request, renewed, active, queue, steers>>

\* An OSError in it ends the worker.
PublishFails ==
    /\ Runs /\ (phase = "turn" => Closed)
    /\ WriteFails /\ Gone
    /\ UNCHANGED supVars

\* An event of a turn renews its lease, at most once per renewal interval; an
\* OSError is printed.  A message steered into a hung turn is an event as well.
Activity ==
    /\ worker = "alive" /\ phase = "turn" /\ ~renewed
    /\ renewed' = TRUE
    /\ IF hung THEN steers < MaxSteers /\ steers' = steers + 1 ELSE UNCHANGED steers
    /\ deadline' = TurnLease
    /\ Write(phase, TurnLease, turned, request) \/ WriteFails
    /\ UNCHANGED <<supVars, worker, pid, hung, phase, turned, request, beatVars>>

Hang ==
    /\ Runs /\ hung' = TRUE
    /\ UNCHANGED <<supVars, worker, pid, leaseVars, renewed, beatVars, steers, writeVars>>

\* The worker crashes, or its controller raises.
Exit ==
    /\ worker = "alive" /\ Gone
    /\ UNCHANGED <<supVars, writeVars>>

-----------------------------------------------------------------------------
(* The inference heartbeat of a turn. *)

Earliest(rs) == IF rs = {} THEN 0 ELSE Min(rs)

\* A request that starts, in the order of the numbers.
RequestStarts(r) ==
    /\ Runs /\ phase = "turn" /\ Len(queue) < MaxQueue
    /\ r \notin active /\ \A s \in active : s < r
    /\ active' = active \cup {r}
    /\ queue' = Append(queue, Earliest(active'))
    /\ UNCHANGED <<supVars, worker, pid, hung, leaseVars, renewed, started, steers, writeVars>>

\* Fault: a request that ends clears the state, whatever else is active.
RequestEndsAlone(r) ==
    /\ worker = "alive" /\ r \in active /\ Len(queue) < MaxQueue
    /\ active' = active \ {r}
    /\ queue' = Append(queue, 0)
    /\ UNCHANGED <<supVars, worker, pid, hung, leaseVars, renewed, started, steers, writeVars>>
\* A hung thread may hang after its request.
RequestEnds(r) ==
    /\ worker = "alive" /\ r \in active /\ Len(queue) < MaxQueue
    /\ active' = active \ {r}
    /\ queue' = Append(queue, Earliest(active'))
    /\ UNCHANGED <<supVars, worker, pid, hung, leaseVars, renewed, started, steers, writeVars>>

\* Fault: the heartbeat renews the deadline.
UpdateRequestRenewing(r) ==
    /\ request' = r /\ deadline' = Lease(phase)
    /\ Write(phase, Lease(phase), turned, r) \/ WriteFails
\* ProgressLease.update_llm_request: the deadline is written again as it was.
UpdateRequest(r) ==
    /\ request' = r /\ UNCHANGED deadline
    /\ Write(phase, deadline, turned, r) \/ WriteFails

\* The publisher takes the next state, or pulses when there has been none for
\* an interval while a request is active.
Beat ==
    /\ worker = "alive"
    /\ \/ queue # <<>> /\ started' = Head(queue) /\ queue' = Tail(queue)
       \/ queue = <<>> /\ started # 0 /\ UNCHANGED <<started, queue>>
    /\ UpdateRequest(started')
    /\ UNCHANGED <<supVars, worker, pid, hung, phase, turned, renewed, active, steers>>

-----------------------------------------------------------------------------
(* WorkerSupervisor.run. *)

workerVars == <<worker, pid, hung, leaseVars, renewed, beatVars, steers>>

\* Fault: the lease of the last worker stays.
UnlinkedNot == [file EXCEPT !.own = FALSE]
\* lease_path.unlink: a new worker starts without a lease.
Unlinked == NoLease

Spawn(p) ==
    /\ sup = "spawning" /\ ~stop
    /\ file' = Unlinked
    /\ worker' = "alive" /\ pid' = p /\ hung' = FALSE
    /\ phase' = "none" /\ deadline' = 0 /\ turned' = FALSE /\ request' = 0 /\ renewed' = FALSE
    /\ active' = {} /\ queue' = <<>> /\ started' = 0 /\ steers' = 0 /\ behind' = FALSE
    /\ seen' = NoLease /\ made' = FALSE /\ reason' = "none"
    /\ before' = failures /\ age' = StartupTimeout
    /\ sup' = "watching"
    /\ UNCHANGED <<stop, failures, delay, errors>>

Return ==
    /\ sup = "spawning" /\ stop
    /\ sup' = "done"
    /\ UNCHANGED <<stop, seen, made, reason, failures, before, age, delay, workerVars, writeVars>>

\* One round of _wait_for_worker: read the lease ...
ReadLease ==
    /\ sup = "watching" /\ ~stop
    /\ seen' = file
    /\ sup' = "judging"
    /\ UNCHANGED <<stop, made, reason, failures, before, age, delay, workerVars, writeVars>>

Shutdown ==
    /\ sup = "watching" /\ stop
    /\ reason' = "shutdown" /\ sup' = "ending"
    /\ UNCHANGED <<stop, seen, made, failures, before, age, delay, workerVars, writeVars>>

\* ... compare it with the clock ...
Overdue == seen.pid = pid /\ seen.left = 0
LateStart == seen.pid # pid /\ age = 0

JudgeLease ==
    /\ sup = "judging"
    /\ made' = (made \/ (seen.pid = pid /\ seen.turned))
    /\ sup' = IF Overdue \/ LateStart THEN "ending" ELSE "checking"
    /\ reason' = IF Overdue THEN "overdue" ELSE IF LateStart THEN "startup-timeout" ELSE reason
    /\ UNCHANGED <<stop, seen, failures, before, age, delay, workerVars, writeVars>>

\* ... and see whether the worker is there.
StillRuns ==
    /\ sup = "checking" /\ worker = "alive"
    /\ sup' = "watching" /\ seen' = NoLease
    /\ UNCHANGED <<stop, made, reason, failures, before, age, delay, workerVars, writeVars>>

\* Fault: the lease is not read again.
HasExitedUnread ==
    /\ sup = "checking" /\ worker = "dead"
    /\ sup' = "ending" /\ reason' = "exit"
    /\ UNCHANGED <<stop, seen, made, failures, before, age, delay, workerVars, writeVars>>
\* Its last lease counts.
HasExited ==
    /\ sup = "checking" /\ worker = "dead"
    /\ made' = (made \/ (file.pid = pid /\ file.turned))
    /\ sup' = "ending" /\ reason' = "exit"
    /\ UNCHANGED <<stop, seen, failures, before, age, delay, workerVars, writeVars>>

\* _terminate_worker: SIGTERM, the grace period, SIGKILL.  The worker's threads
\* run on until it is gone.
Ended ==
    /\ sup = "ending"
    /\ Gone
    /\ IF stop THEN sup' = "done" /\ UNCHANGED <<failures, delay>>
       ELSE /\ failures' = IF made THEN 1 ELSE IF Settled(failures) THEN failures ELSE failures + 1
            /\ delay' = Delay(failures')
            /\ sup' = "backoff"
    /\ seen' = NoLease
    /\ UNCHANGED <<stop, made, reason, before, age, writeVars>>

Backoff ==
    /\ sup = "backoff" /\ (delay = 0 \/ stop)
    /\ sup' = "spawning"
    /\ UNCHANGED <<stop, seen, made, reason, failures, before, age, delay, workerVars, writeVars>>

StopRequested ==
    /\ ~stop /\ stop' = TRUE
    /\ UNCHANGED <<sup, seen, made, reason, failures, before, age, delay, workerVars, writeVars>>

-----------------------------------------------------------------------------

Less(n) == IF n = 0 THEN 0 ELSE n - 1

Tick ==
    /\ age' = Less(age) /\ delay' = Less(delay) /\ deadline' = Less(deadline)
    /\ file' = [file EXCEPT !.left = Less(@)] /\ seen' = [seen EXCEPT !.left = Less(@)]
    /\ renewed' = FALSE
    /\ UNCHANGED <<sup, stop, made, reason, failures, before, worker, pid, hung, phase, turned,
                   request, beatVars, steers, behind, errors>>

Supervising ==
    \/ \E p \in Pid : Spawn(p)
    \/ Return \/ ReadLease \/ Shutdown \/ JudgeLease \/ StillRuns \/ HasExited \/ Ended \/ Backoff

Working ==
    \/ \E p \in Phase : Publish(p)
    \/ \E r \in Requests : RequestStarts(r) \/ RequestEnds(r)
    \/ PublishFails \/ Activity \/ Beat \/ Hang \/ Exit

Next == Supervising \/ Working \/ StopRequested \/ Tick

\* The supervisor runs and time passes; the worker owes nothing.
Spec == Init /\ [][Next]_vars /\ WF_vars(Supervising) /\ WF_vars(Tick)

-----------------------------------------------------------------------------
(* Properties. *)

\* A worker is judged by what it wrote itself: neither its deadline nor its
\* progress is that of a dead worker, also when the pid is the same.
JudgedByOwnLease ==
    /\ sup = "ending" /\ reason = "overdue" => seen.own
    /\ made /\ worker # "none" => turned

\* "The supervisor resets bounded restart backoff only after a turn is
\* successfully acknowledged" (SPEC.md:66), and a worker that published one and
\* ended by itself is never counted as a failure.
BackoffIsEarned ==
    sup = "backoff" =>
        /\ failures = 1 => before = 0 \/ turned
        /\ reason = "exit" /\ turned /\ ~behind => failures = 1

\* The lease tells the truth about model requests: once the publisher has
\* caught up it shows the earliest active one, and none outside of a turn.
LeaseShowsRequests ==
    worker = "alive" /\ file.own /\ ~behind =>
        /\ queue = <<>> => file.request = Earliest(active)
        /\ phase # "turn" => file.request = 0

\* Again and again there is a worker that is not hung, until the supervisor is
\* stopped: no heartbeat and no lease of an earlier phase keeps a hung one.
HungIsReplaced == []<>(sup = "done" \/ (worker = "alive" /\ ~hung))
=============================================================================
