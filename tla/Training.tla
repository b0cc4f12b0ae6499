------------------------------ MODULE Training ------------------------------
(***************************************************************************)
(* Supervised training runs (senpai_agent/training.py, processes.py): the  *)
(* process group of each run, the result file that survives the worker,    *)
(* the watcher thread that decides how a run ended, cancellation, and the  *)
(* recovery of a new worker after the old one died.                        *)
(*                                                                         *)
(* A training is named before it is started (the id is a fresh uuid4).     *)
(* The worker may die between any two steps.  The worker supervisor then   *)
(* kills the processes it remembered (supervisor.py) and starts another    *)
(* worker, which first cancels the runs it finds recorded as running.      *)
(* The result file is replaced atomically.  A pid is not given to another  *)
(* process during the seconds a group is being terminated.                 *)
(***************************************************************************)
EXTENDS Naturals

CONSTANTS
    Training,     \* training ids
    MaxCrashes    \* bound: workers that die or are stopped

ASSUME TrainingAssumption == MaxCrashes \in Nat

VARIABLES
    phase,       \* the worker: recovering, up, closing or down
    crashes,     \* workers that died or were stopped
    call,        \* progress of the run_training call of each training
    record,      \* state in <training_id>.json
    runs,        \* whether the record names a W&B run
    leader,      \* the process run_training started
    group,       \* whether descendants live in its process group
    own,         \* trainings this worker started
    remembered,  \* processes the worker supervisor saw under this worker
    watch,       \* step of the watcher thread (_monitor)
    outcome,     \* the state the watcher decided on
    active,      \* trainings in TrainingSupervisor._active
    cancelled    \* trainings whose active.cancelled is set

trainingVars == <<phase, crashes, call, record, runs, leader, group, own, remembered,
                  watch, outcome, active, cancelled>>

Ended == {"finished", "failed", "timed_out", "cancelled"}
\* CANCELLED at recovery: the process was killed, or its identity was gone.
Recovered == {"recovered", "lost"}
Terminal == Ended \cup Recovered
Step == {"idle", "begun", "started", "recorded", "watched", "cancelling", "registering",
         "marking"}

TrainingTypeOK ==
    /\ phase \in {"recovering", "up", "closing", "down"} /\ crashes \in Nat
    /\ call \in [Training -> Step]
    /\ record \in [Training -> {"none", "running"} \cup Terminal]
    /\ runs \in [Training -> BOOLEAN]
    /\ leader \in [Training -> {"none", "alive", "ok", "bad"}]
    /\ group \in [Training -> BOOLEAN]
    /\ own \subseteq Training
    /\ remembered \subseteq Training \X {"leader", "group"}
    /\ watch \in [Training -> {"none", "watching", "stopping", "writing", "retiring"}]
    /\ outcome \in [Training -> Ended \cup {"none"}]
    /\ active \subseteq Training /\ cancelled \subseteq Training

TrainingInit ==
    /\ phase = "recovering" /\ crashes = 0
    /\ call = [t \in Training |-> "idle"]
    /\ record = [t \in Training |-> "none"] /\ runs = [t \in Training |-> FALSE]
    /\ leader = [t \in Training |-> "none"] /\ group = [t \in Training |-> FALSE]
    /\ own = {} /\ remembered = {}
    /\ watch = [t \in Training |-> "none"] /\ outcome = [t \in Training |-> "none"]
    /\ active = {} /\ cancelled = {}

Working == phase \in {"up", "closing"}

-----------------------------------------------------------------------------
(* run_training: start the process, record it, watch it. *)

StartProcess(t) ==
    /\ Working /\ call[t] = "begun"
    /\ call' = [call EXCEPT ![t] = "started"]
    /\ leader' = [leader EXCEPT ![t] = "alive"]
    /\ own' = own \cup {t}
    /\ UNCHANGED <<phase, crashes, record, runs, group, remembered, watch, outcome,
                   active, cancelled>>

RecordRunning(t) ==
    /\ Working /\ call[t] = "started"
    /\ call' = [call EXCEPT ![t] = "recorded"]
    /\ record' = [record EXCEPT ![t] = "running"]
    /\ UNCHANGED <<phase, crashes, runs, leader, group, own, remembered, watch, outcome,
                   active, cancelled>>

StartWatching(t) ==
    /\ Working /\ call[t] = "recorded"
    /\ call' = [call EXCEPT ![t] = "watched"]
    /\ active' = active \cup {t}
    /\ watch' = [watch EXCEPT ![t] = "watching"]
    /\ UNCHANGED <<phase, crashes, record, runs, leader, group, own, remembered, outcome,
                   cancelled>>

Launching(t) == StartProcess(t) \/ RecordRunning(t) \/ StartWatching(t)

-----------------------------------------------------------------------------
(* The watcher thread. *)

\* A run URL in the log is published in the record while the run goes on.
PublishRun(t) ==
    /\ Working /\ watch[t] = "watching" /\ ~runs[t]
    /\ runs' = [runs EXCEPT ![t] = TRUE]
    /\ UNCHANGED <<phase, crashes, call, record, leader, group, own, remembered, watch,
                   outcome, active, cancelled>>

Exited(t) == leader[t] \in {"ok", "bad"}

\* Cancellation wins over the exit status; the deadline comes last.
Decided(t) ==
    CASE t \in cancelled   -> "cancelled"
      [] leader[t] = "ok"  -> "finished"
      [] leader[t] = "bad" -> "failed"
      [] OTHER             -> "timed_out"

Decide(t) ==
    /\ Working /\ watch[t] = "watching"
    /\ watch' = [watch EXCEPT ![t] = "stopping"]
    /\ outcome' = [outcome EXCEPT ![t] = Decided(t)]
    /\ UNCHANGED <<phase, crashes, call, record, runs, leader, group, own, remembered,
                   active, cancelled>>

Killed(t) == [leader EXCEPT ![t] = IF @ = "alive" THEN "bad" ELSE @]

\* Fault: nothing is left to stop once the leader has exited.
StopLeaderOnly(t) ==
    /\ Working /\ watch[t] = "stopping"
    /\ watch' = [watch EXCEPT ![t] = "writing"]
    /\ leader' = Killed(t)
    /\ group' = [group EXCEPT ![t] = @ /\ Exited(t)]
    /\ UNCHANGED <<phase, crashes, call, record, runs, own, remembered, outcome, active,
                   cancelled>>
\* terminate_process_group with wait_full_grace: SIGTERM, the whole grace
\* period, SIGKILL to the group, whether or not its leader is still there.
Stop(t) ==
    /\ Working /\ watch[t] = "stopping"
    /\ watch' = [watch EXCEPT ![t] = "writing"]
    /\ leader' = Killed(t)
    /\ group' = [group EXCEPT ![t] = FALSE]
    /\ UNCHANGED <<phase, crashes, call, record, runs, own, remembered, outcome, active,
                   cancelled>>

WriteOutcome(t) ==
    /\ Working /\ watch[t] = "writing"
    /\ watch' = [watch EXCEPT ![t] = "retiring"]
    /\ record' = [record EXCEPT ![t] = outcome[t]]
    /\ UNCHANGED <<phase, crashes, call, runs, leader, group, own, remembered, outcome,
                   active, cancelled>>

Retire(t) ==
    /\ Working /\ watch[t] = "retiring"
    /\ watch' = [watch EXCEPT ![t] = "none"]
    /\ active' = active \ {t}
    /\ UNCHANGED <<phase, crashes, call, record, runs, leader, group, own, remembered,
                   outcome, cancelled>>

Watching(t) ==
    PublishRun(t) \/ Decide(t) \/ Stop(t) \/ WriteOutcome(t) \/ Retire(t)

-----------------------------------------------------------------------------
(* cancel_training: set the flag if the run is on, wait for its watcher. *)

Flagged(t) == IF record[t] = "running" /\ t \in active THEN cancelled \cup {t} ELSE cancelled

\* The call returns when there is no watcher, or the record was terminal already.
CancelReturns(t) == record[t] # "running" \/ watch[t] = "none"

-----------------------------------------------------------------------------
(* The processes. *)

Spawn(t) ==
    /\ leader[t] = "alive" /\ ~group[t]
    /\ group' = [group EXCEPT ![t] = TRUE]
    /\ UNCHANGED <<phase, crashes, call, record, runs, leader, own, remembered, watch,
                   outcome, active, cancelled>>

LeaderExits(t) ==
    /\ leader[t] = "alive"
    /\ \E code \in {"ok", "bad"} : leader' = [leader EXCEPT ![t] = code]
    /\ UNCHANGED <<phase, crashes, call, record, runs, group, own, remembered, watch,
                   outcome, active, cancelled>>

GroupExits(t) ==
    /\ group[t]
    /\ group' = [group EXCEPT ![t] = FALSE]
    /\ UNCHANGED <<phase, crashes, call, record, runs, leader, own, remembered, watch,
                   outcome, active, cancelled>>

-----------------------------------------------------------------------------
(* The worker dies, or closes, and another one recovers. *)

\* WorkerSupervisor._remember_descendants: the process tree under the worker
\* (of no use to a worker that will not die).
Remember ==
    /\ phase # "down" /\ crashes < MaxCrashes
    /\ LET trees == {t \in own : leader[t] = "alive"} IN
       remembered' = remembered \cup (trees \X {"leader"})
                        \cup ({t \in trees : group[t]} \X {"group"})
    /\ remembered' # remembered
    /\ UNCHANGED <<phase, crashes, call, record, runs, leader, group, own, watch, outcome,
                   active, cancelled>>

\* close_training_runtimes: cancel what is active, wait for the watchers.  The
\* worker is stopped, or its controller failed: who closes says what it counts.
Close ==
    /\ phase = "up"
    /\ phase' = "closing"
    /\ cancelled' = cancelled \cup active
    /\ UNCHANGED <<call, record, runs, leader, group, own, remembered, watch,
                   outcome, active>>

Forgotten ==
    /\ call' = [t \in Training |-> "idle"]
    /\ watch' = [t \in Training |-> "none"] /\ outcome' = [t \in Training |-> "none"]
    /\ active' = {} /\ cancelled' = {} /\ own' = {}

\* The process ends when its threads have.
Exit ==
    /\ phase = "closing"
    /\ \A t \in Training : watch[t] = "none" /\ call[t] = "idle"
    /\ phase' = "down" /\ Forgotten
    /\ UNCHANGED <<crashes, record, runs, leader, group, remembered>>

Crash ==
    /\ phase # "down" /\ crashes < MaxCrashes
    /\ crashes' = crashes + 1
    /\ phase' = "down" /\ Forgotten
    /\ UNCHANGED <<record, runs, leader, group, remembered>>

\* _terminate_worker, then the next iteration of WorkerSupervisor.run.
Restart ==
    /\ phase = "down"
    /\ phase' = "recovering"
    /\ leader' = [t \in Training |->
                    IF leader[t] = "alive" /\ <<t, "leader">> \in remembered
                    THEN "bad" ELSE leader[t]]
    /\ group' = [t \in Training |-> group[t] /\ <<t, "group">> \notin remembered]
    /\ remembered' = {}
    /\ UNCHANGED <<crashes, call, record, runs, own, watch, outcome, active, cancelled>>

\* Fault: record the cancellation, leave the process.
RecoverRecordOnly(t) ==
    /\ phase = "recovering" /\ record[t] = "running"
    /\ record' = [record EXCEPT ![t] = IF leader[t] = "alive" THEN "recovered" ELSE "lost"]
    /\ UNCHANGED <<phase, crashes, call, runs, leader, group, own, remembered, watch,
                   outcome, active, cancelled>>
\* _cancel_orphaned_runs, one record: the group is killed only when the
\* recorded leader (pid, group, start time) is still there.
RecoverRun(t) ==
    /\ phase = "recovering" /\ record[t] = "running"
    /\ record' = [record EXCEPT ![t] = IF leader[t] = "alive" THEN "recovered" ELSE "lost"]
    /\ leader' = Killed(t)
    /\ group' = [group EXCEPT ![t] = @ /\ leader[t] # "alive"]
    /\ UNCHANGED <<phase, crashes, call, runs, own, remembered, watch, outcome, active,
                   cancelled>>

RecoveryDone ==
    /\ phase = "recovering" /\ \A t \in Training : record[t] # "running"
    /\ phase' = "up"
    /\ UNCHANGED <<crashes, call, record, runs, leader, group, own, remembered, watch,
                   outcome, active, cancelled>>

Processes(t) == Spawn(t) \/ LeaderExits(t) \/ GroupExits(t)

-----------------------------------------------------------------------------
(* Properties. *)

\* A result file that says a run is over says so of every process of the run:
\* the watcher, cancellation, the deadline and recovery write a terminal state
\* only after the whole group is gone.  Only a run whose leader a restart found
\* gone ("lost") may leave descendants, and never its leader.
QuietWhenTerminal ==
    \A t \in Training :
        record[t] \in Terminal =>
            /\ leader[t] # "alive"
            /\ group[t] => record[t] = "lost"

\* A process that outlives its worker and the recovery of the next one is one
\* whose launch was cut before its record was written.
StrayWasUnrecorded ==
    \A t \in Training :
        phase = "up" /\ t \notin own /\ leader[t] = "alive" => record[t] = "none"
=============================================================================
