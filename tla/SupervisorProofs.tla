-------------------------- MODULE SupervisorProofs --------------------------
(***************************************************************************)
(* What the supervisor and the lease of Supervisor promise in every        *)
(* behaviour, whatever the process ids, timeouts, backoff and requests are.*)
(*                                                                         *)
(* None of the three promises is inductive.  The first needs that the file *)
(* and what the supervisor read of it are of the present worker or of none,*)
(* so that a pid can be compared; the second that a lease which is not     *)
(* behind says whether a turn was acknowledged, and that the count of      *)
(* failures is the one the worker was spawned with until it is judged; the *)
(* third that the last state in the publisher's queue is the present one   *)
(* and that the lease shows what the publisher took last.                  *)
(***************************************************************************)
EXTENDS Supervisor, TLAPS

\* A record with the fields of a lease.
IsLease(l) ==
    l = [pid |-> l.pid, phase |-> l.phase, left |-> l.left, turned |-> l.turned,
         request |-> l.request, own |-> l.own]

\* A lease of the present worker, or of none.
OfWorker(l) ==
    /\ IsLease(l)
    /\ l.pid # 0 => l.pid = pid /\ l.own = TRUE
    /\ l.turned = TRUE => l.pid # 0 /\ turned = TRUE

OfNone == pid = 0 /\ worker = "none" /\ sup \in {"spawning", "done"}

Flags == turned \in BOOLEAN /\ made \in BOOLEAN /\ behind \in BOOLEAN

OwnInv ==
    /\ Flags
    /\ (pid \in Pid /\ worker # "none") \/ OfNone
    /\ OfWorker(file) /\ OfWorker(seen)
    /\ made = TRUE => turned = TRUE
    /\ sup = "ending" /\ reason = "overdue" => seen.own = TRUE

\* What the history variable and the count of failures have to do with each other.
CountInv ==
    /\ failures \in Nat
    /\ sup \in {"watching", "judging", "checking", "ending"} => failures = before
    /\ behind = FALSE /\ worker # "none" => file.turned = turned
    /\ sup = "ending" /\ reason = "exit" =>
           worker = "dead" /\ (behind = FALSE /\ turned = TRUE => made = TRUE)
    /\ sup = "backoff" /\ failures = 1 => before = 0 \/ turned = TRUE
    /\ sup = "backoff" /\ reason = "exit" /\ behind = FALSE /\ turned = TRUE => failures = 1
    /\ sup = "backoff" => worker = "dead"

\* The states the heartbeat may publish.
Shown == {Earliest(rs) : rs \in SUBSET Requests}

\* The state the publisher will have shown once its queue is empty.
Latest == IF queue = <<>> THEN started ELSE queue[Len(queue)]

RequestInv ==
    /\ queue \in Seq(Shown)
    /\ active \subseteq Requests
    /\ Latest = Earliest(active)
    /\ request = started
    /\ file.own = TRUE /\ behind = FALSE /\ worker = "alive" => file.request = request
    /\ phase # "turn" => active = {} /\ queue = <<>> /\ started = 0

IInv == OwnInv /\ CountInv /\ RequestInv

-----------------------------------------------------------------------------
(* The invariant holds initially, and every action keeps each of its parts. *)

LEMMA Initially == Init => IInv
<1> SUFFICES ASSUME Init PROVE IInv
  OBVIOUS
<1> USE SupervisorAssumption DEF Init, NoLease
<1>1. OwnInv
  BY DEF OwnInv, OfWorker, IsLease, OfNone, Flags
<1>2. CountInv
  BY DEF CountInv
<1>3. RequestInv
  BY DEF RequestInv, Latest, Earliest, Shown
<1> QED
  BY <1>1, <1>2, <1>3 DEF IInv

\* Leases and progress stay those of the present worker.
LEMMA OwnStep == OwnInv /\ [Next]_vars => OwnInv'
<1> SUFFICES ASSUME OwnInv, [Next]_vars PROVE OwnInv'
  OBVIOUS
<1> USE SupervisorAssumption DEF OwnInv, OfWorker, IsLease, OfNone, Flags
<1>1. ASSUME NEW p \in Phase, Publish(p) PROVE OwnInv'
  BY <1>1 DEF Publish, vars, supVars, leaseVars, beatVars, writeVars, Runs, Write, Written, Closed
<1>2. ASSUME NEW r \in Requests, RequestStarts(r) PROVE OwnInv'
  BY <1>2 DEF RequestStarts, vars, supVars, leaseVars, beatVars, writeVars, Runs
<1>3. ASSUME NEW r \in Requests, RequestEnds(r) PROVE OwnInv'
  BY <1>3 DEF RequestEnds, vars, supVars, leaseVars, beatVars, writeVars
<1>4. ASSUME PublishFails PROVE OwnInv'
  BY <1>4
     DEF PublishFails, vars, supVars, leaseVars, beatVars, writeVars, Runs, WriteFails, Gone, Closed
<1>5. ASSUME Activity PROVE OwnInv'
  <2>1. pid \in Pid
    BY <1>5 DEF Activity
  <2>2. CASE Write(phase, TurnLease, turned, request)
    BY <1>5, <2>1, <2>2 DEF Activity, supVars, Write, Written
  <2>3. CASE WriteFails
    BY <1>5, <2>1, <2>3 DEF Activity, supVars, WriteFails
  <2> QED
    BY <1>5, <2>2, <2>3 DEF Activity
<1>6. ASSUME Beat PROVE OwnInv'
  <2>1. pid \in Pid
    BY <1>6 DEF Beat
  <2>2. CASE Write(phase, deadline, turned, started')
    BY <1>6, <2>1, <2>2 DEF Beat, supVars, Write, Written
  <2>3. CASE WriteFails
    BY <1>6, <2>1, <2>3 DEF Beat, supVars, WriteFails
  <2> QED
    BY <1>6, <2>2, <2>3 DEF Beat, UpdateRequest
<1>7. ASSUME Hang PROVE OwnInv'
  BY <1>7 DEF Hang, vars, supVars, leaseVars, beatVars, writeVars, Runs
<1>8. ASSUME Exit PROVE OwnInv'
  BY <1>8 DEF Exit, vars, supVars, leaseVars, beatVars, writeVars, Gone
<1>9. ASSUME NEW p \in Pid, Spawn(p) PROVE OwnInv'
  BY <1>9 DEF Spawn, vars, supVars, leaseVars, beatVars, writeVars, Unlinked, NoLease
<1>10. ASSUME Return PROVE OwnInv'
  BY <1>10 DEF Return, vars, supVars, leaseVars, beatVars, writeVars, workerVars
<1>11. ASSUME ReadLease PROVE OwnInv'
  BY <1>11 DEF ReadLease, vars, supVars, leaseVars, beatVars, writeVars, workerVars
<1>12. ASSUME Shutdown PROVE OwnInv'
  BY <1>12 DEF Shutdown, vars, supVars, leaseVars, beatVars, writeVars, workerVars
<1>13. ASSUME JudgeLease PROVE OwnInv'
  BY <1>13
     DEF JudgeLease, vars, supVars, leaseVars, beatVars, writeVars, workerVars, Overdue, LateStart
<1>14. ASSUME StillRuns PROVE OwnInv'
  BY <1>14 DEF StillRuns, vars, supVars, leaseVars, beatVars, writeVars, workerVars, NoLease
<1>15. ASSUME HasExited PROVE OwnInv'
  BY <1>15 DEF HasExited, vars, supVars, leaseVars, beatVars, writeVars, workerVars
<1>16. ASSUME Ended PROVE OwnInv'
  BY <1>16 DEF Ended, vars, supVars, leaseVars, beatVars, writeVars, Gone, NoLease
<1>17. ASSUME Backoff PROVE OwnInv'
  BY <1>17 DEF Backoff, vars, supVars, leaseVars, beatVars, writeVars, workerVars
<1>18. ASSUME StopRequested PROVE OwnInv'
  BY <1>18 DEF StopRequested, vars, supVars, leaseVars, beatVars, writeVars, workerVars
<1>19. ASSUME Tick PROVE OwnInv'
  BY <1>19 DEF Tick, vars, supVars, leaseVars, beatVars, writeVars
<1>20. CASE UNCHANGED vars
  BY <1>20 DEF vars, supVars, leaseVars, beatVars, writeVars
<1> QED
  BY <1>1, <1>2, <1>3, <1>4, <1>5, <1>6, <1>7, <1>8, <1>9, <1>10, <1>11, <1>12, <1>13,
     <1>14, <1>15, <1>16, <1>17, <1>18, <1>19, <1>20
     DEF Next, Supervising, Working

\* The count of failures stays earned.
LEMMA CountStep == OwnInv /\ CountInv /\ [Next]_vars => CountInv'
<1> SUFFICES ASSUME OwnInv /\ CountInv, [Next]_vars PROVE CountInv'
  OBVIOUS
<1> USE SupervisorAssumption DEF CountInv, OwnInv, OfWorker, IsLease, OfNone, Flags
<1>1. ASSUME NEW p \in Phase, Publish(p) PROVE CountInv'
  BY <1>1 DEF Publish, vars, supVars, leaseVars, beatVars, writeVars, Runs, Write, Written, Closed
<1>2. ASSUME NEW r \in Requests, RequestStarts(r) PROVE CountInv'
  BY <1>2 DEF RequestStarts, vars, supVars, leaseVars, beatVars, writeVars, Runs
<1>3. ASSUME NEW r \in Requests, RequestEnds(r) PROVE CountInv'
  BY <1>3 DEF RequestEnds, vars, supVars, leaseVars, beatVars, writeVars
<1>4. ASSUME PublishFails PROVE CountInv'
  BY <1>4
     DEF PublishFails, vars, supVars, leaseVars, beatVars, writeVars, Runs, WriteFails, Gone, Closed
<1>5. ASSUME Activity PROVE CountInv'
  BY <1>5 DEF Activity, vars, supVars, leaseVars, beatVars, writeVars, Write, Written, WriteFails
<1>6. ASSUME Beat PROVE CountInv'
  BY <1>6
     DEF Beat, vars, supVars, leaseVars, beatVars, writeVars, UpdateRequest, Write,
         Written, WriteFails
<1>7. ASSUME Hang PROVE CountInv'
  BY <1>7 DEF Hang, vars, supVars, leaseVars, beatVars, writeVars, Runs
<1>8. ASSUME Exit PROVE CountInv'
  BY <1>8 DEF Exit, vars, supVars, leaseVars, beatVars, writeVars, Gone
<1>9. ASSUME NEW p \in Pid, Spawn(p) PROVE CountInv'
  BY <1>9 DEF Spawn, vars, supVars, leaseVars, beatVars, writeVars, Unlinked, NoLease
<1>10. ASSUME Return PROVE CountInv'
  BY <1>10 DEF Return, vars, supVars, leaseVars, beatVars, writeVars, workerVars
<1>11. ASSUME ReadLease PROVE CountInv'
  BY <1>11 DEF ReadLease, vars, supVars, leaseVars, beatVars, writeVars, workerVars
<1>12. ASSUME Shutdown PROVE CountInv'
  BY <1>12 DEF Shutdown, vars, supVars, leaseVars, beatVars, writeVars, workerVars
<1>13. ASSUME JudgeLease PROVE CountInv'
  BY <1>13
     DEF JudgeLease, vars, supVars, leaseVars, beatVars, writeVars, workerVars, Overdue, LateStart
<1>14. ASSUME StillRuns PROVE CountInv'
  BY <1>14 DEF StillRuns, vars, supVars, leaseVars, beatVars, writeVars, workerVars, NoLease
<1>15. ASSUME HasExited PROVE CountInv'
  BY <1>15 DEF HasExited, vars, supVars, leaseVars, beatVars, writeVars, workerVars
<1>16. ASSUME Ended PROVE CountInv'
  <2> USE <1>16 DEF Ended, Gone, writeVars
  <2>1. /\ failures = before /\ before' = before /\ reason' = reason /\ turned' = turned
        /\ behind' = behind /\ file' = file /\ worker' = "dead"
    OBVIOUS
  <2>2. behind' = FALSE /\ worker' # "none" => file'.turned = turned'
    BY <2>1
  <2>3. CASE stop
    <3>1. sup' = "done" /\ failures' = failures
      BY <2>3
    <3> QED
      BY <2>1, <2>2, <3>1
  <2>4. CASE ~stop
    <3>1. sup' = "backoff" /\ failures' \in Nat
      BY <2>4 DEF Settled
    <3>2. CASE made
      <4>1. failures' = 1 /\ turned = TRUE
        BY <2>4, <3>2
      <4> QED
        BY <2>1, <2>2, <3>1, <4>1
    <3>3. CASE ~made
      <4>1. failures' = IF Settled(failures) THEN failures ELSE failures + 1
        BY <2>4, <3>3
      <4>2. Settled(failures) => failures > 1
        BY DEF Settled
      <4>3. failures' = 1 => before = 0
        BY <2>1, <4>1, <4>2
      <4>4. ~(reason = "exit" /\ behind = FALSE /\ turned = TRUE)
        BY <3>3
      <4> QED
        BY <2>1, <2>2, <3>1, <4>3, <4>4
    <3> QED
      BY <3>2, <3>3
  <2> QED
    BY <2>3, <2>4
<1>17. ASSUME Backoff PROVE CountInv'
  BY <1>17 DEF Backoff, vars, supVars, leaseVars, beatVars, writeVars, workerVars
<1>18. ASSUME StopRequested PROVE CountInv'
  BY <1>18 DEF StopRequested, vars, supVars, leaseVars, beatVars, writeVars, workerVars
<1>19. ASSUME Tick PROVE CountInv'
  BY <1>19 DEF Tick, vars, supVars, leaseVars, beatVars, writeVars
<1>20. CASE UNCHANGED vars
  BY <1>20 DEF vars, supVars, leaseVars, beatVars, writeVars
<1> QED
  BY <1>1, <1>2, <1>3, <1>4, <1>5, <1>6, <1>7, <1>8, <1>9, <1>10, <1>11, <1>12, <1>13,
     <1>14, <1>15, <1>16, <1>17, <1>18, <1>19, <1>20
     DEF Next, Supervising, Working

\* Without a request there is none to show.
LEMMA NoRequest == Earliest({}) = 0
  BY DEF Earliest

\* The publisher stays no further behind than its queue.
LEMMA RequestStep == OwnInv /\ RequestInv /\ [Next]_vars => RequestInv'
<1> SUFFICES ASSUME OwnInv /\ RequestInv, [Next]_vars PROVE RequestInv'
  OBVIOUS
<1> USE SupervisorAssumption DEF RequestInv, Latest, OwnInv, OfWorker, IsLease, OfNone, Flags
<1>1. ASSUME NEW p \in Phase, Publish(p) PROVE RequestInv'
  BY <1>1, NoRequest DEF Publish, Runs, Write, Written, Closed
<1>2. ASSUME NEW r \in Requests, RequestStarts(r) PROVE RequestInv'
  <2>1. /\ active' \subseteq Requests /\ phase = "turn" /\ queue' = Append(queue, Earliest(active'))
        /\ UNCHANGED <<worker, phase, request, started, file, behind>>
    BY <1>2 DEF RequestStarts, Runs, leaseVars, writeVars
  <2>2. Earliest(active') \in Shown
    BY <2>1 DEF Shown
  <2>3. queue' \in Seq(Shown) /\ queue' # <<>> /\ queue'[Len(queue')] = Earliest(active')
    BY <2>1, <2>2
  <2> QED
    BY <2>1, <2>3
<1>3. ASSUME NEW r \in Requests, RequestEnds(r) PROVE RequestInv'
  <2>1. /\ active' \subseteq Requests /\ phase = "turn" /\ queue' = Append(queue, Earliest(active'))
        /\ UNCHANGED <<worker, phase, request, started, file, behind>>
    BY <1>3 DEF RequestEnds, leaseVars, writeVars
  <2>2. Earliest(active') \in Shown
    BY <2>1 DEF Shown
  <2>3. queue' \in Seq(Shown) /\ queue' # <<>> /\ queue'[Len(queue')] = Earliest(active')
    BY <2>1, <2>2
  <2> QED
    BY <2>1, <2>3
<1>4. ASSUME PublishFails PROVE RequestInv'
  BY <1>4, NoRequest DEF PublishFails, Runs, WriteFails, Gone, Closed
<1>5. ASSUME Activity PROVE RequestInv'
  BY <1>5 DEF Activity, vars, supVars, leaseVars, beatVars, writeVars, Write, Written, WriteFails
<1>6. ASSUME Beat PROVE RequestInv'
  <2>1. /\ queue' \in Seq(Shown) /\ Latest' = Latest /\ request' = started'
        /\ UNCHANGED <<worker, phase, active>>
    <3>1. CASE queue = <<>> /\ UNCHANGED <<started, queue>>
      BY <1>6, <3>1 DEF Beat, UpdateRequest
    <3>2. CASE queue # <<>> /\ started' = Head(queue) /\ queue' = Tail(queue)
      <4>1. queue' \in Seq(Shown) /\ Len(queue) \in Nat \ {0} /\ Len(queue') = Len(queue) - 1
        BY <3>2
      <4>2. Latest' = Latest
        <5>1. CASE Len(queue) = 1
          <6>1. queue' = <<>> /\ started' = queue[1]
            BY <3>2, <4>1, <5>1
          <6> QED
            BY <3>2, <5>1, <6>1
        <5>2. CASE Len(queue) # 1
          <6>1. Len(queue) - 1 \in 1..Len(queue') /\ Len(queue') = Len(queue) - 1
            BY <4>1, <5>2
          <6>2. \A i \in 1..Len(queue') : queue'[i] = queue[i + 1]
            BY <3>2
          <6>3. queue'[Len(queue) - 1] = queue[Len(queue)]
            <7>1. queue'[Len(queue) - 1] = queue[(Len(queue) - 1) + 1]
              BY <6>1, <6>2
            <7>2. (Len(queue) - 1) + 1 = Len(queue)
              BY <4>1
            <7> QED
              BY <7>1, <7>2
          <6>4. queue' # <<>>
            BY <6>1
          <6> QED
            BY <3>2, <6>1, <6>3, <6>4
        <5> QED
          BY <5>1, <5>2
      <4> QED
        BY <1>6, <4>1, <4>2 DEF Beat, UpdateRequest
    <3> QED
      BY <1>6, <3>1, <3>2 DEF Beat
  <2>2. phase = "turn"
    BY <1>6 DEF Beat
  <2>3. CASE Write(phase, deadline, turned, started')
    BY <2>1, <2>2, <2>3 DEF Write, Written
  <2>4. CASE WriteFails
    BY <2>1, <2>2, <2>4 DEF WriteFails
  <2> QED
    BY <1>6, <2>3, <2>4 DEF Beat, UpdateRequest
<1>7. ASSUME Hang PROVE RequestInv'
  BY <1>7 DEF Hang, vars, supVars, leaseVars, beatVars, writeVars, Runs
<1>8. ASSUME Exit PROVE RequestInv'
  BY <1>8, NoRequest DEF Exit, Gone, supVars, writeVars
<1>9. ASSUME NEW p \in Pid, Spawn(p) PROVE RequestInv'
  BY <1>9, NoRequest DEF Spawn, Unlinked, NoLease
<1>10. ASSUME Return PROVE RequestInv'
  BY <1>10 DEF Return, vars, supVars, leaseVars, beatVars, writeVars, workerVars
<1>11. ASSUME ReadLease PROVE RequestInv'
  BY <1>11 DEF ReadLease, vars, supVars, leaseVars, beatVars, writeVars, workerVars
<1>12. ASSUME Shutdown PROVE RequestInv'
  BY <1>12 DEF Shutdown, vars, supVars, leaseVars, beatVars, writeVars, workerVars
<1>13. ASSUME JudgeLease PROVE RequestInv'
  BY <1>13
     DEF JudgeLease, vars, supVars, leaseVars, beatVars, writeVars, workerVars, Overdue, LateStart
<1>14. ASSUME StillRuns PROVE RequestInv'
  BY <1>14 DEF StillRuns, vars, supVars, leaseVars, beatVars, writeVars, workerVars, NoLease
<1>15. ASSUME HasExited PROVE RequestInv'
  BY <1>15 DEF HasExited, vars, supVars, leaseVars, beatVars, writeVars, workerVars
<1>16. ASSUME Ended PROVE RequestInv'
  BY <1>16, NoRequest DEF Ended, Gone, NoLease, writeVars
<1>17. ASSUME Backoff PROVE RequestInv'
  BY <1>17 DEF Backoff, vars, supVars, leaseVars, beatVars, writeVars, workerVars
<1>18. ASSUME StopRequested PROVE RequestInv'
  BY <1>18 DEF StopRequested, vars, supVars, leaseVars, beatVars, writeVars, workerVars
<1>19. ASSUME Tick PROVE RequestInv'
  BY <1>19 DEF Tick, vars, supVars, leaseVars, beatVars, writeVars
<1>20. CASE UNCHANGED vars
  BY <1>20 DEF vars, supVars, leaseVars, beatVars, writeVars
<1> QED
  BY <1>1, <1>2, <1>3, <1>4, <1>5, <1>6, <1>7, <1>8, <1>9, <1>10, <1>11, <1>12, <1>13,
     <1>14, <1>15, <1>16, <1>17, <1>18, <1>19, <1>20
     DEF Next, Supervising, Working


-----------------------------------------------------------------------------
(* The theorems. *)

\* The inductive invariant holds in every reachable state.
THEOREM SupervisorInvariant == Spec => []IInv
<1>1. Init => IInv
  BY Initially
<1>2. IInv /\ [Next]_vars => IInv'
  BY OwnStep, CountStep, RequestStep DEF IInv
<1> QED
  BY <1>1, <1>2, PTL DEF Spec

\* A worker is never ended for a deadline, nor credited with a turn, that the
\* lease of an earlier worker with its pid carries (supervisor.py:183-286).
THEOREM WorkerJudgedByOwnLease == Spec => []JudgedByOwnLease
<1>1. IInv => JudgedByOwnLease
  BY DEF IInv, OwnInv, Flags, JudgedByOwnLease
<1> QED
  BY <1>1, SupervisorInvariant, PTL

\* The backoff starts over only for a worker that acknowledged a turn, and then
\* always if it ended by itself and its last lease was written
\* (supervisor.py:213-239, 277-284).
THEOREM BackoffEarned == Spec => []BackoffIsEarned
<1>1. IInv => BackoffIsEarned
  BY DEF IInv, OwnInv, CountInv, Flags, BackoffIsEarned
<1> QED
  BY <1>1, SupervisorInvariant, PTL

\* With the publisher's queue empty the lease shows the earliest active model
\* request, and none outside of a turn (inference_heartbeat.py:47-94).
THEOREM LeaseTellsRequests == Spec => []LeaseShowsRequests
<1>1. IInv => LeaseShowsRequests
  BY DEF IInv, RequestInv, Latest, LeaseShowsRequests, Earliest
<1> QED
  BY <1>1, SupervisorInvariant, PTL
=============================================================================
