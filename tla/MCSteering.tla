----------------------------- MODULE MCSteering -----------------------------
(* Small instances of SteeringPump. *)
EXTENDS SteeringPump, TLC

CONSTANTS h1, f1, f2, p1

Modes == [k \in Key |-> CASE k = h1 -> 2 [] k \in {f1, f2} -> 1 [] OTHER -> 0]
FeedbackSymmetry == Permutations({f1, f2})
=============================================================================
