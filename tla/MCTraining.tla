---------------------------- MODULE MCTraining ----------------------------
(***************************************************************************)
(* Bounded instance of TrainingMonitor: one training, whose monitor may be *)
(* given two metric policies in turn.                                      *)
(***************************************************************************)
EXTENDS TrainingMonitor

MCPolicies == {"above", "gain"}

\* Constraint: a behaviour has samples, or deaths, failed registrations and
\* interrupted launches.  Samples decide which signals there are, the others
\* what becomes of a run.
SamplesOrFaults ==
    \A t \in Training : latest[t] = 0 \/ (crashes = 0 /\ failures = 0 /\ hit = {})
=============================================================================
