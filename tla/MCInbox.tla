------------------------------ MODULE MCInbox ------------------------------
(* Small instances of PersistentInbox. *)
EXTENDS PersistentInbox, TLC

CONSTANTS c1, c2, k1, k2, b1, b2

FeedbackPlain == (k1 :> "feedback") @@ (k2 :> "plain")
HumanPlain == (k1 :> "human") @@ (k2 :> "availability")

UnitSize == [b \in Body |-> 1]
TwoSizes == (b1 :> 1) @@ (b2 :> 2)

ConversationSymmetry == Permutations({c1, c2})
=============================================================================
