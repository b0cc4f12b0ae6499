----------------------------- MODULE MCDelivery -----------------------------
(* Small instances of TurnDelivery: one conversation, one payload. *)
EXTENDS TurnDelivery, TLC

CONSTANTS k1, k2, c1, b1

OneHuman == (k1 :> "human")
HumanPlain == (k1 :> "human") @@ (k2 :> "plain")
UnitSize == [b \in Body |-> 1]
=============================================================================
