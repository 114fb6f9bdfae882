----------------------------- MODULE MCSlotTable -----------------------------
(* Model values for SlotTable: four keys of which two collide in the whole *)
(* hash and a third one only in the slot it starts from.                   *)
EXTENDS SlotTable, TLC

CONSTANTS k1, k2, k3, k4
MCKeys == {k1, k2, k3, k4}
MCHash == (k1 :> 5) @@ (k2 :> 5) @@ (k3 :> 11) @@ (k4 :> 0)
=============================================================================
