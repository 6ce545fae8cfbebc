------------------------- MODULE MCInventoryBoundary -------------------------
(***************************************************************************)
(* Model-checking instance of InventoryBoundary. The pacings differ in     *)
(* both halves, so that a mixed pair paces less than either of them.       *)
(***************************************************************************)
EXTENDS InventoryBoundary

MCPacings == {[interval |-> 0, rate |-> 2], [interval |-> 2, rate |-> 0]}
MCBounds == <<0, 1>>

=============================================================================
