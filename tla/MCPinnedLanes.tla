--------------------------- MODULE MCPinnedLanes ---------------------------
(* Two directions, a lane limit on one of them and a budget of three units. *)
EXTENDS PinnedLanes

MCDirection == {"H2D", "D2H"}
MCChunkBytesFor == [d \in MCDirection |-> IF d = "H2D" THEN 4 ELSE 2]
MCMaxLanesFor == [d \in MCDirection |-> IF d = "H2D" THEN 0 ELSE 2]
=============================================================================
