---------------------------- MODULE MCDialogNet ----------------------------
(* Two devices, for TLC. *)
EXTENDS DialogNet

MCEnds == {"door", "bridge"}
MCPeer == [e \in MCEnds |-> CHOOSE f \in MCEnds : f # e]
MCCapacity == [e \in MCEnds |-> IF e = "door" THEN 1 ELSE 2]
===========================================================================
