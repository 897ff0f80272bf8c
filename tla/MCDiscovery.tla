--------------------------- MODULE MCDiscovery ---------------------------
(* Two workers, for TLC. *)
EXTENDS Discovery

MCWorkers == {"w1", "w2"}
===========================================================================
