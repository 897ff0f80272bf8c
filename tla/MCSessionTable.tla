-------------------------- MODULE MCSessionTable --------------------------
(* Three sessions, for TLC. *)
EXTENDS SessionTable, TLC

CONSTANTS s1, s2, s3
MCSessions == {s1, s2, s3}
Symmetry == Permutations(MCSessions)
===========================================================================
