------------------------------ MODULE SndQueueMC ------------------------------
(***************************************************************************)
(* SndQueue for TLC: the sockets are interchangeable.                      *)
(***************************************************************************)
EXTENDS SndQueue, TLC

Symmetry == Permutations(Sockets)
=============================================================================
