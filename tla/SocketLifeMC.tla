----------------------------- MODULE SocketLifeMC -----------------------------
(* A small instance of SocketLife: the peers are alike.                       *)
EXTENDS SocketLife, TLC

Symmetry == Permutations(Peers)
=============================================================================
