------------------------------ MODULE UdtSeqNoMC ------------------------------
(***************************************************************************)
(* UdtSeqNo for TLC: the numbers restart after a few packets.              *)
(***************************************************************************)
EXTENDS UdtSeqNo

\* one packet of each kind
OneOfEach == [kind \in Kinds |-> 1]
=============================================================================
