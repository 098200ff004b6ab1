-------------------------- MODULE UdtTransferTimerMC --------------------------
(* UdtTransferTimer with the packets in flight that UdtTransferMC allows.      *)
EXTENDS UdtTransferMC, UdtTransferTimer
=============================================================================
