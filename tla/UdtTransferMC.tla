---------------------------- MODULE UdtTransferMC ----------------------------
(***************************************************************************)
(* UdtTransfer for TLC: how many packets of each kind may be in flight.    *)
(***************************************************************************)
EXTENDS UdtTransfer

\* one packet of each kind
OneOfEach == [kind \in Kinds |-> 1]

\* two data packets, so that they arrive out of order and open gaps
DataReordered == [OneOfEach EXCEPT !["data"] = 2, !["lite"] = 0]

\* light acknowledgements next to full ones
LiteAcks == [OneOfEach EXCEPT !["nak"] = 0, !["ack2"] = 0]

\* data, full acknowledgements and their answers only
AcksOnly == [OneOfEach EXCEPT !["nak"] = 0, !["lite"] = 0]
=============================================================================
