---------------------------- MODULE ReliablePipe ----------------------------
(***************************************************************************)
(* What one direction of a stream connection promises its two applications: *)
(* a bounded FIFO pipe.  The n-th block written is the n-th block read, and *)
(* a writer is held back once Capacity blocks are unread.                  *)
(***************************************************************************)
EXTENDS Integers, Sequences

CONSTANT Capacity

VARIABLES written,   \* number of blocks the writer has put in
          read       \* the blocks the reader has taken out

Init == written = 0 /\ read = <<>>

Write ==
  /\ written - Len(read) < Capacity
  /\ written' = written + 1
  /\ UNCHANGED read

Read ==
  /\ Len(read) < written
  /\ read' = Append(read, Len(read) + 1)
  /\ UNCHANGED written

Next == Write \/ Read

Spec == Init /\ [][Next]_<<written, read>>
=============================================================================
