------------------------------ MODULE LossLists ------------------------------
(***************************************************************************)
(* The two loss lists of a socket.  The receive worker alone changes one.  *)
(* It changes the other as well, with the send worker, which takes from    *)
(* it, each operation under m_ListLock (list.cpp): steps of the two lists  *)
(* come in any order.                                                      *)
(***************************************************************************)
EXTENDS RcvLossList

CONSTANTS SndSeqNoTH, SndSize, SndSpan   \* those of SndLossList

VARIABLES s, SndLastDataAck, SndCurrSeqNo

sndLossVars == <<s, SndLastDataAck, SndCurrSeqNo>>

Snd == INSTANCE SndLossList WITH SeqNoTH <- SndSeqNoTH, Size <- SndSize, Span <- SndSpan

ASSUME LossListsAssumption == SndSeqNoTH \in Nat \ {0} /\ Snd!SndLossListAssumption

ListsInit == Init /\ Snd!Init

ListsNext ==
  \/ Next /\ UNCHANGED sndLossVars
  \/ Snd!Next /\ UNCHANGED vars

ListsSpec == ListsInit /\ [][ListsNext]_<<vars, sndLossVars>>

\* The arrays of either list hold one chain of ranges, in order, and nothing else.
ListsAgree == ArraysAgree /\ Snd!ArraysAgree

RefinesSndLossSet == Snd!RefinesSndLossSet
=============================================================================
