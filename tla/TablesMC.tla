------------------------------- MODULE TablesMC -------------------------------
(***************************************************************************)
(* Tables for TLC: five hosts.  Of these, a and b share a bucket, d has an *)
(* IPv6 address, the key of e is negative.                                 *)
(***************************************************************************)
EXTENDS Tables

HostsMC == {"a", "b", "c", "d", "e"}

WordMC == [h \in HostsMC |-> CASE h = "a" -> 1 [] h = "b" -> 10 [] h = "c" -> 2 [] h = "d" -> 5 [] h = "e" -> -1]

FourthWordMC == [h \in HostsMC |-> IF h = "d" THEN 1 ELSE 0]
=============================================================================
