------------------------------- MODULE RcvList -------------------------------
(***************************************************************************)
(* The sockets of a receive worker (queue.cpp): the list CRcvUList in the  *)
(* order of the last time each was looked after, CHash by id, and the new  *)
(* entries that connecting threads leave.  Only the worker touches list    *)
(* and hash; connections end at any time, and the garbage collector        *)
(* (api.cpp) deletes a socket that has ended and is not m_bOnList.         *)
(*                                                                         *)
(* Abstracted: a time stamp is old when 100 ms have passed since.          *)
(***************************************************************************)
EXTENDS Integers, Sequences, FiniteSets

CONSTANTS
  Sockets,     \* the ids: positive
  HashSize     \* m_iHashSize

RcvListAssumption ==
  /\ Sockets \subseteq Nat \ {0} /\ IsFiniteSet(Sockets) /\ HashSize \in Nat \ {0}

VARIABLES
  node,       \* the CRNode of each: m_pPrev, m_pNext, m_bOnList, and whether m_llTimeStamp is old
  list,       \* m_pUList, m_pLast
  hash,       \* m_pBucket: the chains
  newEntry,   \* m_vNewEntry
  life,       \* of each CUDT
  worker      \* where the worker is in its loop

listVars == <<node, list, hash, newEntry, life, worker>>

NULL == 0

Bucket(s) == s % HashSize

Init ==
  /\ node = [s \in Sockets |-> [prev |-> NULL, next |-> NULL, on |-> FALSE, old |-> TRUE]]
  /\ list = [first |-> NULL, last |-> NULL]
  /\ hash = [b \in 0 .. HashSize - 1 |-> <<>>]
  /\ newEntry = <<>>
  /\ life = [s \in Sockets |-> "opened"]
  /\ worker = "entries"

-----------------------------------------------------------------------------
(* Other threads                                                            *)

\* connect, for a caller and for a new socket of a listener: setNewEntry
connect(s) ==
  /\ life[s] = "opened"
  /\ life' = [life EXCEPT ![s] = "connected"]
  /\ node' = [node EXCEPT ![s].on = TRUE]
  /\ newEntry' = Append(newEntry, s)
  /\ UNCHANGED <<list, hash, worker>>

\* close, or m_bBroken; also before the connection is made.
ends(s) ==
  /\ life[s] \in {"opened", "connected"}
  /\ life' = [life EXCEPT ![s] = "ended"]
  /\ UNCHANGED <<node, list, hash, newEntry, worker>>

\* checkBrokenSockets, removeSocket
deletes(s) ==
  /\ life[s] = "ended" /\ ~ node[s].on
  /\ life' = [life EXCEPT ![s] = "deleted"]
  /\ UNCHANGED <<node, list, hash, newEntry, worker>>

-----------------------------------------------------------------------------
(* CRcvUList                                                                *)

\* Node s becomes the last of list l with nodes n.
Appended(n, l, s) ==
  IF l.first = NULL
  THEN [node |-> [n EXCEPT ![s].prev = NULL, ![s].next = NULL, ![s].old = FALSE],
        list |-> [first |-> s, last |-> s]]
  ELSE [node |-> [n EXCEPT ![s].prev = l.last, ![s].next = NULL, ![s].old = FALSE, ![l.last].next = s],
        list |-> [l EXCEPT !.last = s]]

\* Its neighbours are linked to each other.
Unlinked(s) ==
  LET p == node[s].prev
      n == node[s].next
  IN  [node |-> [t \in Sockets |-> IF t = p THEN [node[t] EXCEPT !.next = n]
                                   ELSE IF t = n THEN [node[t] EXCEPT !.prev = p]
                                   ELSE node[t]],
       list |-> [first |-> IF p = NULL THEN n ELSE list.first, last |-> IF n = NULL THEN p ELSE list.last]]

insert(s) ==
  /\ node' = Appended(node, list, s).node
  /\ list' = Appended(node, list, s).list

\* Mutant: a socket that is looked after keeps its place.
updateInPlace(s) ==
  /\ node' = [node EXCEPT ![s].old = IF node[s].on THEN FALSE ELSE @]
  /\ UNCHANGED list

\* The last one stays where it is.
update(s) ==
  IF ~ node[s].on \/ node[s].next = NULL
  THEN /\ node' = [node EXCEPT ![s].old = IF node[s].on THEN FALSE ELSE @]
       /\ UNCHANGED list
  ELSE LET a == Appended(Unlinked(s).node, Unlinked(s).list, s)
       IN  node' = a.node /\ list' = a.list

-----------------------------------------------------------------------------
(* CRcvQueue::worker                                                        *)

takesEntry ==
  /\ worker = "entries" /\ newEntry # <<>>
  /\ insert(Head(newEntry))
  /\ hash' = [hash EXCEPT ![Bucket(Head(newEntry))] = <<Head(newEntry)>> \o @]
  /\ newEntry' = Tail(newEntry)
  /\ UNCHANGED <<life, worker>>

\* A packet for one of the sockets, for none of them, or none within the time limit.
readsPacket ==
  /\ worker = "entries" /\ newEntry = <<>>
  /\ worker' = "timers"
  /\ \/ \E s \in Sockets :
          /\ \E i \in DOMAIN hash[Bucket(s)] : hash[Bucket(s)][i] = s
          /\ life[s] = "connected"
          /\ update(s)
     \/ UNCHANGED <<node, list>>
  /\ UNCHANGED <<hash, newEntry, life>>

timePasses ==
  /\ \E s \in Sockets : ~ node[s].old
  /\ node' = [s \in Sockets |-> [node[s] EXCEPT !.old = TRUE]]
  /\ UNCHANGED <<list, hash, newEntry, life, worker>>

SweepOn == list.first # NULL /\ node[list.first].old

\* remove, then m_bOnList = false
removes(s) ==
  /\ node' = [Unlinked(s).node EXCEPT ![s] = [@ EXCEPT !.next = NULL, !.prev = NULL, !.on = FALSE]]
  /\ list' = Unlinked(s).list

\* CHash::remove: the first entry of the chain with this id goes.
Without(chain, s) ==
  LET Is(i) == chain[i] = s /\ \A j \in 1 .. i - 1 : chain[j] # s
      i == CHOOSE i \in DOMAIN chain : Is(i)
  IN  IF \E k \in DOMAIN chain : Is(k) THEN SubSeq(chain, 1, i - 1) \o SubSeq(chain, i + 1, Len(chain)) ELSE chain

\* "the socket must be removed from Hash table first, then RcvUList"
sweeps ==
  LET s == list.first
  IN  /\ worker = "timers" /\ SweepOn
      /\ \/ life[s] = "connected" /\ update(s) /\ UNCHANGED hash
         \/ /\ life[s] # "connected"
            /\ hash' = [hash EXCEPT ![Bucket(s)] = Without(@, s)]
            /\ removes(s)
      /\ UNCHANGED <<newEntry, life, worker>>

sweepEnds ==
  /\ worker = "timers" /\ ~ SweepOn
  /\ worker' = "entries"
  /\ UNCHANGED <<node, list, hash, newEntry, life>>

Next ==
  \/ \E s \in Sockets : connect(s) \/ ends(s) \/ deletes(s)
  \/ takesEntry \/ readsPacket \/ timePasses \/ sweeps \/ sweepEnds

Spec == Init /\ [][Next]_listVars

-----------------------------------------------------------------------------
(* Properties                                                               *)

Hashed == {s \in Sockets : \E i \in DOMAIN hash[Bucket(s)] : hash[Bucket(s)][i] = s}
Waiting == {s \in Sockets : \E i \in DOMAIN newEntry : newEntry[i] = s}

TypeOK ==
  /\ node \in [Sockets -> [prev : Sockets \cup {NULL}, next : Sockets \cup {NULL}, on : BOOLEAN, old : BOOLEAN]]
  /\ list \in [first : Sockets \cup {NULL}, last : Sockets \cup {NULL}]
  /\ hash \in [0 .. HashSize - 1 -> Seq(Sockets)] /\ newEntry \in Seq(Sockets)
  /\ life \in [Sockets -> {"opened", "connected", "ended", "deleted"}]
  /\ worker \in {"entries", "timers"}

\* A socket that is m_bOnList is either still a new entry or in the hash table, once, and
\* is neither unconnected nor deleted.
OnListOK ==
  /\ \A i, j \in DOMAIN newEntry : newEntry[i] = newEntry[j] => i = j
  /\ \A b \in DOMAIN hash : \A i, j \in DOMAIN hash[b] : hash[b][i] = hash[b][j] => i = j
  /\ Hashed \cap Waiting = {} /\ Hashed \cup Waiting = {s \in Sockets : node[s].on}
  /\ \A s \in Sockets : node[s].on => life[s] \in {"connected", "ended"}

\* A step along the list, and the list from its beginning.
Follow[n \in 0 .. Cardinality(Sockets)] ==
  IF n = 0 THEN list.first
  ELSE IF Follow[n - 1] = NULL THEN NULL ELSE node[Follow[n - 1]].next

Listed == {Follow[n] : n \in 0 .. Cardinality(Sockets)} \ {NULL}

\* The list is one chain that can be followed both ways, and has the same sockets as the
\* hash table: those on the list that the worker has taken (queue.cpp:582, 993).
ListIsLinked ==
  /\ Follow[Cardinality(Sockets)] = NULL
  /\ \A s \in Listed :
       /\ node[s].prev = NULL <=> s = list.first
       /\ node[s].next = NULL <=> s = list.last
       /\ node[s].next # NULL => node[node[s].next].prev = s
  /\ Listed = Hashed
  /\ Listed = {s \in Sockets : node[s].on} \ Waiting

\* Who has waited longest comes first, so that the sweep, which ends at the first fresh
\* one, passes over no old one (queue.cpp:1069).
OldestFirst ==
  \A s \in Listed : node[s].next # NULL /\ node[node[s].next].old => node[s].old

\* What the garbage collector has deleted is in none of the worker's structures, whenever
\* the connection ended (api.cpp:1239, queue.cpp:1080).
DeletedIsGone == \A s \in Listed \cup Hashed \cup Waiting : life[s] # "deleted"

\* The worker's sweep meets every socket that is due, and none that is deleted.
SweepIsSound == ListIsLinked /\ OldestFirst /\ DeletedIsGone
=============================================================================
