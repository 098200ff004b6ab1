------------------------------ MODULE InfoCache ------------------------------
(***************************************************************************)
(* CCache<CInfoBlock> (cache.h, cache.cpp): what earlier connections to a  *)
(* host measured, looked up by connect and updated by close, each under    *)
(* the cache's lock.  A list holds the items, the newest first; the        *)
(* buckets of a hash table hold iterators into it.                         *)
(*                                                                         *)
(* Abstracted: an address is its host and its fourth word, a block one     *)
(* value.  setSizeLimit and clear are called by nothing but the            *)
(* destructor.  After a deleted item is read anything may happen: the      *)
(* model stops there.                                                      *)
(***************************************************************************)
EXTENDS Integers, Sequences, SequencesExt

CONSTANTS
  Hosts, V6,     \* hosts, and those with an IPv6 address
  Word,          \* of each host: the first three words of its address, added as int
  LastWords,     \* values of a fourth word
  FourthWord,        \* the fourth word of a host, 0 for IPv4
  Values,
  MaxSize,       \* m_iMaxSize, 1024 in the code
  MaxItems       \* bound: items that are in a list or that a bucket still points to

NoValue == 0

InfoCacheAssumption ==
  /\ Hosts # {} /\ V6 \subseteq Hosts /\ Word \in [Hosts -> Int] /\ LastWords \subseteq Int
  /\ FourthWord \in [Hosts -> LastWords] /\ \A h \in Hosts \ V6 : FourthWord[h] = 0
  /\ NoValue \notin Values /\ {MaxSize, MaxItems} \subseteq Nat \ {0} /\ 0 \in LastWords

VARIABLES
  storage,      \* m_StorageList: items, the newest first
  item,         \* the address and the value of each item
  buckets,      \* m_vHashPtr
  size,         \* m_iCurrSize
  undefined,    \* a deleted item has been read
  latest,       \* ghost: the value last stored for each host, none once the cache has overflown
  overflown     \* ghost: an item has been removed for lack of room

cacheVars == <<storage, item, buckets, size, undefined, latest, overflown>>

HashSize == 3 * MaxSize
Items == 1 .. MaxItems
Keys == 0 .. HashSize - 1

Address(h) == [host |-> h, last |-> FourthWord[h]]

getKey(a) == Word[a.host] + a.last

\* Where an address is kept.
BucketOf(a) == IF getKey(a) >= MaxSize THEN getKey(a) % HashSize ELSE getKey(a)

Same(a, b) == a.host = b.host /\ (a.host \in V6 => a.last = b.last)

Blank == [address |-> Address(CHOOSE h \in Hosts : TRUE), value |-> NoValue]

NoneStored == [h \in Hosts |-> NoValue]

Init ==
  /\ storage = <<>> /\ size = 0
  /\ item = [i \in Items |-> Blank]
  /\ buckets = [k \in Keys |-> <<>>]
  /\ undefined = FALSE /\ overflown = FALSE
  /\ latest = NoneStored

-----------------------------------------------------------------------------
\* Where a search through a bucket ends: at the address, or at an iterator whose item is gone.
Ends(bucket, a) == {n \in DOMAIN bucket : bucket[n] \notin Range(storage) \/ Same(item[bucket[n]].address, a)}

First(S) == CHOOSE n \in S : \A o \in S : n <= o

\* The items that the search may delete or find.
Meets(bucket, a) == IF Ends(bucket, a) = {} THEN {} ELSE {First(Ends(bucket, a))}

lookup(h) ==
  LET bucket == buckets[BucketOf(Address(h))]
  IN IF getKey(Address(h)) < 0 THEN {}
     ELSE {IF bucket[n] \in Range(storage) THEN item[bucket[n]].value ELSE NoValue :
           n \in Meets(bucket, Address(h))}

\* Where the list holds an item.
Place(i) == CHOOSE n \in DOMAIN storage : storage[n] = i

\* Mutant: the bucket keeps its iterator to where the item was.
RefreshedInList(k, n, value) ==
  \E i \in Items \ Range(storage) :
    /\ storage' = <<i>> \o RemoveAt(storage, Place(buckets[k][n]))
    /\ item' = [item EXCEPT ![i] = [item[buckets[k][n]] EXCEPT !.value = value]]
    /\ UNCHANGED <<buckets, size, undefined, overflown>>

\* The item goes to the front of the list and of its bucket.
Refreshed(k, n, value) ==
  LET i == buckets[k][n]
  IN /\ storage' = <<i>> \o RemoveAt(storage, Place(i))
     /\ buckets' = [buckets EXCEPT ![k] = <<i>> \o RemoveAt(@, n)]
     /\ item' = [item EXCEPT ![i].value = value]
     /\ UNCHANGED <<size, undefined, overflown>>

\* Overflow: the bucket of the oldest item is copied over the one that the new item is in,
\* and the oldest item is taken out of the copy only.
Overflow(k, kept, list) ==
  LET old == Last(list)
      j == getKey(kept[old].address) % HashSize
      copied == [buckets EXCEPT ![k] = <<Head(list)>> \o @][j]
      gone == {n \in DOMAIN copied :
                 copied[n] \notin Range(list) \/ Same(kept[copied[n]].address, kept[old].address)}
  IN /\ storage' = Front(list)
     /\ undefined' = (gone # {} /\ copied[First(gone)] \notin Range(list))
     /\ buckets' = [buckets EXCEPT ![j] = copied,
                                   ![k] = IF gone = {} THEN copied ELSE RemoveAt(copied, First(gone))]
     /\ item' = [kept EXCEPT ![old] = Blank]
     /\ size' = size
     /\ overflown' = TRUE

\* A clone has the first three words only: the fourth is whatever was in its memory.
Inserted(h, k, value) ==
  \E i \in Items, last \in LastWords :
    LET list == <<i>> \o storage
        kept == [item EXCEPT ![i] = [address |-> [host |-> h, last |-> IF h \in V6 THEN last ELSE 0],
                                     value |-> value]]
    IN /\ i \notin Range(storage) /\ \A b \in Keys : i \notin Range(buckets[b])
       /\ \A d \in 1 .. i - 1 : d \in Range(storage) \/ \E b \in Keys : d \in Range(buckets[b])
       /\ IF size + 1 >= MaxSize THEN Overflow(k, kept, list)
          ELSE /\ item' = kept /\ storage' = list /\ size' = size + 1
               /\ buckets' = [buckets EXCEPT ![k] = <<i>> \o @]
               /\ UNCHANGED <<undefined, overflown>>

\* close of a connected socket.
update(h, value) ==
  LET k == BucketOf(Address(h))
      met == Meets(buckets[k], Address(h))
  IN /\ ~ undefined /\ getKey(Address(h)) >= 0
     /\ \/ met = {} /\ Inserted(h, k, value)
        \/ \E n \in met :
             \/ buckets[k][n] \in Range(storage) /\ Refreshed(k, n, value)
             \/ /\ buckets[k][n] \notin Range(storage) /\ undefined' = TRUE
                /\ UNCHANGED <<storage, item, buckets, size, overflown>>
     /\ latest' = IF overflown' THEN NoneStored ELSE [latest EXCEPT ![h] = value]

Next == \E h \in Hosts, value \in Values : update(h, value)

Spec == Init /\ [][Next]_cacheVars
-----------------------------------------------------------------------------
(* Properties                                                               *)

TypeOK ==
  /\ storage \in Seq(Items) /\ buckets \in [Keys -> Seq(Items)]
  /\ item \in [Items -> [address : [host : Hosts, last : LastWords], value : Values \cup {NoValue}]]
  /\ latest \in [Hosts -> Values \cup {NoValue}] /\ {undefined, overflown} \subseteq BOOLEAN

\* The items of a host among those that its bucket points to.
Held(h) == {i \in Range(buckets[BucketOf(Address(h))]) : item[i].address.host = h}

\* What of LatestIsFound is inductive: no iterator to an item that is gone, and of an
\* IPv4 host one item.
HeldOK ==
  ~ overflown =>
    /\ \A k \in Keys : Range(buckets[k]) \subseteq Range(storage)
    /\ \A h \in Hosts \ V6 : getKey(Address(h)) >= 0 =>
         IF latest[h] = NoValue THEN Held(h) = {} ELSE \E i \in Items : Held(h) = {i} /\ item[i].value = latest[h]

\* The count is the length of the list, which stays below the limit: the comparison after
\* the insertion (cache.h:180) leaves one place unused, and lost entries keep theirs.
SizeIsLength == size = Len(storage) /\ size < MaxSize

\* What close stored for an IPv4 host is what the next connect to it finds, for every
\* host whose key is not negative, until the cache first overflows (cache.h:110-202).
\* From then on it is not so: the bucket of the new item is overwritten (cache.h:186).
\* For IPv6 hosts it never is: the clone's fourth word is not copied (cache.cpp:91).
LatestIsFound ==
  ~ overflown => \A h \in Hosts \ V6 : getKey(Address(h)) >= 0 =>
                   lookup(h) = IF latest[h] = NoValue THEN {} ELSE {latest[h]}

\* The cache is a bounded memory of what was stored last, for as long as it can be.
CacheIsMemory == SizeIsLength /\ LatestIsFound
=============================================================================
