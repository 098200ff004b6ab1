---------------------------- MODULE SndQueueProofs ----------------------------
(***************************************************************************)
(* Proofs about SndQueue, for every value of its constants: the loops of   *)
(* the heap end and keep the sockets of the list, each once, and the send  *)
(* worker is woken in time.                                                *)
(***************************************************************************)
EXTENDS SndQueue, SequenceTheorems, NaturalsInduction, WellFoundedInduction, TLAPS

-----------------------------------------------------------------------------
(* Loops: what a recursive function of the form of Risen and Sunk computes.  *)

\* f repeats the step next from a start in D while it is in Go, and returns out.
IsLoop(f, D, Go, next, out) ==
  f = [d \in D |-> IF d \in Go THEN f[next[d]] ELSE out[d]]

\* Each turn keeps the state in I and lowers the measure.
Falls(I, Go, next, measure) ==
  \A d \in I : /\ measure[d] \in Nat
               /\ d \in Go => next[d] \in I /\ measure[next[d]] < measure[d]

\* A function that repeats a step while a condition holds exists: it takes each
\* start to the one end that is in every set closed under the step.
LEMMA LoopExists ==
  ASSUME NEW D, NEW Go, NEW next, NEW out,
         \A d \in D : d \in Go => next[d] \in D
  PROVE  \E f : IsLoop(f, D, Go, next, out)
<1> DEFINE Closed(C) == \A d \in C : d \in Go => next[d] \in C
           Ends(d) == {e \in D : e \notin Go /\ \A C \in SUBSET D : d \in C /\ Closed(C) => e \in C}
           f == [d \in D |-> out[CHOOSE e : e \in Ends(d)]]
<1>1. ASSUME NEW d \in D, d \in Go
      PROVE  Ends(d) = Ends(next[d])
  <2>1. ASSUME NEW e \in Ends(d)
        PROVE  e \in Ends(next[d])
    <3> SUFFICES ASSUME NEW C \in SUBSET D, next[d] \in C, Closed(C)
                 PROVE  e \in C
      OBVIOUS
    <3>1. C \cup {d} \in SUBSET D /\ d \in C \cup {d} /\ Closed(C \cup {d})
      BY <1>1
    <3>2. e \in C \cup {d} /\ e \notin Go
      BY <3>1
    <3> QED
      BY <1>1, <3>2
  <2>2. ASSUME NEW e \in Ends(next[d])
        PROVE  e \in Ends(d)
    BY <1>1
  <2> QED
    BY <2>1, <2>2
<1>2. ASSUME NEW d \in D, d \notin Go
      PROVE  Ends(d) = {d}
  <2>1. Closed({d}) /\ {d} \in SUBSET D
    BY <1>2
  <2>2. d \in Ends(d)
    BY <1>2
  <2>3. ASSUME NEW e \in Ends(d)
        PROVE  e \in {d}
    BY <2>1
  <2> QED
    BY <2>2, <2>3
<1>3. ASSUME NEW d \in D
      PROVE  f[d] = IF d \in Go THEN f[next[d]] ELSE out[d]
  <2>1. CASE d \in Go
    <3>1. f[d] = out[CHOOSE e : e \in Ends(d)] /\ f[next[d]] = out[CHOOSE e : e \in Ends(next[d])]
      BY <2>1
    <3> HIDE DEF f, Ends
    <3> QED
      BY <1>1, <2>1, <3>1
  <2>2. CASE d \notin Go
    <3>1. (CHOOSE e : e \in Ends(d)) = d
      BY <1>2, <2>2
    <3>2. f[d] = out[CHOOSE e : e \in Ends(d)]
      OBVIOUS
    <3> HIDE DEF f, Ends
    <3> QED
      BY <2>2, <3>1, <3>2
  <2> QED
    BY <2>1, <2>2
<1>4. f = [d \in D |-> f[d]]
  OBVIOUS
<1> HIDE DEF f
<1>5. f = [d \in D |-> IF d \in Go THEN f[next[d]] ELSE out[d]]
  BY <1>3, <1>4
<1> QED
  BY <1>5 DEF IsLoop

\* A set of naturals has a least element.
LEMMA LeastOf ==
  ASSUME NEW S \in SUBSET Nat, S # {}
  PROVE  \E n \in S : \A m \in S : n <= m
<1>1. IsWellFoundedOn(OpToRel(<, Nat), Nat)
  BY NatLessThanWellFounded
<1>2. PICK n \in S : \A m \in S : ~ (<<m, n>> \in OpToRel(<, Nat))
  BY <1>1, WFMin
<1>3. \A m \in S : ~ (m < n)
  BY <1>2 DEF OpToRel
<1> QED
  BY <1>3

\* What each turn of a loop keeps holds at its end, if a measure falls at each turn.
LEMMA LoopKeeps ==
  ASSUME NEW D, NEW Go, NEW next, NEW out, NEW f, NEW measure, NEW I \in SUBSET D,
         IsLoop(f, D, Go, next, out), Falls(I, Go, next, measure)
  PROVE  \A d \in I : \E e \in I : e \notin Go /\ f[d] = out[e]
<1>0. /\ \A d \in D : f[d] = IF d \in Go THEN f[next[d]] ELSE out[d]
      /\ \A d \in I : measure[d] \in Nat
      /\ \A d \in I : d \in Go => next[d] \in I /\ measure[next[d]] < measure[d]
  <2>1. \A d \in D : f[d] = IF d \in Go THEN f[next[d]] ELSE out[d]
    <3> DEFINE Body(d) == IF d \in Go THEN f[next[d]] ELSE out[d]
    <3>1. f = [d \in D |-> Body(d)]
      BY DEF IsLoop
    <3> HIDE DEF Body
    <3>2. \A d \in D : f[d] = Body(d)
      BY <3>1
    <3> QED
      BY <3>2 DEF Body
  <2>2. \A d \in I : measure[d] \in Nat
    BY DEF Falls
  <2>3. \A d \in I : d \in Go => next[d] \in I /\ measure[next[d]] < measure[d]
    BY DEF Falls
  <2> QED
    BY <2>1, <2>2, <2>3
<1> DEFINE Good(d) == \E e \in I : e \notin Go /\ f[d] = out[e]
           Bad == {d \in I : ~ Good(d)}
           S == {measure[d] : d \in Bad}
<1> SUFFICES ASSUME Bad # {}
             PROVE  FALSE
  OBVIOUS
<1>1. S \in SUBSET Nat /\ S # {}
  BY <1>0
<1>2. PICK n \in S : \A m \in S : n <= m
  <2> HIDE DEF S
  <2> QED
    BY <1>1, LeastOf
<1>3. PICK d \in Bad : measure[d] = n
  BY <1>2
<1>4. d \in Go
  BY <1>0, <1>3
<1>5. next[d] \in I /\ measure[next[d]] < measure[d] /\ measure[next[d]] \in Nat /\ n \in Nat
  BY <1>0, <1>1, <1>3, <1>4
<1>6. next[d] \notin Bad
  <2>1. next[d] \in Bad => n <= measure[next[d]]
    BY <1>2
  <2> QED
    BY <1>3, <1>5, <2>1
<1>7. Good(next[d])
  BY <1>5, <1>6
<1>8. f[d] = f[next[d]]
  BY <1>0, <1>3, <1>4
<1> QED
  BY <1>3, <1>7, <1>8

-----------------------------------------------------------------------------
(* The heap: its operations only move nodes, add one or take one out.       *)

\* Two nodes change places.
LEMMA SwapKeeps ==
  ASSUME NEW h \in Seq(Sockets), NEW i \in DOMAIN h, NEW j \in DOMAIN h
  PROVE  /\ Swap(h, i, j) \in Seq(Sockets)
         /\ DOMAIN Swap(h, i, j) = DOMAIN h
         /\ Len(Swap(h, i, j)) = Len(h)
         /\ Range(Swap(h, i, j)) = Range(h)
         /\ IsInjective(h) => IsInjective(Swap(h, i, j))
<1> DEFINE g == Swap(h, i, j)
<1>1. h \in [1 .. Len(h) -> Sockets] /\ Len(h) \in Nat /\ DOMAIN h = 1 .. Len(h)
  BY LenProperties, ElementOfSeq
<1>2. g \in [1 .. Len(h) -> Sockets]
  BY <1>1 DEF Swap
<1>3. g \in Seq(Sockets) /\ Len(g) = Len(h) /\ DOMAIN g = DOMAIN h
  <2>1. g \in Seq(Sockets)
    BY <1>1, <1>2, IsASeq
  <2>2. DOMAIN g = 1 .. Len(h)
    BY <1>2
  <2> QED
    BY <1>1, <2>1, <2>2, LenProperties
<1>4. \A n \in DOMAIN h : g[n] = IF n = j THEN h[i] ELSE IF n = i THEN h[j] ELSE h[n]
  BY <1>1 DEF Swap
<1> HIDE DEF g
<1>5. Range(g) = Range(h)
  <2>1. ASSUME NEW n \in DOMAIN h
        PROVE  g[n] \in Range(h)
    BY <1>4 DEF Range
  <2>2. ASSUME NEW n \in DOMAIN h
        PROVE  h[n] \in Range(g)
    <3>1. CASE n = i
      BY <1>3, <1>4, <3>1 DEF Range
    <3>2. CASE n = j
      BY <1>3, <1>4, <3>2 DEF Range
    <3>3. CASE n # i /\ n # j
      BY <1>3, <1>4, <3>3 DEF Range
    <3> QED
      BY <3>1, <3>2, <3>3
  <2> QED
    BY <1>3, <2>1, <2>2 DEF Range
<1>6. IsInjective(h) => IsInjective(g)
  BY <1>3, <1>4 DEF IsInjective
<1> QED
  BY <1>3, <1>5, <1>6 DEF g

\* A turn of either loop.
LEMMA MoveKeeps ==
  ASSUME NEW d \in Moves, NEW i \in DOMAIN d.heap
  PROVE  /\ MovedTo(d, i) \in Moves
         /\ MovedTo(d, i).at = i
         /\ MovedTo(d, i).heap = Swap(d.heap, i, d.at)
<1> DEFINE e == [d EXCEPT !.heap = Swap(d.heap, i, d.at), !.at = i]
<1>1. d \in [heap : Seq(Sockets), stamp : [Sockets -> Times], at : Nat] /\ d.at \in DOMAIN d.heap
  BY DEF Moves
<1>2. i \in Nat
  <2>1. d.heap \in Seq(Sockets)
    BY <1>1
  <2> QED
    BY <2>1, LenProperties
<1>3. Swap(d.heap, i, d.at) \in Seq(Sockets) /\ DOMAIN Swap(d.heap, i, d.at) = DOMAIN d.heap
  BY <1>1, SwapKeeps
<1>4. e.at = i /\ e.heap = Swap(d.heap, i, d.at) /\ e.stamp = d.stamp
  BY <1>1
<1>5. e \in [heap : Seq(Sockets), stamp : [Sockets -> Times], at : Nat]
  BY <1>1, <1>2, <1>3
<1>6. e \in Moves
  <2> HIDE DEF e
  <2> QED
    BY <1>3, <1>4, <1>5 DEF Moves
<1> QED
  BY <1>4, <1>6 DEF MovedTo

\* Where a loop takes a node is a place of the heap.
LEMMA PlacesOfMoves ==
  ASSUME NEW d \in Moves
  PROVE  /\ d.heap \in Seq(Sockets) /\ d.at \in Nat /\ Len(d.heap) \in Nat
         /\ 1 <= d.at /\ d.at <= Len(d.heap)
         /\ Rises(d) => d.at \div 2 \in DOMAIN d.heap /\ d.at \div 2 < d.at
         /\ Sinks(d) => Child(d) \in DOMAIN d.heap /\ Child(d) > d.at
<1>1. d.heap \in Seq(Sockets) /\ d.at \in DOMAIN d.heap
  BY DEF Moves
<1>2. DOMAIN d.heap = 1 .. Len(d.heap) /\ Len(d.heap) \in Nat
  BY <1>1, LenProperties
<1>3. d.at \in Nat /\ 1 <= d.at /\ d.at <= Len(d.heap)
  BY <1>1, <1>2
<1>4. ASSUME Rises(d)
      PROVE  d.at \div 2 \in DOMAIN d.heap /\ d.at \div 2 < d.at
  <2>1. d.at > 1
    BY <1>4 DEF Rises
  <2>2. PICK n \in Nat : n = d.at
    BY <1>3
  <2>3. n \div 2 \in 1 .. n - 1
    BY <2>1, <2>2
  <2> QED
    BY <1>2, <1>3, <2>2, <2>3
<1>5. ASSUME Sinks(d)
      PROVE  Child(d) \in DOMAIN d.heap /\ Child(d) > d.at
  <2>1. 2 * d.at <= Len(d.heap)
    BY <1>5 DEF Sinks
  <2>2. Child(d) = 2 * d.at \/ (Child(d) = 2 * d.at + 1 /\ 2 * d.at < Len(d.heap))
    BY DEF Child
  <2> QED
    BY <1>2, <1>3, <2>1, <2>2
<1> QED
  BY <1>1, <1>2, <1>3, <1>4, <1>5

\* The moves of a node within a heap of these nodes.
Within(h) ==
  {d \in Moves : /\ DOMAIN d.heap = DOMAIN h
                 /\ Range(d.heap) = Range(h)
                 /\ IsInjective(h) => IsInjective(d.heap)}

LEMMA TurnStaysWithin ==
  ASSUME NEW h \in Seq(Sockets), NEW d \in Within(h), NEW i \in DOMAIN d.heap
  PROVE  MovedTo(d, i) \in Within(h)
<1>1. d \in Moves /\ d.heap \in Seq(Sockets) /\ d.at \in DOMAIN d.heap
  BY DEF Within, Moves
<1>2. MovedTo(d, i) \in Moves /\ MovedTo(d, i).heap = Swap(d.heap, i, d.at)
  BY <1>1, MoveKeeps
<1> QED
  BY <1>1, <1>2, SwapKeeps DEF Within

\* The loop of insert_ ends with the same nodes in the same number of places.
LEMMA RisenKeeps ==
  ASSUME NEW h \in Seq(Sockets), NEW d \in Within(h)
  PROVE  \E e \in Within(h) : Risen[d] = e.heap
<1> DEFINE Go == {e \in Moves : Rises(e)}
           next == [e \in Moves |-> MovedTo(e, e.at \div 2)]
           out == [e \in Moves |-> e.heap]
           measure == [e \in Moves |-> e.at]
           Loop(f) == f = [e \in Moves |-> IF Rises(e) THEN f[MovedTo(e, e.at \div 2)] ELSE e.heap]
<1>1. \A e \in Moves : e \in Go => next[e] \in Moves
  BY PlacesOfMoves, MoveKeeps
<1>2. \E f : IsLoop(f, Moves, Go, next, out)
  <2> HIDE DEF Go, next, out
  <2> QED
    BY <1>1, LoopExists
<1>3. \A f : IsLoop(f, Moves, Go, next, out) <=> Loop(f)
  <2> SUFFICES ASSUME NEW f
               PROVE  IsLoop(f, Moves, Go, next, out) <=> Loop(f)
    OBVIOUS
  <2>1. \A e \in Moves : (IF e \in Go THEN f[next[e]] ELSE out[e])
                           = (IF Rises(e) THEN f[MovedTo(e, e.at \div 2)] ELSE e.heap)
    OBVIOUS
  <2> HIDE DEF Go, next, out
  <2> QED
    BY <2>1 DEF IsLoop
<1>4. IsLoop(Risen, Moves, Go, next, out)
  <2>1. Risen = CHOOSE f : Loop(f)
    BY DEF Risen
  <2> HIDE DEF Loop, Go, next, out
  <2> QED
    BY <1>2, <1>3, <2>1
<1>6. \A e \in Within(h) : measure[e] \in Nat
  BY PlacesOfMoves DEF Within
<1>7. \A e \in Within(h) : e \in Go => next[e] \in Within(h) /\ measure[next[e]] < measure[e]
  <2> SUFFICES ASSUME NEW e \in Within(h), Rises(e)
               PROVE  next[e] \in Within(h) /\ measure[next[e]] < measure[e]
    OBVIOUS
  <2>1. e \in Moves
    BY DEF Within
  <2>2. e.at \div 2 \in DOMAIN e.heap /\ e.at \div 2 < e.at
    BY <2>1, PlacesOfMoves
  <2>3. next[e] = MovedTo(e, e.at \div 2) /\ MovedTo(e, e.at \div 2) \in Moves
        /\ MovedTo(e, e.at \div 2).at = e.at \div 2
    BY <2>1, <2>2, MoveKeeps
  <2> QED
    BY <2>1, <2>2, <2>3, TurnStaysWithin
<1>8. Within(h) \in SUBSET Moves
  BY DEF Within
<1>9. \E e \in Within(h) : e \notin Go /\ Risen[d] = out[e]
  <2>1. Falls(Within(h), Go, next, measure)
    BY <1>6, <1>7 DEF Falls
  <2> HIDE DEF Go, next, out, measure
  <2> QED
    BY <1>4, <1>8, <2>1, LoopKeeps
<1> QED
  BY <1>8, <1>9

\* The loop of remove_ ends with the same nodes in the same number of places.
LEMMA SunkKeeps ==
  ASSUME NEW h \in Seq(Sockets), NEW d \in Within(h)
  PROVE  \E e \in Within(h) : Sunk[d] = e.heap
<1> DEFINE Go == {e \in Moves : Sinks(e)}
           next == [e \in Moves |-> MovedTo(e, Child(e))]
           out == [e \in Moves |-> e.heap]
           measure == [e \in Moves |-> Len(e.heap) - e.at]
           Loop(f) == f = [e \in Moves |-> IF Sinks(e) THEN f[MovedTo(e, Child(e))] ELSE e.heap]
<1>1. \A e \in Moves : e \in Go => next[e] \in Moves
  BY PlacesOfMoves, MoveKeeps
<1>2. \E f : IsLoop(f, Moves, Go, next, out)
  <2> HIDE DEF Go, next, out
  <2> QED
    BY <1>1, LoopExists
<1>3. \A f : IsLoop(f, Moves, Go, next, out) <=> Loop(f)
  <2> SUFFICES ASSUME NEW f
               PROVE  IsLoop(f, Moves, Go, next, out) <=> Loop(f)
    OBVIOUS
  <2>1. \A e \in Moves : (IF e \in Go THEN f[next[e]] ELSE out[e])
                           = (IF Sinks(e) THEN f[MovedTo(e, Child(e))] ELSE e.heap)
    OBVIOUS
  <2> HIDE DEF Go, next, out
  <2> QED
    BY <2>1 DEF IsLoop
<1>4. IsLoop(Sunk, Moves, Go, next, out)
  <2>1. Sunk = CHOOSE f : Loop(f)
    BY DEF Sunk
  <2> HIDE DEF Loop, Go, next, out
  <2> QED
    BY <1>2, <1>3, <2>1
<1>6. \A e \in Within(h) : measure[e] \in Nat
  <2> SUFFICES ASSUME NEW e \in Within(h)
               PROVE  measure[e] \in Nat
    OBVIOUS
  <2>1. e \in Moves /\ Len(e.heap) \in Nat /\ e.at \in Nat /\ e.at <= Len(e.heap)
    BY PlacesOfMoves DEF Within
  <2>2. Len(e.heap) - e.at \in Nat
    BY <2>1
  <2> QED
    BY <2>1, <2>2
<1>7. \A e \in Within(h) : e \in Go => next[e] \in Within(h) /\ measure[next[e]] < measure[e]
  <2> SUFFICES ASSUME NEW e \in Within(h), Sinks(e)
               PROVE  next[e] \in Within(h) /\ measure[next[e]] < measure[e]
    OBVIOUS
  <2>1. e \in Moves
    BY DEF Within
  <2>2. Child(e) \in DOMAIN e.heap /\ Child(e) > e.at
    BY <2>1, PlacesOfMoves
  <2>3. next[e] = MovedTo(e, Child(e)) /\ MovedTo(e, Child(e)) \in Moves
        /\ MovedTo(e, Child(e)).at = Child(e)
    BY <2>1, <2>2, MoveKeeps
  <2>4. next[e] \in Within(h)
    BY <2>2, <2>3, TurnStaysWithin
  <2>5. Len(MovedTo(e, Child(e)).heap) = Len(e.heap)
    <3>1. e.heap \in Seq(Sockets) /\ e.at \in DOMAIN e.heap
      BY <2>1 DEF Moves
    <3>2. MovedTo(e, Child(e)).heap = Swap(e.heap, Child(e), e.at)
      BY <2>1, <2>2, MoveKeeps
    <3> QED
      BY <2>2, <3>1, <3>2, SwapKeeps
  <2>6. Len(e.heap) \in Nat /\ e.at \in Nat /\ Child(e) \in Nat
    BY <2>1, <2>2, PlacesOfMoves, LenProperties
  <2>7. measure[next[e]] = Len(e.heap) - Child(e) /\ measure[e] = Len(e.heap) - e.at
    BY <2>1, <2>3, <2>5
  <2> HIDE DEF next, measure
  <2> QED
    BY <2>2, <2>4, <2>6, <2>7
<1>8. Within(h) \in SUBSET Moves
  BY DEF Within
<1>9. \E e \in Within(h) : e \notin Go /\ Sunk[d] = out[e]
  <2>1. Falls(Within(h), Go, next, measure)
    BY <1>6, <1>7 DEF Falls
  <2> HIDE DEF Go, next, out, measure
  <2> QED
    BY <1>4, <1>8, <2>1, LoopKeeps
<1> QED
  BY <1>8, <1>9

\* A list of sockets, each once.
Unique(h) == h \in Seq(Sockets) /\ IsInjective(h)

\* insert_ adds the socket, once.
LEMMA InsertedIs ==
  ASSUME NEW h, Unique(h), NEW stamp \in [Sockets -> Times], NEW u \in Sockets
  PROVE  /\ Unique(Inserted(h, stamp, u))
         /\ Range(Inserted(h, stamp, u)) = Range(h) \cup {u}
         /\ Len(Inserted(h, stamp, u)) = IF u \in Range(h) THEN Len(h) ELSE Len(h) + 1
<1>1. CASE u \in Range(h)
  BY <1>1 DEF Inserted
<1>2. CASE u \notin Range(h)
  <2> DEFINE g == Append(h, u)
             d == [heap |-> g, stamp |-> stamp, at |-> Len(h) + 1]
  <2>1. h \in Seq(Sockets) /\ Len(h) \in Nat /\ DOMAIN h = 1 .. Len(h) /\ IsInjective(h)
    BY LenProperties DEF Unique
  <2>2. /\ g \in Seq(Sockets) /\ Len(g) = Len(h) + 1
        /\ \A i \in 1 .. Len(h) : g[i] = h[i]
        /\ g[Len(h) + 1] = u
    BY <2>1, AppendProperties
  <2>3. DOMAIN g = 1 .. Len(h) + 1
    BY <2>1, <2>2, LenProperties
  <2> HIDE DEF g
  <2>4. Range(g) = Range(h) \cup {u}
    <3>1. ASSUME NEW i \in DOMAIN g
          PROVE  g[i] \in Range(h) \cup {u}
      <4>1. i \in DOMAIN h \/ i = Len(h) + 1
        BY <2>1, <2>3
      <4> QED
        BY <2>1, <2>2, <4>1 DEF Range
    <3>2. ASSUME NEW i \in DOMAIN h
          PROVE  h[i] \in Range(g)
      <4>1. i \in DOMAIN g /\ g[i] = h[i]
        BY <2>1, <2>2, <2>3
      <4> QED
        BY <4>1 DEF Range
    <3>3. u \in Range(g)
      <4>1. Len(h) + 1 \in DOMAIN g
        BY <2>1, <2>3
      <4> QED
        BY <2>2, <4>1 DEF Range
    <3> QED
      BY <3>1, <3>2, <3>3 DEF Range
  <2>5. IsInjective(g)
    <3> SUFFICES ASSUME NEW a \in DOMAIN g, NEW b \in DOMAIN g, g[a] = g[b]
                 PROVE  a = b
      BY DEF IsInjective
    <3>1. (a \in DOMAIN h \/ a = Len(h) + 1) /\ (b \in DOMAIN h \/ b = Len(h) + 1)
      BY <2>1, <2>3
    <3>2. \A i \in DOMAIN h : g[i] # u
      BY <1>2, <2>1, <2>2 DEF Range
    <3>3. a \in DOMAIN h /\ b \in DOMAIN h => h[a] = h[b]
      BY <2>1, <2>2
    <3> QED
      BY <2>1, <2>2, <3>1, <3>2, <3>3 DEF IsInjective
  <2>6. d \in Moves
    <3>1. Len(h) + 1 \in DOMAIN g /\ Len(h) + 1 \in Nat
      BY <2>1, <2>3
    <3> QED
      BY <2>2, <3>1 DEF Moves
  <2>7. d \in Within(g)
    BY <2>6 DEF Within
  <2>8. PICK e \in Within(g) : Risen[d] = e.heap
    <3> HIDE DEF d
    <3> QED
      BY <2>2, <2>7, RisenKeeps
  <2>9. Inserted(h, stamp, u) = e.heap
    BY <1>2, <2>8 DEF Inserted, g
  <2>10. /\ e.heap \in Seq(Sockets) /\ IsInjective(e.heap) /\ Range(e.heap) = Range(g)
         /\ DOMAIN e.heap = DOMAIN g
    BY <2>5 DEF Within, Moves
  <2>11. Len(e.heap) = Len(g)
    BY <2>2, <2>10, LenProperties
  <2> QED
    BY <1>2, <2>2, <2>4, <2>9, <2>10, <2>11 DEF Unique
<1> QED
  BY <1>1, <1>2

\* remove_ takes the socket out, and nothing else.
LEMMA RemovedIs ==
  ASSUME NEW h, Unique(h), NEW stamp \in [Sockets -> Times], NEW u \in Sockets
  PROVE  /\ Unique(Removed(h, stamp, u))
         /\ Range(Removed(h, stamp, u)) = Range(h) \ {u}
<1>1. CASE u \notin Range(h)
  BY <1>1 DEF Removed
<1>2. CASE u \in Range(h)
  <2>1. h \in Seq(Sockets) /\ Len(h) \in Nat /\ DOMAIN h = 1 .. Len(h) /\ IsInjective(h)
    BY LenProperties DEF Unique
  <2>2. PICK i : i = CHOOSE j \in DOMAIN h : h[j] = u
    OBVIOUS
  <2>3. i \in DOMAIN h /\ h[i] = u
    <3>1. \E j \in DOMAIN h : h[j] = u
      BY <1>2 DEF Range
    <3> QED
      BY <2>2, <3>1
  <2> DEFINE g == [j \in 1 .. Len(h) - 1 |-> IF j = i THEN h[Len(h)] ELSE h[j]]
             d == [heap |-> g, stamp |-> stamp, at |-> i]
  <2>4. Len(h) \in DOMAIN h /\ Len(h) - 1 \in Nat /\ 1 .. Len(h) - 1 \subseteq DOMAIN h
    BY <2>1, <2>3
  <2>5. \A j \in DOMAIN h : h[j] \in Sockets
    BY <2>1, ElementOfSeq
  <2>6. g \in [1 .. Len(h) - 1 -> Sockets]
    BY <2>3, <2>4, <2>5
  <2>7. g \in Seq(Sockets) /\ DOMAIN g = 1 .. Len(h) - 1 /\ Len(g) = Len(h) - 1
    <3>1. g \in Seq(Sockets) /\ DOMAIN g = 1 .. Len(h) - 1
      BY <2>4, <2>6, IsASeq
    <3> QED
      BY <2>4, <3>1, LenProperties
  <2>8. \A j \in DOMAIN g : g[j] = IF j = i THEN h[Len(h)] ELSE h[j]
    OBVIOUS
  <2>20. Removed(h, stamp, u) = IF i = Len(h) THEN g ELSE Sunk[d]
    BY <1>2, <2>2 DEF Removed
  <2> HIDE DEF g
  <2>9. IsInjective(g)
    <3> SUFFICES ASSUME NEW a \in DOMAIN g, NEW b \in DOMAIN g, g[a] = g[b]
                 PROVE  a = b
      BY DEF IsInjective
    <3>1. a \in DOMAIN h /\ b \in DOMAIN h /\ a # Len(h) /\ b # Len(h)
      BY <2>1, <2>4, <2>7
    <3> QED
      BY <2>1, <2>4, <2>8, <3>1 DEF IsInjective
  <2>10. Range(g) = Range(h) \ {u}
    <3>1. ASSUME NEW j \in DOMAIN g
          PROVE  g[j] \in Range(h) \ {u}
      <4>1. j \in DOMAIN h /\ j # Len(h)
        BY <2>1, <2>4, <2>7
      <4>2. CASE j = i
        BY <2>1, <2>3, <2>4, <2>8, <4>1, <4>2 DEF Range, IsInjective
      <4>3. CASE j # i
        BY <2>1, <2>3, <2>4, <2>8, <4>1, <4>3 DEF Range, IsInjective
      <4> QED
        BY <4>2, <4>3
    <3>2. ASSUME NEW j \in DOMAIN h, h[j] # u
          PROVE  h[j] \in Range(g)
      <4>1. j # i
        BY <2>3, <3>2
      <4>2. CASE j = Len(h)
        <5>1. i \in DOMAIN g /\ g[i] = h[j]
          BY <2>1, <2>3, <2>7, <2>8, <4>1, <4>2
        <5> QED
          BY <5>1 DEF Range
      <4>3. CASE j # Len(h)
        <5>1. j \in DOMAIN g /\ g[j] = h[j]
          BY <2>1, <2>7, <2>8, <4>1, <4>3
        <5> QED
          BY <5>1 DEF Range
      <4> QED
        BY <4>2, <4>3
    <3> QED
      BY <3>1, <3>2 DEF Range
  <2>11. CASE i = Len(h)
    BY <2>7, <2>9, <2>10, <2>11, <2>20 DEF Unique
  <2>12. CASE i # Len(h)
    <3>1. i \in DOMAIN g /\ i \in Nat
      BY <2>1, <2>3, <2>7, <2>12
    <3>2. d \in Moves
      BY <2>7, <3>1 DEF Moves
    <3>3. d \in Within(g)
      BY <3>2 DEF Within
    <3>4. PICK e \in Within(g) : Sunk[d] = e.heap
      <4> HIDE DEF d
      <4> QED
        BY <2>7, <3>3, SunkKeeps
    <3>5. e.heap \in Seq(Sockets) /\ IsInjective(e.heap) /\ Range(e.heap) = Range(g)
      BY <2>9 DEF Within, Moves
    <3> QED
      BY <2>10, <2>12, <2>20, <3>4, <3>5 DEF Unique
  <2> QED
    BY <2>11, <2>12
<1> QED
  BY <1>1, <1>2

\* Whatever order the heap is in, it never loses or doubles a socket: insert_ adds the
\* socket and remove_ takes it out, and all others stay, each once.
THEOREM HeapKeepsSockets ==
  ASSUME NEW h, Unique(h), NEW stamp \in [Sockets -> Times], NEW u \in Sockets
  PROVE  /\ Unique(Inserted(h, stamp, u)) /\ Unique(Removed(h, stamp, u))
         /\ Range(Inserted(h, stamp, u)) = Range(h) \cup {u}
         /\ Range(Removed(h, stamp, u)) = Range(h) \ {u}
  BY InsertedIs, RemovedIs

-----------------------------------------------------------------------------
(* The invariant.                                                           *)

LEMMA UniqueHeap ==
  ASSUME TypeOK
  PROVE  /\ Unique(heap) /\ Len(heap) \in Nat
         /\ timeStamp \in [Sockets -> Times]
         /\ heap # <<>> => heap[1] \in Sockets
         /\ Times \subseteq Nat /\ MaxInterval \in Nat
<1>1. Unique(heap) /\ Len(heap) \in Nat /\ timeStamp \in [Sockets -> Times]
  BY LenProperties DEF TypeOK, Unique
<1>2. heap # <<>> => heap[1] \in Sockets
  BY DEF TypeOK
<1>3. Times \subseteq Nat /\ MaxInterval \in Nat
  BY SndQueueAssumption DEF Times
<1> QED
  BY <1>1, <1>2, <1>3

\* An insertion into the list h, by a caller or by the worker's pop.
LEMMA InsertKeeps ==
  ASSUME IInv, NEW h, Unique(h), NEW u \in Sockets, NEW t \in Times, t <= now + MaxInterval,
         NEW interrupted \in BOOLEAN, Insert(h, u, t, interrupted)
  PROVE  /\ Unique(heap')
         /\ Range(heap') = Range(h) \cup {u}
         /\ Len(heap') = IF u \in Range(h) THEN Len(h) ELSE Len(h) + 1
         /\ timeStamp' \in [Sockets -> Times]
         /\ \A v \in Sockets : timeStamp'[v] <= now + MaxInterval
         /\ schedTime' = now \/ schedTime' = schedTime
         /\ signalling' = (Len(heap') = 1)
<1>1. timeStamp' = [timeStamp EXCEPT ![u] = t] /\ timeStamp \in [Sockets -> Times]
  BY DEF Insert, IInv, SleepIsSafe, TypeOK
<1>2. timeStamp' \in [Sockets -> Times]
  BY <1>1
<1>3. \A v \in Sockets : timeStamp'[v] <= now + MaxInterval
  BY <1>1 DEF IInv, DueSoon
<1>4. heap' = Inserted(h, timeStamp', u)
  BY DEF Insert
<1>5. PICK stamp \in [Sockets -> Times] : stamp = timeStamp'
  BY <1>2
<1>6. /\ Unique(Inserted(h, stamp, u))
      /\ Range(Inserted(h, stamp, u)) = Range(h) \cup {u}
      /\ Len(Inserted(h, stamp, u)) = IF u \in Range(h) THEN Len(h) ELSE Len(h) + 1
  BY InsertedIs
<1>7. heap' = Inserted(h, stamp, u)
  BY <1>4, <1>5
<1>8. schedTime' = now \/ schedTime' = schedTime
  BY DEF Insert, InterruptIf
<1>9. signalling' = (Len(heap') = 1)
  BY DEF Insert, OneLeft
<1>10. Unique(heap') /\ Range(heap') = Range(h) \cup {u}
       /\ Len(heap') = IF u \in Range(h) THEN Len(h) ELSE Len(h) + 1
  BY <1>6, <1>7
<1> QED
  BY <1>2, <1>3, <1>8, <1>9, <1>10

LEMMA InvInit ==
  ASSUME Init
  PROVE  IInv
<1>1. heap \in Seq(Sockets) /\ IsInjective(heap)
  BY DEF Init, IsInjective
<1>2. 0 \in Times /\ 2 \in Times /\ MaxInterval \in Nat
  BY SndQueueAssumption DEF Times
<1>5. now \in Times /\ now = 2
  BY <1>2 DEF Init, Immediately
<1>3. TypeOK
  BY <1>1, <1>2, <1>5 DEF Init, TypeOK
<1>4. DueSoon
  BY <1>2, <1>5 DEF Init, DueSoon, Immediately
<1> QED
  BY <1>3, <1>4 DEF Init, IInv, SleepIsSafe, NoLostSignal, SleepBounded

\* While the worker waits a caller finds the list empty, and signals what it inserts.
LEMMA InvUpdate ==
  ASSUME IInv, NEW u \in Sockets, NEW reschedule \in BOOLEAN, Update(u, reschedule)
  PROVE  IInv'
<1>0. /\ TypeOK /\ NoLostSignal /\ SleepBounded /\ DueSoon /\ (joining => closing)
      /\ ~ signalling /\ ~ closing
      /\ UNCHANGED <<now, worker, due, closing, joining>>
  BY DEF IInv, SleepIsSafe, Update, MayCall
<1>1. /\ Immediately \in Times /\ Immediately <= now + MaxInterval /\ now \in Nat
      /\ MaxInterval \in Nat
  BY <1>0, SndQueueAssumption DEF Times, Immediately, DueSoon, TypeOK
<1>2. /\ Unique(heap) /\ Len(heap) \in Nat
      /\ timeStamp \in [Sockets -> Times]
  BY <1>0, UniqueHeap
<1>3. /\ Unique(heap') /\ timeStamp' \in [Sockets -> Times] /\ signalling' \in BOOLEAN
      /\ \A v \in Sockets : timeStamp'[v] <= now + MaxInterval
      /\ schedTime' = now \/ schedTime' = schedTime
      /\ heap = <<>> => signalling'
  <2>1. CASE ~ Listed(u) /\ Insert(heap, u, Immediately, FALSE)
    <3>1. /\ Unique(heap') /\ timeStamp' \in [Sockets -> Times]
          /\ Len(heap') = IF u \in Range(heap) THEN Len(heap) ELSE Len(heap) + 1
          /\ \A v \in Sockets : timeStamp'[v] <= now + MaxInterval
          /\ schedTime' = now \/ schedTime' = schedTime
          /\ signalling' = (Len(heap') = 1)
      BY <1>1, <1>2, <2>1, InsertKeeps
    <3>2. heap = <<>> => Len(heap') = 1
      BY <2>1, <3>1 DEF Listed
    <3> QED
      BY <3>1, <3>2
  <2>2. CASE /\ Listed(u) /\ heap[1] = u
             /\ timeStamp' = [timeStamp EXCEPT ![u] = Immediately]
             /\ InterruptIf(TRUE)
             /\ UNCHANGED <<heap, signalling>>
    <3>1. heap # <<>>
      BY <2>2 DEF Listed, Range
    <3>2. \A v \in Sockets : timeStamp'[v] <= now + MaxInterval
      BY <1>0, <1>1, <1>2, <2>2 DEF DueSoon
    <3>3. timeStamp' \in [Sockets -> Times]
      BY <1>1, <1>2, <2>2
    <3>4. schedTime' = now
      BY <2>2 DEF InterruptIf
    <3>5. Unique(heap') /\ signalling' \in BOOLEAN
      BY <1>0, <1>2, <2>2 DEF Unique, TypeOK
    <3> QED
      BY <3>1, <3>2, <3>3, <3>4, <3>5
  <2>3. CASE /\ Listed(u)
             /\ Insert(Removed(heap, timeStamp, u), u, Immediately, OneLeft(Removed(heap, timeStamp, u)))
    <3>1. heap # <<>>
      BY <2>3 DEF Listed, Range
    <3>2. Unique(Removed(heap, timeStamp, u))
      BY <1>2, RemovedIs
    <3>3. OneLeft(Removed(heap, timeStamp, u)) \in BOOLEAN
      BY DEF OneLeft
    <3>4. /\ Unique(heap') /\ timeStamp' \in [Sockets -> Times]
          /\ \A v \in Sockets : timeStamp'[v] <= now + MaxInterval
          /\ schedTime' = now \/ schedTime' = schedTime
          /\ signalling' = (Len(heap') = 1)
      BY <1>1, <2>3, <3>2, <3>3, InsertKeeps
    <3> QED
      BY <3>1, <3>4
  <2> QED
    BY <2>1, <2>2, <2>3 DEF Update
<1>4. TypeOK'
  BY <1>0, <1>3 DEF TypeOK, Unique
<1>5. NoLostSignal'
  BY <1>0, <1>3 DEF NoLostSignal
<1>6. SleepBounded'
  BY <1>0, <1>1, <1>3 DEF SleepBounded
<1>7. DueSoon'
  BY <1>0, <1>3 DEF DueSoon
<1> QED
  BY <1>0, <1>4, <1>5, <1>6, <1>7 DEF IInv, SleepIsSafe

LEMMA InvRemove ==
  ASSUME IInv, NEW u \in Sockets, Remove(u)
  PROVE  IInv'
<1>0. /\ TypeOK /\ NoLostSignal /\ SleepBounded /\ DueSoon /\ (joining => closing)
      /\ ~ signalling /\ ~ closing
      /\ UNCHANGED <<timeStamp, signalling, now, worker, due, closing, joining>>
      /\ heap' = Removed(heap, timeStamp, u)
      /\ schedTime' = now \/ schedTime' = schedTime
  BY DEF IInv, SleepIsSafe, Remove, MayCall, InterruptIf
<1>1. Unique(heap) /\ timeStamp \in [Sockets -> Times] /\ MaxInterval \in Nat /\ now \in Nat
  BY <1>0, UniqueHeap DEF TypeOK
<1>2. Unique(heap')
  BY <1>0, <1>1, RemovedIs
<1>3. heap = <<>> => heap' = <<>>
  BY <1>0 DEF Removed, Range
<1>4. TypeOK'
  BY <1>0, <1>2 DEF TypeOK, Unique
<1>5. NoLostSignal'
  BY <1>0, <1>3 DEF NoLostSignal
<1>6. SleepBounded'
  BY <1>0, <1>1 DEF SleepBounded
<1>7. DueSoon'
  BY <1>0 DEF DueSoon
<1> QED
  BY <1>0, <1>4, <1>5, <1>6, <1>7 DEF IInv, SleepIsSafe

\* The worker is not waiting; what it inserts is due within a sending period.
LEMMA InvPop ==
  ASSUME IInv, Pop
  PROVE  IInv'
<1>0. /\ TypeOK /\ DueSoon /\ (joining => closing)
      /\ worker' = "look" /\ ~ signalling /\ heap # <<>>
      /\ UNCHANGED <<now, due, closing, joining>>
  BY DEF IInv, SleepIsSafe, Pop
<1>1. /\ Unique(heap) /\ timeStamp \in [Sockets -> Times] /\ MaxInterval \in Nat
      /\ now \in Nat /\ heap[1] \in Sockets
  BY <1>0, UniqueHeap DEF TypeOK
<1> DEFINE rest == Removed(heap, timeStamp, heap[1])
<1>2. Unique(rest)
  BY <1>1, RemovedIs
<1>3. /\ Unique(heap') /\ timeStamp' \in [Sockets -> Times] /\ signalling' \in BOOLEAN
      /\ \A v \in Sockets : timeStamp'[v] <= now + MaxInterval
      /\ schedTime' = now \/ schedTime' = schedTime
  <2>1. CASE /\ heap' = rest /\ InterruptIf(OneLeft(rest))
             /\ UNCHANGED <<timeStamp, signalling>>
    <3>1. schedTime' = now \/ schedTime' = schedTime
      BY <2>1 DEF InterruptIf
    <3>2. \A v \in Sockets : timeStamp'[v] <= now + MaxInterval
      BY <1>0, <2>1 DEF DueSoon
    <3>3. Unique(heap') /\ timeStamp' \in [Sockets -> Times]
      BY <1>1, <1>2, <2>1
    <3>4. signalling' \in BOOLEAN
      BY <1>0, <2>1 DEF TypeOK
    <3> QED
      BY <3>1, <3>2, <3>3, <3>4
  <2>2. CASE \E t \in now .. now + MaxInterval :
               t <= MaxTime /\ Insert(rest, heap[1], t, OneLeft(rest))
    <3>1. PICK t \in now .. now + MaxInterval :
            t <= MaxTime /\ Insert(rest, heap[1], t, OneLeft(rest))
      BY <2>2
    <3>2. t \in Times /\ t <= now + MaxInterval
      BY <1>1, <3>1, SndQueueAssumption DEF Times
    <3>3. OneLeft(rest) \in BOOLEAN
      BY DEF OneLeft
    <3> HIDE DEF rest
    <3>4. /\ Unique(heap') /\ timeStamp' \in [Sockets -> Times]
          /\ \A v \in Sockets : timeStamp'[v] <= now + MaxInterval
          /\ schedTime' = now \/ schedTime' = schedTime
          /\ signalling' = (Len(heap') = 1)
      BY <1>1, <1>2, <3>1, <3>2, <3>3, InsertKeeps
    <3> QED
      BY <3>4
  <2> QED
    BY <2>1, <2>2 DEF Pop
<1>4. TypeOK'
  BY <1>0, <1>3 DEF TypeOK, Unique
<1>5. DueSoon'
  BY <1>0, <1>3 DEF DueSoon
<1> QED
  BY <1>0, <1>4, <1>5 DEF IInv, SleepIsSafe, NoLostSignal, SleepBounded

\* The steps that leave the list and its time stamps alone.
LEMMA InvOthers ==
  ASSUME IInv,
         \/ Signal \/ Close \/ CloseSignal \/ Look \/ SleepTo \/ Awake \/ PopNothing
         \/ Wait \/ Tick \/ UNCHANGED vars
  PROVE  IInv'
<1>0. /\ TypeOK /\ NoLostSignal /\ SleepBounded /\ DueSoon /\ (joining => closing)
      /\ UNCHANGED <<heap, timeStamp>>
  BY DEF IInv, SleepIsSafe, Signal, Close, CloseSignal, Look, SleepTo, Awake, PopNothing,
     Wait, Tick, vars
<1>1. /\ now \in Nat /\ schedTime \in Nat /\ due \in Nat /\ MaxInterval \in Nat
      /\ timeStamp \in [Sockets -> Times] /\ Times \subseteq Nat
      /\ heap # <<>> => heap[1] \in Sockets
  BY <1>0, UniqueHeap DEF TypeOK
<1>2. CASE Signal \/ Close \/ CloseSignal
  <2>1. TypeOK'
    BY <1>0, <1>2 DEF TypeOK, Signal, Close, CloseSignal
  <2>2. NoLostSignal' /\ (joining' => closing')
    BY <1>0, <1>2 DEF NoLostSignal, Signal, Close, CloseSignal, MayCall
  <2>3. SleepBounded' /\ DueSoon'
    BY <1>0, <1>2 DEF SleepBounded, DueSoon, Signal, Close, CloseSignal
  <2> QED
    BY <2>1, <2>2, <2>3 DEF IInv, SleepIsSafe
<1>3. CASE Look
  <2>1. /\ worker' \in {"stopped", "check", "sleepto", "pop"}
        /\ due' \in Times
        /\ worker' = "sleepto" => due' <= now + MaxInterval
    <3>1. CASE closing \/ heap = <<>>
      BY <1>0, <1>3, <3>1 DEF Look, TypeOK
    <3>2. CASE ~ closing /\ heap # <<>>
      <4>1. due' = timeStamp[heap[1]] /\ worker' \in {"sleepto", "pop"}
        BY <1>3, <3>2 DEF Look
      <4> QED
        BY <1>0, <1>1, <3>2, <4>1 DEF DueSoon
    <3> QED
      BY <3>1, <3>2
  <2>2. UNCHANGED <<heap, timeStamp, signalling, now, schedTime, closing, joining>>
    BY <1>3 DEF Look
  <2>3. TypeOK'
    BY <1>0, <2>1, <2>2 DEF TypeOK
  <2>4. DueSoon'
    BY <1>0, <2>1, <2>2 DEF DueSoon
  <2> QED
    BY <1>0, <2>1, <2>2, <2>3, <2>4 DEF IInv, SleepIsSafe, NoLostSignal, SleepBounded
<1>4. CASE SleepTo
  <2>1. TypeOK'
    BY <1>0, <1>4 DEF TypeOK, SleepTo, WakeTime
  <2> QED
    BY <1>0, <1>4, <2>1
    DEF IInv, SleepIsSafe, NoLostSignal, SleepBounded, DueSoon, SleepTo, WakeTime
<1>5. CASE Awake \/ PopNothing \/ Wait
  <2>1. TypeOK'
    BY <1>0, <1>5 DEF TypeOK, Awake, PopNothing, Wait
  <2> QED
    BY <1>0, <1>5, <2>1
    DEF IInv, SleepIsSafe, NoLostSignal, SleepBounded, DueSoon, Awake, PopNothing, Wait,
        Waits
<1>6. CASE Tick
  <2>1. now' = now + 1 /\ now' \in Times
    BY <1>0, <1>6, SndQueueAssumption DEF TypeOK, Tick, Times
  <2>2. TypeOK'
    BY <1>0, <1>6, <2>1 DEF TypeOK, Tick
  <2>3. SleepBounded'
    BY <1>0, <1>1, <1>6 DEF SleepBounded, Tick
  <2>4. DueSoon'
    <3>1. \A u \in Sockets : timeStamp[u] \in Nat
      BY <1>1
    <3>2. \A u \in Sockets : timeStamp[u] <= now + 1 + MaxInterval
      BY <1>0, <1>1, <3>1 DEF DueSoon
    <3>3. Immediately <= now + 1
      BY <1>0, <1>1 DEF DueSoon, Immediately
    <3>4. worker = "sleepto" => due <= now + 1 + MaxInterval
      BY <1>0, <1>1 DEF DueSoon
    <3>5. UNCHANGED <<timeStamp, worker, due>>
      BY <1>6 DEF Tick
    <3> QED
      BY <2>1, <3>2, <3>3, <3>4, <3>5 DEF DueSoon
  <2> QED
    BY <1>0, <1>6, <2>2, <2>3, <2>4 DEF IInv, SleepIsSafe, NoLostSignal, Tick
<1>7. CASE UNCHANGED vars
  BY <1>0, <1>7 DEF vars, IInv, SleepIsSafe, TypeOK, NoLostSignal, SleepBounded, DueSoon
<1> QED
  BY <1>2, <1>3, <1>4, <1>5, <1>6, <1>7

\* The entries of the list are always a heap's, each socket once, whatever insertions
\* and removals the threads mix; no signal is lost; no due time is far off.
THEOREM Invariance == Spec => []IInv
<1>1. Init => IInv
  BY InvInit
<1>2. IInv /\ [Next]_vars => IInv'
  BY InvUpdate, InvRemove, InvPop, InvOthers DEF Next, CallerStep, WorkerStep
<1> QED
  BY <1>1, <1>2, PTL DEF Spec

\* The send worker may always be asleep: a socket that is put into the empty list is
\* signalled though the list is read under another lock, and an interrupt that sleepto
\* overwrites costs at most one sending period.
THEOREM WorkerSleepsSafely == Spec => []SleepIsSafe
  BY Invariance, PTL DEF IInv
=============================================================================
