--------------------------- MODULE LossListProofs ---------------------------
(***************************************************************************)
(* Proofs about the loss lists of a socket, for every value of their       *)
(* constants: the arrays hold one chain of ranges, and the chain is the    *)
(* set of numbers that are lost.                                           *)
(*                                                                         *)
(* The numbers on the wire restart.  The proofs see an unwrapped set S of  *)
(* starts and a function e to the ends of the ranges, on a window of       *)
(* fewer than SeqNoTH numbers; a number u is kept at the slot (u - r) % n, *)
(* for one r, and what the code computes from wrapped numbers and slots is *)
(* shown to agree with S, e and r.                                         *)
(***************************************************************************)
EXTENDS LossLists, FiniteSetTheorems, SequenceTheorems, WellFoundedInduction, TLAPS

\* A set of naturals has a least element.
LEMMA LeastOf ==
  ASSUME NEW S \in SUBSET Nat, S # {}
  PROVE  \E n \in S : \A m \in S : n <= m
<1>1. IsWellFoundedOn(OpToRel(<, Nat), Nat)
  BY NatLessThanWellFounded
<1>2. PICK n \in S : \A m \in S : ~ (<<m, n>> \in OpToRel(<, Nat))
  BY <1>1, WFMin
<1>3. \A m \in S : ~ (m < n)
  BY <1>2 DEF OpToRel
<1> QED
  BY <1>3

-----------------------------------------------------------------------------
(* Remainders                                                               *)

\* A product grows by its factor.
LEMMA Multiple ==
  ASSUME NEW m \in Nat, NEW q \in Int, q >= 2
  PROVE  m * q >= m + m
  OBVIOUS

LEMMA Quotient ==
  ASSUME NEW u \in Int, NEW m \in Nat \ {0}
  PROVE  /\ u \div m \in Int
         /\ u % m \in 0 .. m - 1
         /\ u = m * (u \div m) + (u % m)
  OBVIOUS

LEMMA SameCircle ==
  ASSUME NEW m \in Nat \ {0}, NEW p \in Int, NEW q \in Int,
         NEW r \in 0 .. m - 1, NEW w \in 0 .. m - 1,
         NEW d \in Int, -m < d, d < m, m * p + r - (m * q + w) = d
  PROVE  r - w \in {d, d - m, d + m}
<1>1. m * (p - q) = m * p - m * q /\ m * (q - p) = m * q - m * p
  OBVIOUS
<1>2. ~ (p - q >= 2)
  <2> SUFFICES ASSUME p - q >= 2
               PROVE  FALSE
    OBVIOUS
  <2>1. m * (p - q) >= m + m
    BY Multiple
  <2> QED
    BY <1>1, <2>1
<1>3. ~ (q - p >= 2)
  <2> SUFFICES ASSUME q - p >= 2
               PROVE  FALSE
    OBVIOUS
  <2>1. m * (q - p) >= m + m
    BY Multiple
  <2> QED
    BY <1>1, <2>1
<1>4. p - q \in {-1, 0, 1}
  BY <1>2, <1>3
<1>5. CASE p - q = 0
  <2>1. p = q
    BY <1>5
  <2> QED
    BY <2>1
<1>6. CASE p - q = 1
  <2>1. m * (p - q) = m
    BY <1>6
  <2> QED
    BY <1>1, <2>1
<1>7. CASE p - q = -1
  <2>1. m * (q - p) = m
    BY <1>7
  <2> QED
    BY <1>1, <2>1
<1> QED
  BY <1>4, <1>5, <1>6, <1>7

\* The remainder is the only one.
LEMMA OneRemainder ==
  ASSUME NEW m \in Nat \ {0}, NEW q \in Int, NEW z \in Int
  PROVE  (m * q + z) % m = z % m
<1> DEFINE u == m * q + z
<1>1. m * q \in Int /\ u \in Int
  OBVIOUS
<1>2. PICK a \in Int : u = m * a + (u % m)
  BY <1>1, Quotient
<1>3. PICK b \in Int : z = m * b + (z % m)
  BY Quotient
<1>4. u % m \in 0 .. m - 1 /\ z % m \in 0 .. m - 1
  BY <1>1, Quotient
<1>5. m * (q + b) = m * q + m * b
  OBVIOUS
<1>6. m * a + (u % m) - (m * (q + b) + (z % m)) = 0
  <2>1. m * a \in Int /\ m * b \in Int /\ u = m * q + z
    OBVIOUS
  <2> HIDE DEF u
  <2> QED
    BY <1>1, <1>2, <1>3, <1>4, <1>5, <2>1
<1> HIDE DEF u
<1>7. (u % m) - (z % m) \in {0, 0 - m, 0 + m}
  <2> DEFINE r == u % m
             w == z % m
             c == q + b
  <2>1. r \in 0 .. m - 1 /\ w \in 0 .. m - 1 /\ c \in Int
    BY <1>4
  <2>2. m * a + r - (m * c + w) = 0
    BY <1>6
  <2> HIDE DEF r, w, c
  <2>3. 0 \in Int /\ -m < 0 /\ 0 < m
    OBVIOUS
  <2>4. r - w \in {0, 0 - m, 0 + m}
    BY <2>1, <2>2, <2>3, SameCircle
  <2> QED
    BY <2>4 DEF r, w
<1>8. u % m = z % m
  BY <1>4, <1>7
<1> QED
  BY <1>8 DEF u

\* A remainder moves along.
LEMMA RemainderMoves ==
  ASSUME NEW m \in Nat \ {0}, NEW u \in Int, NEW k \in Int
  PROVE  ((u % m) + k) % m = (u + k) % m
<1>1. PICK q \in Int : u = m * q + (u % m)
  BY Quotient
<1>2. u % m \in 0 .. m - 1 /\ m * q \in Int
  BY Quotient
<1> DEFINE z == (u % m) + k
<1>3. z \in Int /\ u + k = m * q + z
  <2> DEFINE r == u % m
  <2>1. u = m * q + r /\ r \in Int /\ m * q \in Int
    BY <1>1, <1>2
  <2> HIDE DEF r
  <2>2. r + k \in Int /\ u + k = m * q + (r + k)
    BY <2>1
  <2> QED
    BY <2>2 DEF r
<1>4. (m * q + z) % m = z % m
  <2> HIDE DEF z
  <2> QED
    BY <1>3, OneRemainder
<1> QED
  BY <1>3, <1>4

\* Numbers less than m apart have different remainders.
LEMMA RemaindersDiffer ==
  ASSUME NEW m \in Nat \ {0}, NEW u \in Int, NEW v \in Int, -m < u - v, u - v < m, u % m = v % m
  PROVE  u = v
<1>1. PICK p \in Int : u = m * p + (u % m)
  BY Quotient
<1>2. PICK q \in Int : v = m * q + (v % m)
  BY Quotient
<1>3. u % m \in 0 .. m - 1 /\ v % m \in 0 .. m - 1
  BY Quotient
<1> DEFINE r == u % m
<1>4. r \in 0 .. m - 1 /\ u = m * p + r /\ v = m * q + r
  BY <1>1, <1>2, <1>3
<1> HIDE DEF r
<1>5. m * (p - q) = m * p - m * q /\ m * (q - p) = m * q - m * p
  OBVIOUS
<1>6. m * p \in Int /\ m * q \in Int /\ p - q \in Int /\ q - p \in Int
  OBVIOUS
<1>7. ~ (p - q >= 1)
  <2> SUFFICES ASSUME p - q >= 1
               PROVE  FALSE
    OBVIOUS
  <2>1. m * (p - q) >= m
    BY <1>6
  <2> QED
    BY <1>4, <1>5, <1>6, <2>1
<1>8. ~ (q - p >= 1)
  <2> SUFFICES ASSUME q - p >= 1
               PROVE  FALSE
    OBVIOUS
  <2>1. m * (q - p) >= m
    BY <1>6
  <2> QED
    BY <1>4, <1>5, <1>6, <2>1
<1>9. p = q
  BY <1>6, <1>7, <1>8
<1> QED
  BY <1>4, <1>9

\* Numbers less than m apart have remainders equally far apart, or m less or more.
LEMMA RemaindersNear ==
  ASSUME NEW m \in Nat \ {0}, NEW u \in Int, NEW v \in Int, -m < u - v, u - v < m
  PROVE  /\ u % m \in 0 .. m - 1 /\ v % m \in 0 .. m - 1
         /\ (u % m) - (v % m) \in {u - v, u - v - m, u - v + m}
<1>1. PICK p \in Int : u = m * p + (u % m)
  BY Quotient
<1>2. PICK q \in Int : v = m * q + (v % m)
  BY Quotient
<1>3. u % m \in 0 .. m - 1 /\ v % m \in 0 .. m - 1
  BY Quotient
<1> DEFINE r == u % m
           w == v % m
           d == u - v
<1>4. r \in 0 .. m - 1 /\ w \in 0 .. m - 1 /\ d \in Int /\ -m < d /\ d < m
  BY <1>3
<1>5. m * p + r - (m * q + w) = d
  <2>1. u = m * p + r /\ v = m * q + w /\ m * p \in Int /\ m * q \in Int
    BY <1>1, <1>2
  <2> HIDE DEF r, w
  <2> QED
    BY <1>4, <2>1 DEF d
<1> HIDE DEF r, w, d
<1>6. r - w \in {d, d - m, d + m}
  BY <1>4, <1>5, SameCircle
<1> QED
  BY <1>3, <1>6 DEF r, w, d

\* One step on.
LEMMA NextRemainder ==
  ASSUME NEW m \in Nat, m >= 2, NEW u \in Int
  PROVE  /\ (u + 1) % m = IF u % m = m - 1 THEN 0 ELSE (u % m) + 1
         /\ (u - 1) % m = IF u % m = 0 THEN m - 1 ELSE (u % m) - 1
<1>1. u + 1 \in Int /\ u - 1 \in Int /\ u + 1 - u = 1 /\ u - 1 - u = -1 /\ m \in Nat \ {0}
  OBVIOUS
<1>2. /\ u % m \in 0 .. m - 1 /\ (u + 1) % m \in 0 .. m - 1
      /\ ((u + 1) % m) - (u % m) \in {1, 1 - m, 1 + m}
  <2>1. -m < 1 /\ 1 < m
    OBVIOUS
  <2> DEFINE v == u + 1
  <2>2. v \in Int /\ v - u = 1
    BY <1>1
  <2> HIDE DEF v
  <2>3. /\ u % m \in 0 .. m - 1 /\ v % m \in 0 .. m - 1
        /\ (v % m) - (u % m) \in {v - u, v - u - m, v - u + m}
    BY <1>1, <2>1, <2>2, RemaindersNear
  <2> QED
    BY <2>2, <2>3 DEF v
<1>3. /\ (u - 1) % m \in 0 .. m - 1
      /\ ((u - 1) % m) - (u % m) \in {-1, -1 - m, -1 + m}
  <2>1. -m < -1 /\ -1 < m
    OBVIOUS
  <2> DEFINE v == u - 1
  <2>2. v \in Int /\ v - u = -1
    BY <1>1
  <2> HIDE DEF v
  <2>3. /\ v % m \in 0 .. m - 1
        /\ (v % m) - (u % m) \in {v - u, v - u - m, v - u + m}
    BY <1>1, <2>1, <2>2, RemaindersNear
  <2> QED
    BY <2>2, <2>3 DEF v
<1> DEFINE a == u % m
           b == (u + 1) % m
           c == (u - 1) % m
<1>4. a \in 0 .. m - 1 /\ b \in 0 .. m - 1 /\ c \in 0 .. m - 1 /\ b - a \in {1, 1 - m, 1 + m} /\ c - a \in {-1, -1 - m, -1 + m}
  BY <1>2, <1>3
<1> HIDE DEF a, b, c
<1>5. b = IF a = m - 1 THEN 0 ELSE a + 1
  BY <1>4
<1>6. c = IF a = 0 THEN m - 1 ELSE a - 1
  BY <1>4
<1> QED
  BY <1>5, <1>6 DEF a, b, c

-----------------------------------------------------------------------------
(* A list of ranges in arrays.  S are the starts of the ranges and e[a] is  *)
(* the end of the one that starts at a, counted without a restart; m is the *)
(* size of the circle, n that of the arrays, and the number r has slot 0.   *)

\* e, but y at x.
With(e, x, y) == [e EXCEPT ![x] = y]

\* The number that the u-th packet carries.
Carried(m, u) == u % m

\* Where a range that starts at u is kept.
Slot(n, r, u) == (u - r) % n

\* Numbers less than n apart.
Spread(n, S) == S \in SUBSET Int /\ \A a, c \in S : a - c < n

\* So near that the two slots differ unless the numbers agree.
Nearby(n, S, x) == \A a \in S : a - x < n /\ x - a < n

IsLeast(S, a) == a \in S /\ \A b \in S : a <= b
IsGreatest(S, a) == a \in S /\ \A b \in S : b <= a

\* c follows a.
Adjacent(S, a, c) == a \in S /\ c \in S /\ a < c /\ \A b \in S : b <= a \/ c <= b

EndOf(m, e, a) == IF e[a] = a THEN -1 ELSE Carried(m, e[a])

\* d1 and d2 hold the starts and ends of the ranges and nothing else.
Nodes(m, n, r, d1, d2, S, e) ==
  /\ d1 \in [0 .. n - 1 -> -1 .. m - 1] /\ d2 \in [0 .. n - 1 -> -1 .. m - 1]
  /\ \A a \in S : d1[Slot(n, r, a)] = Carried(m, a) /\ d2[Slot(n, r, a)] = EndOf(m, e, a)
  /\ \A i \in 0 .. n - 1 : (\A a \in S : Slot(n, r, a) # i) => d1[i] = -1 /\ d2[i] = -1

\* From the head hd, the links x lead through the starts in order.
Forward(n, r, x, hd, S) ==
  /\ x \in [0 .. n - 1 -> -1 .. n - 1] /\ hd \in -1 .. n - 1
  /\ S = {} => hd = -1
  /\ \A a : IsLeast(S, a) => hd = Slot(n, r, a)
  /\ \A a : IsGreatest(S, a) => x[Slot(n, r, a)] = -1
  /\ \A a, c : Adjacent(S, a, c) => x[Slot(n, r, a)] = Slot(n, r, c)

\* From the tail tl, the links y lead back.
Backward(n, r, y, tl, S) ==
  /\ y \in [0 .. n - 1 -> -1 .. n - 1] /\ tl \in -1 .. n - 1
  /\ \A a : IsGreatest(S, a) => tl = Slot(n, r, a)
  /\ \A a : IsLeast(S, a) => y[Slot(n, r, a)] = -1
  /\ \A a, c : Adjacent(S, a, c) => y[Slot(n, r, c)] = Slot(n, r, a)

LEMMA Carries ==
  ASSUME NEW m \in Nat \ {0}, NEW u \in Int
  PROVE  Carried(m, u) \in 0 .. m - 1 /\ Carried(m, u) \in -1 .. m - 1 /\ -1 \in -1 .. m - 1
<1>1. Carried(m, u) \in 0 .. m - 1
  BY Quotient DEF Carried
<1> QED
  BY <1>1

\* Slots follow one another, and less than n numbers have slots of their own.
LEMMA SlotFacts ==
  ASSUME NEW n \in Nat \ {0}, NEW r \in Int
  PROVE  /\ \A u \in Int : Slot(n, r, u) \in 0 .. n - 1
         /\ \A u, k \in Int : (Slot(n, r, u) + k) % n = Slot(n, r, u + k)
         /\ \A u, v \in Int : -n < u - v /\ u - v < n /\ Slot(n, r, u) = Slot(n, r, v) => u = v
         /\ Slot(n, r, r) = 0
<1>1. ASSUME NEW u \in Int
      PROVE  Slot(n, r, u) \in 0 .. n - 1
  <2>1. u - r \in Int
    OBVIOUS
  <2> QED
    BY <2>1, Quotient DEF Slot
<1>2. ASSUME NEW u \in Int, NEW k \in Int
      PROVE  (Slot(n, r, u) + k) % n = Slot(n, r, u + k)
  <2>1. u - r \in Int /\ u + k - r = (u - r) + k
    OBVIOUS
  <2>2. (((u - r) % n) + k) % n = ((u - r) + k) % n
    BY <2>1, RemainderMoves
  <2> QED
    BY <2>1, <2>2 DEF Slot
<1>3. ASSUME NEW u \in Int, NEW v \in Int, -n < u - v, u - v < n, Slot(n, r, u) = Slot(n, r, v)
      PROVE  u = v
  <2>1. u - r \in Int /\ v - r \in Int /\ -n < (u - r) - (v - r) /\ (u - r) - (v - r) < n
    BY <1>3
  <2>2. u - r = v - r
    BY <1>3, <2>1, RemaindersDiffer DEF Slot
  <2> QED
    BY <2>2
<1>4. Slot(n, r, r) = 0
  <2>1. 0 % n = 0 /\ r - r = 0
    OBVIOUS
  <2> QED
    BY <2>1 DEF Slot
<1> QED
  BY <1>1, <1>2, <1>3, <1>4

\* A set of numbers bounded on one side ends there.
LEMMA LeastExists ==
  ASSUME NEW S \in SUBSET Int, S # {}, NEW lo \in Int, \A a \in S : lo <= a
  PROVE  \E a \in S : IsLeast(S, a)
<1> DEFINE T == {a - lo : a \in S}
<1>0. \A a \in S : a - lo \in Nat
  OBVIOUS
<1>1. T \in SUBSET Nat /\ T # {}
  BY <1>0
<1>2. PICK t \in T : \A u \in T : t <= u
  <2> HIDE DEF T
  <2> QED
    BY <1>1, LeastOf
<1>3. PICK a \in S : t = a - lo
  OBVIOUS
<1>4. \A b \in S : a <= b
  <2> TAKE b \in S
  <2>1. t <= b - lo /\ a \in Int /\ b \in Int
    BY <1>2
  <2> QED
    BY <1>3, <2>1
<1> QED
  BY <1>4 DEF IsLeast

LEMMA GreatestExists ==
  ASSUME NEW S \in SUBSET Int, S # {}, NEW hi \in Int, \A a \in S : a <= hi
  PROVE  \E a \in S : IsGreatest(S, a)
<1> DEFINE T == {hi - a : a \in S}
<1>0. \A a \in S : hi - a \in Nat
  OBVIOUS
<1>1. T \in SUBSET Nat /\ T # {}
  BY <1>0
<1>2. PICK t \in T : \A u \in T : t <= u
  <2> HIDE DEF T
  <2> QED
    BY <1>1, LeastOf
<1>3. PICK a \in S : t = hi - a
  OBVIOUS
<1>4. \A b \in S : b <= a
  <2> TAKE b \in S
  <2>1. t <= hi - b /\ a \in Int /\ b \in Int
    BY <1>2
  <2> QED
    BY <1>3, <2>1
<1> QED
  BY <1>4 DEF IsGreatest

\* A set that is not spread far has a least and a greatest element.
LEMMA EndsExist ==
  ASSUME NEW n \in Nat, NEW S, Spread(n, S), S # {}
  PROVE  (\E a \in S : IsLeast(S, a)) /\ (\E a \in S : IsGreatest(S, a))
<1>1. PICK b \in S : b \in Int
  BY DEF Spread
<1>2. S \in SUBSET Int /\ b - n \in Int /\ b + n \in Int /\ \A a \in S : b - n <= a /\ a <= b + n
  <2>1. S \in SUBSET Int
    BY DEF Spread
  <2>2. ASSUME NEW a \in S
        PROVE  b - n <= a /\ a <= b + n
    BY <1>1, <2>1 DEF Spread
  <2> QED
    BY <1>1, <2>1, <2>2
<1>3. \E a \in S : IsLeast(S, a)
  BY <1>2, LeastExists
<1>4. \E a \in S : IsGreatest(S, a)
  BY <1>2, GreatestExists
<1> QED
  BY <1>3, <1>4

\* All but the greatest are followed by one, and all but the least follow one.
LEMMA FollowerExists ==
  ASSUME NEW n \in Nat, NEW S, Spread(n, S), NEW a \in S, ~ IsGreatest(S, a)
  PROVE  \E c \in S : Adjacent(S, a, c)
<1> DEFINE T == {c \in S : a < c}
<1>1. S \in SUBSET Int
  BY DEF Spread
<1>2. T # {}
  BY <1>1 DEF IsGreatest
<1>3. Spread(n, T)
  BY DEF Spread
<1>4. PICK c \in T : IsLeast(T, c)
  <2> HIDE DEF T
  <2> QED
    BY <1>2, <1>3, EndsExist
<1> QED
  BY <1>1, <1>4 DEF IsLeast, Adjacent

LEMMA PrecedingExists ==
  ASSUME NEW n \in Nat, NEW S, Spread(n, S), NEW x \in Int, NEW b \in S, b < x
  PROVE  \E p \in S : p < x /\ \A c \in S : c <= p \/ x <= c
<1> DEFINE T == {c \in S : c < x}
<1>1. S \in SUBSET Int
  BY DEF Spread
<1>2. T # {}
  OBVIOUS
<1>3. Spread(n, T)
  BY DEF Spread
<1>4. PICK p \in T : IsGreatest(T, p)
  <2> HIDE DEF T
  <2> QED
    BY <1>2, <1>3, EndsExist
<1> QED
  BY <1>1, <1>4 DEF IsGreatest

-----------------------------------------------------------------------------
(* What happens to the nodes.                                               *)

\* The slot of a number that starts no range is free.
LEMMA FreeSlot ==
  ASSUME NEW m \in Nat \ {0}, NEW n \in Nat \ {0}, NEW r \in Int, NEW S, Spread(n, S), NEW e, NEW d1, NEW d2,
         Nodes(m, n, r, d1, d2, S, e),
         NEW x \in Int, x \notin S, Nearby(n, S, x)
  PROVE  d1[Slot(n, r, x)] = -1 /\ d2[Slot(n, r, x)] = -1
<1>1. Slot(n, r, x) \in 0 .. n - 1
  BY SlotFacts
<1> USE DEF Nearby
<1>2. ASSUME NEW a \in S
      PROVE  Slot(n, r, a) # Slot(n, r, x)
  <2>1. a \in Int /\ -n < a - x /\ a - x < n /\ a # x
    BY DEF Spread
  <2> QED
    BY <2>1, SlotFacts
<1> QED
  BY <1>1, <1>2 DEF Nodes

\* A range is added.
LEMMA NodeAdded ==
  ASSUME NEW m \in Nat \ {0}, NEW n \in Nat \ {0}, NEW r \in Int, NEW S, Spread(n, S), NEW e \in [Int -> Int], NEW d1, NEW d2,
         Nodes(m, n, r, d1, d2, S, e),
         NEW x \in Int, x \notin S, Nearby(n, S, x), NEW y \in Int,
         NEW c1, c1 = With(d1, Slot(n, r, x), Carried(m, x)),
         NEW w, w = (IF y = x THEN -1 ELSE Carried(m, y)), NEW c2, c2 = With(d2, Slot(n, r, x), w)
  PROVE  Nodes(m, n, r, c1, c2, S \cup {x}, With(e, x, y))
<1>a. c1 = [d1 EXCEPT ![Slot(n, r, x)] = Carried(m, x)] /\ c2 = [d2 EXCEPT ![Slot(n, r, x)] = w]
  BY DEF With
<1> USE <1>a
<1> DEFINE f == With(e, x, y)
<1> USE DEF With, Nearby
<1>1. Slot(n, r, x) \in 0 .. n - 1 /\ Carried(m, x) \in -1 .. m - 1 /\ Carried(m, y) \in -1 .. m - 1 /\ -1 \in -1 .. m - 1
  <2>1. Slot(n, r, x) \in 0 .. n - 1
    BY SlotFacts
  <2>2. Carried(m, x) \in -1 .. m - 1 /\ Carried(m, y) \in -1 .. m - 1 /\ -1 \in -1 .. m - 1
    BY Carries
  <2> QED
    BY <2>1, <2>2
<1>2. ASSUME NEW a \in S
      PROVE  Slot(n, r, a) # Slot(n, r, x) /\ Slot(n, r, a) \in 0 .. n - 1 /\ a \in Int /\ a # x
  <2>1. a \in Int /\ -n < a - x /\ a - x < n /\ a # x
    BY DEF Spread
  <2> QED
    BY <2>1, SlotFacts
<1>3. c1 \in [0 .. n - 1 -> -1 .. m - 1] /\ c2 \in [0 .. n - 1 -> -1 .. m - 1]
  <2>1. w \in -1 .. m - 1
    BY <1>1
  <2> QED
    BY <1>1, <2>1 DEF Nodes
<1>4. ASSUME NEW a \in S \cup {x}
      PROVE  c1[Slot(n, r, a)] = Carried(m, a) /\ c2[Slot(n, r, a)] = EndOf(m, f, a)
  <2>1. CASE a = x
    BY <1>1, <2>1 DEF Nodes, EndOf
  <2>2. CASE a # x
    <3>1. a \in S /\ f[a] = e[a]
      BY <1>2, <2>2
    <3>2. c1[Slot(n, r, a)] = d1[Slot(n, r, a)] /\ c2[Slot(n, r, a)] = d2[Slot(n, r, a)]
      BY <1>2, <3>1 DEF Nodes
    <3> QED
      BY <3>1, <3>2 DEF Nodes, EndOf
  <2> QED
    BY <2>1, <2>2
<1>5. ASSUME NEW i \in 0 .. n - 1, \A a \in S \cup {x} : Slot(n, r, a) # i
      PROVE  c1[i] = -1 /\ c2[i] = -1
  <2>1. \A a \in S : Slot(n, r, a) # i
    BY <1>5
  <2>2. Slot(n, r, x) # i
    BY <1>5
  <2>3. c1[i] = d1[i] /\ c2[i] = d2[i]
    BY <2>2 DEF Nodes
  <2> QED
    BY <2>1, <2>3 DEF Nodes
<1> QED
  BY <1>3, <1>4, <1>5 DEF Nodes

\* A range goes.
LEMMA NodeRemoved ==
  ASSUME NEW m \in Nat \ {0}, NEW n \in Nat \ {0}, NEW r \in Int, NEW S, Spread(n, S), NEW e \in [Int -> Int], NEW d1, NEW d2,
         Nodes(m, n, r, d1, d2, S, e), NEW x \in S,
         NEW c1, c1 = With(d1, Slot(n, r, x), -1),
         NEW c2, c2 = With(d2, Slot(n, r, x), -1)
  PROVE  Nodes(m, n, r, c1, c2, S \ {x}, e)
<1>a. c1 = [d1 EXCEPT ![Slot(n, r, x)] = -1] /\ c2 = [d2 EXCEPT ![Slot(n, r, x)] = -1]
  BY DEF With
<1> USE <1>a
<1>0. S \in SUBSET Int /\ x \in Int
  BY DEF Spread
<1>1. Slot(n, r, x) \in 0 .. n - 1 /\ -1 \in -1 .. m - 1
  BY <1>0, SlotFacts
<1>3. c1 \in [0 .. n - 1 -> -1 .. m - 1] /\ c2 \in [0 .. n - 1 -> -1 .. m - 1]
  BY <1>1 DEF Nodes
<1>4. ASSUME NEW a \in S \ {x}
      PROVE  c1[Slot(n, r, a)] = Carried(m, a) /\ c2[Slot(n, r, a)] = EndOf(m, e, a)
  <2>1. a \in Int /\ -n < a - x /\ a - x < n /\ a # x
    BY <1>0 DEF Spread
  <2>2. Slot(n, r, a) # Slot(n, r, x) /\ Slot(n, r, a) \in 0 .. n - 1
    BY <1>0, <2>1, SlotFacts
  <2>3. c1[Slot(n, r, a)] = d1[Slot(n, r, a)] /\ c2[Slot(n, r, a)] = d2[Slot(n, r, a)]
    BY <2>2 DEF Nodes
  <2> QED
    BY <2>3 DEF Nodes
<1>5. ASSUME NEW i \in 0 .. n - 1, \A a \in S \ {x} : Slot(n, r, a) # i
      PROVE  c1[i] = -1 /\ c2[i] = -1
  <2>1. CASE i = Slot(n, r, x)
    BY <2>1 DEF Nodes
  <2>2. CASE i # Slot(n, r, x)
    <3>1. \A a \in S : Slot(n, r, a) # i
      BY <1>5, <2>2
    <3>2. c1[i] = d1[i] /\ c2[i] = d2[i]
      BY <2>2 DEF Nodes
    <3> QED
      BY <3>1, <3>2 DEF Nodes
  <2> QED
    BY <2>1, <2>2
<1> QED
  BY <1>3, <1>4, <1>5 DEF Nodes

\* A range gets another end.
LEMMA NodeEnds ==
  ASSUME NEW m \in Nat \ {0}, NEW n \in Nat \ {0}, NEW r \in Int, NEW S, Spread(n, S), NEW e \in [Int -> Int], NEW d1, NEW d2,
         Nodes(m, n, r, d1, d2, S, e), NEW x \in S, NEW y \in Int,
         NEW w, w = (IF y = x THEN -1 ELSE Carried(m, y)), NEW c2, c2 = With(d2, Slot(n, r, x), w)
  PROVE  Nodes(m, n, r, d1, c2, S, With(e, x, y))
<1>a. c2 = [d2 EXCEPT ![Slot(n, r, x)] = w]
  BY DEF With
<1> USE <1>a
<1> DEFINE f == With(e, x, y)
<1> USE DEF With
<1>0. S \in SUBSET Int /\ x \in Int
  BY DEF Spread
<1>1. Slot(n, r, x) \in 0 .. n - 1 /\ -1 \in -1 .. m - 1 /\ Carried(m, y) \in -1 .. m - 1
  <2>1. Slot(n, r, x) \in 0 .. n - 1
    BY <1>0, SlotFacts
  <2>2. Carried(m, y) \in -1 .. m - 1 /\ -1 \in -1 .. m - 1
    BY Carries
  <2> QED
    BY <2>1, <2>2
<1>3. c2 \in [0 .. n - 1 -> -1 .. m - 1]
  BY <1>1 DEF Nodes
<1>4. ASSUME NEW a \in S
      PROVE  c2[Slot(n, r, a)] = EndOf(m, f, a)
  <2>1. CASE a = x
    BY <1>0, <1>1, <2>1 DEF Nodes, EndOf
  <2>2. CASE a # x
    <3>1. a \in Int /\ -n < a - x /\ a - x < n
      BY <1>0 DEF Spread
    <3>2. Slot(n, r, a) # Slot(n, r, x) /\ Slot(n, r, a) \in 0 .. n - 1
      BY <1>0, <2>2, <3>1, SlotFacts
    <3>3. c2[Slot(n, r, a)] = d2[Slot(n, r, a)] /\ f[a] = e[a]
      BY <2>2, <3>1, <3>2 DEF Nodes
    <3> QED
      BY <3>3 DEF Nodes, EndOf
  <2> QED
    BY <2>1, <2>2
<1>5. ASSUME NEW i \in 0 .. n - 1, \A a \in S : Slot(n, r, a) # i
      PROVE  c2[i] = -1
  <2>1. c2[i] = d2[i]
    BY <1>5 DEF Nodes
  <2> QED
    BY <1>5, <2>1 DEF Nodes
<1> QED
  BY <1>3, <1>4, <1>5 DEF Nodes

-----------------------------------------------------------------------------
(* What happens to the links.                                               *)

\* Numbers that are not spread far have slots of their own.
LEMMA OwnSlots ==
  ASSUME NEW n \in Nat \ {0}, NEW r \in Int, NEW S, Spread(n, S)
  PROVE  /\ \A a \in S : a \in Int /\ Slot(n, r, a) \in 0 .. n - 1
         /\ \A a, c \in S : Slot(n, r, a) = Slot(n, r, c) => a = c
<1>1. \A a \in S : a \in Int /\ Slot(n, r, a) \in 0 .. n - 1
  BY SlotFacts DEF Spread
<1>2. ASSUME NEW a \in S, NEW c \in S, Slot(n, r, a) = Slot(n, r, c)
      PROVE  a = c
  <2>1. a \in Int /\ c \in Int /\ -n < a - c /\ a - c < n
    BY DEF Spread
  <2> QED
    BY <1>2, <2>1, SlotFacts
<1> QED
  BY <1>1, <1>2

LEMMA ForwardFront ==
  ASSUME NEW n \in Nat \ {0}, NEW r \in Int, NEW S, NEW x, Spread(n, S \cup {x}), \A a \in S : x < a,
         NEW nx, NEW hd, Forward(n, r, nx, hd, S),
         NEW ny, ny = With(nx, Slot(n, r, x), hd)
  PROVE  Forward(n, r, ny, Slot(n, r, x), S \cup {x})
<1>a. ny = [nx EXCEPT ![Slot(n, r, x)] = hd]
  BY DEF With
<1> USE <1>a
<1> DEFINE T == S \cup {x}
<1>1. /\ \A a \in T : a \in Int /\ Slot(n, r, a) \in 0 .. n - 1
      /\ \A a, c \in T : Slot(n, r, a) = Slot(n, r, c) => a = c
  BY OwnSlots
<1>2. ny \in [0 .. n - 1 -> -1 .. n - 1] /\ Slot(n, r, x) \in -1 .. n - 1
  BY <1>1 DEF Forward
<1>3. \A a \in S : ny[Slot(n, r, a)] = nx[Slot(n, r, a)]
  BY <1>1 DEF Forward
<1>4. ny[Slot(n, r, x)] = hd
  BY <1>1 DEF Forward
<1>5. ASSUME NEW a, IsLeast(T, a)
      PROVE  Slot(n, r, x) = Slot(n, r, a)
  <2>1. a = x
    BY <1>1, <1>5 DEF IsLeast
  <2> QED
    BY <2>1
<1>6. ASSUME NEW a, IsGreatest(T, a)
      PROVE  ny[Slot(n, r, a)] = -1
  <2>1. CASE S = {}
    <3>1. a = x
      BY <1>6, <2>1 DEF IsGreatest
    <3> QED
      BY <1>4, <2>1, <3>1 DEF Forward
  <2>2. CASE S # {}
    <3>1. IsGreatest(S, a) /\ a \in S
      BY <1>1, <1>6, <2>2 DEF IsGreatest
    <3> QED
      BY <1>3, <3>1 DEF Forward
  <2> QED
    BY <2>1, <2>2
<1>7. ASSUME NEW a, NEW c, Adjacent(T, a, c)
      PROVE  ny[Slot(n, r, a)] = Slot(n, r, c)
  <2>1. CASE a = x
    <3>1. IsLeast(S, c)
      BY <1>1, <1>7, <2>1 DEF Adjacent, IsLeast
    <3> QED
      BY <1>4, <2>1, <3>1 DEF Forward
  <2>2. CASE a # x
    <3>1. Adjacent(S, a, c) /\ a \in S
      BY <1>1, <1>7, <2>2 DEF Adjacent
    <3> QED
      BY <1>3, <3>1 DEF Forward
  <2> QED
    BY <2>1, <2>2
<1> QED
  BY <1>2, <1>5, <1>6, <1>7 DEF Forward

LEMMA ForwardAfter ==
  ASSUME NEW n \in Nat \ {0}, NEW r \in Int, NEW S, NEW x, Spread(n, S \cup {x}),
         NEW b \in S, b < x, \A c \in S : c <= b \/ x < c,
         NEW nx, NEW hd, Forward(n, r, nx, hd, S),
         NEW ny, ny = With(With(nx, Slot(n, r, x), nx[Slot(n, r, b)]), Slot(n, r, b), Slot(n, r, x))
  PROVE  Forward(n, r, ny, hd, S \cup {x})
<1>a. ny = [nx EXCEPT ![Slot(n, r, x)] = nx[Slot(n, r, b)], ![Slot(n, r, b)] = Slot(n, r, x)]
  BY DEF With
<1> USE <1>a
<1> DEFINE T == S \cup {x}
<1>1. /\ \A a \in T : a \in Int /\ Slot(n, r, a) \in 0 .. n - 1
      /\ \A a, c \in T : Slot(n, r, a) = Slot(n, r, c) => a = c
  BY OwnSlots
<1>2. ny \in [0 .. n - 1 -> -1 .. n - 1]
  <2>1. Slot(n, r, b) \in 0 .. n - 1 /\ Slot(n, r, x) \in -1 .. n - 1
    BY <1>1
  <2>2. nx \in [0 .. n - 1 -> -1 .. n - 1] /\ nx[Slot(n, r, b)] \in -1 .. n - 1
    BY <2>1 DEF Forward
  <2> QED
    BY <2>1, <2>2
<1>3. \A a \in S \ {b} : ny[Slot(n, r, a)] = nx[Slot(n, r, a)]
  <2> TAKE a \in S \ {b}
  <2>1. a # x /\ a # b /\ a \in T /\ b \in T /\ x \in T
    BY <1>1
  <2>2. Slot(n, r, a) # Slot(n, r, x) /\ Slot(n, r, a) # Slot(n, r, b) /\ Slot(n, r, a) \in 0 .. n - 1
    BY <1>1, <2>1
  <2> QED
    BY <2>2 DEF Forward
<1>4. ny[Slot(n, r, x)] = nx[Slot(n, r, b)] /\ ny[Slot(n, r, b)] = Slot(n, r, x)
  <2>1. Slot(n, r, b) # Slot(n, r, x) /\ Slot(n, r, x) \in 0 .. n - 1 /\ Slot(n, r, b) \in 0 .. n - 1
    BY <1>1
  <2> QED
    BY <2>1 DEF Forward
<1>5. ASSUME NEW a, IsLeast(T, a)
      PROVE  hd = Slot(n, r, a)
  <2>1. IsLeast(S, a)
    BY <1>1, <1>5 DEF IsLeast
  <2> QED
    BY <2>1 DEF Forward
<1>6. ASSUME NEW a, IsGreatest(T, a)
      PROVE  ny[Slot(n, r, a)] = -1
  <2>1. CASE a = x
    <3>1. IsGreatest(S, b)
      BY <1>1, <1>6, <2>1 DEF IsGreatest
    <3> QED
      BY <1>4, <2>1, <3>1 DEF Forward
  <2>2. CASE a # x
    <3>1. IsGreatest(S, a) /\ a \in S \ {b}
      BY <1>1, <1>6, <2>2 DEF IsGreatest
    <3> QED
      BY <1>3, <3>1 DEF Forward
  <2> QED
    BY <2>1, <2>2
<1>7. ASSUME NEW a, NEW c, Adjacent(T, a, c)
      PROVE  ny[Slot(n, r, a)] = Slot(n, r, c)
  <2>1. CASE a = x
    <3>1. Adjacent(S, b, c)
      BY <1>1, <1>7, <2>1 DEF Adjacent
    <3> QED
      BY <1>4, <2>1, <3>1 DEF Forward
  <2>2. CASE a = b
    <3>1. c = x
      BY <1>1, <1>7, <2>2 DEF Adjacent
    <3> QED
      BY <1>4, <2>2, <3>1
  <2>3. CASE a # x /\ a # b
    <3>1. Adjacent(S, a, c) /\ a \in S \ {b}
      BY <1>1, <1>7, <2>3 DEF Adjacent
    <3> QED
      BY <1>3, <3>1 DEF Forward
  <2> QED
    BY <2>1, <2>2, <2>3
<1> QED
  BY <1>2, <1>5, <1>6, <1>7 DEF Forward

LEMMA ForwardBehead ==
  ASSUME NEW n \in Nat \ {0}, NEW r \in Int, NEW S, Spread(n, S), NEW x, IsLeast(S, x),
         NEW nx, NEW hd, Forward(n, r, nx, hd, S)
  PROVE  Forward(n, r, nx, nx[Slot(n, r, x)], S \ {x})
<1> DEFINE T == S \ {x}
<1>1. /\ \A a \in S : a \in Int /\ Slot(n, r, a) \in 0 .. n - 1
      /\ x \in S
  BY OwnSlots DEF IsLeast
<1>2. nx[Slot(n, r, x)] \in -1 .. n - 1
  BY <1>1 DEF Forward
<1>3. ASSUME T = {}
      PROVE  nx[Slot(n, r, x)] = -1
  <2>1. IsGreatest(S, x)
    BY <1>1, <1>3 DEF IsGreatest
  <2> QED
    BY <2>1 DEF Forward
<1>4. ASSUME NEW a, IsLeast(T, a)
      PROVE  nx[Slot(n, r, x)] = Slot(n, r, a)
  <2>1. Adjacent(S, x, a)
    BY <1>1, <1>4 DEF IsLeast, Adjacent
  <2> QED
    BY <2>1 DEF Forward
<1>5. ASSUME NEW a, IsGreatest(T, a)
      PROVE  nx[Slot(n, r, a)] = -1
  <2>1. IsGreatest(S, a)
    BY <1>1, <1>5 DEF IsLeast, IsGreatest
  <2> QED
    BY <2>1 DEF Forward
<1>6. ASSUME NEW a, NEW c, Adjacent(T, a, c)
      PROVE  nx[Slot(n, r, a)] = Slot(n, r, c)
  <2>1. Adjacent(S, a, c)
    BY <1>1, <1>6 DEF IsLeast, Adjacent
  <2> QED
    BY <2>1 DEF Forward
<1> QED
  BY <1>2, <1>3, <1>4, <1>5, <1>6 DEF Forward

LEMMA ForwardSkip ==
  ASSUME NEW n \in Nat \ {0}, NEW r \in Int, NEW S, Spread(n, S), NEW b, NEW x, Adjacent(S, b, x),
         NEW nx, NEW hd, Forward(n, r, nx, hd, S),
         NEW ny, ny = With(nx, Slot(n, r, b), nx[Slot(n, r, x)])
  PROVE  Forward(n, r, ny, hd, S \ {x})
<1>a. ny = [nx EXCEPT ![Slot(n, r, b)] = nx[Slot(n, r, x)]]
  BY DEF With
<1> USE <1>a
<1> DEFINE T == S \ {x}
<1>1. /\ \A a \in S : a \in Int /\ Slot(n, r, a) \in 0 .. n - 1
      /\ \A a, c \in S : Slot(n, r, a) = Slot(n, r, c) => a = c
      /\ b \in S /\ x \in S /\ b < x
  BY OwnSlots DEF Adjacent
<1>2. ny \in [0 .. n - 1 -> -1 .. n - 1] /\ T # {}
  <2>1. nx[Slot(n, r, x)] \in -1 .. n - 1
    BY <1>1 DEF Forward
  <2> QED
    BY <1>1, <2>1 DEF Forward
<1>3. /\ \A a \in S \ {b} : ny[Slot(n, r, a)] = nx[Slot(n, r, a)]
      /\ ny[Slot(n, r, b)] = nx[Slot(n, r, x)]
  BY <1>1 DEF Forward
<1>5. ASSUME NEW a, IsLeast(T, a)
      PROVE  hd = Slot(n, r, a)
  <2>1. IsLeast(S, a)
    BY <1>1, <1>5 DEF IsLeast
  <2> QED
    BY <2>1 DEF Forward
<1>6. ASSUME NEW a, IsGreatest(T, a)
      PROVE  ny[Slot(n, r, a)] = -1
  <2>1. CASE a = b
    <3>1. IsGreatest(S, x)
      BY <1>1, <1>6, <2>1 DEF IsGreatest
    <3> QED
      BY <1>3, <2>1, <3>1 DEF Forward
  <2>2. CASE a # b
    <3>1. IsGreatest(S, a) /\ a \in S \ {b}
      BY <1>1, <1>6, <2>2 DEF IsGreatest, Adjacent
    <3> QED
      BY <1>3, <3>1 DEF Forward
  <2> QED
    BY <2>1, <2>2
<1>7. ASSUME NEW a, NEW c, Adjacent(T, a, c)
      PROVE  ny[Slot(n, r, a)] = Slot(n, r, c)
  <2>1. CASE a = b
    <3>1. Adjacent(S, x, c)
      BY <1>1, <1>7, <2>1 DEF Adjacent
    <3> QED
      BY <1>3, <2>1, <3>1 DEF Forward
  <2>2. CASE a # b
    <3>1. Adjacent(S, a, c) /\ a \in S \ {b}
      BY <1>1, <1>7, <2>2 DEF Adjacent
    <3> QED
      BY <1>3, <3>1 DEF Forward
  <2> QED
    BY <2>1, <2>2
<1> QED
  BY <1>2, <1>5, <1>6, <1>7 DEF Forward

\* The first node moves to the next slot.
LEMMA ForwardShiftHead ==
  ASSUME NEW n \in Nat \ {0}, NEW r \in Int, NEW S, NEW x, IsLeast(S, x), x + 1 \notin S, Spread(n, S \cup {x + 1}),
         NEW nx, NEW hd, Forward(n, r, nx, hd, S),
         NEW ny, ny = With(nx, Slot(n, r, x + 1), nx[Slot(n, r, x)])
  PROVE  Forward(n, r, ny, Slot(n, r, x + 1), (S \ {x}) \cup {x + 1})
<1>a. ny = [nx EXCEPT ![Slot(n, r, x + 1)] = nx[Slot(n, r, x)]]
  BY DEF With
<1> USE <1>a
<1> DEFINE U == S \ {x}
<1>1. Spread(n, S) /\ Spread(n, U \cup {x + 1})
  BY DEF Spread
<1>2. Forward(n, r, nx, nx[Slot(n, r, x)], U)
  BY <1>1, ForwardBehead
<1>3. x \in Int /\ \A a \in U : x + 1 < a
  <2>1. x \in Int /\ \A a \in S : a \in Int /\ x <= a
    BY DEF Spread, IsLeast
  <2> QED
    BY <2>1
<1> HIDE DEF U
<1>4. Forward(n, r, ny, Slot(n, r, x + 1), U \cup {x + 1})
  BY <1>1, <1>2, <1>3, ForwardFront
<1> QED
  BY <1>4 DEF U

\* Another node moves to the next slot.
LEMMA ForwardShift ==
  ASSUME NEW n \in Nat \ {0}, NEW r \in Int, NEW S, NEW b, NEW x, Adjacent(S, b, x), x + 1 \notin S,
         Spread(n, S \cup {x + 1}),
         NEW nx, NEW hd, Forward(n, r, nx, hd, S),
         NEW ny, ny = With(With(nx, Slot(n, r, x + 1), nx[Slot(n, r, x)]), Slot(n, r, b), Slot(n, r, x + 1))
  PROVE  Forward(n, r, ny, hd, (S \ {x}) \cup {x + 1})
<1>a. ny = [nx EXCEPT ![Slot(n, r, x + 1)] = nx[Slot(n, r, x)], ![Slot(n, r, b)] = Slot(n, r, x + 1)]
  BY DEF With
<1> USE <1>a
<1> DEFINE U == S \ {x}
           nz == [nx EXCEPT ![Slot(n, r, b)] = nx[Slot(n, r, x)]]
<1>b. nz = With(nx, Slot(n, r, b), nx[Slot(n, r, x)])
  BY DEF With
<1>0. /\ \A a \in S : a \in Int
      /\ b \in S /\ x \in S /\ b < x /\ b # x /\ x + 1 \in Int
  BY DEF Spread, Adjacent
<1>1. Spread(n, S) /\ Spread(n, U \cup {x + 1}) /\ Spread(n, {b, x + 1})
  BY <1>0 DEF Spread
<1>2. Forward(n, r, nz, hd, U)
  <2> HIDE DEF nz
  <2> QED
    BY <1>1, <1>b, ForwardSkip
<1>3. b \in U /\ b < x + 1 /\ \A c \in U : c <= b \/ x + 1 < c
  BY <1>0 DEF Adjacent
<1>4. Slot(n, r, b) # Slot(n, r, x + 1) /\ Slot(n, r, b) \in 0 .. n - 1 /\ Slot(n, r, x + 1) \in 0 .. n - 1
  <2>1. b # x + 1
    BY <1>0
  <2> QED
    BY <1>1, <2>1, OwnSlots
<1>5. ny = With(With(nz, Slot(n, r, x + 1), nz[Slot(n, r, b)]), Slot(n, r, b), Slot(n, r, x + 1))
  <2>1. nz[Slot(n, r, b)] = nx[Slot(n, r, x)]
    BY <1>4 DEF Forward
  <2> QED
    BY <1>4, <2>1 DEF Forward, With
<1> HIDE DEF U, nz
<1>6. Forward(n, r, ny, hd, U \cup {x + 1})
  BY <1>1, <1>2, <1>3, <1>5, ForwardAfter
<1> QED
  BY <1>6 DEF U

LEMMA BackwardLast ==
  ASSUME NEW n \in Nat \ {0}, NEW r \in Int, NEW S, NEW x, Spread(n, S \cup {x}), \A a \in S : a < x,
         NEW y, NEW tl, Backward(n, r, y, tl, S),
         NEW t, t = (IF S = {} THEN -1 ELSE tl), NEW z, z = With(y, Slot(n, r, x), t)
  PROVE  Backward(n, r, z, Slot(n, r, x), S \cup {x})
<1>a. z = [y EXCEPT ![Slot(n, r, x)] = t]
  BY DEF With
<1> USE <1>a
<1> DEFINE T == S \cup {x}
<1>1. /\ \A a \in T : a \in Int /\ Slot(n, r, a) \in 0 .. n - 1
      /\ \A a, c \in T : Slot(n, r, a) = Slot(n, r, c) => a = c
  BY OwnSlots
<1>2. z \in [0 .. n - 1 -> -1 .. n - 1] /\ Slot(n, r, x) \in -1 .. n - 1
  <2>1. t \in -1 .. n - 1 /\ y \in [0 .. n - 1 -> -1 .. n - 1]
    BY DEF Backward
  <2>2. Slot(n, r, x) \in 0 .. n - 1 /\ Slot(n, r, x) \in -1 .. n - 1
    BY <1>1
  <2>3. \A v \in 0 .. n - 1 : [y EXCEPT ![v] = t] \in [0 .. n - 1 -> -1 .. n - 1]
    BY <2>1
  <2> QED
    BY <2>2, <2>3
<1>3. ASSUME NEW a \in S
      PROVE  z[Slot(n, r, a)] = y[Slot(n, r, a)]
  <2>1. a # x /\ a \in T /\ x \in T
    BY <1>1
  <2>2. Slot(n, r, a) # Slot(n, r, x) /\ Slot(n, r, a) \in 0 .. n - 1
    BY <1>1, <2>1
  <2>3. y \in [0 .. n - 1 -> -1 .. n - 1]
    BY DEF Backward
  <2> QED
    BY <2>2, <2>3
<1>4. z[Slot(n, r, x)] = IF S = {} THEN -1 ELSE tl
  BY <1>1 DEF Backward
<1>5. ASSUME NEW a, IsGreatest(T, a)
      PROVE  Slot(n, r, x) = Slot(n, r, a)
  <2>1. a = x
    BY <1>1, <1>5 DEF IsGreatest
  <2> QED
    BY <2>1
<1>6. ASSUME NEW a, IsLeast(T, a)
      PROVE  z[Slot(n, r, a)] = -1
  <2>1. CASE S = {}
    <3>1. a = x
      BY <1>6, <2>1 DEF IsLeast
    <3> QED
      BY <1>4, <2>1, <3>1
  <2>2. CASE S # {}
    <3>1. IsLeast(S, a) /\ a \in S
      BY <1>1, <1>6, <2>2 DEF IsLeast
    <3> QED
      BY <1>3, <3>1 DEF Backward
  <2> QED
    BY <2>1, <2>2
<1>7. ASSUME NEW a, NEW c, Adjacent(T, a, c)
      PROVE  z[Slot(n, r, c)] = Slot(n, r, a)
  <2>1. CASE c = x
    <3>1. IsGreatest(S, a) /\ S # {}
      BY <1>1, <1>7, <2>1 DEF Adjacent, IsGreatest
    <3> QED
      BY <1>4, <2>1, <3>1 DEF Backward
  <2>2. CASE c # x
    <3>1. Adjacent(S, a, c) /\ c \in S
      BY <1>1, <1>7, <2>2 DEF Adjacent
    <3> QED
      BY <1>3, <3>1 DEF Backward
  <2> QED
    BY <2>1, <2>2
<1> QED
  BY <1>2, <1>5, <1>6, <1>7 DEF Backward

Below(S, x) == \A a \in S : a < x

LEMMA BackwardAppend ==
  ASSUME NEW n \in Nat \ {0}, NEW r \in Int, NEW S, NEW x, Spread(n, S \cup {x}), Below(S, x), S # {},
         NEW y, NEW tl, Backward(n, r, y, tl, S), NEW z, z = With(y, Slot(n, r, x), tl)
  PROVE  Backward(n, r, z, Slot(n, r, x), S \cup {x})
<1>1. tl = (IF S = {} THEN -1 ELSE tl)
  OBVIOUS
<1>2. \A a \in S : a < x
  BY DEF Below
<1> QED
  BY <1>1, <1>2, BackwardLast

LEMMA BackwardBefore ==
  ASSUME NEW n \in Nat \ {0}, NEW r \in Int, NEW S, NEW x, Spread(n, S \cup {x}),
         NEW c \in S, x < c, \A a \in S : a < x \/ c <= a,
         NEW y, NEW tl, Backward(n, r, y, tl, S),
         NEW z, z = With(With(y, Slot(n, r, x), y[Slot(n, r, c)]), Slot(n, r, c), Slot(n, r, x))
  PROVE  Backward(n, r, z, tl, S \cup {x})
<1>a. z = [y EXCEPT ![Slot(n, r, x)] = y[Slot(n, r, c)], ![Slot(n, r, c)] = Slot(n, r, x)]
  BY DEF With
<1> USE <1>a
<1> DEFINE T == S \cup {x}
<1>1. /\ \A a \in T : a \in Int /\ Slot(n, r, a) \in 0 .. n - 1
      /\ \A a, b \in T : Slot(n, r, a) = Slot(n, r, b) => a = b
  BY OwnSlots
<1>2. z \in [0 .. n - 1 -> -1 .. n - 1]
  <2>1. Slot(n, r, c) \in 0 .. n - 1 /\ Slot(n, r, x) \in -1 .. n - 1
    BY <1>1
  <2>2. y \in [0 .. n - 1 -> -1 .. n - 1] /\ y[Slot(n, r, c)] \in -1 .. n - 1
    BY <2>1 DEF Backward
  <2> QED
    BY <2>1, <2>2
<1>3. \A a \in S \ {c} : z[Slot(n, r, a)] = y[Slot(n, r, a)]
  <2> TAKE a \in S \ {c}
  <2>1. a # x /\ a # c /\ a \in T /\ c \in T /\ x \in T
    BY <1>1
  <2>2. Slot(n, r, a) # Slot(n, r, x) /\ Slot(n, r, a) # Slot(n, r, c) /\ Slot(n, r, a) \in 0 .. n - 1
    BY <1>1, <2>1
  <2> QED
    BY <2>2 DEF Backward
<1>4. z[Slot(n, r, x)] = y[Slot(n, r, c)] /\ z[Slot(n, r, c)] = Slot(n, r, x)
  <2>1. Slot(n, r, c) # Slot(n, r, x) /\ Slot(n, r, x) \in 0 .. n - 1 /\ Slot(n, r, c) \in 0 .. n - 1
    BY <1>1
  <2> QED
    BY <2>1 DEF Backward
<1>5. ASSUME NEW a, IsGreatest(T, a)
      PROVE  tl = Slot(n, r, a)
  <2>1. IsGreatest(S, a)
    BY <1>1, <1>5 DEF IsGreatest
  <2> QED
    BY <2>1 DEF Backward
<1>6. ASSUME NEW a, IsLeast(T, a)
      PROVE  z[Slot(n, r, a)] = -1
  <2>1. CASE a = x
    <3>1. IsLeast(S, c)
      BY <1>1, <1>6, <2>1 DEF IsLeast
    <3> QED
      BY <1>4, <2>1, <3>1 DEF Backward
  <2>2. CASE a # x
    <3>1. IsLeast(S, a) /\ a \in S \ {c}
      BY <1>1, <1>6, <2>2 DEF IsLeast
    <3> QED
      BY <1>3, <3>1 DEF Backward
  <2> QED
    BY <2>1, <2>2
<1>7. ASSUME NEW a, NEW b, Adjacent(T, a, b)
      PROVE  z[Slot(n, r, b)] = Slot(n, r, a)
  <2>1. CASE b = x
    <3>1. Adjacent(S, a, c)
      BY <1>1, <1>7, <2>1 DEF Adjacent
    <3> QED
      BY <1>4, <2>1, <3>1 DEF Backward
  <2>2. CASE b = c
    <3>1. a = x
      BY <1>1, <1>7, <2>2 DEF Adjacent
    <3> QED
      BY <1>4, <2>2, <3>1
  <2>3. CASE b # x /\ b # c
    <3>1. Adjacent(S, a, b) /\ b \in S \ {c}
      BY <1>1, <1>7, <2>3 DEF Adjacent
    <3> QED
      BY <1>3, <3>1 DEF Backward
  <2> QED
    BY <2>1, <2>2, <2>3
<1> QED
  BY <1>2, <1>5, <1>6, <1>7 DEF Backward

LEMMA BackwardCut ==
  ASSUME NEW n \in Nat \ {0}, NEW r \in Int, NEW S, Spread(n, S), NEW x, IsGreatest(S, x),
         NEW y, NEW tl, Backward(n, r, y, tl, S)
  PROVE  /\ Backward(n, r, y, y[Slot(n, r, x)], S \ {x})
         /\ S \ {x} = {} => y[Slot(n, r, x)] = -1
<1> DEFINE T == S \ {x}
<1>1. /\ \A a \in S : a \in Int /\ Slot(n, r, a) \in 0 .. n - 1
      /\ x \in S
  BY OwnSlots DEF IsGreatest
<1>2. y[Slot(n, r, x)] \in -1 .. n - 1
  BY <1>1 DEF Backward
<1>3. ASSUME T = {}
      PROVE  y[Slot(n, r, x)] = -1
  <2>1. IsLeast(S, x)
    BY <1>1, <1>3 DEF IsLeast
  <2> QED
    BY <2>1 DEF Backward
<1>4. ASSUME NEW a, IsGreatest(T, a)
      PROVE  y[Slot(n, r, x)] = Slot(n, r, a)
  <2>1. Adjacent(S, a, x)
    BY <1>1, <1>4 DEF IsGreatest, Adjacent
  <2> QED
    BY <2>1 DEF Backward
<1>5. ASSUME NEW a, IsLeast(T, a)
      PROVE  y[Slot(n, r, a)] = -1
  <2>1. IsLeast(S, a)
    BY <1>1, <1>5 DEF IsGreatest, IsLeast
  <2> QED
    BY <2>1 DEF Backward
<1>6. ASSUME NEW a, NEW c, Adjacent(T, a, c)
      PROVE  y[Slot(n, r, c)] = Slot(n, r, a)
  <2>1. Adjacent(S, a, c)
    BY <1>1, <1>6 DEF IsGreatest, Adjacent
  <2> QED
    BY <2>1 DEF Backward
<1> QED
  BY <1>2, <1>3, <1>4, <1>5, <1>6 DEF Backward

LEMMA BackwardSkip ==
  ASSUME NEW n \in Nat \ {0}, NEW r \in Int, NEW S, Spread(n, S), NEW x, NEW c, Adjacent(S, x, c),
         NEW y, NEW tl, Backward(n, r, y, tl, S),
         NEW z, z = With(y, Slot(n, r, c), y[Slot(n, r, x)])
  PROVE  Backward(n, r, z, tl, S \ {x})
<1>a. z = [y EXCEPT ![Slot(n, r, c)] = y[Slot(n, r, x)]]
  BY DEF With
<1> USE <1>a
<1> DEFINE T == S \ {x}
<1>1. /\ \A a \in S : a \in Int /\ Slot(n, r, a) \in 0 .. n - 1
      /\ \A a, b \in S : Slot(n, r, a) = Slot(n, r, b) => a = b
      /\ c \in S /\ x \in S /\ x < c
  BY OwnSlots DEF Adjacent
<1>2. z \in [0 .. n - 1 -> -1 .. n - 1]
  <2>1. y[Slot(n, r, x)] \in -1 .. n - 1
    BY <1>1 DEF Backward
  <2> QED
    BY <1>1, <2>1 DEF Backward
<1>3. /\ \A a \in S \ {c} : z[Slot(n, r, a)] = y[Slot(n, r, a)]
      /\ z[Slot(n, r, c)] = y[Slot(n, r, x)]
  BY <1>1 DEF Backward
<1>5. ASSUME NEW a, IsGreatest(T, a)
      PROVE  tl = Slot(n, r, a)
  <2>1. IsGreatest(S, a)
    BY <1>1, <1>5 DEF IsGreatest
  <2> QED
    BY <2>1 DEF Backward
<1>6. ASSUME NEW a, IsLeast(T, a)
      PROVE  z[Slot(n, r, a)] = -1
  <2>1. CASE a = c
    <3>1. IsLeast(S, x)
      BY <1>1, <1>6, <2>1 DEF IsLeast
    <3> QED
      BY <1>3, <2>1, <3>1 DEF Backward
  <2>2. CASE a # c
    <3>1. IsLeast(S, a) /\ a \in S \ {c}
      BY <1>1, <1>6, <2>2 DEF IsLeast, Adjacent
    <3> QED
      BY <1>3, <3>1 DEF Backward
  <2> QED
    BY <2>1, <2>2
<1>7. ASSUME NEW a, NEW b, Adjacent(T, a, b)
      PROVE  z[Slot(n, r, b)] = Slot(n, r, a)
  <2>1. CASE b = c
    <3>1. Adjacent(S, a, x)
      BY <1>1, <1>7, <2>1 DEF Adjacent
    <3> QED
      BY <1>3, <2>1, <3>1 DEF Backward
  <2>2. CASE b # c
    <3>1. Adjacent(S, a, b) /\ b \in S \ {c}
      BY <1>1, <1>7, <2>2 DEF Adjacent
    <3> QED
      BY <1>3, <3>1 DEF Backward
  <2> QED
    BY <2>1, <2>2
<1> QED
  BY <1>2, <1>5, <1>6, <1>7 DEF Backward

\* The last node moves to the next slot.
LEMMA BackwardShiftTail ==
  ASSUME NEW n \in Nat \ {0}, NEW r \in Int, NEW S, NEW x, IsGreatest(S, x), Spread(n, S \cup {x + 1}),
         NEW y, NEW tl, Backward(n, r, y, tl, S),
         NEW z, z = With(y, Slot(n, r, x + 1), y[Slot(n, r, x)])
  PROVE  Backward(n, r, z, Slot(n, r, x + 1), (S \ {x}) \cup {x + 1})
<1>a. z = [y EXCEPT ![Slot(n, r, x + 1)] = y[Slot(n, r, x)]]
  BY DEF With
<1> USE <1>a
<1> DEFINE U == S \ {x}
<1>1. Spread(n, S) /\ Spread(n, U \cup {x + 1})
  BY DEF Spread
<1>2. Backward(n, r, y, y[Slot(n, r, x)], U) /\ (U = {} => y[Slot(n, r, x)] = -1)
  BY <1>1, BackwardCut
<1>3. x \in Int /\ \A a \in U : a < x + 1
  <2>1. x \in Int /\ \A a \in S : a \in Int /\ a <= x
    BY DEF Spread, IsGreatest
  <2> QED
    BY <2>1
<1> HIDE DEF U
<1>4. y[Slot(n, r, x)] = IF U = {} THEN -1 ELSE y[Slot(n, r, x)]
  BY <1>2
<1>5. Backward(n, r, z, Slot(n, r, x + 1), U \cup {x + 1})
  BY <1>1, <1>2, <1>3, <1>4, BackwardLast
<1> QED
  BY <1>5 DEF U

\* Another node moves to the next slot.
LEMMA BackwardShift ==
  ASSUME NEW n \in Nat \ {0}, NEW r \in Int, NEW S, NEW x, NEW c, Adjacent(S, x, c), x + 1 \notin S,
         Spread(n, S \cup {x + 1}),
         NEW y, NEW tl, Backward(n, r, y, tl, S),
         NEW z, z = With(With(y, Slot(n, r, x + 1), y[Slot(n, r, x)]), Slot(n, r, c), Slot(n, r, x + 1))
  PROVE  Backward(n, r, z, tl, (S \ {x}) \cup {x + 1})
<1>a. z = [y EXCEPT ![Slot(n, r, x + 1)] = y[Slot(n, r, x)], ![Slot(n, r, c)] = Slot(n, r, x + 1)]
  BY DEF With
<1> USE <1>a
<1> DEFINE U == S \ {x}
           w == [y EXCEPT ![Slot(n, r, c)] = y[Slot(n, r, x)]]
<1>b. w = With(y, Slot(n, r, c), y[Slot(n, r, x)])
  BY DEF With
<1>0. /\ \A a \in S : a \in Int
      /\ c \in S /\ x \in S /\ x < c /\ c # x /\ x + 1 \in Int
  BY DEF Spread, Adjacent
<1>1. Spread(n, S) /\ Spread(n, U \cup {x + 1}) /\ Spread(n, {c, x + 1})
  BY <1>0 DEF Spread
<1>2. Backward(n, r, w, tl, U)
  <2> HIDE DEF w
  <2> QED
    BY <1>1, <1>b, BackwardSkip
<1>3. c \in U /\ x + 1 < c /\ \A a \in U : a < x + 1 \/ c <= a
  BY <1>0 DEF Adjacent
<1>4. Slot(n, r, c) # Slot(n, r, x + 1) /\ Slot(n, r, c) \in 0 .. n - 1 /\ Slot(n, r, x + 1) \in 0 .. n - 1
  <2>1. c # x + 1
    BY <1>0
  <2> QED
    BY <1>1, <2>1, OwnSlots
<1>5. z = With(With(w, Slot(n, r, x + 1), w[Slot(n, r, c)]), Slot(n, r, c), Slot(n, r, x + 1))
  <2>1. w[Slot(n, r, c)] = y[Slot(n, r, x)]
    BY <1>4 DEF Backward
  <2> QED
    BY <1>4, <2>1 DEF Backward, With
<1> HIDE DEF U, w
<1>6. Backward(n, r, z, tl, U \cup {x + 1})
  BY <1>1, <1>2, <1>3, <1>5, BackwardBefore
<1> QED
  BY <1>6 DEF U

-----------------------------------------------------------------------------
(* A walk along the links meets the nodes.                                  *)

\* The nodes of walks of up to m steps, by the slot at which they begin.
Ahead(n, x, f, k) == [i \in -1 .. n - 1 |-> IF i = -1 \/ k = 0 THEN {} ELSE {i} \cup f[k - 1][x[i]]]
IsWalk(f, n, x, m) == f = [k \in 0 .. m |-> Ahead(n, x, f, k)]

\* Such a function exists: the shortest that does not would be one longer than one that
\* does.
LEMMA WalkExists ==
  ASSUME NEW n, NEW x, NEW m \in Nat
  PROVE  \E f : IsWalk(f, n, x, m)
<1> DEFINE Bad == {i \in Nat : ~ \E f : IsWalk(f, n, x, i)}
<1> SUFFICES ASSUME Bad # {}
             PROVE  FALSE
  OBVIOUS
<1>1. PICK k \in Bad : \A j \in Bad : k <= j
  <2>1. Bad \in SUBSET Nat
    OBVIOUS
  <2> HIDE DEF Bad
  <2> QED
    BY <2>1, LeastOf
<1>2. k \in Nat /\ ~ \E f : IsWalk(f, n, x, k)
  BY <1>1
<1>3. ASSUME NEW f, \A i \in 0 .. k - 1 : f[i] = Ahead(n, x, f, i)
      PROVE  FALSE
  <2> DEFINE g == [i \in 0 .. k |-> IF i = k THEN Ahead(n, x, f, k) ELSE f[i]]
             h == [i \in 0 .. k |-> Ahead(n, x, g, i)]
  <2>1. ASSUME NEW i \in 0 .. k
        PROVE  Ahead(n, x, g, i) = Ahead(n, x, f, i)
    <3>1. CASE i = 0
      BY <3>1 DEF Ahead
    <3>2. CASE i # 0
      <4>1. g[i - 1] = f[i - 1]
        BY <1>2, <3>2
      <4> HIDE DEF g
      <4> QED
        BY <4>1 DEF Ahead
    <3> QED
      BY <3>1, <3>2
  <2>2. ASSUME NEW i \in 0 .. k
        PROVE  g[i] = Ahead(n, x, f, i)
    <3>1. CASE i = k
      BY <3>1
    <3>2. CASE i # k
      <4>1. i \in 0 .. k - 1 /\ g[i] = f[i]
        BY <1>2, <3>2
      <4> HIDE DEF g
      <4> QED
        BY <1>3, <4>1
    <3> QED
      BY <3>1, <3>2
  <2>3. g = [i \in 0 .. k |-> g[i]] /\ h = [i \in 0 .. k |-> h[i]]
    OBVIOUS
  <2>4. \A i \in 0 .. k : g[i] = h[i]
    <3> TAKE i \in 0 .. k
    <3>1. h[i] = Ahead(n, x, g, i)
      OBVIOUS
    <3> HIDE DEF g, h
    <3> QED
      BY <2>1, <2>2, <3>1
  <2> HIDE DEF g, h
  <2>5. g = h
    BY <2>3, <2>4
  <2>6. IsWalk(g, n, x, k)
    BY <2>5 DEF IsWalk, h
  <2> QED
    BY <1>2, <2>6
<1>4. k # 0
  <2> SUFFICES ASSUME k = 0
               PROVE  FALSE
    OBVIOUS
  <2>1. \A i \in 0 .. k - 1 : FALSE
    OBVIOUS
  <2> QED
    BY <1>3, <2>1
<1>5. k - 1 \in Nat /\ k - 1 \notin Bad
  BY <1>1, <1>2, <1>4
<1>6. PICK f : IsWalk(f, n, x, k - 1)
  BY <1>5
<1>7. \A i \in 0 .. k - 1 : f[i] = Ahead(n, x, f, i)
  BY <1>6 DEF IsWalk
<1> QED
  BY <1>3, <1>7

LEMMA WalkMeets ==
  ASSUME NEW n \in Nat \ {0}, NEW r \in Int, NEW S, Spread(n, S), NEW x, NEW hd, Forward(n, r, x, hd, S),
         S # {}, NEW f, IsWalk(f, n, x, n)
  PROVE  f[n][hd] = {Slot(n, r, a) : a \in S}
<1> DEFINE Good(k) == \A a \in S : /\ f[k][Slot(n, r, a)] \subseteq {Slot(n, r, c) : c \in S}
                                   /\ \A c \in S : a <= c /\ c < a + k => Slot(n, r, c) \in f[k][Slot(n, r, a)]
           Bad == {k \in 0 .. n : ~ Good(k)}
<1>1. \A k \in 0 .. n : f[k] = Ahead(n, x, f, k)
  BY DEF IsWalk
<1>2. \A a \in S : a \in Int /\ Slot(n, r, a) \in 0 .. n - 1
  BY OwnSlots
<1>3. Good(0)
  <2>1. f[0] = Ahead(n, x, f, 0)
    BY <1>1
  <2>2. \A a \in S : f[0][Slot(n, r, a)] = {}
    BY <1>2, <2>1 DEF Ahead
  <2> QED
    BY <1>2, <2>2
<1>4. ASSUME NEW k \in 1 .. n, Good(k - 1)
      PROVE  Good(k)
  <2> SUFFICES ASSUME NEW a \in S
               PROVE  /\ f[k][Slot(n, r, a)] \subseteq {Slot(n, r, c) : c \in S}
                      /\ \A c \in S : a <= c /\ c < a + k => Slot(n, r, c) \in f[k][Slot(n, r, a)]
    OBVIOUS
  <2>1. f[k][Slot(n, r, a)] = {Slot(n, r, a)} \cup f[k - 1][x[Slot(n, r, a)]]
    <3>1. f[k] = Ahead(n, x, f, k) /\ k # 0 /\ Slot(n, r, a) # -1 /\ Slot(n, r, a) \in -1 .. n - 1
      BY <1>1, <1>2
    <3> QED
      BY <3>1 DEF Ahead
  <2>2. CASE IsGreatest(S, a)
    <3>1. x[Slot(n, r, a)] = -1
      BY <2>2 DEF Forward
    <3>2. f[k - 1][-1] = {}
      <4>1. k - 1 \in 0 .. n /\ -1 \in -1 .. n - 1
        OBVIOUS
      <4> QED
        BY <1>1, <4>1 DEF Ahead
    <3>3. \A c \in S : a <= c => c = a
      BY <1>2, <2>2 DEF IsGreatest
    <3> QED
      BY <2>1, <3>1, <3>2, <3>3
  <2>3. CASE ~ IsGreatest(S, a)
    <3>1. PICK b \in S : Adjacent(S, a, b)
      BY <2>3, FollowerExists
    <3>2. x[Slot(n, r, a)] = Slot(n, r, b)
      BY <3>1 DEF Forward
    <3>3. /\ f[k - 1][Slot(n, r, b)] \subseteq {Slot(n, r, c) : c \in S}
          /\ \A c \in S : b <= c /\ c < b + (k - 1) => Slot(n, r, c) \in f[k - 1][Slot(n, r, b)]
      BY <1>4
    <3>4. ASSUME NEW c \in S, a <= c, c < a + k
          PROVE  c = a \/ (b <= c /\ c < b + (k - 1))
      BY <1>2, <3>1, <3>4 DEF Adjacent
    <3> HIDE DEF Good
    <3>5. f[k][Slot(n, r, a)] = {Slot(n, r, a)} \cup f[k - 1][Slot(n, r, b)]
      BY <2>1, <3>2
    <3> QED
      BY <3>3, <3>4, <3>5
  <2> QED
    BY <2>2, <2>3
<1> HIDE DEF Good
<1>5. Bad = {}
  <2> SUFFICES ASSUME Bad # {}
               PROVE  FALSE
    OBVIOUS
  <2>1. Bad \in SUBSET Nat
    OBVIOUS
  <2>2. PICK k \in Bad : \A j \in Bad : k <= j
    <3> HIDE DEF Bad
    <3> QED
      BY <2>1, LeastOf
  <2>3. k \in 1 .. n /\ k - 1 \in 0 .. n /\ ~ (k <= k - 1)
    BY <1>3, <2>2
  <2>4. k - 1 \notin Bad
    BY <2>2, <2>3
  <2> QED
    BY <1>4, <2>2, <2>3, <2>4
<1>6. n \in 0 .. n /\ n \notin Bad
  BY <1>5
<1>7. Good(n)
  BY <1>6
<1>8. PICK a \in S : IsLeast(S, a)
  BY EndsExist
<1>9. hd = Slot(n, r, a) /\ \A c \in S : a <= c /\ c < a + n
  BY <1>2, <1>8 DEF Forward, IsLeast, Spread
<1> QED
  BY <1>7, <1>9 DEF Good

-----------------------------------------------------------------------------
(* The numbers that the ranges cover.                                       *)

\* Ranges that do not overlap.
Ranges(S, e) ==
  /\ S \in SUBSET Int /\ e \in [Int -> Int]
  /\ \A a \in S : a <= e[a]
  /\ \A a, c \in S : a < c => e[a] < c

Cover(S, e) == {u \in Int : \E a \in S : a <= u /\ u <= e[a]}

LEMMA RangeAdded ==
  ASSUME NEW S, NEW e, Ranges(S, e), NEW x \in Int, NEW y \in Int, x <= y,
         \A u \in Cover(S, e) : u < x \/ y < u
  PROVE  /\ Ranges(S \cup {x}, With(e, x, y))
         /\ Cover(S \cup {x}, With(e, x, y)) = Cover(S, e) \cup (x .. y)
         /\ x \notin S
<1> DEFINE f == With(e, x, y)
<1>0. S \in SUBSET Int /\ e \in [Int -> Int] /\ \A a \in S : a \in Int /\ e[a] \in Int /\ a <= e[a]
  BY DEF Ranges
<1>1. ASSUME NEW a \in S
      PROVE  e[a] < x \/ y < a
  <2>1. a \in Cover(S, e) /\ e[a] \in Cover(S, e)
    BY <1>0 DEF Cover
  <2>2. ASSUME a < x, y < e[a]
        PROVE  FALSE
    <3>1. x \in Cover(S, e)
      BY <1>0, <2>2 DEF Cover
    <3> QED
      BY <3>1
  <2> QED
    BY <1>0, <2>1, <2>2
<1>2. x \notin S
  BY <1>0, <1>1
<1>3. f \in [Int -> Int] /\ f[x] = y /\ \A a \in S : f[a] = e[a]
  BY <1>0, <1>2 DEF With
<1> HIDE DEF f
<1>4. Ranges(S \cup {x}, f)
  <2>1. S \cup {x} \in SUBSET Int /\ \A a \in S \cup {x} : a <= f[a]
    BY <1>0, <1>3
  <2>2. ASSUME NEW a \in S \cup {x}, NEW c \in S \cup {x}, a < c
        PROVE  f[a] < c
    <3>1. CASE a = x
      BY <1>0, <1>1, <1>3, <2>2, <3>1
    <3>2. CASE a # x
      BY <1>0, <1>1, <1>3, <2>2, <3>2 DEF Ranges
    <3> QED
      BY <3>1, <3>2
  <2> QED
    BY <1>3, <2>1, <2>2 DEF Ranges
<1>5. Cover(S \cup {x}, f) = Cover(S, e) \cup (x .. y)
  <2>1. ASSUME NEW u
        PROVE  u \in Cover(S \cup {x}, f) <=> u \in Cover(S, e) \cup (x .. y)
    BY <1>0, <1>3 DEF Cover
  <2> QED
    BY <2>1
<1> QED
  BY <1>2, <1>4, <1>5 DEF f

LEMMA RangeRemovedIs ==
  ASSUME NEW S, NEW e, Ranges(S, e), NEW x \in S
  PROVE  /\ Ranges(S \ {x}, e) /\ x .. e[x] \subseteq Cover(S, e)
         /\ Cover(S \ {x}, e) = Cover(S, e) \ (x .. e[x])
<1>0. S \in SUBSET Int /\ e \in [Int -> Int] /\ \A a \in S : a \in Int /\ e[a] \in Int /\ a <= e[a]
  BY DEF Ranges
<1>1. Ranges(S \ {x}, e)
  BY DEF Ranges
<1>2. x .. e[x] \subseteq Cover(S, e)
  BY <1>0 DEF Cover
<1>3. ASSUME NEW a \in S \ {x}
      PROVE  e[a] < x \/ e[x] < a
  BY <1>0, <1>3 DEF Ranges
<1>4. ASSUME NEW u
      PROVE  u \in Cover(S \ {x}, e) <=> u \in Cover(S, e) \ (x .. e[x])
  BY <1>0, <1>3 DEF Cover
<1> QED
  BY <1>1, <1>2, <1>4

\* Every covered number is in one range.
LEMMA RangeOf ==
  ASSUME NEW S, NEW e, Ranges(S, e), NEW u \in Int, NEW p \in S, p <= u, \A c \in S : c <= p \/ u < c
  PROVE  u \in Cover(S, e) <=> u <= e[p]
<1>0. S \in SUBSET Int /\ e \in [Int -> Int] /\ \A a \in S : a \in Int /\ e[a] \in Int /\ a <= e[a]
  BY DEF Ranges
<1>1. ASSUME NEW a \in S, a <= u, u <= e[a]
      PROVE  a = p
  BY <1>0, <1>1 DEF Ranges
<1> QED
  BY <1>1 DEF Cover

\* The first number of a range goes.
LEMMA RangeAdvanced ==
  ASSUME NEW S, NEW e, Ranges(S, e), NEW x \in S, x < e[x],
         NEW v, v = x + 1, NEW f, f = With(e, v, e[x]), NEW U, U = (S \ {x}) \cup {v}
  PROVE  /\ Ranges(U, f)
         /\ Cover(U, f) = Cover(S, e) \ {x}
         /\ v \notin S
<1> DEFINE T == S \ {x}
<1>0. S \in SUBSET Int /\ e \in [Int -> Int] /\ \A a \in S : a \in Int /\ e[a] \in Int /\ a <= e[a]
  BY DEF Ranges
<1>1. Ranges(T, e) /\ x .. e[x] \subseteq Cover(S, e) /\ Cover(T, e) = Cover(S, e) \ (x .. e[x])
  BY RangeRemovedIs
<1>2. x + 1 \in Int /\ e[x] \in Int /\ x + 1 <= e[x]
  BY <1>0
<1>3. \A u \in Cover(T, e) : u < x + 1 \/ e[x] < u
  <2> TAKE u \in Cover(T, e)
  <2>1. u \in Int /\ u \notin x .. e[x]
    BY <1>1 DEF Cover
  <2> QED
    BY <1>0, <2>1
<1> HIDE DEF T
<1>4. /\ Ranges(T \cup {x + 1}, With(e, x + 1, e[x]))
      /\ Cover(T \cup {x + 1}, With(e, x + 1, e[x])) = Cover(T, e) \cup ((x + 1) .. e[x])
      /\ x + 1 \notin T
  BY <1>1, <1>2, <1>3, RangeAdded
<1>5. Cover(T, e) \cup ((x + 1) .. e[x]) = Cover(S, e) \ {x}
  <2>1. x .. e[x] = {x} \cup ((x + 1) .. e[x]) /\ x \notin (x + 1) .. e[x]
    BY <1>0, <1>2
  <2> QED
    BY <1>1, <2>1
<1>6. x + 1 \notin S
  BY <1>0, <1>4 DEF T
<1>7. /\ Ranges((S \ {x}) \cup {x + 1}, With(e, x + 1, e[x]))
      /\ Cover((S \ {x}) \cup {x + 1}, With(e, x + 1, e[x])) = Cover(S, e) \ {x}
      /\ x + 1 \notin S
  BY <1>4, <1>5, <1>6 DEF T
<1> QED
  BY <1>7

\* A range ends earlier.
LEMMA RangeCut ==
  ASSUME NEW S, NEW e, Ranges(S, e), NEW x \in S, NEW y \in Int, x <= y, y <= e[x]
  PROVE  /\ Ranges(S, With(e, x, y))
         /\ Cover(S, With(e, x, y)) = Cover(S, e) \ ((y + 1) .. e[x])
<1> DEFINE f == With(e, x, y)
<1>0. S \in SUBSET Int /\ e \in [Int -> Int] /\ \A a \in S : a \in Int /\ e[a] \in Int /\ a <= e[a]
  BY DEF Ranges
<1>1. f \in [Int -> Int] /\ f[x] = y /\ \A a \in S \ {x} : f[a] = e[a]
  BY <1>0 DEF With
<1> HIDE DEF f
<1>2. Ranges(S, f)
  <2>1. \A a \in S : a <= f[a]
    BY <1>0, <1>1
  <2>2. ASSUME NEW a \in S, NEW c \in S, a < c
        PROVE  f[a] < c
    <3>1. e[a] < c
      BY <2>2 DEF Ranges
    <3> QED
      BY <1>0, <1>1, <3>1
  <2> QED
    BY <1>0, <1>1, <2>1, <2>2 DEF Ranges
<1>3. ASSUME NEW a \in S \ {x}
      PROVE  e[a] < x \/ e[x] < a
  BY <1>0, <1>3 DEF Ranges
<1>4. ASSUME NEW u
      PROVE  u \in Cover(S, f) <=> u \in Cover(S, e) \ ((y + 1) .. e[x])
  <2>1. ASSUME u \in Cover(S, f)
        PROVE  u \in Cover(S, e) \ ((y + 1) .. e[x])
    <3>1. PICK a \in S : u \in Int /\ a <= u /\ u <= f[a]
      BY <2>1 DEF Cover
    <3>2. CASE a = x
      BY <1>0, <1>1, <3>1, <3>2 DEF Cover
    <3>3. CASE a # x
      BY <1>0, <1>1, <1>3, <3>1, <3>3 DEF Cover
    <3> QED
      BY <3>2, <3>3
  <2>2. ASSUME u \in Cover(S, e) \ ((y + 1) .. e[x])
        PROVE  u \in Cover(S, f)
    <3>1. PICK a \in S : u \in Int /\ a <= u /\ u <= e[a]
      BY <2>2 DEF Cover
    <3>2. CASE a = x
      BY <1>0, <1>1, <2>2, <3>1, <3>2 DEF Cover
    <3>3. CASE a # x
      BY <1>0, <1>1, <3>1, <3>3 DEF Cover
    <3> QED
      BY <3>2, <3>3
  <2> QED
    BY <2>1, <2>2
<1>5. Cover(S, f) = Cover(S, e) \ ((y + 1) .. e[x])
  BY <1>4
<1> QED
  BY <1>2, <1>5 DEF f

\* A range ends later.
LEMMA RangeExtended ==
  ASSUME NEW S, NEW e, Ranges(S, e), NEW x \in S, NEW y \in Int, e[x] <= y, \A c \in S : c <= x \/ y < c
  PROVE  /\ Ranges(S, With(e, x, y))
         /\ Cover(S, With(e, x, y)) = Cover(S, e) \cup ((e[x] + 1) .. y)
<1> DEFINE f == With(e, x, y)
<1>1. S \in SUBSET Int /\ e \in [Int -> Int] /\ \A a \in S : a \in Int /\ e[a] \in Int /\ a <= e[a]
  BY DEF Ranges
<1>2. f \in [Int -> Int] /\ f[x] = y /\ \A a \in S : a # x => f[a] = e[a]
  BY <1>1 DEF With
<1> HIDE DEF f
<1>3. Ranges(S, f)
  <2>1. ASSUME NEW a \in S
        PROVE  a <= f[a]
    BY <1>1, <1>2
  <2>2. ASSUME NEW a \in S, NEW c \in S, a < c
        PROVE  f[a] < c
    <3>1. CASE a = x
      BY <1>1, <1>2, <2>2, <3>1
    <3>2. CASE a # x
      BY <1>2, <2>2, <3>2 DEF Ranges
    <3> QED
      BY <3>1, <3>2
  <2> QED
    BY <1>1, <1>2, <2>1, <2>2 DEF Ranges
<1>4. ASSUME NEW u \in Cover(S, f)
      PROVE  u \in Cover(S, e) \cup ((e[x] + 1) .. y)
  <2>1. u \in Int
    BY DEF Cover
  <2>2. PICK a \in S : a <= u /\ u <= f[a]
    BY DEF Cover
  <2>3. CASE a = x /\ e[x] < u
    BY <1>1, <1>2, <2>1, <2>2, <2>3
  <2>4. CASE u <= e[a]
    BY <2>1, <2>2, <2>4 DEF Cover
  <2> QED
    BY <1>1, <1>2, <2>1, <2>2, <2>3, <2>4
<1>5. ASSUME NEW u \in Cover(S, e) \cup ((e[x] + 1) .. y)
      PROVE  u \in Cover(S, f)
  <2>1. CASE u \in Cover(S, e)
    <3>1. PICK a \in S : u \in Int /\ a <= u /\ u <= e[a]
      BY <2>1 DEF Cover
    <3>2. u <= f[a]
      BY <1>1, <1>2, <3>1
    <3> QED
      BY <3>1, <3>2 DEF Cover
  <2>2. CASE u \in (e[x] + 1) .. y
    <3>1. u \in Int /\ x <= u /\ u <= f[x]
      BY <1>1, <1>2, <2>2
    <3> QED
      BY <3>1 DEF Cover
  <2> QED
    BY <2>1, <2>2
<1>6. Ranges(S, f) /\ Cover(S, f) = Cover(S, e) \cup ((e[x] + 1) .. y)
  BY <1>3, <1>4, <1>5
<1> QED
  BY <1>6 DEF f

\* The range that starts at x has at most m numbers.
Short(e, x, m) == e[x] - x < m

\* The numbers before and after x.
Around(x, z, y) == x \in Int /\ z \in Int /\ y \in Int /\ z = x - 1 /\ y = x + 1

\* The range that starts at x is left with the numbers up to z and those from y.
SplitAt(S, e, x, z, y, U, f) ==
  /\ x \in S /\ z \in Int /\ y \in Int /\ x <= z /\ z < y /\ y <= e[x]
  /\ U = S \cup {y} /\ f = With(With(e, x, z), y, e[x])

LEMMA RangeSplit ==
  ASSUME NEW S, NEW e, Ranges(S, e), NEW x, NEW z, NEW y, NEW U, NEW f, SplitAt(S, e, x, z, y, U, f)
  PROVE  /\ Ranges(U, f) /\ y \notin S
         /\ Cover(U, f) = Cover(S, e) \ ((z + 1) .. (y - 1))
<1>a. x \in S /\ z \in Int /\ y \in Int /\ x <= z /\ z < y /\ y <= e[x]
  BY DEF SplitAt
<1>b. U = S \cup {y} /\ f = With(With(e, x, z), y, e[x])
  BY DEF SplitAt
<1> USE <1>a
<1>0. S \in SUBSET Int /\ e \in [Int -> Int] /\ \A a \in S : a \in Int /\ e[a] \in Int /\ a <= e[a]
  BY DEF Ranges
<1> DEFINE w == e[x]
           g == With(e, x, z)
<1>1. w \in Int /\ y <= w /\ z <= w
  BY <1>0
<1>2. Ranges(S, g) /\ Cover(S, g) = Cover(S, e) \ ((z + 1) .. w)
  BY <1>1, RangeCut
<1>3. (y .. w) \subseteq Cover(S, e)
  BY <1>0 DEF Cover
<1> HIDE DEF w, g
<1>4. \A u \in Cover(S, g) : u < y \/ w < u
  <2> TAKE u \in Cover(S, g)
  <2>1. u \in Int /\ u \notin (z + 1) .. w
    BY <1>2 DEF Cover
  <2> QED
    BY <1>1, <2>1
<1>5. Ranges(S \cup {y}, With(g, y, w)) /\ y \notin S /\ Cover(S \cup {y}, With(g, y, w)) = Cover(S, g) \cup (y .. w)
  <2>1. Ranges(S, g) /\ w \in Int /\ y <= w
    BY <1>1, <1>2
  <2> QED
    BY <1>4, <2>1, RangeAdded
<1>6. Cover(S, g) \cup (y .. w) = Cover(S, e) \ ((z + 1) .. (y - 1))
  <2>1. (z + 1) .. w = ((z + 1) .. (y - 1)) \cup (y .. w) /\ ((z + 1) .. (y - 1)) \cap (y .. w) = {}
    BY <1>1
  <2> QED
    BY <1>2, <1>3, <2>1
<1>7. /\ Ranges(S \cup {y}, With(g, y, w)) /\ y \notin S
      /\ Cover(S \cup {y}, With(g, y, w)) = Cover(S, e) \ ((z + 1) .. (y - 1))
  BY <1>5, <1>6
<1> QED
  BY <1>7, <1>b DEF w, g

-----------------------------------------------------------------------------
(* The numbers of the receiver's list.                                      *)

LEMMA RcvConstants ==
  /\ SeqNoTH \in Nat \ {0} /\ MaxSeqNo \in Nat /\ MaxSeqNo + 1 \in Nat \ {0} /\ MaxSeqNo + 1 - 1 = MaxSeqNo
  /\ MaxSeqNo + 1 = SeqNoTH + SeqNoTH + 2
  /\ Size \in Nat \ {0} /\ Span \in Nat \ {0} /\ Span <= Size /\ Span < SeqNoTH
  /\ MaxGiveUp \in Nat /\ Span + MaxGiveUp < SeqNoTH
BY SeqNoAssumption, RcvLossListAssumption DEF MaxSeqNo

\* Numbers that are close compare as if they never restarted.
LEMMA RcvCompares ==
  ASSUME NEW u \in Int, NEW v \in Int, u - v < SeqNoTH, v - u < SeqNoTH
  PROVE  /\ seqcmp(Wrap(u), Wrap(v)) > 0 <=> u > v
         /\ seqcmp(Wrap(u), Wrap(v)) <= 0 <=> u <= v
         /\ seqoff(Wrap(v), Wrap(u)) = u - v
         /\ Wrap(u) = Wrap(v) <=> u = v
<1>1. -(MaxSeqNo + 1) < u - v /\ u - v < MaxSeqNo + 1 /\ MaxSeqNo + 1 \in Nat \ {0}
  BY RcvConstants
<1>2. /\ Wrap(u) \in 0 .. MaxSeqNo /\ Wrap(v) \in 0 .. MaxSeqNo
      /\ Wrap(u) - Wrap(v) \in {u - v, u - v - (MaxSeqNo + 1), u - v + (MaxSeqNo + 1)}
  <2> DEFINE m == MaxSeqNo + 1
  <2>1. m \in Nat \ {0} /\ -m < u - v /\ u - v < m /\ m - 1 = MaxSeqNo
    BY <1>1, RcvConstants
  <2> HIDE DEF m
  <2>2. /\ u % m \in 0 .. m - 1 /\ v % m \in 0 .. m - 1
        /\ (u % m) - (v % m) \in {u - v, u - v - m, u - v + m}
    BY <2>1, RemaindersNear
  <2> QED
    BY <2>1, <2>2 DEF m, Wrap
<1>3. /\ Near(Wrap(u), Wrap(v)) <=> Wrap(u) - Wrap(v) = u - v
      /\ Wrap(u) - Wrap(v) = u - v - (MaxSeqNo + 1) => Wrap(u) < Wrap(v)
      /\ Wrap(u) - Wrap(v) = u - v + (MaxSeqNo + 1) => Wrap(u) > Wrap(v)
  BY <1>2, RcvConstants DEF Near
<1>4. Near(Wrap(v), Wrap(u)) <=> Near(Wrap(u), Wrap(v))
  BY <1>2, RcvConstants DEF Near
<1> QED
  BY <1>2, <1>3, <1>4, RcvConstants DEF seqcmp, seqoff

\* One step around the circle, and several.
Close(u, v) == u \in Int /\ v \in Int /\ u - v < SeqNoTH /\ v - u < SeqNoTH

LEMMA RcvClose ==
  ASSUME NEW u, NEW v, Close(u, v)
  PROVE  /\ seqcmp(Wrap(u), Wrap(v)) > 0 <=> u > v
         /\ seqcmp(Wrap(u), Wrap(v)) <= 0 <=> u <= v
         /\ seqoff(Wrap(v), Wrap(u)) = u - v
         /\ Wrap(u) = Wrap(v) <=> u = v
<1>1. u \in Int /\ v \in Int /\ u - v < SeqNoTH /\ v - u < SeqNoTH
  BY DEF Close
<1> QED
  BY <1>1, RcvCompares

LEMMA RcvSteps ==
  ASSUME NEW u \in Int
  PROVE  /\ Wrap(u) \in 0 .. MaxSeqNo /\ Wrap(u) # -1 /\ Wrap(u) = Carried(MaxSeqNo + 1, u)
         /\ incseq(Wrap(u)) = Wrap(u + 1) /\ decseq(Wrap(u)) = Wrap(u - 1)
         /\ \A k \in Int : Wrap(Wrap(u) + k) = Wrap(u + k)
<1> DEFINE m == MaxSeqNo + 1
<1>1. m \in Nat \ {0} /\ m - 1 = MaxSeqNo /\ m >= 2
  BY RcvConstants
<1> HIDE DEF m
<1>2. \A v \in Int : Wrap(v) = v % m /\ v % m \in 0 .. m - 1
  BY <1>1, Quotient DEF Wrap, m
<1>3. \A k \in Int : Wrap(Wrap(u) + k) = Wrap(u + k)
  <2> TAKE k \in Int
  <2>1. ((u % m) + k) % m = (u + k) % m
    BY <1>1, RemainderMoves
  <2>2. u + k \in Int /\ Wrap(u) = u % m /\ u % m \in 0 .. m - 1 /\ Wrap(u + k) = (u + k) % m
    BY <1>2
  <2> DEFINE w == u % m
  <2>3. (w + k) % m = Wrap(u + k) /\ Wrap(u) = w /\ w \in 0 .. m - 1
    BY <2>1, <2>2
  <2> HIDE DEF w
  <2>4. w + k \in Int
    BY <1>1, <2>3
  <2>5. Wrap(w + k) = (w + k) % m
    BY <1>2, <2>4
  <2> QED
    BY <2>3, <2>5
<1>4. /\ Wrap(u) \in 0 .. MaxSeqNo /\ Wrap(u + 1) \in 0 .. MaxSeqNo /\ Wrap(u - 1) \in 0 .. MaxSeqNo
      /\ u + 1 \in Int /\ u - 1 \in Int
  <2>1. u + 1 \in Int /\ u - 1 \in Int
    OBVIOUS
  <2> QED
    BY <1>1, <1>2, <2>1
<1>5. /\ Wrap(u + 1) = IF Wrap(u) = m - 1 THEN 0 ELSE Wrap(u) + 1
      /\ Wrap(u - 1) = IF Wrap(u) = 0 THEN m - 1 ELSE Wrap(u) - 1
  <2>1. m \in Nat /\ m >= 2
    BY <1>1
  <2>2. Wrap(u) = u % m /\ Wrap(u + 1) = (u + 1) % m /\ Wrap(u - 1) = (u - 1) % m
    BY <1>2, <1>4
  <2>3. /\ (u + 1) % m = IF u % m = m - 1 THEN 0 ELSE (u % m) + 1
        /\ (u - 1) % m = IF u % m = 0 THEN m - 1 ELSE (u % m) - 1
    BY <2>1, NextRemainder
  <2> QED
    BY <2>2, <2>3, Zenon
<1>6. incseq(Wrap(u)) = Wrap(u + 1)
  BY <1>1, <1>4, <1>5 DEF incseq
<1>7. decseq(Wrap(u)) = Wrap(u - 1)
  BY <1>1, <1>4, <1>5 DEF decseq
<1>8. Wrap(u) = Carried(MaxSeqNo + 1, u)
  BY DEF Wrap, Carried
<1> QED
  BY <1>3, <1>4, <1>6, <1>7, <1>8

\* The numbers from u to v.
LEMMA RcvStretch ==
  ASSUME NEW u \in Int, NEW v \in Int, u <= v, v - u < SeqNoTH
  PROVE  /\ seqlen(Wrap(u), Wrap(v)) = v - u + 1
         /\ Stretch(Wrap(u), Wrap(v)) = {Wrap(w) : w \in u .. v}
<1>1. seqlen(Wrap(u), Wrap(v)) = v - u + 1
  <2>1. -(MaxSeqNo + 1) < v - u /\ v - u < MaxSeqNo + 1 /\ MaxSeqNo + 1 \in Nat \ {0} /\ MaxSeqNo + 1 - 1 = MaxSeqNo
    BY RcvConstants
  <2>2. /\ Wrap(u) \in 0 .. MaxSeqNo /\ Wrap(v) \in 0 .. MaxSeqNo
        /\ Wrap(v) - Wrap(u) \in {v - u, v - u - (MaxSeqNo + 1), v - u + (MaxSeqNo + 1)}
    <3> DEFINE m == MaxSeqNo + 1
    <3>1. m \in Nat \ {0} /\ -m < v - u /\ v - u < m
      BY <2>1
    <3> HIDE DEF m
    <3>2. (v % m) - (u % m) \in {v - u, v - u - m, v - u + m}
      BY <3>1, RemaindersNear
    <3> QED
      BY <3>2, RcvSteps DEF m, Wrap
  <2>3. MaxSeqNo \in Nat
    BY RcvConstants
  <2> QED
    BY <2>1, <2>2, <2>3 DEF seqlen
<1>2. \A k \in Int : Wrap(Wrap(u) + k) = Wrap(u + k)
  BY RcvSteps
<1>3. Stretch(Wrap(u), Wrap(v)) = {Wrap(u + k) : k \in 0 .. v - u}
  BY <1>1, <1>2 DEF Stretch
<1>4. ASSUME NEW w \in u .. v
      PROVE  Wrap(w) \in {Wrap(u + k) : k \in 0 .. v - u}
  <2>1. w - u \in 0 .. v - u /\ u + (w - u) = w
    OBVIOUS
  <2> QED
    BY <2>1
<1>5. ASSUME NEW k \in 0 .. v - u
      PROVE  Wrap(u + k) \in {Wrap(w) : w \in u .. v}
  <2>1. u + k \in u .. v
    OBVIOUS
  <2> QED
    BY <2>1
<1> QED
  BY <1>1, <1>3, <1>4, <1>5

-----------------------------------------------------------------------------
(* What the operations of the receiver's list write.                        *)

RcvLists ==
  [data1 : [Slots -> None .. MaxSeqNo], data2 : [Slots -> None .. MaxSeqNo],
   next : [Slots -> None .. Size - 1], prior : [Slots -> None .. Size - 1],
   head : None .. Size - 1, tail : None .. Size - 1, length : Nat]

IsUnlinked(k, i, a, b, o) ==
  /\ o \in RcvLists /\ o.length = k.length
  /\ o.data1 = With(k.data1, i, None) /\ o.data2 = k.data2
  /\ o.head = IF i = k.head THEN a ELSE k.head
  /\ o.tail = IF i # k.head /\ a = None THEN b ELSE k.tail
  /\ o.next = IF i = k.head THEN k.next ELSE With(k.next, b, a)
  /\ o.prior = IF a = None THEN k.prior
               ELSE IF i = k.head THEN With(k.prior, a, None) ELSE With(k.prior, a, b)

LEMMA RcvUnlinkedIs ==
  ASSUME NEW k \in RcvLists, NEW i \in Slots, NEW a, a = k.next[i], NEW b, b = k.prior[i], i # k.head => b \in Slots,
         NEW o, o = Unlinked(k, i)
  PROVE  IsUnlinked(k, i, a, b, o)
<1> USE DEF With, RcvLists, IsUnlinked, None
<1>1. a \in None .. Size - 1 /\ b \in None .. Size - 1 /\ Slots = 0 .. Size - 1 /\ -1 \in None .. MaxSeqNo /\ -1 \in None .. Size - 1
  <2>1. Slots = 0 .. Size - 1 /\ -1 \in None .. MaxSeqNo /\ -1 \in None .. Size - 1
    BY RcvConstants DEF Slots
  <2>2. k.next \in [Slots -> None .. Size - 1] /\ k.prior \in [Slots -> None .. Size - 1]
    OBVIOUS
  <2> QED
    BY <2>1, <2>2
<1>2. CASE i = k.head /\ a = None
  BY <1>1, <1>2 DEF Unlinked
<1>3. CASE i = k.head /\ a # None
  BY <1>1, <1>3 DEF Unlinked
<1>4. CASE i # k.head /\ a = None
  BY <1>1, <1>4 DEF Unlinked
<1>5. CASE i # k.head /\ a # None
  BY <1>1, <1>5 DEF Unlinked
<1> QED
  BY <1>2, <1>3, <1>4, <1>5

IsRelinked(k, i, j, o) ==
  /\ o \in RcvLists /\ o.length = k.length /\ o.data1 = k.data1 /\ o.data2 = k.data2
  /\ o.head = IF i = k.head THEN j ELSE k.head
  /\ o.tail = IF i = k.tail THEN j ELSE k.tail
  /\ o.next = IF i = k.head THEN With(k.next, j, k.next[i])
              ELSE With(With(k.next, j, k.next[i]), k.prior[i], j)
  /\ o.prior = IF i = k.tail THEN With(k.prior, j, k.prior[i])
               ELSE With(With(k.prior, j, k.prior[i]), k.next[i], j)

LEMMA RcvRelinkedIs ==
  ASSUME NEW k \in RcvLists, NEW i \in Slots, NEW j \in Slots, i # j,
         i # k.head => k.prior[i] \in Slots \ {j}, i # k.tail => k.next[i] \in Slots,
         NEW o, o = Relinked(k, i, j)
  PROVE  IsRelinked(k, i, j, o)
<1> USE DEF With, RcvLists, None
<1> DEFINE at == [k EXCEPT !.next[j] = k.next[i], !.prior[j] = k.prior[i]]
           hd == IF i = at.head THEN [at EXCEPT !.head = j] ELSE [at EXCEPT !.next[at.prior[j]] = j]
<1>1. /\ Slots = 0 .. Size - 1
      /\ k.next \in [Slots -> None .. Size - 1] /\ k.prior \in [Slots -> None .. Size - 1]
      /\ k.next[i] \in None .. Size - 1 /\ k.prior[i] \in None .. Size - 1
      /\ j \in None .. Size - 1
  <2>1. Slots = 0 .. Size - 1 /\ j \in None .. Size - 1
    BY RcvConstants DEF Slots
  <2>2. k.next \in [Slots -> None .. Size - 1] /\ k.prior \in [Slots -> None .. Size - 1]
    OBVIOUS
  <2> QED
    BY <2>1, <2>2
<1>2. /\ at \in RcvLists /\ at.length = k.length /\ at.data1 = k.data1 /\ at.data2 = k.data2
      /\ at.head = k.head /\ at.tail = k.tail
      /\ at.next = With(k.next, j, k.next[i]) /\ at.prior = With(k.prior, j, k.prior[i])
      /\ at.prior[j] = k.prior[i] /\ at.next[j] = k.next[i]
  BY <1>1
<1> HIDE DEF at
<1>3. /\ hd \in RcvLists /\ hd.length = k.length /\ hd.data1 = k.data1 /\ hd.data2 = k.data2
      /\ hd.head = (IF i = k.head THEN j ELSE k.head) /\ hd.tail = k.tail /\ hd.prior = at.prior
      /\ hd.next = IF i = k.head THEN at.next ELSE With(at.next, k.prior[i], j)
  <2>1. CASE i = k.head
    BY <1>1, <1>2, <2>1
  <2>2. CASE i # k.head
    BY <1>1, <1>2, <2>2
  <2> QED
    BY <2>1, <2>2
<1>4. hd.next[j] = k.next[i]
  <2>1. CASE i = k.head
    BY <1>2, <1>3, <2>1
  <2>2. CASE i # k.head
    BY <1>1, <1>2, <1>3, <2>2
  <2> QED
    BY <2>1, <2>2
<1> HIDE DEF hd
<1>5. o = IF i = hd.tail THEN [hd EXCEPT !.tail = j] ELSE [hd EXCEPT !.prior[hd.next[j]] = j]
  BY DEF Relinked, at, hd
<1>6. /\ o \in RcvLists /\ o.length = k.length /\ o.data1 = k.data1 /\ o.data2 = k.data2
      /\ o.head = hd.head /\ o.next = hd.next
      /\ o.tail = IF i = k.tail THEN j ELSE k.tail
      /\ o.prior = IF i = k.tail THEN at.prior ELSE With(at.prior, k.next[i], j)
  <2>0. hd \in RcvLists /\ hd.prior = at.prior /\ hd.tail = k.tail
    BY <1>3
  <2>1. CASE i = k.tail
    <3>1. o = [hd EXCEPT !.tail = j]
      BY <1>5, <2>0, <2>1
    <3>2. /\ o \in RcvLists /\ o.length = hd.length /\ o.data1 = hd.data1 /\ o.data2 = hd.data2
          /\ o.head = hd.head /\ o.next = hd.next /\ o.tail = j /\ o.prior = hd.prior
      BY <1>1, <2>0, <3>1
    <3> QED
      BY <1>3, <2>0, <2>1, <3>2
  <2>2. CASE i # k.tail
    <3>1. o = [hd EXCEPT !.prior[k.next[i]] = j] /\ k.next[i] \in Slots
      BY <1>2, <1>3, <1>4, <1>5, <2>2
    <3>2. /\ o \in RcvLists /\ o.length = hd.length /\ o.data1 = hd.data1 /\ o.data2 = hd.data2
          /\ o.head = hd.head /\ o.next = hd.next /\ o.tail = hd.tail /\ o.prior = With(hd.prior, k.next[i], j)
      <4> DEFINE x == k.next[i]
      <4>1. x \in Slots /\ o = [hd EXCEPT !.prior[x] = j] /\ j \in None .. Size - 1
        BY <1>1, <3>1
      <4> HIDE DEF x
      <4>2. hd.prior \in [Slots -> None .. Size - 1]
        BY <2>0
      <4>3. With(hd.prior, x, j) \in [Slots -> None .. Size - 1]
        BY <4>1, <4>2
      <4>4. o = [hd EXCEPT !.prior = With(hd.prior, x, j)]
        BY <4>1
      <4> QED
        BY <2>0, <4>3, <4>4 DEF x
    <3> QED
      BY <1>3, <2>0, <2>2, <3>2
  <2> QED
    BY <2>1, <2>2
<1>7. o.next = IF i = k.head THEN With(k.next, j, k.next[i])
               ELSE With(With(k.next, j, k.next[i]), k.prior[i], j)
  BY <1>2, <1>3, <1>6
<1>8. o.prior = IF i = k.tail THEN With(k.prior, j, k.prior[i])
                ELSE With(With(k.prior, j, k.prior[i]), k.next[i], j)
  BY <1>2, <1>6
<1> QED
  BY <1>3, <1>6, <1>7, <1>8 DEF IsRelinked

\* The end that a range from first to last writes over an old one, and the end that
\* is left before seq.
Reach(last, first, old) == IF seqcmp(last, first) > 0 THEN last ELSE old
EndBefore(first, seq) == IF seq = incseq(first) THEN None ELSE decseq(seq)

\* A range begins at slot j, where a list has room.
Begun(k, j, first, last) ==
  [k EXCEPT !.data1[j] = first, !.data2[j] = IF seqcmp(last, first) > 0 THEN last ELSE @]

LEMMA RcvBegunIs ==
  ASSUME NEW k \in RcvLists, NEW j \in Slots, NEW first \in 0 .. MaxSeqNo, NEW last \in None .. MaxSeqNo,
         NEW o, o = Begun(k, j, first, last)
  PROVE  /\ o \in RcvLists /\ o.length = k.length /\ o.next = k.next /\ o.prior = k.prior
         /\ o.head = k.head /\ o.tail = k.tail
         /\ o.data1 = With(k.data1, j, first)
         /\ o.data2 = With(k.data2, j, Reach(last, first, k.data2[j]))
<1> USE DEF With, RcvLists, Reach, Begun
<1>1. k.data1 \in [Slots -> None .. MaxSeqNo] /\ k.data2 \in [Slots -> None .. MaxSeqNo]
  OBVIOUS
<1>2. first \in None .. MaxSeqNo
  BY DEF None
<1>3. CASE seqcmp(last, first) > 0
  BY <1>1, <1>2, <1>3
<1>4. CASE ~ seqcmp(last, first) > 0
  <2>1. o = [k EXCEPT !.data1[j] = first]
    BY <1>1, <1>4
  <2>2. With(k.data2, j, k.data2[j]) = k.data2
    BY <1>1
  <2> QED
    BY <1>1, <1>2, <1>4, <2>1, <2>2
<1> QED
  BY <1>3, <1>4

IsAdvanced(k, i, j, first, o) ==
  /\ o \in RcvLists /\ o.length = k.length
  /\ o.data1 = With(With(k.data1, j, first), i, None)
  /\ o.data2 = With(With(k.data2, j, Reach(k.data2[i], first, k.data2[j])), i, None)
  /\ o.head = IF i = k.head THEN j ELSE k.head
  /\ o.tail = IF i = k.tail THEN j ELSE k.tail
  /\ o.next = IF i = k.head THEN With(k.next, j, k.next[i])
              ELSE With(With(k.next, j, k.next[i]), k.prior[i], j)
  /\ o.prior = IF i = k.tail THEN With(k.prior, j, k.prior[i])
               ELSE With(With(k.prior, j, k.prior[i]), k.next[i], j)

LEMMA RcvAdvancedIs ==
  ASSUME NEW k \in RcvLists, NEW i \in Slots, NEW j \in Slots, i # j, j = (i + 1) % Size,
         i # k.head => k.prior[i] \in Slots \ {j}, i # k.tail => k.next[i] \in Slots,
         NEW first \in 0 .. MaxSeqNo, first = incseq(k.data1[i]),
         NEW o, o = Advanced(k, i)
  PROVE  IsAdvanced(k, i, j, first, o)
<1> DEFINE last  == k.data2[i]
           begun == Begun(k, j, first, last)
           moved == [k EXCEPT !.data1[j] = first, !.data2[j] = IF seqcmp(last, first) > 0 THEN last ELSE @,
                              !.data1[i] = None, !.data2[i] = None]
<1>1. last \in None .. MaxSeqNo
  BY DEF RcvLists
<1>2. o = Relinked(moved, i, j)
  BY DEF Advanced
<1>3. moved = [begun EXCEPT !.data1[i] = None, !.data2[i] = None]
  BY DEF RcvLists, Begun
<1> HIDE DEF last, begun, moved
<1>31. begun = Begun(k, j, first, last)
  BY DEF begun
<1>4. /\ begun \in RcvLists /\ begun.length = k.length /\ begun.next = k.next /\ begun.prior = k.prior
      /\ begun.head = k.head /\ begun.tail = k.tail
      /\ begun.data1 = With(k.data1, j, first)
      /\ begun.data2 = With(k.data2, j, Reach(last, first, k.data2[j]))
  BY <1>1, <1>31, RcvBegunIs
<1>5. /\ moved \in RcvLists /\ moved.length = begun.length /\ moved.next = begun.next /\ moved.prior = begun.prior
      /\ moved.head = begun.head /\ moved.tail = begun.tail
      /\ moved.data1 = With(begun.data1, i, None)
      /\ moved.data2 = With(begun.data2, i, None)
  <2>1. None \in None .. MaxSeqNo
    BY RcvConstants DEF None
  <2> QED
    BY <1>3, <1>4, <2>1 DEF RcvLists, With
<1>6. /\ o \in RcvLists /\ o.length = moved.length /\ o.data1 = moved.data1 /\ o.data2 = moved.data2
      /\ o.head = IF i = moved.head THEN j ELSE moved.head
      /\ o.tail = IF i = moved.tail THEN j ELSE moved.tail
      /\ o.next = IF i = moved.head THEN With(moved.next, j, moved.next[i])
                  ELSE With(With(moved.next, j, moved.next[i]), moved.prior[i], j)
      /\ o.prior = IF i = moved.tail THEN With(moved.prior, j, moved.prior[i])
                   ELSE With(With(moved.prior, j, moved.prior[i]), moved.next[i], j)
  <2>1. /\ i # moved.head => moved.prior[i] \in Slots \ {j}
        /\ i # moved.tail => moved.next[i] \in Slots
    BY <1>4, <1>5
  <2>2. moved \in RcvLists
    BY <1>5
  <2>3. IsRelinked(moved, i, j, o)
    BY <1>2, <2>1, <2>2, RcvRelinkedIs
  <2> QED
    BY <2>3 DEF IsRelinked
<1>7. /\ moved.head = k.head /\ moved.tail = k.tail /\ moved.next = k.next /\ moved.prior = k.prior
      /\ moved.length = k.length
  BY <1>4, <1>5
<1>8. o.data1 = With(With(k.data1, j, first), i, None)
  BY <1>4, <1>5, <1>6
<1>9. o.data2 = With(With(k.data2, j, Reach(last, first, k.data2[j])), i, None)
  BY <1>4, <1>5, <1>6
<1>10. /\ o.head = IF i = k.head THEN j ELSE k.head
       /\ o.tail = IF i = k.tail THEN j ELSE k.tail
       /\ o.next = IF i = k.head THEN With(k.next, j, k.next[i])
                   ELSE With(With(k.next, j, k.next[i]), k.prior[i], j)
       /\ o.prior = IF i = k.tail THEN With(k.prior, j, k.prior[i])
                    ELSE With(With(k.prior, j, k.prior[i]), k.next[i], j)
  BY <1>6, <1>7
<1> QED
  BY <1>6, <1>7, <1>8, <1>9, <1>10 DEF last, IsAdvanced

IsCut(k, i, seq, o) ==
  /\ o \in RcvLists /\ o.length = k.length /\ o.next = k.next /\ o.prior = k.prior
  /\ o.head = k.head /\ o.tail = k.tail /\ o.data1 = k.data1
  /\ o.data2 = With(k.data2, i, EndBefore(k.data1[i], seq))

LEMMA RcvCutIs ==
  ASSUME NEW k \in RcvLists, NEW i \in Slots, NEW seq, decseq(seq) \in 0 .. MaxSeqNo, NEW o, o = CutBefore(k, i, seq)
  PROVE  IsCut(k, i, seq, o)
<1> DEFINE v == EndBefore(k.data1[i], seq)
<1>1. v \in None .. MaxSeqNo
  <2>1. None \in None .. MaxSeqNo
    BY RcvConstants DEF None
  <2>2. decseq(seq) \in None .. MaxSeqNo
    BY DEF None
  <2> QED
    BY <2>1, <2>2 DEF EndBefore
<1>2. o = [k EXCEPT !.data2[i] = v]
  BY DEF CutBefore, EndBefore
<1> HIDE DEF v
<1>3. /\ o \in RcvLists /\ o.length = k.length /\ o.next = k.next /\ o.prior = k.prior
      /\ o.head = k.head /\ o.tail = k.tail /\ o.data1 = k.data1
      /\ o.data2 = With(k.data2, i, v)
  BY <1>1, <1>2 DEF RcvLists, With
<1> QED
  BY <1>3 DEF v, IsCut

IsSplit(k, i, j, seq, first, o) ==
  /\ o \in RcvLists /\ o.length = k.length /\ o.head = k.head
  /\ o.data1 = With(k.data1, j, first)
  /\ o.data2 = With(With(k.data2, j, Reach(k.data2[i], first, k.data2[j])), i, EndBefore(k.data1[i], seq))
  /\ o.tail = IF i = k.tail THEN j ELSE k.tail
  /\ o.next = With(With(k.next, j, k.next[i]), i, j)
  /\ o.prior = IF i = k.tail THEN With(k.prior, j, i)
               ELSE With(With(k.prior, j, i), k.next[i], j)

LEMMA RcvSplitIs ==
  ASSUME NEW k \in RcvLists, NEW i \in Slots, NEW j \in Slots, i # j, i # k.tail => k.next[i] \in Slots,
         NEW seq, NEW first \in 0 .. MaxSeqNo, first = incseq(seq), decseq(seq) \in 0 .. MaxSeqNo,
         NEW o, o = Split(k, i, j, seq)
  PROVE  IsSplit(k, i, j, seq, first, o)
<1> DEFINE last  == k.data2[i]
           fresh == Begun(k, j, first, last)
           short1 == CutBefore(fresh, i, seq)
           cut   == [short1 EXCEPT !.next[j] = k.next[i], !.next[i] = j, !.prior[j] = i]
<1>1. last \in None .. MaxSeqNo
  BY DEF RcvLists
<1>2. o = IF i = k.tail THEN [cut EXCEPT !.tail = j] ELSE [cut EXCEPT !.prior[cut.next[j]] = j]
  BY DEF Split, Begun
<1>21. cut = [short1 EXCEPT !.next[j] = k.next[i], !.next[i] = j, !.prior[j] = i]
  OBVIOUS
<1> HIDE DEF cut
<1>22. short1 = CutBefore(fresh, i, seq)
  OBVIOUS
<1> HIDE DEF short1
<1>23. fresh = Begun(k, j, first, last)
  OBVIOUS
<1> HIDE DEF last, fresh
<1>3. /\ fresh \in RcvLists /\ fresh.length = k.length /\ fresh.next = k.next /\ fresh.prior = k.prior
      /\ fresh.head = k.head /\ fresh.tail = k.tail
      /\ fresh.data1 = With(k.data1, j, first)
      /\ fresh.data2 = With(k.data2, j, Reach(last, first, k.data2[j]))
  BY <1>1, <1>23, RcvBegunIs
<1>4. /\ short1 \in RcvLists /\ short1.length = fresh.length /\ short1.next = fresh.next /\ short1.prior = fresh.prior
      /\ short1.head = fresh.head /\ short1.tail = fresh.tail /\ short1.data1 = fresh.data1
      /\ short1.data2 = With(fresh.data2, i, EndBefore(fresh.data1[i], seq))
  <2>1. IsCut(fresh, i, seq, short1)
    BY <1>3, <1>22, RcvCutIs
  <2> QED
    BY <2>1 DEF IsCut
<1>5. /\ i \in None .. Size - 1 /\ j \in None .. Size - 1
      /\ k.next[i] \in None .. Size - 1
  <2>1. i \in None .. Size - 1 /\ j \in None .. Size - 1
    BY RcvConstants DEF Slots, None
  <2> QED
    BY <2>1 DEF RcvLists
<1>6. /\ cut \in RcvLists /\ cut.length = short1.length /\ cut.head = short1.head /\ cut.tail = short1.tail
      /\ cut.data1 = short1.data1 /\ cut.data2 = short1.data2
      /\ cut.next = With(With(short1.next, j, k.next[i]), i, j)
      /\ cut.prior = With(short1.prior, j, i)
  BY <1>4, <1>5, <1>21 DEF RcvLists, With
<1>7. cut.next[j] = k.next[i]
  <2>1. short1.next \in [Slots -> None .. Size - 1]
    BY <1>4 DEF RcvLists
  <2> QED
    BY <1>6, <2>1 DEF With
<1>8. /\ o \in RcvLists /\ o.length = cut.length /\ o.head = cut.head /\ o.next = cut.next
      /\ o.data1 = cut.data1 /\ o.data2 = cut.data2
      /\ o.tail = IF i = k.tail THEN j ELSE cut.tail
      /\ o.prior = IF i = k.tail THEN cut.prior ELSE With(cut.prior, k.next[i], j)
  <2>1. CASE i = k.tail
    <3>1. o = [cut EXCEPT !.tail = j]
      BY <1>2, <2>1
    <3> QED
      BY <1>5, <1>6, <2>1, <3>1 DEF RcvLists
  <2>2. CASE i # k.tail
    <3> DEFINE x == k.next[i]
    <3>1. o = [cut EXCEPT !.prior[x] = j] /\ x \in Slots
      BY <1>2, <1>7, <2>2
    <3> HIDE DEF x
    <3>2. cut.prior \in [Slots -> None .. Size - 1]
      BY <1>6 DEF RcvLists
    <3>3. With(cut.prior, x, j) \in [Slots -> None .. Size - 1]
      BY <1>5, <3>1, <3>2 DEF With
    <3>4. o = [cut EXCEPT !.prior = With(cut.prior, x, j)]
      BY <3>1 DEF With
    <3>5. /\ o \in RcvLists /\ o.length = cut.length /\ o.head = cut.head /\ o.next = cut.next
          /\ o.data1 = cut.data1 /\ o.data2 = cut.data2 /\ o.tail = cut.tail
          /\ o.prior = With(cut.prior, x, j)
      BY <1>6, <3>3, <3>4 DEF RcvLists
    <3> QED
      BY <2>2, <3>5 DEF x
  <2> QED
    BY <2>1, <2>2
<1>9. fresh.data1[i] = k.data1[i]
  BY <1>3 DEF RcvLists, With
<1>10. o.data1 = With(k.data1, j, first)
  BY <1>3, <1>4, <1>6, <1>8
<1>11. o.data2 = With(With(k.data2, j, Reach(last, first, k.data2[j])), i, EndBefore(k.data1[i], seq))
  BY <1>3, <1>4, <1>6, <1>8, <1>9
<1>12. /\ o.length = k.length /\ o.head = k.head /\ cut.tail = k.tail
       /\ o.next = With(With(k.next, j, k.next[i]), i, j) /\ cut.prior = With(k.prior, j, i)
  BY <1>3, <1>4, <1>6, <1>8
<1>13. /\ o.tail = IF i = k.tail THEN j ELSE k.tail
       /\ o.prior = IF i = k.tail THEN With(k.prior, j, i) ELSE With(With(k.prior, j, i), k.next[i], j)
  BY <1>8, <1>12
<1> QED
  BY <1>8, <1>10, <1>11, <1>12, <1>13 DEF last, IsSplit

-----------------------------------------------------------------------------
(* The arrays of the receiver's list hold the ranges (S, e).                *)

RcvArrays(k, r, S, e) ==
  /\ k \in RcvLists /\ r \in Int
  /\ Nodes(MaxSeqNo + 1, Size, r, k.data1, k.data2, S, e)
  /\ Forward(Size, r, k.next, k.head, S) /\ Backward(Size, r, k.prior, k.tail, S)

\* What a node knows of its place.
RcvPlace(k, r, S, x) ==
  LET i == Slot(Size, r, x) IN
    /\ i \in Slots
    /\ i = k.head <=> IsLeast(S, x)
    /\ i = k.tail <=> IsGreatest(S, x)
    /\ IsLeast(S, x) => k.prior[i] = -1
    /\ IsGreatest(S, x) => k.next[i] = -1
    /\ ~ IsLeast(S, x) => \E b \in S : Adjacent(S, b, x) /\ k.prior[i] = Slot(Size, r, b)
    /\ ~ IsGreatest(S, x) => \E c \in S : Adjacent(S, x, c) /\ k.next[i] = Slot(Size, r, c)

LEMMA RcvNode ==
  ASSUME NEW k, NEW r, NEW S, NEW e, RcvArrays(k, r, S, e), Spread(Size, S), NEW x \in S
  PROVE  RcvPlace(k, r, S, x)
<1> DEFINE i == Slot(Size, r, x)
<1>1. r \in Int /\ Size \in Nat \ {0} /\ Slots = 0 .. Size - 1 /\ Size \in Nat
  BY RcvConstants DEF RcvArrays, Slots
<1>2. x \in Int /\ i \in Slots /\ \A c \in S : Slot(Size, r, c) = i => c = x
  BY <1>1, OwnSlots
<1>3. Forward(Size, r, k.next, k.head, S) /\ Backward(Size, r, k.prior, k.tail, S)
  BY DEF RcvArrays
<1>4. PICK h \in S : IsLeast(S, h)
  BY <1>1, EndsExist
<1>5. PICK g \in S : IsGreatest(S, g)
  BY <1>1, EndsExist
<1>6. i = k.head <=> IsLeast(S, x)
  <2>1. k.head = Slot(Size, r, h)
    BY <1>3, <1>4 DEF Forward
  <2>2. IsLeast(S, x) => k.head = i
    BY <1>3 DEF Forward
  <2> QED
    BY <1>2, <1>4, <2>1, <2>2
<1>7. i = k.tail <=> IsGreatest(S, x)
  <2>1. k.tail = Slot(Size, r, g)
    BY <1>3, <1>5 DEF Backward
  <2>2. IsGreatest(S, x) => k.tail = i
    BY <1>3 DEF Backward
  <2> QED
    BY <1>2, <1>5, <2>1, <2>2
<1>8. IsLeast(S, x) => k.prior[i] = -1
  BY <1>3 DEF Backward
<1>9. IsGreatest(S, x) => k.next[i] = -1
  BY <1>3 DEF Forward
<1>10. ASSUME ~ IsLeast(S, x)
       PROVE  \E b \in S : Adjacent(S, b, x) /\ k.prior[i] = Slot(Size, r, b)
  <2>1. h \in S /\ h < x
    BY <1>2, <1>4, <1>10 DEF IsLeast, Spread
  <2>2. PICK b \in S : b < x /\ \A c \in S : c <= b \/ x <= c
    BY <1>1, <1>2, <2>1, PrecedingExists
  <2>3. Adjacent(S, b, x)
    BY <2>2 DEF Adjacent
  <2> QED
    BY <1>3, <2>3 DEF Backward
<1>11. ASSUME ~ IsGreatest(S, x)
       PROVE  \E c \in S : Adjacent(S, x, c) /\ k.next[i] = Slot(Size, r, c)
  <2>1. PICK c \in S : Adjacent(S, x, c)
    BY <1>1, <1>11, FollowerExists
  <2> QED
    BY <1>3, <2>1 DEF Forward
<1> QED
  BY <1>2, <1>6, <1>7, <1>8, <1>9, <1>10, <1>11 DEF RcvPlace

LEMMA RcvNodeData ==
  ASSUME NEW k, NEW r, NEW S, NEW e, RcvArrays(k, r, S, e), Spread(Size, S), NEW x \in S, NEW i, i = Slot(Size, r, x)
  PROVE  /\ k.data1[i] = Wrap(x) /\ k.data2[i] = (IF e[x] = x THEN None ELSE Wrap(e[x]))
         /\ k.data1[i] # None
<1>1. x \in Int
  BY DEF Spread
<1>2. k.data1[i] = Carried(MaxSeqNo + 1, x) /\ k.data2[i] = EndOf(MaxSeqNo + 1, e, x)
  BY DEF RcvArrays, Nodes
<1> QED
  BY <1>1, <1>2, RcvSteps DEF EndOf, Carried, Wrap, None

LEMMA RcvUnlinkedHolds ==
  ASSUME NEW k, NEW r, NEW S, NEW e \in [Int -> Int], RcvArrays(k, r, S, e), Spread(Size, S), NEW x \in S, e[x] = x,
         NEW o, o = Unlinked(k, Slot(Size, r, x))
  PROVE  RcvArrays(o, r, S \ {x}, e) /\ o.length = k.length
<1> DEFINE i == Slot(Size, r, x)
           a == k.next[i]
           b == k.prior[i]
<1>0. i = Slot(Size, r, x)
  OBVIOUS
<1> HIDE DEF i
<1>1. /\ r \in Int /\ Size \in Nat \ {0} /\ Slots = 0 .. Size - 1 /\ MaxSeqNo + 1 \in Nat \ {0} /\ k \in RcvLists
      /\ Nodes(MaxSeqNo + 1, Size, r, k.data1, k.data2, S, e)
      /\ Forward(Size, r, k.next, k.head, S) /\ Backward(Size, r, k.prior, k.tail, S)
  BY RcvConstants DEF RcvArrays, Slots
<1>2. RcvPlace(k, r, S, x)
  BY RcvNode
<1>3. \A p \in S : p \in Int /\ Slot(Size, r, p) \in Slots /\ Slot(Size, r, p) # -1
  <2>1. \A p \in S : p \in Int /\ Slot(Size, r, p) \in 0 .. Size - 1
    BY <1>1, OwnSlots
  <2> QED
    BY <1>1, <2>1
<1>4. i \in Slots /\ (i # k.head => b \in Slots) /\ o = Unlinked(k, i)
  BY <1>0, <1>2, <1>3 DEF RcvPlace, a, b
<1> HIDE DEF a, b
<1>4a. a = k.next[i] /\ b = k.prior[i]
  BY DEF a, b
<1>5. /\ o \in RcvLists /\ o.length = k.length
      /\ o.data1 = With(k.data1, i, None) /\ o.data2 = k.data2
      /\ o.head = (IF i = k.head THEN a ELSE k.head)
      /\ o.tail = (IF i # k.head /\ a = None THEN b ELSE k.tail)
      /\ o.next = (IF i = k.head THEN k.next ELSE With(k.next, b, a))
      /\ o.prior = IF a = None THEN k.prior
                   ELSE IF i = k.head THEN With(k.prior, a, None) ELSE With(k.prior, a, b)
  <2>1. IsUnlinked(k, i, a, b, o)
    BY <1>1, <1>4, <1>4a, RcvUnlinkedIs
  <2> QED
    BY <2>1 DEF IsUnlinked
<1>6. Nodes(MaxSeqNo + 1, Size, r, o.data1, o.data2, S \ {x}, e)
  <2>1. k.data2[i] = -1 /\ k.data2 \in [Slots -> None .. MaxSeqNo]
    <3>1. k.data2[i] = IF e[x] = x THEN None ELSE Wrap(e[x])
      BY <1>0, RcvNodeData
    <3> QED
      BY <1>1, <3>1 DEF None, RcvLists
  <2>2. o.data2 = With(k.data2, i, -1)
    BY <1>4, <1>5, <2>1 DEF With
  <2>3. o.data1 = With(k.data1, i, -1)
    BY <1>5 DEF None
  <2> QED
    BY <1>0, <1>1, <2>2, <2>3, NodeRemoved
<1>7. Forward(Size, r, o.next, o.head, S \ {x})
  <2>1. CASE IsLeast(S, x)
    <3>1. o.next = k.next /\ o.head = k.next[i]
      BY <1>0, <1>2, <1>5, <2>1 DEF RcvPlace, a, b
    <3> QED
      BY <1>0, <1>1, <2>1, <3>1, ForwardBehead
  <2>2. CASE ~ IsLeast(S, x)
    <3>1. PICK p \in S : Adjacent(S, p, x) /\ b = Slot(Size, r, p)
      BY <1>0, <1>2, <2>2 DEF RcvPlace, a, b
    <3>2. o.next = With(k.next, Slot(Size, r, p), k.next[Slot(Size, r, x)]) /\ o.head = k.head
      BY <1>0, <1>2, <1>5, <2>2, <3>1 DEF RcvPlace, a, b
    <3> QED
      BY <1>1, <3>1, <3>2, ForwardSkip
  <2> QED
    BY <2>1, <2>2
<1>8. Backward(Size, r, o.prior, o.tail, S \ {x})
  <2>1. CASE IsGreatest(S, x)
    <3>1. a = None
      BY <1>0, <1>2, <2>1 DEF RcvPlace, a, b, None
    <3>2. /\ Backward(Size, r, k.prior, k.prior[i], S \ {x})
      BY <1>0, <1>1, <2>1, BackwardCut
    <3>3. CASE IsLeast(S, x)
      <4>1. S \ {x} = {}
        BY <2>1, <3>3, <1>3 DEF IsLeast, IsGreatest
      <4>2. o.prior = k.prior /\ o.tail = k.tail
        BY <1>0, <1>2, <1>5, <3>1, <3>3 DEF RcvPlace, a, b
      <4>3. \A p, q : ~ IsLeast(S \ {x}, p) /\ ~ IsGreatest(S \ {x}, p) /\ ~ Adjacent(S \ {x}, p, q)
        BY <4>1 DEF IsLeast, IsGreatest, Adjacent
      <4> QED
        BY <1>1, <4>2, <4>3 DEF Backward
    <3>4. CASE ~ IsLeast(S, x)
      <4>1. o.prior = k.prior /\ o.tail = k.prior[i]
        BY <1>0, <1>2, <1>5, <3>1, <3>4 DEF RcvPlace, a, b
      <4> QED
        BY <3>2, <4>1
    <3> QED
      BY <3>3, <3>4
  <2>2. CASE ~ IsGreatest(S, x)
    <3>1. PICK c \in S : Adjacent(S, x, c) /\ a = Slot(Size, r, c)
      BY <1>0, <1>2, <2>2 DEF RcvPlace, a, b
    <3>2. a # None
      BY <1>3, <3>1 DEF None
    <3>3. i = k.head => k.prior[i] = None
      BY <1>0, <1>2 DEF RcvPlace, None
    <3>4. o.prior = With(k.prior, a, k.prior[i]) /\ o.tail = k.tail
      BY <1>4a, <1>5, <3>2, <3>3
    <3>5. o.prior = With(k.prior, Slot(Size, r, c), k.prior[Slot(Size, r, x)])
      BY <1>0, <3>1, <3>4
    <3> QED
      BY <1>1, <3>1, <3>4, <3>5, BackwardSkip
  <2> QED
    BY <2>1, <2>2
<1> QED
  BY <1>1, <1>5, <1>6, <1>7, <1>8 DEF RcvArrays

LEMMA RcvFree ==
  ASSUME NEW k, NEW r, NEW S, NEW e, RcvArrays(k, r, S, e), Spread(Size, S),
         NEW y \in Int, y \notin S, Nearby(Size, S, y)
  PROVE  k.data1[Slot(Size, r, y)] = -1 /\ k.data2[Slot(Size, r, y)] = -1
<1>1. r \in Int /\ Size \in Nat \ {0} /\ MaxSeqNo + 1 \in Nat \ {0}
  BY RcvConstants DEF RcvArrays
<1>2. Nodes(MaxSeqNo + 1, Size, r, k.data1, k.data2, S, e)
  BY DEF RcvArrays
<1> QED
  BY <1>1, <1>2, FreeSlot

\* The neighbouring slot of a node.
LEMMA RcvNextSlot ==
  ASSUME NEW k, NEW r, NEW S, NEW e \in [Int -> Int], RcvArrays(k, r, S, e), NEW x \in Int, x + 1 \notin S,
         Spread(Size, S \cup {x + 1}), NEW b \in S, NEW p, p = Slot(Size, r, b),
         NEW j, j = (Slot(Size, r, x) + 1) % Size
  PROVE  /\ j = Slot(Size, r, x + 1) /\ j \in Slots /\ p \in Slots /\ p # j
         /\ k.data2[j] = None /\ Spread(Size, S)
<1>1. r \in Int /\ Size \in Nat \ {0} /\ Size \in Nat /\ Slots = 0 .. Size - 1 /\ MaxSeqNo + 1 \in Nat \ {0}
  BY RcvConstants DEF RcvArrays, Slots
<1>2. x + 1 \in Int /\ b \in Int
  BY DEF Spread
<1>3. j = Slot(Size, r, x + 1)
  <2>1. \A v, d \in Int : (Slot(Size, r, v) + d) % Size = Slot(Size, r, v + d)
    BY <1>1, SlotFacts
  <2> QED
    BY <2>1
<1>4. j \in Slots /\ p \in Slots /\ p # j
  <2>1. /\ Slot(Size, r, x + 1) \in 0 .. Size - 1 /\ Slot(Size, r, b) \in 0 .. Size - 1
        /\ Slot(Size, r, b) = Slot(Size, r, x + 1) => b = x + 1
    <3> DEFINE T == S \cup {x + 1}
    <3>1. /\ \A a \in T : a \in Int /\ Slot(Size, r, a) \in 0 .. Size - 1
          /\ \A a, c \in T : Slot(Size, r, a) = Slot(Size, r, c) => a = c
      BY <1>1, OwnSlots
    <3>2. x + 1 \in T /\ b \in T
      OBVIOUS
    <3> HIDE DEF T
    <3> QED
      BY <3>1, <3>2
  <2> QED
    BY <1>1, <1>3, <2>1
<1>5. Spread(Size, S) /\ Nearby(Size, S, x + 1)
  BY DEF Spread, Nearby
<1>6. k.data2[j] = -1
  <2> DEFINE y == x + 1
  <2>1. y \in Int /\ y \notin S /\ j = Slot(Size, r, y) /\ Nearby(Size, S, y)
    BY <1>2, <1>3, <1>5
  <2> HIDE DEF y
  <2>3. k.data2[Slot(Size, r, y)] = -1
    BY <1>5, <2>1, RcvFree
  <2> QED
    BY <2>1, <2>3
<1> QED
  BY <1>3, <1>4, <1>5, <1>6 DEF None

\* The end that is written for a range from x to y.
LEMMA RcvReach ==
  ASSUME NEW x \in Int, NEW y \in Int, x <= y, y - x < SeqNoTH
  PROVE  Reach(Wrap(y), Wrap(x), None) = IF y = x THEN -1 ELSE Carried(MaxSeqNo + 1, y)
<1>1. y - x < SeqNoTH /\ x - y < SeqNoTH
  BY RcvConstants
<1>2. seqcmp(Wrap(y), Wrap(x)) > 0 <=> y > x
  BY <1>1, RcvCompares
<1>3. Wrap(y) = Carried(MaxSeqNo + 1, y)
  BY RcvSteps
<1>4. CASE y > x
  BY <1>2, <1>3, <1>4 DEF Reach
<1>5. CASE y = x
  BY <1>2, <1>5 DEF Reach, None
<1> QED
  BY <1>4, <1>5

LEMMA RcvAdvancedHolds ==
  ASSUME NEW k, NEW r, NEW S, NEW e \in [Int -> Int], RcvArrays(k, r, S, e), NEW x \in S,
         NEW v, v = x + 1, v \notin S, Spread(Size, S \cup {v}), x < e[x], e[x] - x < SeqNoTH,
         NEW o, o = Advanced(k, Slot(Size, r, x)),
         NEW f, f = With(e, v, e[x]), NEW U, U = (S \ {x}) \cup {v}
  PROVE  RcvArrays(o, r, U, f) /\ o.length = k.length
<1> DEFINE i == Slot(Size, r, x)
           j == (i + 1) % Size
           u == x + 1
           y == e[x]
           first == Wrap(u)
<1>1. /\ r \in Int /\ Size \in Nat \ {0} /\ Slots = 0 .. Size - 1 /\ MaxSeqNo + 1 \in Nat \ {0} /\ k \in RcvLists
      /\ Nodes(MaxSeqNo + 1, Size, r, k.data1, k.data2, S, e)
      /\ Forward(Size, r, k.next, k.head, S) /\ Backward(Size, r, k.prior, k.tail, S)
  BY RcvConstants DEF RcvArrays, Slots
<1>2. x \in Int /\ u \in Int /\ y \in Int /\ y \in Int /\ u <= y /\ y - u < SeqNoTH /\ u # x
  <2>1. x \in Int /\ SeqNoTH \in Nat
    BY RcvConstants DEF Spread
  <2>2. e[x] \in Int
    BY <2>1
  <2> QED
    BY <2>1, <2>2
<1>3. /\ j = Slot(Size, r, u) /\ j \in Slots /\ i \in Slots /\ i # j /\ k.data2[j] = None /\ Spread(Size, S)
      /\ \A b \in S : Slot(Size, r, b) \in Slots \ {j}
  <2>1. /\ j = Slot(Size, r, x + 1) /\ j \in Slots /\ k.data2[j] = None /\ Spread(Size, S)
        /\ \A b \in S : Slot(Size, r, b) \in Slots /\ Slot(Size, r, b) # j
    BY <1>2, RcvNextSlot
  <2> QED
    BY <2>1
<1>4. k.data1[i] = Wrap(x) /\ k.data2[i] = Wrap(y)
  BY <1>3, <1>2, RcvNodeData
<1>5. RcvPlace(k, r, S, x)
  BY <1>3, RcvNode
<1>6. first \in 0 .. MaxSeqNo /\ first = incseq(k.data1[i]) /\ first = Carried(MaxSeqNo + 1, u)
  <2>1. incseq(Wrap(x)) = Wrap(x + 1)
    BY <1>2, RcvSteps
  <2>2. Wrap(u) \in 0 .. MaxSeqNo /\ Wrap(u) = Carried(MaxSeqNo + 1, u)
    BY <1>2, RcvSteps
  <2> QED
    BY <1>4, <2>1, <2>2
<1>7. /\ i = k.head <=> IsLeast(S, x)
      /\ i = k.tail <=> IsGreatest(S, x)
      /\ ~ IsLeast(S, x) => \E b \in S : Adjacent(S, b, x) /\ k.prior[i] = Slot(Size, r, b)
      /\ ~ IsGreatest(S, x) => \E c \in S : Adjacent(S, x, c) /\ k.next[i] = Slot(Size, r, c)
  BY <1>5 DEF RcvPlace
<1>8. i = Slot(Size, r, x) /\ j = (i + 1) % Size /\ o = Advanced(k, i) /\ Spread(Size, S \cup {u}) /\ u = x + 1 /\ y = e[x]
  OBVIOUS
<1> HIDE DEF i, j, first, u, y
<1>9. (i # k.head => k.prior[i] \in Slots \ {j}) /\ (i # k.tail => k.next[i] \in Slots)
  BY <1>3, <1>7
<1>10. /\ o \in RcvLists /\ o.length = k.length
       /\ o.data1 = With(With(k.data1, j, first), i, None)
       /\ o.data2 = With(With(k.data2, j, Reach(k.data2[i], first, k.data2[j])), i, None)
       /\ o.head = (IF i = k.head THEN j ELSE k.head)
       /\ o.tail = (IF i = k.tail THEN j ELSE k.tail)
       /\ o.next = (IF i = k.head THEN With(k.next, j, k.next[i])
                    ELSE With(With(k.next, j, k.next[i]), k.prior[i], j))
       /\ o.prior = IF i = k.tail THEN With(k.prior, j, k.prior[i])
                    ELSE With(With(k.prior, j, k.prior[i]), k.next[i], j)
  <2>1. IsAdvanced(k, i, j, first, o)
    BY <1>1, <1>3, <1>6, <1>8, <1>9, RcvAdvancedIs
  <2> QED
    BY <2>1 DEF IsAdvanced
<1>11. Nodes(MaxSeqNo + 1, Size, r, o.data1, o.data2, (S \ {x}) \cup {u}, With(e, u, y))
  <2> DEFINE w == Reach(k.data2[i], first, k.data2[j])
             f1 == With(k.data1, j, first)
             f2 == With(k.data2, j, w)
  <2>1. w = IF y = u THEN -1 ELSE Carried(MaxSeqNo + 1, y)
    BY <1>2, <1>3, <1>4, RcvReach DEF first
  <2>2. o.data1 = With(f1, i, -1) /\ o.data2 = With(f2, i, -1)
    BY <1>10 DEF None
  <2>3. f1 = With(k.data1, Slot(Size, r, u), Carried(MaxSeqNo + 1, u)) /\ f2 = With(k.data2, Slot(Size, r, u), w)
    BY <1>3, <1>6
  <2>4. Nearby(Size, S, u)
    BY <1>8 DEF Spread, Nearby
  <2>45. f = With(e, u, y)
    BY <1>8
  <2> HIDE DEF w, f1, f2
  <2>5. Nodes(MaxSeqNo + 1, Size, r, f1, f2, S \cup {u}, f)
    <3>1. Nodes(MaxSeqNo + 1, Size, r, f1, f2, S \cup {u}, With(e, u, y))
      BY <1>1, <1>2, <1>3, <1>8, <2>1, <2>3, <2>4, NodeAdded
    <3> QED
      BY <2>45, <3>1
  <2>6. f \in [Int -> Int]
    BY <1>2, <2>45 DEF With
  <2>7. x \in S \cup {u} /\ (S \cup {u}) \ {x} = (S \ {x}) \cup {u}
    BY <1>2
  <2>8. Nodes(MaxSeqNo + 1, Size, r, o.data1, o.data2, (S \cup {u}) \ {x}, f)
    BY <1>1, <1>8, <2>2, <2>5, <2>6, <2>7, NodeRemoved
  <2> QED
    BY <2>7, <2>8, <2>45
<1>12. Forward(Size, r, o.next, o.head, (S \ {x}) \cup {u})
  <2>1. CASE IsLeast(S, x)
    <3>1. o.next = With(k.next, Slot(Size, r, x + 1), k.next[Slot(Size, r, x)]) /\ o.head = Slot(Size, r, x + 1)
      BY <1>3, <1>7, <1>8, <1>10, <2>1
    <3>2. x + 1 \notin S /\ Spread(Size, S \cup {x + 1})
      OBVIOUS
    <3>3. Forward(Size, r, o.next, Slot(Size, r, x + 1), (S \ {x}) \cup {x + 1})
      BY <1>1, <2>1, <3>1, <3>2, ForwardShiftHead
    <3> QED
      BY <1>8, <3>1, <3>3
  <2>2. CASE ~ IsLeast(S, x)
    <3>1. PICK b \in S : Adjacent(S, b, x) /\ k.prior[i] = Slot(Size, r, b)
      BY <1>7, <2>2
    <3>2. /\ o.next = With(With(k.next, Slot(Size, r, x + 1), k.next[Slot(Size, r, x)]), Slot(Size, r, b), Slot(Size, r, x + 1))
          /\ o.head = k.head
      BY <1>3, <1>7, <1>8, <1>10, <2>2, <3>1
    <3>3. x + 1 \notin S /\ Spread(Size, S \cup {x + 1})
      OBVIOUS
    <3>4. Forward(Size, r, o.next, o.head, (S \ {x}) \cup {x + 1})
      BY <1>1, <3>1, <3>2, <3>3, ForwardShift
    <3> QED
      BY <1>8, <3>4
  <2> QED
    BY <2>1, <2>2
<1>13. Backward(Size, r, o.prior, o.tail, (S \ {x}) \cup {u})
  <2>1. CASE IsGreatest(S, x)
    <3>1. o.prior = With(k.prior, Slot(Size, r, x + 1), k.prior[Slot(Size, r, x)]) /\ o.tail = Slot(Size, r, x + 1)
      BY <1>3, <1>7, <1>8, <1>10, <2>1
    <3>2. x + 1 \notin S /\ Spread(Size, S \cup {x + 1})
      OBVIOUS
    <3>3. Backward(Size, r, o.prior, Slot(Size, r, x + 1), (S \ {x}) \cup {x + 1})
      BY <1>1, <2>1, <3>1, <3>2, BackwardShiftTail
    <3> QED
      BY <1>8, <3>1, <3>3
  <2>2. CASE ~ IsGreatest(S, x)
    <3>1. PICK c \in S : Adjacent(S, x, c) /\ k.next[i] = Slot(Size, r, c)
      BY <1>7, <2>2
    <3>2. /\ o.prior = With(With(k.prior, Slot(Size, r, x + 1), k.prior[Slot(Size, r, x)]), Slot(Size, r, c), Slot(Size, r, x + 1))
          /\ o.tail = k.tail
      BY <1>3, <1>7, <1>8, <1>10, <2>2, <3>1
    <3>3. x + 1 \notin S /\ Spread(Size, S \cup {x + 1})
      OBVIOUS
    <3>4. Backward(Size, r, o.prior, o.tail, (S \ {x}) \cup {x + 1})
      BY <1>1, <3>1, <3>2, <3>3, BackwardShift
    <3> QED
      BY <1>8, <3>4
  <2> QED
    BY <2>1, <2>2
<1>14. RcvArrays(o, r, (S \ {x}) \cup {u}, With(e, u, y))
  BY <1>1, <1>10, <1>11, <1>12, <1>13 DEF RcvArrays
<1> QED
  BY <1>8, <1>10, <1>14

LEMMA WithCommutes ==
  ASSUME NEW f, NEW a, NEW b, NEW x, NEW y, a # b
  PROVE  With(With(f, a, x), b, y) = With(With(f, b, y), a, x)
BY DEF With

\* The end that is left for a range from b that is cut before x.
LEMMA RcvEndBefore ==
  ASSUME NEW b \in Int, NEW x \in Int, b < x, x - b < SeqNoTH
  PROVE  /\ EndBefore(Wrap(b), Wrap(x)) = IF x - 1 = b THEN -1 ELSE Carried(MaxSeqNo + 1, x - 1)
         /\ decseq(Wrap(x)) \in 0 .. MaxSeqNo
<1>1. b + 1 \in Int /\ x - (b + 1) < SeqNoTH /\ (b + 1) - x < SeqNoTH /\ x - 1 \in Int
  BY RcvConstants
<1>2. incseq(Wrap(b)) = Wrap(b + 1) /\ decseq(Wrap(x)) = Wrap(x - 1)
  BY RcvSteps
<1>3. Wrap(x) = Wrap(b + 1) <=> x = b + 1
  <2> DEFINE c == b + 1
  <2>1. c \in Int /\ x - c < SeqNoTH /\ c - x < SeqNoTH
    BY <1>1
  <2> HIDE DEF c
  <2>2. Wrap(x) = Wrap(c) <=> x = c
    BY <2>1, RcvCompares
  <2> QED
    BY <2>2 DEF c
<1>4. Wrap(x - 1) \in 0 .. MaxSeqNo /\ Wrap(x - 1) = Carried(MaxSeqNo + 1, x - 1)
  BY <1>1, RcvSteps
<1>5. CASE x = b + 1
  BY <1>2, <1>4, <1>5 DEF EndBefore, None
<1>6. CASE x # b + 1
  BY <1>2, <1>3, <1>4, <1>6 DEF EndBefore
<1> QED
  BY <1>5, <1>6

LEMMA RcvCutHolds ==
  ASSUME NEW k, NEW r, NEW S, NEW e \in [Int -> Int], RcvArrays(k, r, S, e), Spread(Size, S), NEW b \in S,
         NEW x \in Int, b < x, x - b < SeqNoTH,
         NEW o, o = CutBefore(k, Slot(Size, r, b), Wrap(x))
  PROVE  RcvArrays(o, r, S, With(e, b, x - 1)) /\ o.length = k.length
<1> DEFINE i == Slot(Size, r, b)
           y == x - 1
           seq == Wrap(x)
           w == EndBefore(k.data1[i], seq)
<1>1. /\ r \in Int /\ Size \in Nat \ {0} /\ Slots = 0 .. Size - 1 /\ MaxSeqNo + 1 \in Nat \ {0} /\ k \in RcvLists
      /\ Nodes(MaxSeqNo + 1, Size, r, k.data1, k.data2, S, e)
      /\ Forward(Size, r, k.next, k.head, S) /\ Backward(Size, r, k.prior, k.tail, S)
  BY RcvConstants DEF RcvArrays, Slots
<1>2. b \in Int /\ y \in Int
  BY DEF Spread
<1>3. i \in Slots
  BY <1>1, <1>2, SlotFacts
<1>4. k.data1[i] = Wrap(b)
  BY RcvNodeData
<1>5. w = (IF y = b THEN -1 ELSE Carried(MaxSeqNo + 1, y)) /\ decseq(seq) \in 0 .. MaxSeqNo
  BY <1>2, <1>4, RcvEndBefore
<1>6. i = Slot(Size, r, b) /\ o = CutBefore(k, i, seq) /\ y = x - 1
  OBVIOUS
<1> HIDE DEF i, seq, y
<1>7. IsCut(k, i, seq, o)
  BY <1>1, <1>3, <1>5, <1>6, RcvCutIs
<1> HIDE DEF w
<1>8. /\ o \in RcvLists /\ o.length = k.length /\ o.next = k.next /\ o.prior = k.prior
      /\ o.head = k.head /\ o.tail = k.tail /\ o.data1 = k.data1
      /\ o.data2 = With(k.data2, Slot(Size, r, b), w)
  BY <1>6, <1>7 DEF IsCut, w
<1>9. Nodes(MaxSeqNo + 1, Size, r, o.data1, o.data2, S, With(e, b, y))
  <2>1. Nodes(MaxSeqNo + 1, Size, r, k.data1, o.data2, S, With(e, b, y))
    BY <1>1, <1>2, <1>5, <1>8, NodeEnds
  <2> QED
    BY <1>8, <2>1
<1>10. RcvArrays(o, r, S, With(e, b, y))
  BY <1>1, <1>8, <1>9 DEF RcvArrays
<1> QED
  BY <1>6, <1>8, <1>10

SlotAfter(i) == (i + 1) % Size

LEMMA RcvSplitHolds ==
  ASSUME NEW k, NEW r, NEW S, NEW e, RcvArrays(k, r, S, e), Ranges(S, e),
         NEW b, NEW z1, NEW u1, NEW U, NEW f1, SplitAt(S, e, b, z1, u1, U, f1), Short(e, b, SeqNoTH),
         NEW x, Around(x, z1, u1),
         u1 \notin S, Spread(Size, S \cup {u1}), \A c \in S : c <= b \/ u1 < c,
         NEW o, o = Split(k, Slot(Size, r, b), SlotAfter(Slot(Size, r, x)), Wrap(x))
  PROVE  RcvArrays(o, r, U, f1) /\ o.length = k.length
<1>0. /\ e \in [Int -> Int] /\ e[b] - b < SeqNoTH /\ x \in Int /\ b \in S /\ b < x /\ x < e[b] /\ b \in Int
      /\ x + 1 \notin S /\ Spread(Size, S \cup {x + 1}) /\ \A c \in S : c <= b \/ x + 1 < c
      /\ U = S \cup {x + 1} /\ f1 = With(With(e, b, x - 1), x + 1, e[b])
  <2>0. x \in Int /\ z1 = x - 1 /\ u1 = x + 1
    BY DEF Around
  <2>1. b \in S /\ b <= x - 1 /\ x + 1 <= e[b] /\ b \in Int
    BY <2>0 DEF SplitAt, Spread
  <2>2. e \in [Int -> Int] /\ e[b] \in Int /\ e[b] - b < SeqNoTH
    BY <2>1 DEF Ranges, Short
  <2>3. b < x /\ x < e[b]
    BY <2>0, <2>1, <2>2
  <2> QED
    BY <2>0, <2>1, <2>2, <2>3 DEF SplitAt
<1> USE <1>0 DEF SlotAfter
<1> DEFINE i == Slot(Size, r, b)
           j == (Slot(Size, r, x) + 1) % Size
           u == x + 1
           y == e[b]
           z == x - 1
           first == Wrap(u)
           seq == Wrap(x)
           w == Reach(k.data2[i], first, k.data2[j])
           v == EndBefore(k.data1[i], seq)
<1>1. /\ r \in Int /\ Size \in Nat \ {0} /\ Slots = 0 .. Size - 1 /\ MaxSeqNo + 1 \in Nat \ {0} /\ k \in RcvLists
      /\ Nodes(MaxSeqNo + 1, Size, r, k.data1, k.data2, S, e)
      /\ Forward(Size, r, k.next, k.head, S) /\ Backward(Size, r, k.prior, k.tail, S)
  BY RcvConstants DEF RcvArrays, Slots
<1>2. b \in Int /\ u \in Int /\ y \in Int /\ u <= y /\ y - u < SeqNoTH /\ u # b /\ b < u /\ z \in Int /\ x - b < SeqNoTH /\ y # b
  <2>1. b \in Int /\ SeqNoTH \in Nat
    BY RcvConstants DEF Spread
  <2>2. e[b] \in Int
    BY <2>1
  <2> QED
    BY <2>1, <2>2
<1>3. /\ j = Slot(Size, r, u) /\ j \in Slots /\ i \in Slots /\ i # j /\ k.data2[j] = None /\ Spread(Size, S)
      /\ \A a \in S : Slot(Size, r, a) \in Slots
  <2>1. /\ j = Slot(Size, r, x + 1) /\ j \in Slots /\ k.data2[j] = None /\ Spread(Size, S)
        /\ \A a \in S : Slot(Size, r, a) \in Slots /\ Slot(Size, r, a) # j
    BY <1>2, RcvNextSlot
  <2> QED
    BY <2>1
<1>4. k.data1[i] = Wrap(b) /\ k.data2[i] = Wrap(y)
  BY <1>3, <1>2, RcvNodeData
<1>5. RcvPlace(k, r, S, b)
  BY <1>3, RcvNode
<1>6. first \in 0 .. MaxSeqNo /\ first = incseq(seq) /\ first = Carried(MaxSeqNo + 1, u)
  <2>1. incseq(Wrap(x)) = Wrap(x + 1)
    BY <1>2, RcvSteps
  <2>2. Wrap(u) \in 0 .. MaxSeqNo /\ Wrap(u) = Carried(MaxSeqNo + 1, u)
    BY <1>2, RcvSteps
  <2> QED
    BY <2>1, <2>2
<1>7. v = (IF z = b THEN -1 ELSE Carried(MaxSeqNo + 1, z)) /\ decseq(seq) \in 0 .. MaxSeqNo
  BY <1>2, <1>4, RcvEndBefore
<1>8. w = IF y = u THEN -1 ELSE Carried(MaxSeqNo + 1, y)
  BY <1>2, <1>3, <1>4, RcvReach DEF first
<1>9. /\ i = k.tail <=> IsGreatest(S, b)
      /\ ~ IsGreatest(S, b) => \E c \in S : Adjacent(S, b, c) /\ k.next[i] = Slot(Size, r, c)
  BY <1>5 DEF RcvPlace
<1>10. /\ i = Slot(Size, r, b) /\ o = Split(k, i, j, seq) /\ Spread(Size, S \cup {u}) /\ u = x + 1 /\ y = e[b]
       /\ z = x - 1 /\ u \notin S
  OBVIOUS
<1>11. \A c \in S : c <= b \/ u < c
  OBVIOUS
<1> HIDE DEF i, j, first, seq, u, y, z
<1>12. IsSplit(k, i, j, seq, first, o)
  <2>1. i # k.tail => k.next[i] \in Slots
    BY <1>3, <1>9
  <2> QED
    BY <1>1, <1>3, <1>6, <1>7, <1>10, <2>1, RcvSplitIs
<1>13. /\ o \in RcvLists /\ o.length = k.length /\ o.head = k.head
       /\ o.data1 = With(k.data1, j, first) /\ o.data2 = With(With(k.data2, j, w), i, v)
       /\ o.tail = (IF i = k.tail THEN j ELSE k.tail)
       /\ o.next = With(With(k.next, j, k.next[i]), i, j)
       /\ o.prior = IF i = k.tail THEN With(k.prior, j, i) ELSE With(With(k.prior, j, i), k.next[i], j)
  BY <1>12 DEF IsSplit
<1> HIDE DEF w, v
<1>14. Nodes(MaxSeqNo + 1, Size, r, o.data1, o.data2, S \cup {u}, With(With(e, b, z), u, y))
  <2> DEFINE f2 == With(k.data2, j, w)
             f == With(e, u, y)
  <2>1. /\ o.data1 = With(k.data1, Slot(Size, r, u), Carried(MaxSeqNo + 1, u)) /\ f2 = With(k.data2, Slot(Size, r, u), w)
        /\ o.data2 = With(f2, Slot(Size, r, b), v)
    BY <1>3, <1>6, <1>10, <1>13
  <2>2. Nearby(Size, S, u)
    BY <1>10 DEF Spread, Nearby
  <2> HIDE DEF f2
  <2>3. Nodes(MaxSeqNo + 1, Size, r, o.data1, f2, S \cup {u}, f)
    BY <1>1, <1>2, <1>3, <1>8, <1>10, <2>1, <2>2, NodeAdded
  <2>4. f \in [Int -> Int]
    BY <1>2 DEF With
  <2>5. b \in S \cup {u}
    OBVIOUS
  <2> HIDE DEF f
  <2>6. Nodes(MaxSeqNo + 1, Size, r, o.data1, o.data2, S \cup {u}, With(f, b, z))
    BY <1>1, <1>2, <1>7, <1>10, <2>1, <2>3, <2>4, <2>5, NodeEnds
  <2>7. With(f, b, z) = With(With(e, b, z), u, y)
    BY <1>2, WithCommutes DEF f
  <2> QED
    BY <2>6, <2>7
<1>15. Forward(Size, r, o.next, o.head, S \cup {u})
  <2>1. o.next = With(With(k.next, Slot(Size, r, u), k.next[Slot(Size, r, b)]), Slot(Size, r, b), Slot(Size, r, u))
    BY <1>3, <1>10, <1>13
  <2> QED
    BY <1>1, <1>2, <1>10, <1>11, <1>13, <2>1, ForwardAfter
<1>16. Backward(Size, r, o.prior, o.tail, S \cup {u})
  <2>1. CASE IsGreatest(S, b)
    <3>1. \A a \in S : a < u
      BY <1>2, <2>1 DEF IsGreatest, Spread
    <3>2. k.tail = (IF S = {} THEN -1 ELSE k.tail) /\ o.prior = With(k.prior, Slot(Size, r, u), k.tail)
      BY <1>3, <1>9, <1>13, <2>1
    <3>3. Backward(Size, r, o.prior, Slot(Size, r, u), S \cup {u})
      BY <1>1, <1>10, <3>1, <3>2, BackwardLast
    <3> QED
      BY <1>3, <1>9, <1>13, <2>1, <3>3
  <2>2. CASE ~ IsGreatest(S, b)
    <3>1. PICK c \in S : Adjacent(S, b, c) /\ k.next[i] = Slot(Size, r, c)
      BY <1>9, <2>2
    <3>2. k.prior[Slot(Size, r, c)] = i
      BY <1>1, <1>10, <3>1 DEF Backward
    <3>3. /\ o.prior = With(With(k.prior, Slot(Size, r, u), k.prior[Slot(Size, r, c)]), Slot(Size, r, c), Slot(Size, r, u))
          /\ o.tail = k.tail
      BY <1>3, <1>9, <1>13, <2>2, <3>1, <3>2
    <3>4. u < c /\ \A a \in S : a < u \/ c <= a
      <4>1. \A a \in S : a \in Int
        BY <1>3 DEF Spread
      <4>2. b < c /\ \A a \in S : a <= b \/ c <= a
        BY <3>1 DEF Adjacent
      <4> QED
        BY <1>2, <1>11, <4>1, <4>2
    <3> QED
      BY <1>1, <1>10, <3>3, <3>4, BackwardBefore
  <2> QED
    BY <2>1, <2>2
<1>17. RcvArrays(o, r, S \cup {u}, With(With(e, b, z), u, y))
  BY <1>1, <1>13, <1>14, <1>15, <1>16 DEF RcvArrays
<1> QED
  BY <1>10, <1>13, <1>17

-----------------------------------------------------------------------------
(* insert                                                                   *)

LEMMA WithTyped ==
  ASSUME NEW D, NEW R, NEW f \in [D -> R], NEW a \in D, NEW v \in R
  PROVE  With(f, a, v) \in [D -> R]
BY DEF With

\* n more numbers, from first to last, in the free slot i.
IsFilled(k, i, first, last, n, o) ==
  /\ o \in RcvLists /\ o.length = k.length + n /\ o.next = k.next /\ o.prior = k.prior
  /\ o.head = k.head /\ o.tail = k.tail
  /\ o.data1 = With(k.data1, i, first)
  /\ o.data2 = With(k.data2, i, IF last = first THEN -1 ELSE last)

LEMMA RcvFilledIs ==
  ASSUME NEW k \in RcvLists, NEW i \in Slots, NEW first \in 0 .. MaxSeqNo, NEW last \in 0 .. MaxSeqNo, NEW n \in Nat,
         k.data2[i] = None, NEW o, o = Fill([k EXCEPT !.length = @ + n], i, first, last)
  PROVE  IsFilled(k, i, first, last, n, o)
<1> DEFINE longer == [k EXCEPT !.length = @ + n]
<1>1. /\ longer \in RcvLists /\ longer.length = k.length + n /\ longer.next = k.next /\ longer.prior = k.prior
      /\ longer.head = k.head /\ longer.tail = k.tail /\ longer.data1 = k.data1 /\ longer.data2 = k.data2
  BY DEF RcvLists
<1>2. first \in None .. MaxSeqNo /\ last \in None .. MaxSeqNo
  BY DEF None
<1>3. o = Fill(longer, i, first, last)
  OBVIOUS
<1> HIDE DEF longer
<1>4. longer.data1 \in [Slots -> None .. MaxSeqNo] /\ longer.data2 \in [Slots -> None .. MaxSeqNo]
  <2>1. longer \in RcvLists
    BY <1>1
  <2> QED
    BY <2>1 DEF RcvLists
<1> DEFINE w  == IF last = first THEN -1 ELSE last
           d1 == With(longer.data1, i, first)
           d2 == With(longer.data2, i, w)
<1>5. w \in None .. MaxSeqNo
  BY <1>2, RcvConstants DEF None
<1>6. d1 \in [Slots -> None .. MaxSeqNo] /\ d2 \in [Slots -> None .. MaxSeqNo]
  BY <1>2, <1>4, <1>5, WithTyped
<1>7. d2 = With(longer.data2, i, IF first # last THEN last ELSE longer.data2[i])
  BY <1>1, <1>4 DEF With, None
<1>8. o = [longer EXCEPT !.data1 = d1, !.data2 = d2]
  <2>1. o = [longer EXCEPT !.data1 = d1, !.data2 = With(longer.data2, i, IF first # last THEN last ELSE longer.data2[i])]
    BY <1>3 DEF Fill, With
  <2> QED
    BY <1>7, <2>1
<1>9. d1 = With(k.data1, i, first) /\ d2 = With(k.data2, i, w)
  BY <1>1
<1> HIDE DEF d1, d2
<1>10. /\ o \in RcvLists /\ o.length = longer.length /\ o.next = longer.next /\ o.prior = longer.prior
       /\ o.head = longer.head /\ o.tail = longer.tail /\ o.data1 = d1 /\ o.data2 = d2
  <2>1. longer \in RcvLists
    BY <1>1
  <2> QED
    BY <1>6, <1>8, <2>1 DEF RcvLists
<1> QED
  BY <1>1, <1>9, <1>10 DEF IsFilled

IsOpened(first, last, n, o) ==
  /\ o \in RcvLists /\ o.length = n /\ o.head = 0 /\ o.tail = 0
  /\ o.next = With(l.next, 0, -1) /\ o.prior = With(l.prior, 0, -1)
  /\ o.data1 = With(l.data1, 0, first)
  /\ o.data2 = With(l.data2, 0, IF last = first THEN -1 ELSE last)

\* Into the empty list.
LEMMA RcvOpenedIs ==
  ASSUME l \in RcvLists, l.length = 0, l.data2[0] = None,
         NEW first \in 0 .. MaxSeqNo, NEW last \in 0 .. MaxSeqNo, NEW n \in Nat, n = seqlen(first, last),
         NEW o, o = Inserted(first, last)
  PROVE  IsOpened(first, last, n, o)
<1> DEFINE full == Fill([l EXCEPT !.length = @ + n], 0, first, last)
<1>1. 0 \in Slots /\ 0 \in None .. Size - 1 /\ -1 \in None .. Size - 1
  BY RcvConstants DEF Slots, None
<1>2. IsFilled(l, 0, first, last, n, full)
  <2>1. full = Fill([l EXCEPT !.length = @ + n], 0, first, last)
    OBVIOUS
  <2> HIDE DEF full
  <2> QED
    BY <1>1, <2>1, RcvFilledIs
<1>3. o = [full EXCEPT !.head = 0, !.tail = 0, !.next[0] = None, !.prior[0] = None]
  BY DEF Inserted
<1> HIDE DEF full
<1>4. /\ full \in RcvLists /\ full.length = n /\ full.next = l.next /\ full.prior = l.prior
      /\ full.data1 = With(l.data1, 0, first) /\ full.data2 = With(l.data2, 0, IF last = first THEN -1 ELSE last)
  BY <1>2 DEF IsFilled
<1>5. /\ o \in RcvLists /\ o.length = full.length /\ o.head = 0 /\ o.tail = 0
      /\ o.next = With(full.next, 0, -1) /\ o.prior = With(full.prior, 0, -1)
      /\ o.data1 = full.data1 /\ o.data2 = full.data2
  <2> DEFINE x == With(full.next, 0, -1)
             y == With(full.prior, 0, -1)
  <2>1. full \in RcvLists
    BY <1>4
  <2>2. x \in [Slots -> None .. Size - 1] /\ y \in [Slots -> None .. Size - 1]
    BY <1>1, <2>1, WithTyped DEF RcvLists
  <2>3. o = [full EXCEPT !.head = 0, !.tail = 0, !.next = x, !.prior = y]
    BY <1>3 DEF With, None
  <2> HIDE DEF x, y
  <2>4. /\ o \in RcvLists /\ o.length = full.length /\ o.head = 0 /\ o.tail = 0
        /\ o.next = x /\ o.prior = y /\ o.data1 = full.data1 /\ o.data2 = full.data2
    BY <1>1, <2>1, <2>2, <2>3 DEF RcvLists
  <2> QED
    BY <2>4 DEF x, y
<1> QED
  BY <1>4, <1>5 DEF IsOpened

IsExtended(last, n, o) ==
  /\ o \in RcvLists /\ o.length = l.length + n /\ o.head = l.head /\ o.tail = l.tail
  /\ o.next = l.next /\ o.prior = l.prior /\ o.data1 = l.data1
  /\ o.data2 = With(l.data2, l.tail, last)

\* At the end of the last range.
LEMMA RcvExtendedIs ==
  ASSUME l \in RcvLists, l.length # 0, l.tail \in Slots,
         NEW first \in 0 .. MaxSeqNo, NEW last \in 0 .. MaxSeqNo, NEW n \in Nat, n = seqlen(first, last),
         l.data2[l.tail] # None, incseq(l.data2[l.tail]) = first,
         NEW o, o = Inserted(first, last)
  PROVE  IsExtended(last, n, o)
<1>1. last \in None .. MaxSeqNo
  BY DEF None
<1>2. o = [[l EXCEPT !.length = @ + n] EXCEPT !.data2[l.tail] = last]
  BY DEF Inserted
<1> DEFINE d2 == With(l.data2, l.tail, last)
<1>3. d2 \in [Slots -> None .. MaxSeqNo]
  BY <1>1, WithTyped DEF RcvLists
<1>4. o = [l EXCEPT !.length = l.length + n, !.data2 = d2]
  BY <1>2 DEF With, RcvLists
<1> HIDE DEF d2
<1>5. /\ o \in RcvLists /\ o.length = l.length + n /\ o.head = l.head /\ o.tail = l.tail
      /\ o.next = l.next /\ o.prior = l.prior /\ o.data1 = l.data1 /\ o.data2 = d2
  <2> DEFINE m == l.length + n
  <2>1. m \in Nat
    BY DEF RcvLists
  <2>2. o = [l EXCEPT !.length = m, !.data2 = d2]
    BY <1>4
  <2> HIDE DEF m
  <2>3. /\ o \in RcvLists /\ o.length = m /\ o.head = l.head /\ o.tail = l.tail
        /\ o.next = l.next /\ o.prior = l.prior /\ o.data1 = l.data1 /\ o.data2 = d2
    BY <1>3, <2>1, <2>2 DEF RcvLists
  <2> QED
    BY <2>3 DEF m
<1> QED
  BY <1>5 DEF d2, IsExtended

IsAppended(i, first, last, n, o) ==
  /\ o \in RcvLists /\ o.length = l.length + n /\ o.head = l.head /\ o.tail = i
  /\ o.next = With(With(l.next, l.tail, i), i, -1) /\ o.prior = With(l.prior, i, l.tail)
  /\ o.data1 = With(l.data1, i, first)
  /\ o.data2 = With(l.data2, i, IF last = first THEN -1 ELSE last)

\* After the last range.
LEMMA RcvAppendedIs ==
  ASSUME l \in RcvLists, l.length # 0, l.tail \in Slots,
         NEW first \in 0 .. MaxSeqNo, NEW last \in 0 .. MaxSeqNo, NEW n \in Nat, n = seqlen(first, last),
         l.data2[l.tail] = None \/ incseq(l.data2[l.tail]) # first,
         NEW i \in Slots, i = Place(first), l.data2[i] = None,
         NEW o, o = Inserted(first, last)
  PROVE  IsAppended(i, first, last, n, o)
<1> DEFINE full == Fill([l EXCEPT !.length = @ + n], i, first, last)
           t == l.tail
<1>1. i \in None .. Size - 1 /\ -1 \in None .. Size - 1 /\ t \in Slots /\ t \in None .. Size - 1
  BY RcvConstants DEF Slots, None
<1>2. IsFilled(l, i, first, last, n, full)
  <2>1. full = Fill([l EXCEPT !.length = @ + n], i, first, last)
    OBVIOUS
  <2> HIDE DEF full
  <2> QED
    BY <1>1, <2>1, RcvFilledIs
<1>3. o = [full EXCEPT !.next[t] = i, !.prior[i] = t, !.next[i] = None, !.tail = i]
  BY DEF Inserted
<1> HIDE DEF full
<1>4. /\ full \in RcvLists /\ full.length = l.length + n /\ full.next = l.next /\ full.prior = l.prior /\ full.head = l.head
      /\ full.data1 = With(l.data1, i, first) /\ full.data2 = With(l.data2, i, IF last = first THEN -1 ELSE last)
  BY <1>2 DEF IsFilled
<1> HIDE DEF t
<1>5. /\ o \in RcvLists /\ o.length = full.length /\ o.head = full.head /\ o.tail = i
      /\ o.next = With(With(full.next, t, i), i, -1) /\ o.prior = With(full.prior, i, t)
      /\ o.data1 = full.data1 /\ o.data2 = full.data2
  <2> DEFINE z == With(full.next, t, i)
             x == With(z, i, -1)
             y == With(full.prior, i, t)
  <2>1. full \in RcvLists
    BY <1>4
  <2>2. z \in [Slots -> None .. Size - 1] /\ y \in [Slots -> None .. Size - 1]
    BY <1>1, <2>1, WithTyped DEF RcvLists
  <2>3. o = [full EXCEPT !.next = x, !.prior = y, !.tail = i]
    BY <1>3 DEF With, None
  <2> HIDE DEF z
  <2>4. x \in [Slots -> None .. Size - 1]
    BY <1>1, <2>2, WithTyped
  <2> HIDE DEF x, y
  <2>5. /\ o \in RcvLists /\ o.length = full.length /\ o.head = full.head /\ o.tail = i
        /\ o.next = x /\ o.prior = y /\ o.data1 = full.data1 /\ o.data2 = full.data2
    BY <1>1, <2>1, <2>2, <2>3, <2>4 DEF RcvLists
  <2> QED
    BY <2>5 DEF x, y, z
<1> QED
  BY <1>4, <1>5 DEF t, IsAppended

-----------------------------------------------------------------------------
(* remove                                                                   *)

LEMMA RcvNodeBefore ==
  ASSUME NEW k, NEW r, NEW S, NEW e, RcvArrays(k, r, S, e), Spread(Size, S), NEW x \in Int, x \notin S, Nearby(Size, S, x),
         NEW b \in S, b < x, \A c \in S : c <= b \/ x <= c
  PROVE  NodeBefore(k, Slot(Size, r, x)) = Slot(Size, r, b)
<1> DEFINE i == Slot(Size, r, x)
           At(d) == (i - d) % Size
           P(d) == /\ k.data1[At(d)] # None
                   /\ \A f \in 1 .. d - 1 : k.data1[At(f)] = None
<1>1. r \in Int /\ Size \in Nat \ {0} /\ b \in Int
  BY RcvConstants DEF RcvArrays, Spread
<1>2. ASSUME NEW d \in Int
      PROVE  At(d) = Slot(Size, r, x - d)
  <2>1. \A u, v \in Int : (Slot(Size, r, u) + v) % Size = Slot(Size, r, u + v)
    BY <1>1, SlotFacts
  <2>2. i \in Int /\ i - d = i + (-d) /\ x - d = x + (-d) /\ -d \in Int
    <3>1. i \in 0 .. Size - 1
      BY <1>1, SlotFacts
    <3> HIDE DEF i
    <3> QED
      BY <1>1, <3>1
  <2> QED
    BY <2>1, <2>2
<1>3. x - b \in 1 .. Size
  BY <1>1 DEF Nearby
<1>4. k.data1[At(x - b)] # None
  <2>1. x - (x - b) = b /\ x - b \in Int
    BY <1>1
  <2>2. At(x - b) = Slot(Size, r, b)
    BY <1>2, <2>1
  <2>3. k.data1[Slot(Size, r, b)] # None
    BY RcvNodeData
  <2> QED
    BY <2>2, <2>3
<1>5. ASSUME NEW f \in 1 .. (x - b) - 1
      PROVE  k.data1[At(f)] = None
  <2> DEFINE y == x - f
  <2>1. y \in Int /\ b < y /\ y < x /\ f \in Int
    BY <1>1
  <2>4. At(f) = Slot(Size, r, y)
    BY <1>2, <2>1
  <2> HIDE DEF y, At
  <2>2. y \notin S
    BY <1>1, <2>1
  <2>3. Nearby(Size, S, y)
    <3> SUFFICES ASSUME NEW a \in S
                 PROVE  a - y < Size /\ y - a < Size
      BY DEF Nearby
    <3>1. a \in Int /\ a - b < Size /\ x - a < Size
      BY DEF Spread, Nearby
    <3> QED
      BY <1>1, <2>1, <3>1
  <2>5. k.data1[Slot(Size, r, y)] = -1
    BY <2>1, <2>2, <2>3, RcvFree
  <2> QED
    BY <2>4, <2>5 DEF None
<1> HIDE DEF At
<1>6. P(x - b)
  BY <1>4, <1>5
<1>7. ASSUME NEW d \in 1 .. Size, P(d)
      PROVE  d = x - b
  <2>1. CASE d < x - b
    <3>1. d \in 1 .. (x - b) - 1
      BY <1>1, <2>1
    <3> QED
      BY <1>5, <1>7, <3>1
  <2>2. CASE x - b < d
    <3>1. x - b \in 1 .. d - 1
      BY <1>1, <1>3, <2>2
    <3> QED
      BY <1>4, <1>7, <3>1
  <2> QED
    BY <1>1, <2>1, <2>2
<1> HIDE DEF P
<1>8. (CHOOSE d \in 1 .. Size : P(d)) = x - b
  BY <1>3, <1>6, <1>7
<1>9. NodeBefore(k, i) = At(CHOOSE d \in 1 .. Size : P(d))
  BY DEF NodeBefore, P, At
<1>10. At(x - b) = Slot(Size, r, b)
  <2>1. x - (x - b) = b /\ x - b \in Int
    BY <1>1
  <2> QED
    BY <1>2, <2>1
<1> QED
  BY <1>8, <1>9, <1>10

-----------------------------------------------------------------------------
(* The list k holds the numbers of (S, e), which end at c.                  *)

RcvHolds(k, r, S, e, c) ==
  /\ RcvArrays(k, r, S, e) /\ Ranges(S, e) /\ c \in Int
  /\ \A u \in Cover(S, e) : c - u < Span /\ u <= c
  /\ k.length = Cardinality(Cover(S, e))

LEMMA RcvWindow ==
  ASSUME NEW k, NEW r, NEW S, NEW e, NEW c, RcvHolds(k, r, S, e, c)
  PROVE  /\ Cover(S, e) \in SUBSET Int /\ IsFiniteSet(Cover(S, e)) /\ S \subseteq Cover(S, e)
         /\ Spread(Size, Cover(S, e)) /\ Spread(Size, S)
         /\ \A a \in S : a \in Int /\ e[a] \in Cover(S, e) /\ e[a] \in Int /\ a <= e[a] /\ e[a] - a < SeqNoTH
         /\ S = {} <=> Cover(S, e) = {}
         /\ k.length = 0 <=> S = {}
<1> DEFINE C == Cover(S, e)
<1>1. /\ S \in SUBSET Int /\ e \in [Int -> Int] /\ c \in Int /\ Span \in Nat /\ Span <= Size /\ Span < SeqNoTH
      /\ Size \in Nat /\ SeqNoTH \in Nat /\ k.length = Cardinality(C)
  BY RcvConstants DEF RcvHolds, Ranges
<1>2. C \in SUBSET Int /\ \A u \in C : c - u < Span /\ u <= c
  BY DEF RcvHolds, Cover
<1>3. \A a \in S : a \in Int /\ e[a] \in Int /\ a <= e[a] /\ a \in C /\ e[a] \in C
  <2> SUFFICES ASSUME NEW a \in S
               PROVE  a \in Int /\ e[a] \in Int /\ a <= e[a] /\ a \in C /\ e[a] \in C
    OBVIOUS
  <2>1. a \in Int /\ e[a] \in Int /\ a <= e[a]
    BY <1>1 DEF RcvHolds, Ranges
  <2> QED
    BY <2>1 DEF Cover
<1>4. IsFiniteSet(C)
  <2>1. (c - Span) \in Int /\ C \subseteq (c - Span) .. c
    BY <1>1, <1>2
  <2>2. IsFiniteSet((c - Span) .. c)
    BY <1>1, <2>1, FS_Interval
  <2> QED
    BY <2>1, <2>2, FS_Subset
<1>5. S = {} <=> C = {}
  <2>1. S = {} => C = {}
    BY DEF Cover
  <2> QED
    BY <1>3, <2>1
<1> HIDE DEF C
<1>6. Spread(Size, C)
  <2>1. \A u, v \in C : u - v < Size
    BY <1>1, <1>2
  <2> QED
    BY <1>2, <2>1 DEF Spread
<1>7. Spread(Size, S) /\ S \subseteq C
  <2>1. S \subseteq C
    BY <1>3
  <2> QED
    BY <1>1, <1>6, <2>1 DEF Spread
<1>8. \A a \in S : e[a] - a < SeqNoTH
  <2> SUFFICES ASSUME NEW a \in S
               PROVE  e[a] - a < SeqNoTH
    OBVIOUS
  <2>1. c - a < Span /\ e[a] <= c /\ a \in Int /\ e[a] \in Int
    BY <1>2, <1>3
  <2> QED
    BY <1>1, <2>1
<1>9. k.length = 0 <=> C = {}
  BY <1>1, <1>4, FS_EmptySet
<1> QED
  BY <1>2, <1>3, <1>4, <1>5, <1>6, <1>7, <1>8, <1>9 DEF C

LEMMA RcvSplitStep ==
  ASSUME NEW k, NEW r, NEW S, NEW e, RcvArrays(k, r, S, e), Ranges(S, e), Spread(Size, Cover(S, e)),
         NEW b, NEW z, NEW u, NEW U, NEW f, SplitAt(S, e, b, z, u, U, f), Short(e, b, SeqNoTH),
         NEW x, Around(x, z, u),
         NEW q, q = Split(k, Slot(Size, r, b), SlotAfter(Slot(Size, r, x)), Wrap(x))
  PROVE  RcvArrays(q, r, U, f) /\ q.length = k.length
<1>1. u \notin S
  BY RangeSplit
<1>2. /\ S \in SUBSET Int /\ e \in [Int -> Int] /\ \A a \in S : a \in Int /\ e[a] \in Int /\ a <= e[a]
      /\ b \in S /\ u \in Int /\ b < u /\ u <= e[b]
  BY DEF Ranges, SplitAt
<1>3. Spread(Size, S \cup {u})
  <2>1. S \subseteq Cover(S, e) /\ u \in Cover(S, e)
    BY <1>2 DEF Cover
  <2>2. S \cup {u} \subseteq Cover(S, e)
    BY <2>1
  <2> QED
    BY <2>2 DEF Spread
<1>4. \A c \in S : c <= b \/ u < c
  <2> SUFFICES ASSUME NEW c \in S, ~ (c <= b)
               PROVE  u < c
    OBVIOUS
  <2>1. e[b] < c
    BY <1>2 DEF Ranges
  <2> QED
    BY <1>2, <2>1
<1> QED
  BY <1>1, <1>3, <1>4, RcvSplitHolds

\* The number x goes.
LEMMA RcvRemovedHolds ==
  ASSUME NEW k, NEW r, NEW S, NEW e, NEW c, RcvHolds(k, r, S, e, c), NEW x \in Int,
         \A u \in Cover(S, e) : x - u < Span /\ u - x < SeqNoTH,
         NEW o, o = Removed(k, Wrap(x))
  PROVE  \E T, f : /\ RcvHolds(o, r, T, f, c) /\ Cover(T, f) = Cover(S, e) \ {x}
                   /\ x \notin Cover(S, e) => o = k
<1> DEFINE C == Cover(S, e)
<1>1. /\ C \in SUBSET Int /\ IsFiniteSet(C) /\ S \subseteq C /\ Spread(Size, C) /\ Spread(Size, S)
      /\ \A a \in S : a \in Int /\ e[a] \in C /\ e[a] \in Int /\ a <= e[a] /\ e[a] - a < SeqNoTH
      /\ S = {} <=> C = {}
      /\ k.length = 0 <=> S = {}
  BY RcvWindow
<1>2. /\ RcvArrays(k, r, S, e) /\ Ranges(S, e) /\ c \in Int /\ \A u \in C : c - u < Span /\ u <= c
      /\ k.length = Cardinality(C)
  BY DEF RcvHolds
<1>3. /\ r \in Int /\ k \in RcvLists /\ e \in [Int -> Int] /\ S \in SUBSET Int
      /\ Size \in Nat \ {0} /\ Size \in Nat /\ Span <= Size /\ Span \in Nat /\ Span < SeqNoTH /\ SeqNoTH \in Nat
  BY <1>2, RcvConstants DEF RcvArrays, Ranges
<1>s. Spread(Size, S)
  BY <1>1
<1>a. RcvArrays(k, r, S, e)
  BY <1>2
<1>g. Ranges(S, e)
  BY <1>2
<1>n. Size \in Nat
  BY <1>3
<1>e. e \in [Int -> Int]
  BY <1>3
\* What remains to be shown when the list is left alone ...
<1>4. ASSUME o = k, x \notin C
      PROVE  \E T, f : /\ RcvHolds(o, r, T, f, c) /\ Cover(T, f) = C \ {x}
                       /\ x \notin C => o = k
  <2>1. C \ {x} = C
    BY <1>4
  <2> QED
    BY <1>4, <2>1
\* ... and when x goes.
<1>5. ASSUME NEW q, NEW T, NEW f, RcvArrays(q, r, T, f), Ranges(T, f), Cover(T, f) = C \ {x}, x \in C,
             q.length = k.length, o = Shorter(q)
      PROVE  \E U, g : /\ RcvHolds(o, r, U, g, c) /\ Cover(U, g) = C \ {x}
                       /\ x \notin C => o = k
  <2>1. Cardinality(C \ {x}) = Cardinality(C) - 1 /\ Cardinality(C) \in Nat /\ Cardinality(C \ {x}) \in Nat
    <3>1. IsFiniteSet(C \ {x})
      BY <1>1, FS_Subset
    <3> QED
      BY <1>1, <1>5, <3>1, FS_RemoveElement, FS_CardinalityType
  <2>2. q \in RcvLists /\ q.length - 1 \in Nat /\ q.length - 1 = Cardinality(C \ {x})
    BY <1>2, <1>5, <2>1 DEF RcvArrays
  <2>3. /\ o \in RcvLists /\ o.length = q.length - 1 /\ o.next = q.next /\ o.prior = q.prior
        /\ o.head = q.head /\ o.tail = q.tail /\ o.data1 = q.data1 /\ o.data2 = q.data2
    <3> DEFINE m == q.length - 1
    <3>1. m \in Nat /\ o = [q EXCEPT !.length = m]
      BY <1>5, <2>2 DEF Shorter, RcvLists
    <3> HIDE DEF m
    <3>2. /\ o \in RcvLists /\ o.length = m /\ o.next = q.next /\ o.prior = q.prior
          /\ o.head = q.head /\ o.tail = q.tail /\ o.data1 = q.data1 /\ o.data2 = q.data2
      BY <2>2, <3>1 DEF RcvLists
    <3> QED
      BY <3>2 DEF m
  <2>4. RcvArrays(o, r, T, f)
    BY <1>5, <2>3 DEF RcvArrays
  <2>5. RcvHolds(o, r, T, f, c)
    BY <1>2, <1>5, <2>2, <2>3, <2>4 DEF RcvHolds
  <2> QED
    BY <1>5, <2>5
<1>6. CASE S = {}
  <2>1. o = k /\ x \notin C
    BY <1>1, <1>6 DEF Removed
  <2> QED
    BY <1>4, <2>1
<1>7. CASE S # {}
  <2>1. PICK h \in S : IsLeast(S, h)
    BY <1>1, <1>3, <1>7, EndsExist
  <2>2. h \in Int /\ x - h < SeqNoTH /\ h - x < SeqNoTH
    BY <1>1, <1>3, <2>1
  <2>3. k.head = Slot(Size, r, h) /\ k.data1[k.head] = Wrap(h)
    <3>1. k.head = Slot(Size, r, h)
      BY <1>2, <2>1 DEF RcvArrays, Forward
    <3> QED
      BY <1>1, <1>2, <3>1, RcvNodeData
  <2>4. seqoff(k.data1[k.head], Wrap(x)) = x - h
    BY <2>2, <2>3, RcvCompares
  <2>5. CASE x < h
    <3>1. o = k
      BY <1>3, <2>2, <2>4, <2>5 DEF Removed
    <3>2. x \notin C
      BY <1>3, <2>1, <2>5 DEF Cover, IsLeast
    <3> QED
      BY <1>4, <3>1, <3>2
  <2>6. CASE h <= x
    <3> DEFINE i == Slot(Size, r, x)
    <3>1. (k.head + seqoff(k.data1[k.head], Wrap(x))) % Size = i
      <4>1. \A u, v \in Int : (Slot(Size, r, u) + v) % Size = Slot(Size, r, u + v)
        BY <1>3, SlotFacts
      <4>2. x - h \in Int /\ h + (x - h) = x
        BY <2>2
      <4> QED
        BY <2>2, <2>3, <2>4, <4>1, <4>2
    <3>2. o = IF k.data1[i] = Wrap(x)
                THEN Shorter(IF k.data2[i] = None THEN Unlinked(k, i) ELSE Advanced(k, i))
              ELSE IF k.data2[NodeBefore(k, i)] = None \/ seqcmp(Wrap(x), k.data2[NodeBefore(k, i)]) > 0 THEN k
              ELSE Shorter(IF Wrap(x) = k.data2[NodeBefore(k, i)] THEN CutBefore(k, NodeBefore(k, i), Wrap(x))
                           ELSE Split(k, NodeBefore(k, i), (i + 1) % Size, Wrap(x)))
      <4>1. ~ (x - h < 0)
        BY <2>2, <2>6
      <4> QED
        BY <1>1, <1>7, <2>4, <3>1, <4>1 DEF Removed
    <3>3. Nearby(Size, C, x) /\ Nearby(Size, S, x)
      <4>1. ASSUME NEW u \in C
            PROVE  u - x < Size /\ x - u < Size
        <5>1. u \in Int /\ u - h < Size /\ x - u < Span
          BY <1>1, <2>1 DEF Spread
        <5> QED
          BY <1>3, <2>2, <2>6, <5>1
      <4> QED
        BY <1>1, <4>1 DEF Nearby
    <3>4. k.data1[i] = Wrap(x) <=> x \in S
      <4>1. CASE x \in S
        BY <1>1, <1>2, <4>1, RcvNodeData
      <4>2. CASE x \notin S
        <5>1. k.data1[i] = -1
          BY <1>1, <1>2, <3>3, <4>2, RcvFree
        <5>2. Wrap(x) # -1
          BY RcvSteps
        <5> QED
          BY <4>2, <5>1, <5>2
      <4> QED
        BY <4>1, <4>2
    <3>5. CASE x \in S /\ e[x] = x
      <4> DEFINE q == Unlinked(k, i)
      <4>1. k.data2[i] = None
        BY <1>1, <1>2, <3>5, RcvNodeData
      <4>2. o = Shorter(q)
        BY <3>2, <3>4, <3>5, <4>1
      <4>3. q = Unlinked(k, Slot(Size, r, x))
        OBVIOUS
      <4> HIDE DEF q
      <4>4. RcvArrays(q, r, S \ {x}, e) /\ q.length = k.length
        BY <1>1, <1>2, <1>3, <3>5, <4>3, RcvUnlinkedHolds
      <4>5. Ranges(S \ {x}, e) /\ Cover(S \ {x}, e) = C \ {x}
        <5>1. Ranges(S \ {x}, e) /\ Cover(S \ {x}, e) = C \ (x .. e[x])
          BY <1>2, <3>5, RangeRemovedIs
        <5>2. x .. e[x] = {x}
          BY <3>5
        <5> QED
          BY <5>1, <5>2
      <4>6. x \in C
        BY <1>1, <3>5
      <4> QED
        BY <1>5, <4>2, <4>4, <4>5, <4>6
    <3>6. CASE x \in S /\ e[x] # x
      <4> DEFINE q == Advanced(k, i)
                 v == x + 1
                 f == With(e, v, e[x])
                 T == (S \ {x}) \cup {v}
      <4>1. k.data2[i] # None
        <5>1. k.data2[i] = Wrap(e[x]) /\ e[x] \in Int
          BY <1>1, <1>2, <3>6, RcvNodeData
        <5>2. Wrap(e[x]) # -1
          BY <5>1, RcvSteps
        <5> QED
          BY <5>1, <5>2 DEF None
      <4>2. o = Shorter(q)
        BY <3>2, <3>4, <3>6, <4>1
      <4>3. q = Advanced(k, Slot(Size, r, x))
        OBVIOUS
      <4>4. x < e[x] /\ e[x] - x < SeqNoTH /\ x \in C /\ e[x] \in C /\ e[x] \in Int
        BY <1>1, <3>6
      <4>45. v = x + 1 /\ f = With(e, v, e[x]) /\ T = (S \ {x}) \cup {v}
        OBVIOUS
      <4> HIDE DEF v, f, T
      <4>5. Ranges(T, f) /\ Cover(T, f) = C \ {x} /\ v \notin S
        <5>1. x \in S /\ x < e[x]
          BY <3>6, <4>4
        <5> QED
          BY <1>g, <4>45, <5>1, RangeAdvanced
      <4>6. Spread(Size, S \cup {x + 1})
        <5>1. x + 1 \in C
          BY <1>3, <3>6, <4>4 DEF Cover
        <5>2. S \cup {x + 1} \subseteq C
          BY <1>1, <5>1
        <5> QED
          BY <1>1, <5>2 DEF Spread
      <4> HIDE DEF q
      <4>7. RcvArrays(q, r, T, f) /\ q.length = k.length
        <5>1. x \in S /\ x < e[x] /\ e[x] - x < SeqNoTH /\ v \notin S /\ Spread(Size, S \cup {v})
          BY <3>6, <4>4, <4>45, <4>5, <4>6
        <5> QED
          BY <1>a, <1>e, <4>3, <4>45, <5>1, RcvAdvancedHolds
      <4> QED
        BY <1>5, <4>2, <4>4, <4>5, <4>7
    <3>7. CASE x \notin S
      <4>1. PICK b \in S : b < x /\ \A a \in S : a <= b \/ x <= a
        <5>1. h < x
          BY <2>1, <2>2, <2>6, <3>7
        <5> QED
          BY <1>n, <1>s, <5>1, PrecedingExists
      <4>2. NodeBefore(k, i) = Slot(Size, r, b)
        BY <1>1, <1>2, <3>3, <3>7, <4>1, RcvNodeBefore
      <4> DEFINE p == Slot(Size, r, b)
                 z == e[b]
      <4>3. k.data2[p] = IF z = b THEN None ELSE Wrap(z)
        BY <1>1, <1>2, RcvNodeData
      <4>4. /\ b \in Int /\ z \in Int /\ b <= z /\ z \in C /\ b \in C /\ z - b < SeqNoTH /\ x - z < SeqNoTH /\ z - x < SeqNoTH
            /\ x - b < SeqNoTH
        <5>1. b \in Int /\ z \in Int /\ b <= z /\ z \in C /\ b \in C /\ z - b < SeqNoTH
          BY <1>1
        <5> QED
          BY <1>3, <5>1
      <4>5. x \in C <=> x <= z
        <5>1. \A a \in S : a <= b \/ x < a
          BY <3>7, <4>1, <1>1
        <5>2. b \in S /\ b <= x
          BY <4>1, <4>4
        <5> QED
          BY <1>g, <5>1, <5>2, RangeOf
      <4>6. /\ seqcmp(Wrap(x), Wrap(z)) > 0 <=> x > z
            /\ Wrap(x) = Wrap(z) <=> x = z
            /\ Wrap(z) # None
        <5>1. Wrap(z) # -1
          BY <4>4, RcvSteps
        <5> HIDE DEF z
        <5> QED
          BY <4>4, <5>1, RcvCompares DEF None
      <4> HIDE DEF p, z
      <4>7. CASE x > z
        <5>1. o = k
          BY <3>2, <3>4, <3>7, <4>2, <4>3, <4>6, <4>7 DEF p
        <5> QED
          BY <1>4, <4>4, <4>5, <4>7, <5>1
      <4>8. CASE x = z
        <5> DEFINE q == CutBefore(k, p, Wrap(x))
        <5>1. o = Shorter(q)
          <6>1. k.data2[p] = Wrap(x) /\ k.data2[p] # None /\ ~ (seqcmp(Wrap(x), k.data2[p]) > 0)
            BY <4>1, <4>3, <4>4, <4>6, <4>8
          <6> QED
            BY <3>2, <3>4, <3>7, <4>2, <6>1 DEF p
        <5>2. q = CutBefore(k, Slot(Size, r, b), Wrap(x))
          BY DEF p
        <5> HIDE DEF q
        <5>3. RcvArrays(q, r, S, With(e, b, x - 1)) /\ q.length = k.length
          BY <1>1, <1>2, <1>3, <4>1, <4>4, <5>2, RcvCutHolds
        <5> DEFINE y == x - 1
                   f == With(e, b, y)
        <5>4. y \in Int /\ b <= y /\ y <= e[b] /\ (y + 1) .. e[b] = {x}
          <6>1. e[b] = x /\ b < x /\ b \in Int
            BY <4>1, <4>4, <4>8 DEF z
          <6> HIDE DEF z
          <6>2. y \in Int /\ b <= y /\ y <= x /\ y + 1 = x
            BY <6>1
          <6>3. x .. x = {x}
            OBVIOUS
          <6> QED
            BY <6>1, <6>2, <6>3
        <5> HIDE DEF y
        <5>5. Ranges(S, f) /\ Cover(S, f) = C \ ((y + 1) .. e[b])
          BY <1>2, <5>4, RangeCut
        <5>6. RcvArrays(q, r, S, f)
          BY <5>3 DEF y
        <5> HIDE DEF f
        <5>7. x \in C /\ Cover(S, f) = C \ {x}
          BY <4>4, <4>8, <5>4, <5>5
        <5> QED
          BY <1>5, <5>1, <5>3, <5>5, <5>6, <5>7
      <4>9. CASE x < z
        <5> DEFINE q == Split(k, p, (i + 1) % Size, Wrap(x))
        <5>1. o = Shorter(q)
          <6>1. k.data2[p] = Wrap(z) /\ k.data2[p] # None /\ ~ (seqcmp(Wrap(x), k.data2[p]) > 0) /\ Wrap(x) # k.data2[p]
            BY <4>1, <4>3, <4>4, <4>6, <4>9
          <6> QED
            BY <3>2, <3>4, <3>7, <4>2, <6>1 DEF p
        <5>2. q = Split(k, Slot(Size, r, b), SlotAfter(Slot(Size, r, x)), Wrap(x))
          BY DEF p, SlotAfter
        <5> HIDE DEF q
        <5>3. b < x /\ x < e[b] /\ e[b] - b < SeqNoTH /\ b \in S
          BY <4>1, <4>4, <4>9 DEF z
        <5>4. Spread(Size, Cover(S, e))
          BY <1>1
        <5>5. PICK z1, u1, U, f : Around(x, z1, u1) /\ SplitAt(S, e, b, z1, u1, U, f)
          <6>1. /\ b \in S /\ x - 1 \in Int /\ x + 1 \in Int /\ b <= x - 1 /\ x - 1 < x + 1 /\ x + 1 <= e[b]
            BY <1>1, <4>4, <5>3
          <6> QED
            BY <6>1 DEF SplitAt, Around
        <5>7. RcvArrays(q, r, U, f) /\ q.length = k.length
          <6>1. Short(e, b, SeqNoTH)
            BY <5>3 DEF Short
          <6> QED
            BY <1>a, <1>g, <5>2, <5>4, <5>5, <6>1, RcvSplitStep
        <5>8. Ranges(U, f) /\ Cover(U, f) = Cover(S, e) \ {x}
          <6>1. (z1 + 1) .. (u1 - 1) = {x}
            BY <5>5 DEF Around
          <6> QED
            BY <1>g, <5>5, <6>1, RangeSplit
        <5>6. x \in C
          BY <4>4, <4>5, <4>9
        <5> QED
          BY <1>5, <5>1, <5>6, <5>7, <5>8
      <4> QED
        BY <4>4, <4>7, <4>8, <4>9
    <3> QED
      BY <3>5, <3>6, <3>7
  <2> QED
    BY <2>2, <2>5, <2>6
<1> QED
  BY <1>6, <1>7

-----------------------------------------------------------------------------
(* What insert makes of the list.                                           *)

\* The first range.
LEMMA RcvOpenHolds ==
  ASSUME NEW r, NEW e, RcvArrays(l, r, {}, e), e \in [Int -> Int], l.length = 0,
         NEW x \in Int, NEW y \in Int, x <= y, y - x < SeqNoTH,
         NEW o, o = Inserted(Wrap(x), Wrap(y))
  PROVE  RcvArrays(o, x, {x}, With(e, x, y)) /\ o.length = y - x + 1
<1> DEFINE m == MaxSeqNo + 1
           n == y - x + 1
           w == IF y = x THEN -1 ELSE Carried(m, y)
<1>1. /\ r \in Int /\ Size \in Nat \ {0} /\ Slots = 0 .. Size - 1 /\ m \in Nat \ {0} /\ l \in RcvLists /\ m - 1 = MaxSeqNo
      /\ Nodes(m, Size, r, l.data1, l.data2, {}, e)
      /\ Forward(Size, r, l.next, l.head, {}) /\ Backward(Size, r, l.prior, l.tail, {})
  BY RcvConstants DEF RcvArrays, Slots
<1>2. 0 \in 0 .. Size - 1 /\ Slot(Size, x, x) = 0
  BY <1>1, SlotFacts
<1> HIDE DEF m
<1>3. \A i \in 0 .. Size - 1 : l.data1[i] = -1 /\ l.data2[i] = -1
  BY <1>1 DEF Nodes
<1>4. Nodes(m, Size, x, l.data1, l.data2, {}, e)
  BY <1>1, <1>3 DEF Nodes
<1>5. Forward(Size, x, l.next, -1, {})
  <2>1. \A a, b : ~ IsLeast({}, a) /\ ~ IsGreatest({}, a) /\ ~ Adjacent({}, a, b)
    BY DEF IsLeast, IsGreatest, Adjacent
  <2>2. l.next \in [0 .. Size - 1 -> -1 .. Size - 1] /\ -1 \in -1 .. Size - 1
    BY <1>1 DEF Forward
  <2> QED
    BY <2>1, <2>2 DEF Forward
<1>6. Backward(Size, x, l.prior, l.tail, {})
  <2>1. \A a, b : ~ IsLeast({}, a) /\ ~ IsGreatest({}, a) /\ ~ Adjacent({}, a, b)
    BY DEF IsLeast, IsGreatest, Adjacent
  <2>2. l.prior \in [0 .. Size - 1 -> -1 .. Size - 1] /\ l.tail \in -1 .. Size - 1
    BY <1>1 DEF Backward
  <2> QED
    BY <2>1, <2>2 DEF Backward
<1>7. /\ Wrap(x) \in 0 .. MaxSeqNo /\ Wrap(y) \in 0 .. MaxSeqNo /\ Wrap(x) = Carried(m, x) /\ Wrap(y) = Carried(m, y)
      /\ n \in Nat /\ n = seqlen(Wrap(x), Wrap(y))
      /\ Wrap(y) = Wrap(x) <=> y = x
  <2>1. /\ Wrap(x) \in 0 .. MaxSeqNo /\ Wrap(y) \in 0 .. MaxSeqNo
        /\ Wrap(x) = Carried(m, x) /\ Wrap(y) = Carried(m, y)
    BY RcvSteps DEF m
  <2>2. seqlen(Wrap(x), Wrap(y)) = y - x + 1
    BY RcvStretch
  <2>3. x - y < SeqNoTH
    BY RcvConstants
  <2>4. Wrap(y) = Wrap(x) <=> y = x
    BY <2>3, RcvCompares
  <2> QED
    BY <2>1, <2>2, <2>4
<1> HIDE DEF n
<1>8. /\ o \in RcvLists /\ o.length = n /\ o.head = 0 /\ o.tail = 0
      /\ o.next = With(l.next, 0, -1) /\ o.prior = With(l.prior, 0, -1)
      /\ o.data1 = With(l.data1, 0, Wrap(x))
      /\ o.data2 = With(l.data2, 0, IF Wrap(y) = Wrap(x) THEN -1 ELSE Wrap(y))
  <2>1. l.data2[0] = None
    BY <1>2, <1>3 DEF None
  <2>2. IsOpened(Wrap(x), Wrap(y), n, o)
    BY <1>1, <1>7, <2>1, RcvOpenedIs
  <2> QED
    BY <2>2 DEF IsOpened
<1>9. o.data1 = With(l.data1, Slot(Size, x, x), Carried(m, x)) /\ o.data2 = With(l.data2, Slot(Size, x, x), w)
  BY <1>2, <1>7, <1>8
<1> HIDE DEF w
<1>w. w = IF y = x THEN -1 ELSE Carried(m, y)
  BY DEF w
<1>10. Nodes(m, Size, x, o.data1, o.data2, {} \cup {x}, With(e, x, y))
  <2>1. Spread(Size, {}) /\ Nearby(Size, {}, x) /\ x \notin {}
    BY DEF Spread, Nearby
  <2> QED
    BY <1>1, <1>4, <1>9, <1>w, <2>1, NodeAdded
<1>11. Spread(Size, {} \cup {x})
  BY <1>1 DEF Spread
<1>12. Forward(Size, x, o.next, Slot(Size, x, x), {} \cup {x})
  <2>1. o.next = With(l.next, Slot(Size, x, x), -1) /\ \A a \in {} : x < a
    BY <1>2, <1>8
  <2> QED
    BY <1>1, <1>5, <1>11, <2>1, ForwardFront
<1>13. Backward(Size, x, o.prior, Slot(Size, x, x), {} \cup {x})
  <2>1. o.prior = With(l.prior, Slot(Size, x, x), -1) /\ -1 = (IF {} = {} THEN -1 ELSE l.tail) /\ \A a \in {} : a < x
    BY <1>2, <1>8
  <2> QED
    BY <1>1, <1>6, <1>11, <2>1, BackwardLast
<1>14. {} \cup {x} = {x}
  OBVIOUS
<1>15. RcvArrays(o, x, {x}, With(e, x, y))
  BY <1>2, <1>8, <1>10, <1>12, <1>13, <1>14 DEF RcvArrays, m
<1> QED
  BY <1>8, <1>15 DEF n

\* A longer last range: g is the last one's start.
LEMMA RcvExtendHolds ==
  ASSUME NEW r, NEW S, NEW e, RcvArrays(l, r, S, e), Ranges(S, e), Spread(Size, S), l.length # 0,
         NEW g, IsGreatest(S, g), NEW x \in Int, NEW y \in Int, x <= y, y - x < SeqNoTH, e[g] = x - 1,
         l.data2[l.tail] # None, incseq(l.data2[l.tail]) = Wrap(x),
         NEW o, o = Inserted(Wrap(x), Wrap(y))
  PROVE  RcvArrays(o, r, S, With(e, g, y)) /\ o.length = l.length + (y - x + 1)
<1> DEFINE m == MaxSeqNo + 1
           n == y - x + 1
           w == IF y = g THEN -1 ELSE Carried(m, y)
<1>1. /\ r \in Int /\ Size \in Nat \ {0} /\ Slots = 0 .. Size - 1 /\ m \in Nat \ {0} /\ l \in RcvLists
      /\ Nodes(m, Size, r, l.data1, l.data2, S, e)
      /\ Forward(Size, r, l.next, l.head, S) /\ Backward(Size, r, l.prior, l.tail, S)
  BY RcvConstants DEF RcvArrays, Slots
<1> HIDE DEF m
<1>2. g \in S /\ g \in Int /\ e \in [Int -> Int] /\ g <= e[g] /\ y # g
  <2>1. g \in S /\ g \in Int /\ e \in [Int -> Int] /\ g <= e[g]
    BY DEF IsGreatest, Ranges
  <2> QED
    BY <2>1
<1>3. l.tail = Slot(Size, r, g) /\ l.tail \in Slots
  <2>1. l.tail = Slot(Size, r, g)
    BY <1>1 DEF Backward
  <2>2. Slot(Size, r, g) \in 0 .. Size - 1
    BY <1>1, <1>2, SlotFacts
  <2> QED
    BY <1>1, <2>1, <2>2
<1>4. /\ Wrap(x) \in 0 .. MaxSeqNo /\ Wrap(y) \in 0 .. MaxSeqNo /\ Wrap(y) = Carried(m, y)
      /\ n \in Nat /\ n = seqlen(Wrap(x), Wrap(y))
  <2>1. Wrap(x) \in 0 .. MaxSeqNo /\ Wrap(y) \in 0 .. MaxSeqNo /\ Wrap(y) = Carried(m, y)
    BY RcvSteps DEF m
  <2>2. seqlen(Wrap(x), Wrap(y)) = y - x + 1
    BY RcvStretch
  <2> QED
    BY <2>1, <2>2
<1> HIDE DEF n
<1>5. IsExtended(Wrap(y), n, o)
  BY <1>1, <1>3, <1>4, RcvExtendedIs
<1>6. /\ o \in RcvLists /\ o.length = l.length + n /\ o.head = l.head /\ o.tail = l.tail
      /\ o.next = l.next /\ o.prior = l.prior /\ o.data1 = l.data1
      /\ o.data2 = With(l.data2, Slot(Size, r, g), w)
  BY <1>2, <1>3, <1>4, <1>5 DEF IsExtended
<1>7. w = IF y = g THEN -1 ELSE Carried(m, y)
  OBVIOUS
<1> HIDE DEF w
<1>8. Nodes(m, Size, r, o.data1, o.data2, S, With(e, g, y))
  <2>1. Nodes(m, Size, r, l.data1, o.data2, S, With(e, g, y))
    BY <1>1, <1>2, <1>6, <1>7, NodeEnds
  <2> QED
    BY <1>6, <2>1
<1>9. RcvArrays(o, r, S, With(e, g, y))
  BY <1>1, <1>6, <1>8 DEF RcvArrays, m
<1> QED
  BY <1>6, <1>9 DEF n

\* Where a number belongs: h is the first range's start.
LEMMA RcvPlaceIs ==
  ASSUME NEW r, NEW S, NEW e, RcvArrays(l, r, S, e), Spread(Size, S), NEW h, IsLeast(S, h), NEW x, Close(x, h)
  PROVE  Place(Wrap(x)) = Slot(Size, r, x)
<1>1. r \in Int /\ Size \in Nat \ {0} /\ h \in S
  BY RcvConstants DEF RcvArrays, IsLeast
<1>2. l.head = Slot(Size, r, h)
  BY DEF RcvArrays, Forward
<1>3. l.data1[l.head] = Wrap(h)
  BY <1>1, <1>2, RcvNodeData
<1>4. x \in Int /\ h \in Int
  BY DEF Close
<1>5. seqoff(Wrap(h), Wrap(x)) = x - h
  BY RcvClose
<1>6. \A u, v \in Int : (Slot(Size, r, u) + v) % Size = Slot(Size, r, u + v)
  BY <1>1, SlotFacts
<1>7. x - h \in Int /\ h + (x - h) = x
  BY <1>4
<1>8. (Slot(Size, r, h) + (x - h)) % Size = Slot(Size, r, x)
  BY <1>4, <1>6, <1>7
<1> QED
  BY <1>2, <1>3, <1>5, <1>8 DEF Place

JustBelow(S, x) == \A a \in S : a < x /\ x - a < Span

\* x belongs to the last range.
Extends(x) == l.data2[l.tail] # None /\ incseq(l.data2[l.tail]) = Wrap(x)

\* A new last range.
LEMMA RcvAppendHolds ==
  ASSUME NEW r, NEW S, NEW e, RcvArrays(l, r, S, e), Ranges(S, e), Spread(Size, S), l.length # 0,
         NEW x \in Int, NEW y \in Int, x <= y, y - x < SeqNoTH, S # {}, JustBelow(S, x),
         ~ Extends(x),
         NEW o, o = Inserted(Wrap(x), Wrap(y))
  PROVE  RcvArrays(o, r, S \cup {x}, With(e, x, y)) /\ o.length = l.length + (y - x + 1)
<1>b. /\ \A a \in S : a < x /\ x - a < Span
      /\ l.data2[l.tail] = None \/ incseq(l.data2[l.tail]) # Wrap(x)
  BY DEF JustBelow, Extends
<1> USE <1>b
<1> DEFINE m == MaxSeqNo + 1
           n == y - x + 1
           w == IF y = x THEN -1 ELSE Carried(m, y)
           i == Slot(Size, r, x)
<1>1. /\ r \in Int /\ Size \in Nat \ {0} /\ Slots = 0 .. Size - 1 /\ m \in Nat \ {0} /\ l \in RcvLists
      /\ Nodes(m, Size, r, l.data1, l.data2, S, e)
      /\ Forward(Size, r, l.next, l.head, S) /\ Backward(Size, r, l.prior, l.tail, S)
  BY RcvConstants DEF RcvArrays, Slots
<1>c. Size \in Nat /\ Span \in Nat /\ Span <= Size /\ Span < SeqNoTH /\ SeqNoTH \in Nat
  BY RcvConstants
<1> HIDE DEF m
<1>2. PICK g \in S : IsGreatest(S, g)
  BY <1>c, EndsExist
<1>3. PICK h \in S : IsLeast(S, h)
  BY <1>c, EndsExist
<1>4. /\ e \in [Int -> Int] /\ \A a \in S : a \in Int /\ a # x
      /\ x \notin S /\ Nearby(Size, S, x) /\ Spread(Size, S \cup {x})
  <2>1. \A a \in S : a \in Int /\ a < x /\ x - a < Size
    <3> TAKE a \in S
    <3>1. a \in Int
      BY DEF Ranges
    <3>2. a < x /\ x - a < Span
      OBVIOUS
    <3> QED
      BY <1>c, <3>1, <3>2
  <2>2. \A a \in S : a - x < Size
    BY <1>c, <2>1
  <2>3. Nearby(Size, S, x)
    BY <2>1, <2>2 DEF Nearby
  <2>4. Spread(Size, S \cup {x})
    <3> SUFFICES ASSUME NEW a \in S \cup {x}, NEW b \in S \cup {x}
                 PROVE  a \in Int /\ a - b < Size
      BY DEF Spread
    <3>1. CASE a \in S /\ b \in S
      BY <2>1, <3>1 DEF Spread
    <3>2. CASE a = x /\ b \in S
      BY <2>1, <3>2
    <3>3. CASE b = x
      BY <1>1, <2>1, <2>2, <3>3
    <3> QED
      BY <3>1, <3>2, <3>3
  <2> QED
    BY <2>1, <2>3, <2>4 DEF Ranges
<1>5. l.tail = Slot(Size, r, g) /\ l.head = Slot(Size, r, h) /\ l.next[l.tail] = -1
  BY <1>1, <1>2, <1>3 DEF Forward, Backward
<1>6. i \in Slots /\ l.tail \in Slots /\ i # l.tail
  <2>1. Slot(Size, r, g) \in 0 .. Size - 1 /\ Slot(Size, r, x) \in 0 .. Size - 1
    BY <1>1, <1>2, <1>4, SlotFacts
  <2>2. Slot(Size, r, g) # Slot(Size, r, x)
    <3> DEFINE T == S \cup {x}
    <3>1. \A a, c \in T : Slot(Size, r, a) = Slot(Size, r, c) => a = c
      BY <1>1, <1>4, OwnSlots
    <3> QED
      BY <1>2, <1>4, <3>1
  <2> QED
    BY <1>1, <1>5, <2>1, <2>2
<1>7. i = Place(Wrap(x))
  <2>1. Close(x, h)
    BY <1>c, <1>3, <1>4 DEF Close
  <2> QED
    BY <1>3, <2>1, RcvPlaceIs
<1>8. /\ Wrap(x) \in 0 .. MaxSeqNo /\ Wrap(y) \in 0 .. MaxSeqNo /\ Wrap(x) = Carried(m, x) /\ Wrap(y) = Carried(m, y)
      /\ n \in Nat /\ n = seqlen(Wrap(x), Wrap(y))
      /\ Wrap(y) = Wrap(x) <=> y = x
  <2>1. /\ Wrap(x) \in 0 .. MaxSeqNo /\ Wrap(y) \in 0 .. MaxSeqNo
        /\ Wrap(x) = Carried(m, x) /\ Wrap(y) = Carried(m, y)
    BY RcvSteps DEF m
  <2>2. seqlen(Wrap(x), Wrap(y)) = y - x + 1
    BY RcvStretch
  <2>3. x - y < SeqNoTH
    BY RcvConstants
  <2>4. Wrap(y) = Wrap(x) <=> y = x
    BY <2>3, RcvCompares
  <2> QED
    BY <2>1, <2>2, <2>4
<1>9. l.data2[i] = None
  BY <1>4, RcvFree DEF None
<1>i. i = Slot(Size, r, x)
  OBVIOUS
<1> HIDE DEF n, i
<1>10. IsAppended(i, Wrap(x), Wrap(y), n, o)
  BY <1>1, <1>6, <1>7, <1>8, <1>9, RcvAppendedIs
<1>11. /\ o \in RcvLists /\ o.length = l.length + n /\ o.head = l.head /\ o.tail = i
       /\ o.next = With(With(l.next, l.tail, i), i, -1) /\ o.prior = With(l.prior, i, l.tail)
       /\ o.data1 = With(l.data1, i, Wrap(x)) /\ o.data2 = With(l.data2, i, w)
  BY <1>8, <1>10 DEF IsAppended
<1>w. w = IF y = x THEN -1 ELSE Carried(m, y)
  OBVIOUS
<1> HIDE DEF w
<1>12. Nodes(m, Size, r, o.data1, o.data2, S \cup {x}, With(e, x, y))
  <2>1. o.data1 = With(l.data1, Slot(Size, r, x), Carried(m, x)) /\ o.data2 = With(l.data2, Slot(Size, r, x), w)
    BY <1>8, <1>11, <1>i
  <2> QED
    BY <1>1, <1>4, <1>w, <2>1, NodeAdded
<1>13. Forward(Size, r, o.next, o.head, S \cup {x})
  <2>1. o.next = With(With(l.next, Slot(Size, r, x), l.next[Slot(Size, r, g)]), Slot(Size, r, g), Slot(Size, r, x))
    <3>1. o.next = With(With(l.next, i, -1), l.tail, i)
      BY <1>6, <1>11, WithCommutes
    <3> QED
      BY <1>5, <1>i, <3>1
  <2>2. g < x /\ \A c \in S : c <= g \/ x < c
    BY <1>2 DEF IsGreatest
  <2> QED
    BY <1>1, <1>2, <1>4, <1>11, <2>1, <2>2, ForwardAfter
<1>14. Backward(Size, r, o.prior, o.tail, S \cup {x})
  <2>1. o.prior = With(l.prior, Slot(Size, r, x), l.tail) /\ o.tail = Slot(Size, r, x)
    BY <1>11, <1>i
  <2>2. Below(S, x)
    BY DEF Below
  <2>3. Size \in Nat \ {0} /\ r \in Int
    BY <1>1
  <2>4. Spread(Size, S \cup {x})
    BY <1>4
  <2>5. Backward(Size, r, l.prior, l.tail, S)
    BY <1>1
  <2>6. S # {}
    OBVIOUS
  <2> QED
    BY <2>1, <2>2, <2>3, <2>4, <2>5, <2>6, BackwardAppend
<1>15. RcvArrays(o, r, S \cup {x}, With(e, x, y))
  BY <1>1, <1>11, <1>12, <1>13, <1>14 DEF RcvArrays, m
<1> QED
  BY <1>11, <1>15 DEF n

\* The numbers after c go, up to y, into the list.
LEMMA RcvInsertedHolds ==
  ASSUME NEW r, NEW S, NEW e, NEW c, RcvHolds(l, r, S, e, c), NEW x, x = c + 1, NEW y \in Int, x <= y, NEW d, d = y + 1,
         d - x < Span, \A u \in Cover(S, e) : d - u < Span,
         NEW o, o = Inserted(Wrap(x), Wrap(y))
  PROVE  \E q, T, f : RcvHolds(o, q, T, f, d) /\ Cover(T, f) = Cover(S, e) \cup (x .. y)
<1> DEFINE C == Cover(S, e)
<1>1. /\ C \in SUBSET Int /\ IsFiniteSet(C) /\ S \subseteq C /\ Spread(Size, S)
      /\ \A a \in S : a \in Int /\ e[a] \in C /\ e[a] \in Int /\ a <= e[a] /\ e[a] - a < SeqNoTH
      /\ S = {} <=> C = {}
      /\ l.length = 0 <=> S = {}
  BY RcvWindow
<1>2. /\ RcvArrays(l, r, S, e) /\ Ranges(S, e) /\ c \in Int /\ \A u \in C : u <= c
      /\ l.length = Cardinality(C)
  BY DEF RcvHolds
<1>3. /\ x \in Int /\ d \in Int /\ Span \in Nat /\ Span < SeqNoTH /\ SeqNoTH \in Nat /\ Size \in Nat \ {0} /\ Size \in Nat
  BY <1>2, RcvConstants
<1>4. y - x < SeqNoTH /\ y \in Int /\ x <= y
  BY <1>3
<1>a. RcvArrays(l, r, S, e)
  BY <1>2
<1>g. Ranges(S, e)
  BY <1>2
<1>s. Spread(Size, S)
  BY <1>1
\* What remains to be shown.
<1>5. ASSUME NEW q, NEW T, NEW f, RcvArrays(o, q, T, f), Ranges(T, f), Cover(T, f) = C \cup (x .. y),
             o.length = l.length + (y - x + 1)
      PROVE  RcvHolds(o, q, T, f, d) /\ Cover(T, f) = C \cup (x .. y)
  <2>1. Cardinality(C \cup (x .. y)) = Cardinality(C) + (y - x + 1)
    <3>1. IsFiniteSet(x .. y) /\ Cardinality(x .. y) = y - x + 1
      BY <1>3, FS_Interval
    <3>2. C \cap (x .. y) = {}
      BY <1>1, <1>2, <1>3
    <3>3. Cardinality(C) \in Nat
      BY <1>1, FS_CardinalityType
    <3>4. Cardinality(C \cup (x .. y)) = Cardinality(C) + Cardinality(x .. y) - Cardinality(C \cap (x .. y))
      BY <1>1, <3>1, FS_Union
    <3>5. Cardinality(C \cap (x .. y)) = 0
      BY <3>2, FS_EmptySet
    <3> HIDE DEF C
    <3> QED
      BY <1>3, <3>1, <3>3, <3>4, <3>5
  <2>2. o.length = Cardinality(Cover(T, f))
    BY <1>2, <1>5, <2>1
  <2>3. \A u \in Cover(T, f) : d - u < Span /\ u <= d
    <3> SUFFICES ASSUME NEW u \in C \cup (x .. y)
                 PROVE  d - u < Span /\ u <= d
      BY <1>5
    <3>1. CASE u \in C
      BY <1>1, <1>2, <1>3, <3>1
    <3>2. CASE u \in x .. y
      BY <1>3, <3>2
    <3> QED
      BY <3>1, <3>2
  <2> QED
    BY <1>3, <1>5, <2>2, <2>3 DEF RcvHolds
<1> HIDE DEF C
<1>6. CASE S = {}
  <2>1. RcvArrays(l, r, {}, e) /\ e \in [Int -> Int] /\ l.length = 0
    BY <1>1, <1>2, <1>6 DEF Ranges
  <2>2. RcvArrays(o, x, {x}, With(e, x, y)) /\ o.length = y - x + 1
    BY <1>3, <1>4, <2>1, RcvOpenHolds
  <2>3. Ranges({x}, With(e, x, y)) /\ Cover({x}, With(e, x, y)) = C \cup (x .. y)
    <3>1. \A u \in Cover(S, e) : u < x \/ y < u
      BY <1>1, <1>6 DEF C
    <3>2. Ranges(S \cup {x}, With(e, x, y)) /\ Cover(S \cup {x}, With(e, x, y)) = Cover(S, e) \cup (x .. y)
      BY <1>g, <1>3, <1>4, <3>1, RangeAdded
    <3>3. S \cup {x} = {x}
      BY <1>6
    <3> QED
      BY <3>2, <3>3 DEF C
  <2>4. o.length = l.length + (y - x + 1)
    BY <1>3, <2>1, <2>2
  <2>5. RcvHolds(o, x, {x}, With(e, x, y), d) /\ Cover({x}, With(e, x, y)) = C \cup (x .. y)
    BY <1>5, <2>2, <2>3, <2>4
  <2> QED
    BY <2>5 DEF C
<1>7. CASE S # {}
  <2>1. PICK g \in S : IsGreatest(S, g)
    BY <1>3, <1>s, <1>7, EndsExist
  <2>2. /\ g \in Int /\ e[g] \in Int /\ g <= e[g] /\ e[g] <= c /\ c - g < Span /\ c - e[g] < Span
    <3>1. g \in C /\ e[g] \in C /\ g \in Int /\ e[g] \in Int /\ g <= e[g]
      BY <1>1
    <3>2. \A u \in C : d - u < Span
      BY DEF C
    <3> QED
      BY <1>2, <1>3, <3>1, <3>2
  <2>3. l.tail = Slot(Size, r, g)
    BY <1>a, <2>1 DEF RcvArrays, Backward
  <2>4. l.data2[l.tail] = IF e[g] = g THEN None ELSE Wrap(e[g])
    BY <1>a, <1>s, <2>3, RcvNodeData
  <2>5. Wrap(e[g]) # None /\ incseq(Wrap(e[g])) = Wrap(e[g] + 1)
    <3> DEFINE v == e[g]
    <3>1. v \in Int
      BY <2>2
    <3> HIDE DEF v
    <3>2. Wrap(v) # -1 /\ incseq(Wrap(v)) = Wrap(v + 1)
      BY <3>1, RcvSteps
    <3> QED
      BY <3>2 DEF v, None
  <2>6. Wrap(e[g] + 1) = Wrap(x) <=> e[g] = c
    <3> DEFINE v == e[g] + 1
    <3>1. Close(v, x) /\ (v = x <=> e[g] = c)
      BY <1>2, <1>3, <2>2 DEF Close
    <3> HIDE DEF v
    <3>2. Wrap(v) = Wrap(x) <=> v = x
      BY <3>1, RcvClose
    <3> QED
      BY <3>1, <3>2 DEF v
  <2>7. CASE e[g] = c /\ e[g] # g
    <3>1. l.data2[l.tail] # None /\ incseq(l.data2[l.tail]) = Wrap(x) /\ e[g] = x - 1 /\ l.length # 0
      BY <1>1, <1>2, <1>7, <2>4, <2>5, <2>6, <2>7
    <3>2. RcvArrays(o, r, S, With(e, g, y)) /\ o.length = l.length + (y - x + 1)
      BY <1>a, <1>g, <1>s, <1>3, <1>4, <2>1, <3>1, RcvExtendHolds
    <3>3. Ranges(S, With(e, g, y)) /\ Cover(S, With(e, g, y)) = C \cup (x .. y)
      <4>1. e[g] <= y /\ e[g] + 1 = x /\ \A a \in S : a <= g \/ y < a
        BY <1>2, <1>3, <1>4, <2>1, <2>7 DEF IsGreatest
      <4>2. Ranges(S, With(e, g, y)) /\ Cover(S, With(e, g, y)) = Cover(S, e) \cup ((e[g] + 1) .. y)
        BY <1>g, <4>1, RangeExtended
      <4> QED
        BY <4>1, <4>2 DEF C
    <3>4. RcvHolds(o, r, S, With(e, g, y), d) /\ Cover(S, With(e, g, y)) = C \cup (x .. y)
      BY <1>5, <3>2, <3>3
    <3> QED
      BY <3>4 DEF C
  <2>8. CASE ~ (e[g] = c /\ e[g] # g)
    <3>1. (l.data2[l.tail] = None \/ incseq(l.data2[l.tail]) # Wrap(x)) /\ l.length # 0
      BY <1>1, <1>7, <2>4, <2>5, <2>6, <2>8
    <3>2. \A a \in S : a < x /\ x - a < Span
      <4> SUFFICES ASSUME NEW a \in S
                   PROVE  a < x /\ x - a < Span
        OBVIOUS
      <4>1. a \in C /\ a \in Int /\ a <= c
        BY <1>1, <1>2
      <4>2. d - a < Span
        BY <4>1 DEF C
      <4> QED
        BY <1>2, <1>3, <4>1, <4>2
    <3>a. ~ Extends(x) /\ JustBelow(S, x)
      BY <3>1, <3>2 DEF Extends, JustBelow
    <3>3. RcvArrays(o, r, S \cup {x}, With(e, x, y)) /\ o.length = l.length + (y - x + 1)
      <4>1. l.length # 0
        BY <3>1
      <4> QED
        BY <1>a, <1>g, <1>s, <1>3, <1>4, <1>7, <3>a, <4>1, RcvAppendHolds
    <3>4. Ranges(S \cup {x}, With(e, x, y)) /\ Cover(S \cup {x}, With(e, x, y)) = C \cup (x .. y)
      <4>1. \A u \in Cover(S, e) : u < x \/ y < u
        BY <1>1, <1>2, <1>3 DEF C
      <4> QED
        BY <1>g, <1>3, <1>4, <4>1, RangeAdded DEF C
    <3>5. RcvHolds(o, r, S \cup {x}, With(e, x, y), d) /\ Cover(S \cup {x}, With(e, x, y)) = C \cup (x .. y)
      BY <1>5, <3>3, <3>4
    <3> QED
      BY <3>5 DEF C
  <2> QED
    BY <2>7, <2>8
<1> QED
  BY <1>6, <1>7

-----------------------------------------------------------------------------
(* remove of a range of numbers                                             *)

LEMMA RcvOffset ==
  ASSUME NEW u \in Int, NEW k \in Int, -(MaxSeqNo + 1) < k, k < MaxSeqNo + 1, Wrap(u) + k \in 0 .. MaxSeqNo
  PROVE  Wrap(u + k) = Wrap(u) + k
<1> DEFINE m == MaxSeqNo + 1
           v == u + k
<1>1. m \in Nat \ {0} /\ m - 1 = MaxSeqNo /\ v \in Int /\ v - u = k /\ -m < v - u /\ v - u < m
  BY RcvConstants
<1> HIDE DEF v
<1>2. Wrap(u) = u % m /\ Wrap(v) = v % m
  BY DEF Wrap
<1> HIDE DEF m
<1>3. /\ v % m \in 0 .. m - 1 /\ u % m \in 0 .. m - 1
      /\ (v % m) - (u % m) \in {v - u, v - u - m, v - u + m}
  BY <1>1, RemaindersNear
<1> DEFINE a == u % m
           b == v % m
<1>4. b \in 0 .. m - 1 /\ a \in 0 .. m - 1 /\ b - a \in {k, k - m, k + m} /\ a + k \in 0 .. m - 1
  BY <1>1, <1>2, <1>3
<1> HIDE DEF a, b
<1>5. b = a + k
  BY <1>1, <1>4
<1> QED
  BY <1>2, <1>5 DEF a, b, v

\* q goes through the numbers from a to b: through all of them within one round.
GoesThrough(q, n, a, b) ==
  /\ n \in Nat /\ Len(q) = n
  /\ \A j \in 1 .. n : \E y \in a .. b : q[j] = Wrap(y)
  /\ Wrap(a) <= Wrap(b) => \A y \in a .. b : \E j \in 1 .. n : q[j] = Wrap(y)

LEMMA RcvThrough ==
  ASSUME NEW a \in Int, NEW b \in Int, a <= b, b - a < SeqNoTH, NEW q, q = Through(Wrap(a), Wrap(b))
  PROVE  \E n : GoesThrough(q, n, a, b)
<1> DEFINE m == MaxSeqNo + 1
           f == Wrap(a)
           g == Wrap(b)
<1>1. /\ m \in Nat \ {0} /\ m - 1 = MaxSeqNo /\ SeqNoTH < m /\ b - a < m
      /\ f \in 0 .. m - 1 /\ g \in 0 .. m - 1
  BY RcvConstants, RcvSteps
<1>2. g - f \in {b - a, b - a - m, b - a + m}
  <2>1. -m < b - a
    BY <1>1
  <2>2. (b % m) - (a % m) \in {b - a, b - a - m, b - a + m}
    <3> HIDE DEF m
    <3> QED
      BY <1>1, <2>1, RemaindersNear
  <2> QED
    BY <2>2 DEF Wrap
<1>3. /\ \A k \in 0 .. m - 1 : f + k \in 0 .. m - 1 => f + k = Wrap(a + k)
      /\ \A k \in 0 .. m - 1 : g - k \in 0 .. m - 1 => g - k = Wrap(b - k)
  <2>1. ASSUME NEW k \in 0 .. m - 1, f + k \in 0 .. m - 1
        PROVE  f + k = Wrap(a + k)
    <3>1. k \in Int /\ -m < k /\ k < m
      BY <1>1
    <3> QED
      BY <1>1, <2>1, <3>1, RcvOffset
  <2>2. ASSUME NEW k \in 0 .. m - 1, g - k \in 0 .. m - 1
        PROVE  g - k = Wrap(b - k)
    <3> DEFINE i == -k
    <3>1. i \in Int /\ -m < i /\ i < m /\ g + i = g - k /\ b + i = b - k /\ g + i \in 0 .. m - 1
      BY <1>1, <2>2
    <3> HIDE DEF i
    <3>2. Wrap(b + i) = g + i
      BY <1>1, <3>1, RcvOffset
    <3> QED
      BY <3>1, <3>2
  <2> QED
    BY <2>1, <2>2
<1> HIDE DEF m, f, g
<1>f. f = Wrap(a) /\ g = Wrap(b)
  BY DEF f, g
<1>4. CASE f <= g
  <2>1. g - f = b - a
    BY <1>1, <1>2, <1>4
  <2>2. q = [k \in 1 .. g - f + 1 |-> f + k - 1]
    BY <1>4, <1>f DEF Through
  <2> DEFINE n == g - f + 1
  <2>3. n \in Nat /\ Len(q) = n /\ \A j \in 1 .. n : q[j] = f + j - 1
    <3>1. n \in Nat
      BY <1>1, <1>4
    <3> HIDE DEF n
    <3>2. q = [k \in 1 .. n |-> f + k - 1]
      BY <2>2 DEF n
    <3> QED
      BY <3>1, <3>2
  <2>4. ASSUME NEW j \in 1 .. n
        PROVE  q[j] = Wrap(a + (j - 1)) /\ a + (j - 1) \in a .. b
    <3> DEFINE k == j - 1
    <3>1. k \in 0 .. m - 1 /\ f + k \in 0 .. m - 1 /\ f + k = f + j - 1 /\ a + k \in a .. b
      BY <1>1, <1>4, <2>1
    <3> HIDE DEF k
    <3>2. q[j] = f + j - 1
      BY <2>3
    <3>3. q[j] = Wrap(a + k) /\ a + k \in a .. b
      BY <1>3, <3>1, <3>2
    <3> QED
      BY <3>3 DEF k
  <2>5. ASSUME NEW y \in a .. b
        PROVE  \E j \in 1 .. n : q[j] = Wrap(y)
    <3>1. y - a + 1 \in 1 .. n /\ a + ((y - a + 1) - 1) = y
      BY <2>1
    <3> HIDE DEF n
    <3> QED
      BY <2>4, <3>1
  <2> HIDE DEF n
  <2>6. GoesThrough(q, n, a, b)
    BY <2>3, <2>4, <2>5 DEF GoesThrough
  <2> QED
    BY <2>6
<1>5. CASE g < f
  <2>1. m - f + g = b - a
    BY <1>1, <1>2, <1>5
  <2> DEFINE u == MaxSeqNo - f
             w == g + 1
             h == [k \in 1 .. u |-> f + k - 1]
             t == [k \in 1 .. w |-> k - 1]
  <2>2. q = h \o t
    <3>1. ~ (f <= g)
      BY <1>1, <1>5
    <3>2. q = Through(f, g)
      BY <1>f
    <3> QED
      BY <3>1, <3>2, Zenon DEF Through
  <2>3. u \in Nat /\ w \in Nat
    BY <1>1
  <2> HIDE DEF u, w
  <2>4. Len(q) = u + w /\ \A j \in 1 .. u + w : q[j] = IF j <= u THEN h[j] ELSE t[j - u]
    <3>1. h \in Seq(Int) /\ Len(h) = u
      BY <1>1, <2>3
    <3>2. t \in Seq(Int) /\ Len(t) = w
      BY <2>3
    <3> HIDE DEF h, t
    <3>3. Len(h \o t) = Len(h) + Len(t) /\ \A j \in 1 .. Len(h) + Len(t) : (h \o t)[j] = IF j <= Len(h) THEN h[j] ELSE t[j - Len(h)]
      BY <3>1, <3>2, ConcatProperties
    <3> QED
      BY <2>2, <3>1, <3>2, <3>3
  <2>5. ASSUME NEW j \in 1 .. u + w
        PROVE  \E y \in a .. b : q[j] = Wrap(y)
    <3>1. CASE j <= u
      <4> DEFINE k == j - 1
      <4>1. k \in 0 .. m - 1 /\ f + k \in 0 .. m - 1 /\ f + k = f + j - 1 /\ a + k \in a .. b
        BY <1>1, <2>1, <2>3, <3>1 DEF u
      <4>2. q[j] = f + j - 1
        <5>1. j \in 1 .. u
          BY <2>3, <3>1
        <5> QED
          BY <2>4, <3>1, <5>1
      <4> HIDE DEF k, h
      <4> QED
        BY <1>3, <4>1, <4>2
    <3>2. CASE u < j
      <4> DEFINE k == g - (j - u - 1)
      <4>1. k \in 0 .. m - 1 /\ g - k \in 0 .. m - 1 /\ g - k = (j - u) - 1 /\ b - k \in a .. b
        BY <1>1, <2>1, <2>3, <3>2 DEF w
      <4>2. q[j] = (j - u) - 1
        <5> DEFINE i == j - u
        <5>1. i \in 1 .. w
          BY <2>3, <3>2
        <5>2. q[j] = t[i]
          BY <2>3, <2>4, <3>2
        <5> HIDE DEF i
        <5>3. t[i] = i - 1
          BY <5>1
        <5> QED
          BY <5>2, <5>3 DEF i
      <4> HIDE DEF k, t
      <4> QED
        BY <1>3, <4>1, <4>2
    <3> QED
      BY <2>3, <3>1, <3>2
  <2> DEFINE n == u + w
  <2>6. n \in Nat /\ ~ (f <= g)
    BY <1>1, <1>5, <2>3
  <2>7. GoesThrough(q, n, a, b)
    BY <1>f, <2>4, <2>5, <2>6 DEF GoesThrough
  <2> QED
    BY <2>7
<1> QED
  BY <1>1, <1>4, <1>5

\* The lists that the loop over q goes through, from k on.
Turn(g, q, k, i) == IF i = 0 THEN k ELSE Removed(g[i - 1], q[i])
IsTurns(g, q, k, n) == g = [i \in 0 .. n |-> Turn(g, q, k, i)]

\* There are such lists, as for walks.
LEMMA TurnsExist ==
  ASSUME NEW q, NEW k, NEW n \in Nat
  PROVE  \E g : IsTurns(g, q, k, n)
<1> DEFINE Bad == {i \in Nat : ~ \E g : IsTurns(g, q, k, i)}
<1> SUFFICES ASSUME Bad # {}
             PROVE  FALSE
  OBVIOUS
<1>1. PICK b \in Bad : \A j \in Bad : b <= j
  <2>1. Bad \in SUBSET Nat
    OBVIOUS
  <2> HIDE DEF Bad
  <2> QED
    BY <2>1, LeastOf
<1>2. b \in Nat /\ ~ \E g : IsTurns(g, q, k, b)
  BY <1>1
<1>3. ASSUME NEW f, \A i \in 0 .. b - 1 : f[i] = Turn(f, q, k, i)
      PROVE  FALSE
  <2> DEFINE g == [i \in 0 .. b |-> IF i = b THEN Turn(f, q, k, b) ELSE f[i]]
             h == [i \in 0 .. b |-> Turn(g, q, k, i)]
  <2>1. ASSUME NEW i \in 0 .. b
        PROVE  Turn(g, q, k, i) = Turn(f, q, k, i)
    <3>1. CASE i = 0
      BY <3>1 DEF Turn
    <3>2. CASE i # 0
      <4>1. g[i - 1] = f[i - 1]
        BY <1>2, <3>2
      <4> HIDE DEF g
      <4> QED
        BY <4>1 DEF Turn
    <3> QED
      BY <3>1, <3>2
  <2>2. ASSUME NEW i \in 0 .. b
        PROVE  g[i] = Turn(f, q, k, i)
    <3>1. CASE i = b
      BY <3>1
    <3>2. CASE i # b
      <4>1. i \in 0 .. b - 1 /\ g[i] = f[i]
        BY <1>2, <3>2
      <4> HIDE DEF g
      <4> QED
        BY <1>3, <4>1
    <3> QED
      BY <3>1, <3>2
  <2>3. g = [i \in 0 .. b |-> g[i]] /\ h = [i \in 0 .. b |-> h[i]]
    OBVIOUS
  <2>4. \A i \in 0 .. b : g[i] = h[i]
    <3> TAKE i \in 0 .. b
    <3>1. h[i] = Turn(g, q, k, i)
      OBVIOUS
    <3> HIDE DEF g, h
    <3> QED
      BY <2>1, <2>2, <3>1
  <2> HIDE DEF g, h
  <2>5. g = h
    BY <2>3, <2>4
  <2>6. IsTurns(g, q, k, b)
    BY <2>5 DEF IsTurns, h
  <2> QED
    BY <1>2, <2>6
<1>4. b # 0
  <2> SUFFICES ASSUME b = 0
               PROVE  FALSE
    OBVIOUS
  <2>1. \A i \in 0 .. b - 1 : FALSE
    OBVIOUS
  <2> QED
    BY <1>3, <2>1
<1>5. b - 1 \in Nat /\ b - 1 \notin Bad
  BY <1>1, <1>2, <1>4
<1>6. PICK f : IsTurns(f, q, k, b - 1)
  BY <1>5
<1>7. \A i \in 0 .. b - 1 : f[i] = Turn(f, q, k, i)
  <2> TAKE i \in 0 .. b - 1
  <2> DEFINE v(j) == Turn(f, q, k, j)
  <2>1. f = [j \in 0 .. b - 1 |-> v(j)]
    BY <1>6 DEF IsTurns
  <2> HIDE DEF v
  <2>2. f[i] = v(i)
    BY <2>1
  <2> QED
    BY <2>2 DEF v
<1> QED
  BY <1>3, <1>7

\* The numbers of C that are not among the first k of q.
Spared(C, q, k) == {u \in C : \A j \in 1 .. k : q[j] # Wrap(u)}

\* x is so near to the numbers of C that remove finds its way.
Reaches(C, x) == x \in Int /\ \A u \in C : x - u < Span /\ u - x < SeqNoTH

AllReach(C, q, n) == \A j \in 1 .. n : \E x : q[j] = Wrap(x) /\ Reaches(C, x)

LEMMA RcvTurns ==
  ASSUME NEW k, NEW r, NEW S, NEW e, NEW c, RcvHolds(k, r, S, e, c), NEW q, NEW n \in Nat,
         AllReach(Cover(S, e), q, n),
         NEW g, IsTurns(g, q, k, n)
  PROVE  \E T, f : RcvHolds(g[n], r, T, f, c) /\ Cover(T, f) = Spared(Cover(S, e), q, n)
<1> DEFINE C == Cover(S, e)
           Good(i) == \E T, f : RcvHolds(g[i], r, T, f, c) /\ Cover(T, f) = Spared(C, q, i)
           Bad == {i \in 0 .. n : ~ Good(i)}
<1>1. \A i \in 0 .. n : g[i] = Turn(g, q, k, i)
  <2> DEFINE v(j) == Turn(g, q, k, j)
  <2>1. g = [j \in 0 .. n |-> v(j)]
    BY DEF IsTurns
  <2> HIDE DEF v
  <2>2. \A i \in 0 .. n : g[i] = v(i)
    BY <2>1
  <2> QED
    BY <2>2 DEF v
<1>c. C \in SUBSET Int /\ Span < SeqNoTH /\ Span \in Nat /\ SeqNoTH \in Nat
  BY RcvWindow, RcvConstants
<1>2. Good(0)
  <2>1. g[0] = k
    BY <1>1 DEF Turn
  <2>2. Spared(C, q, 0) = C
    BY DEF Spared
  <2> QED
    BY <2>1, <2>2
<1>3. ASSUME NEW i \in 0 .. n, i # 0, Good(i - 1)
      PROVE  Good(i)
  <2>1. i - 1 \in Nat /\ i \in 1 .. n
    BY <1>3
  <2>2. PICK x : q[i] = Wrap(x) /\ Reaches(C, x)
    BY <2>1 DEF AllReach
  <2>3. PICK T, f : RcvHolds(g[i - 1], r, T, f, c) /\ Cover(T, f) = Spared(C, q, i - 1)
    BY <1>3
  <2>4. g[i] = Removed(g[i - 1], Wrap(x))
    BY <1>1, <1>3, <2>2 DEF Turn
  <2>5. x \in Int /\ \A u \in Cover(T, f) : x - u < Span /\ u - x < SeqNoTH
    BY <2>2, <2>3 DEF Reaches, Spared
  <2> DEFINE p == g[i - 1]
             o == g[i]
  <2>6. o = Removed(p, Wrap(x)) /\ RcvHolds(p, r, T, f, c)
    BY <2>3, <2>4
  <2> HIDE DEF p, o, Good
  <2>7. PICK U, h : RcvHolds(o, r, U, h, c) /\ Cover(U, h) = Cover(T, f) \ {x}
    BY <2>5, <2>6, RcvRemovedHolds
  <2>8. Spared(C, q, i - 1) \ {x} = Spared(C, q, i)
    <3>1. ASSUME NEW u \in C
          PROVE  q[i] # Wrap(u) <=> u # x
      <4>1. Close(u, x)
        BY <1>c, <2>2 DEF Close, Reaches
      <4>2. Wrap(u) = Wrap(x) <=> u = x
        BY <4>1, RcvClose
      <4> QED
        BY <2>2, <4>2
    <3>2. \A j : j \in 1 .. i <=> j \in 1 .. i - 1 \/ j = i
      BY <2>1
    <3> QED
      BY <3>1, <3>2 DEF Spared
  <2> QED
    BY <2>3, <2>7, <2>8 DEF Good, o
<1> HIDE DEF Good
<1>4. Bad = {}
  <2> SUFFICES ASSUME Bad # {}
               PROVE  FALSE
    OBVIOUS
  <2>1. Bad \in SUBSET Nat
    OBVIOUS
  <2>2. PICK i \in Bad : \A j \in Bad : i <= j
    <3> HIDE DEF Bad
    <3> QED
      BY <2>1, LeastOf
  <2>3. i \in 0 .. n /\ ~ Good(i)
    BY <2>2
  <2>4. i # 0
    BY <1>2, <2>3
  <2>5. i - 1 \in 0 .. n /\ i - 1 \notin Bad
    BY <2>2, <2>3, <2>4
  <2> QED
    BY <1>3, <2>3, <2>4, <2>5
<1>5. Good(n)
  BY <1>4
<1> QED
  BY <1>5 DEF Good

\* The numbers from a to b, all of them in reach of the list's.
InReach(C, a, b) ==
  /\ a \in Int /\ b \in Int /\ a <= b /\ b - a < SeqNoTH
  /\ \A x \in a .. b : Reaches(C, x)

LEMMA RcvRangeRemovedHolds ==
  ASSUME NEW r, NEW S, NEW e, NEW c, RcvHolds(l, r, S, e, c), NEW a, NEW b, InReach(Cover(S, e), a, b),
         NEW o, o = RangeRemoved(Wrap(a), Wrap(b))
  PROVE  \E T, f : /\ RcvHolds(o, r, T, f, c) /\ Cover(T, f) \subseteq Cover(S, e)
                   /\ Wrap(a) <= Wrap(b) => Cover(T, f) = Cover(S, e) \ (a .. b)
<1> DEFINE C == Cover(S, e)
           q == Through(Wrap(a), Wrap(b))
<1>0. /\ a \in Int /\ b \in Int /\ a <= b /\ b - a < SeqNoTH
      /\ \A x \in a .. b : Reaches(Cover(S, e), x)
  BY DEF InReach
<1>1. PICK n : GoesThrough(q, n, a, b)
  <2> HIDE DEF q
  <2>1. q = Through(Wrap(a), Wrap(b))
    BY DEF q
  <2> QED
    BY <1>0, <2>1, RcvThrough
<1>2. n \in Nat /\ Len(q) = n
  BY <1>1 DEF GoesThrough
<1> DEFINE G == CHOOSE g : IsTurns(g, q, l, n)
<1>3. o = G[n]
  <2>1. o = (CHOOSE g : g = [k \in 0 .. Len(q) |-> IF k = 0 THEN l ELSE Removed(g[k - 1], q[k])])[Len(q)]
    BY DEF RangeRemoved
  <2>2. \A g : IsTurns(g, q, l, Len(q)) <=> g = [k \in 0 .. Len(q) |-> IF k = 0 THEN l ELSE Removed(g[k - 1], q[k])]
    BY DEF IsTurns, Turn
  <2> HIDE DEF q
  <2> QED
    BY <1>2, <2>1, <2>2, Zenon DEF IsTurns, Turn
<1> HIDE DEF q
<1>4. IsTurns(G, q, l, n)
  BY <1>2, TurnsExist
<1> HIDE DEF G
<1>5. AllReach(C, q, n)
  BY <1>0, <1>1 DEF GoesThrough, AllReach
<1>6. PICK T, f : RcvHolds(G[n], r, T, f, c) /\ Cover(T, f) = Spared(C, q, n)
  BY <1>2, <1>4, <1>5, RcvTurns
<1>7. Spared(C, q, n) \subseteq C
  BY DEF Spared
<1>8. ASSUME Wrap(a) <= Wrap(b)
      PROVE  Spared(C, q, n) = C \ (a .. b)
  <2>c. C \in SUBSET Int /\ Span < SeqNoTH /\ Span \in Nat /\ SeqNoTH \in Nat
    BY RcvWindow, RcvConstants
  <2>1. ASSUME NEW u \in C, NEW x \in a .. b
        PROVE  Wrap(u) = Wrap(x) <=> u = x
    <3>1. Close(u, x)
      BY <1>0, <2>c DEF Close, Reaches
    <3> QED
      BY <3>1, RcvClose
  <2>2. ASSUME NEW u \in C, u \in a .. b
        PROVE  u \notin Spared(C, q, n)
    <3>1. \E j \in 1 .. n : q[j] = Wrap(u)
      BY <1>0, <1>1, <1>8, <2>2 DEF GoesThrough
    <3> QED
      BY <3>1 DEF Spared
  <2>3. ASSUME NEW u \in C, u \notin a .. b
        PROVE  u \in Spared(C, q, n)
    <3>1. \A j \in 1 .. n : \E x \in a .. b : q[j] = Wrap(x)
      BY <1>1 DEF GoesThrough
    <3>2. \A j \in 1 .. n : q[j] # Wrap(u)
      <4> TAKE j \in 1 .. n
      <4>1. PICK x \in a .. b : q[j] = Wrap(x)
        BY <3>1
      <4>2. u # x
        BY <2>3
      <4> QED
        BY <2>1, <4>1, <4>2
    <3> QED
      BY <3>2 DEF Spared
  <2> HIDE DEF C
  <2> QED
    BY <1>7, <2>2, <2>3
<1> QED
  BY <1>3, <1>6, <1>7, <1>8

-----------------------------------------------------------------------------
(* The number of the last packet.                                           *)

\* cur stands for the number c: before the first packet it may be the number before 0.
Points(cur, c) ==
  /\ cur \in -1 .. MaxSeqNo /\ c \in Int
  /\ incseq(cur) = Wrap(c + 1)
  /\ cur = Wrap(c) \/ (cur = -1 /\ Wrap(c) = MaxSeqNo)

LEMMA RcvPointsAt ==
  ASSUME NEW c \in Int
  PROVE  Points(Wrap(c), c)
<1>1. Wrap(c) \in 0 .. MaxSeqNo /\ incseq(Wrap(c)) = Wrap(c + 1)
  BY RcvSteps
<1> QED
  BY <1>1 DEF Points

LEMMA RcvPointsAtFirst ==
  ASSUME NEW n \in 0 .. MaxSeqNo
  PROVE  Points(n - 1, n - 1)
<1> DEFINE m == MaxSeqNo + 1
<1>1. m \in Nat \ {0} /\ m - 1 = MaxSeqNo /\ m >= 2 /\ n \in Int /\ n - 1 \in Int
  BY RcvConstants
<1>2. Wrap(n) = n
  <2>1. Wrap(0) = 0
    <3>1. 0 % m = 0
      <4> HIDE DEF m
      <4> QED
        BY <1>1
    <3> QED
      BY <3>1 DEF Wrap
  <2>2. Wrap(0 + n) = 0 + n
    <3>1. 0 \in Int /\ -(MaxSeqNo + 1) < n /\ n < MaxSeqNo + 1 /\ Wrap(0) + n \in 0 .. MaxSeqNo
      BY <1>1, <2>1
    <3> QED
      BY <1>1, <2>1, <3>1, RcvOffset
  <2> QED
    BY <1>1, <2>2
<1>3. decseq(Wrap(n)) = Wrap(n - 1)
  BY <1>1, RcvSteps
<1>4. Wrap(n - 1) = IF n = 0 THEN MaxSeqNo ELSE n - 1
  BY <1>2, <1>3 DEF decseq
<1>5. incseq(n - 1) = n
  BY <1>1 DEF incseq
<1>6. (n - 1) + 1 = n
  BY <1>1
<1> QED
  BY <1>1, <1>2, <1>4, <1>5, <1>6 DEF Points

LEMMA RcvAfter ==
  ASSUME NEW cur, NEW c, Points(cur, c), NEW x, Close(x, c)
  PROVE  /\ seqcmp(Wrap(x), cur) > 0 <=> x > c
         /\ seqcmp(Wrap(x), cur) <= 0 <=> x <= c
<1>1. x \in Int /\ c \in Int /\ x - c < SeqNoTH /\ c - x < SeqNoTH
  BY DEF Close
<1>2. CASE cur = Wrap(c)
  BY <1>2, RcvClose
<1>3. CASE cur = -1 /\ Wrap(c) = MaxSeqNo
  <2> DEFINE m == MaxSeqNo + 1
             w == Wrap(x)
             t == x - c
  <2>1. m \in Nat \ {0} /\ m - 1 = MaxSeqNo /\ m = SeqNoTH + SeqNoTH + 2 /\ SeqNoTH \in Nat
    BY RcvConstants
  <2>2. t \in Int /\ t < SeqNoTH /\ -t < SeqNoTH /\ (x > c <=> t > 0) /\ (x <= c <=> t <= 0)
    BY <1>1
  <2>3. w \in 0 .. MaxSeqNo /\ w - Wrap(c) \in {t, t - m, t + m}
    <3>1. -m < x - c /\ x - c < m
      BY <1>1, <2>1
    <3>2. (x % m) - (c % m) \in {x - c, x - c - m, x - c + m}
      <4> HIDE DEF m
      <4> QED
        BY <1>1, <2>1, <3>1, RemaindersNear
    <3>3. Wrap(x) \in 0 .. MaxSeqNo
      BY <1>1, RcvSteps
    <3> QED
      BY <3>2, <3>3 DEF Wrap
  <2> HIDE DEF m, w, t
  <2>4. w = IF t <= 0 THEN MaxSeqNo + t ELSE t - 1
    BY <1>3, <2>1, <2>2, <2>3
  <2>5. /\ seqcmp(w, -1) > 0 <=> t > 0
        /\ seqcmp(w, -1) <= 0 <=> t <= 0
    BY <2>1, <2>2, <2>3, <2>4 DEF seqcmp, Near
  <2> QED
    BY <1>3, <2>2, <2>5 DEF w
<1> QED
  BY <1>2, <1>3 DEF Points

-----------------------------------------------------------------------------
(* The steps of the receive worker.                                         *)

\* The list, and the number of the last packet: c, f is the first missing one.
RcvStands(r, S, e, c, f) ==
  /\ RcvHolds(l, r, S, e, c) /\ Points(RcvCurrSeqNo, c)
  /\ f \in Int /\ f <= c + 1 /\ c - f < Span /\ \A u \in Cover(S, e) : f <= u
  /\ Cover(S, e) = {} => f = c + 1
  /\ Cover(S, e) # {} => f \in Cover(S, e)
  /\ FirstMissing = Wrap(f)

LEMMA RcvFirst ==
  ASSUME NEW r, NEW S, NEW e, NEW c, RcvHolds(l, r, S, e, c), Points(RcvCurrSeqNo, c)
  PROVE  \E f : RcvStands(r, S, e, c, f)
<1>1. /\ Cover(S, e) \in SUBSET Int /\ S \subseteq Cover(S, e) /\ Spread(Size, S)
      /\ \A a \in S : a \in Int
      /\ S = {} <=> Cover(S, e) = {}
      /\ l.length = 0 <=> S = {}
  BY RcvWindow
<1>2. /\ RcvArrays(l, r, S, e) /\ Ranges(S, e) /\ c \in Int /\ \A u \in Cover(S, e) : c - u < Span /\ u <= c
  BY DEF RcvHolds
<1>3. Span \in Nat \ {0} /\ Size \in Nat
  BY RcvConstants
<1>4. CASE S = {}
  <2>1. FirstMissing = Wrap(c + 1)
    BY <1>1, <1>4 DEF FirstMissing, Points
  <2>2. c + 1 \in Int /\ c - (c + 1) < Span
    BY <1>2, <1>3
  <2>3. RcvStands(r, S, e, c, c + 1)
    BY <1>1, <1>4, <2>1, <2>2 DEF RcvStands
  <2> QED
    BY <2>3
<1>5. CASE S # {}
  <2>1. PICK h \in S : IsLeast(S, h)
    BY <1>1, <1>3, <1>5, EndsExist
  <2>2. l.head = Slot(Size, r, h)
    BY <1>2, <2>1 DEF RcvArrays, Forward
  <2>3. FirstMissing = Wrap(h)
    <3>1. l.data1[l.head] = Wrap(h)
      BY <1>1, <1>2, <2>2, RcvNodeData
    <3> QED
      BY <1>1, <1>5, <3>1 DEF FirstMissing, getFirstLostSeq
  <2>4. \A u \in Cover(S, e) : h <= u
    <3> SUFFICES ASSUME NEW u \in Cover(S, e)
                 PROVE  h <= u
      OBVIOUS
    <3>1. PICK a \in S : a <= u /\ u \in Int
      BY DEF Cover
    <3> QED
      BY <1>1, <2>1, <3>1 DEF IsLeast
  <2>5. h \in Cover(S, e) /\ h \in Int /\ h <= c + 1 /\ c - h < Span
    BY <1>1, <1>2
  <2>6. RcvStands(r, S, e, c, h)
    BY <1>1, <1>5, <2>3, <2>4, <2>5 DEF RcvStands
  <2> QED
    BY <2>6
<1> QED
  BY <1>4, <1>5

-----------------------------------------------------------------------------
(* What the arrays show.                                                    *)

\* The nodes, and the numbers of the ranges.
LEMMA RcvChainIs ==
  ASSUME NEW r, NEW S, NEW e, NEW c, RcvHolds(l, r, S, e, c)
  PROVE  Chain = {Slot(Size, r, a) : a \in S}
<1>1. Spread(Size, S) /\ (l.length = 0 <=> S = {})
  BY RcvWindow
<1>2. r \in Int /\ Forward(Size, r, l.next, l.head, S) /\ Size \in Nat \ {0} /\ Size \in Nat
  BY RcvConstants DEF RcvHolds, RcvArrays
<1>3. CASE S = {}
  BY <1>1, <1>3 DEF Chain
<1>4. CASE S # {}
  <2> DEFINE g == CHOOSE f : IsWalk(f, Size, l.next, Size)
  <2>1. IsWalk(g, Size, l.next, Size)
    BY <1>2, WalkExists
  <2>2. Chain = Walk[Size][l.head]
    BY <1>1, <1>4 DEF Chain
  <2>3. Walk = g
    <3>1. \A f : IsWalk(f, Size, l.next, Size) <=>
            f = [k \in 0 .. Size |-> [i \in -1 .. Size - 1 |-> IF i = -1 \/ k = 0 THEN {} ELSE {i} \cup f[k - 1][l.next[i]]]]
      BY DEF IsWalk, Ahead
    <3>2. Walk = CHOOSE f : f = [k \in 0 .. Size |-> [i \in -1 .. Size - 1 |-> IF i = -1 \/ k = 0 THEN {} ELSE {i} \cup f[k - 1][l.next[i]]]]
      BY DEF Walk, None
    <3> QED
      BY <3>1, <3>2, Zenon DEF IsWalk, Ahead
  <2> HIDE DEF g
  <2>4. g[Size][l.head] = {Slot(Size, r, a) : a \in S}
    BY <1>1, <1>2, <1>4, <2>1, WalkMeets
  <2> QED
    BY <2>2, <2>3, <2>4
<1> QED
  BY <1>3, <1>4

LEMMA RcvListedIs ==
  ASSUME NEW r, NEW S, NEW e, NEW c, RcvHolds(l, r, S, e, c)
  PROVE  Listed = {Wrap(u) : u \in Cover(S, e)}
<1>1. /\ Spread(Size, S) /\ S \in SUBSET Int
      /\ \A a \in S : a \in Int /\ e[a] \in Int /\ a <= e[a] /\ e[a] - a < SeqNoTH
  BY RcvWindow DEF RcvHolds, Ranges
<1>2. Chain = {Slot(Size, r, a) : a \in S}
  BY RcvChainIs
<1>3. RcvArrays(l, r, S, e)
  BY DEF RcvHolds
<1> DEFINE At(a) == Stretch(l.data1[Slot(Size, r, a)], LastOf(Slot(Size, r, a)))
<1>4. ASSUME NEW a \in S
      PROVE  At(a) = {Wrap(u) : u \in a .. e[a]}
  <2>1. /\ l.data1[Slot(Size, r, a)] = Wrap(a)
        /\ l.data2[Slot(Size, r, a)] = (IF e[a] = a THEN None ELSE Wrap(e[a]))
    BY <1>1, <1>3, RcvNodeData
  <2>2. a \in Int /\ e[a] \in Int /\ a <= e[a] /\ e[a] - a < SeqNoTH
    BY <1>1
  <2>3. Wrap(e[a]) # None
    BY <2>2, RcvSteps DEF None
  <2>4. LastOf(Slot(Size, r, a)) = Wrap(e[a])
    BY <2>1, <2>3 DEF LastOf
  <2>5. Stretch(Wrap(a), Wrap(e[a])) = {Wrap(u) : u \in a .. e[a]}
    <3> DEFINE y == e[a]
    <3>1. y \in Int /\ a <= y /\ y - a < SeqNoTH
      BY <2>2
    <3> HIDE DEF y
    <3>2. Stretch(Wrap(a), Wrap(y)) = {Wrap(u) : u \in a .. y}
      BY <2>2, <3>1, RcvStretch
    <3> QED
      BY <3>2 DEF y
  <2> QED
    BY <2>1, <2>4, <2>5
<1>5. Listed = UNION {At(a) : a \in S}
  BY <1>2 DEF Listed
<1> HIDE DEF At
<1>6. ASSUME NEW w \in Listed
      PROVE  w \in {Wrap(u) : u \in Cover(S, e)}
  <2>1. PICK a \in S : w \in At(a)
    BY <1>5
  <2>2. PICK u \in a .. e[a] : w = Wrap(u)
    BY <1>4, <2>1
  <2>3. u \in Cover(S, e)
    BY <1>1 DEF Cover
  <2> QED
    BY <2>2, <2>3
<1>7. ASSUME NEW u \in Cover(S, e)
      PROVE  Wrap(u) \in Listed
  <2>1. PICK a \in S : a <= u /\ u <= e[a] /\ u \in Int
    BY DEF Cover
  <2>2. u \in a .. e[a]
    BY <1>1, <2>1
  <2>3. Wrap(u) \in At(a)
    BY <1>4, <2>2
  <2> QED
    BY <1>5, <2>3
<1> QED
  BY <1>6, <1>7

\* Numbers of the window differ.
LEMMA RcvApart ==
  ASSUME NEW k, NEW r, NEW S, NEW e, NEW c, RcvHolds(k, r, S, e, c)
  PROVE  \A u, v \in Cover(S, e) : Close(u, v) /\ (Wrap(u) = Wrap(v) => u = v)
<1>1. Cover(S, e) \in SUBSET Int /\ c \in Int /\ \A u \in Cover(S, e) : c - u < Span /\ u <= c
  BY RcvWindow DEF RcvHolds
<1>2. Span < SeqNoTH /\ Span \in Nat /\ SeqNoTH \in Nat
  BY RcvConstants
<1> SUFFICES ASSUME NEW u \in Cover(S, e), NEW v \in Cover(S, e)
             PROVE  Close(u, v) /\ (Wrap(u) = Wrap(v) => u = v)
  OBVIOUS
<1>3. Close(u, v)
  BY <1>1, <1>2 DEF Close
<1> QED
  BY <1>3, RcvClose

LEMMA RcvListedCount ==
  ASSUME NEW r, NEW S, NEW e, NEW c, RcvHolds(l, r, S, e, c)
  PROVE  IsFiniteSet(Listed) /\ Cardinality(Listed) = l.length
<1> DEFINE C == Cover(S, e)
           g == [u \in C |-> Wrap(u)]
<1>1. IsFiniteSet(C) /\ l.length = Cardinality(C)
  BY RcvWindow DEF RcvHolds
<1>2. Listed = {Wrap(u) : u \in C}
  BY RcvListedIs
<1>3. \A u, v \in C : Wrap(u) = Wrap(v) => u = v
  BY RcvApart
<1> HIDE DEF C
<1>4. g \in Bijection(C, Listed)
  BY <1>2, <1>3 DEF Bijection, Injection, IsInjective, Surjection
<1> HIDE DEF g
<1>5. ExistsBijection(C, Listed)
  BY <1>4 DEF ExistsBijection
<1> QED
  BY <1>1, <1>5, FS_Bijection

\* Free slots keep nothing.
LEMMA RcvFreeSlotsAreClean ==
  ASSUME NEW r, NEW S, NEW e, NEW c, RcvHolds(l, r, S, e, c)
  PROVE  FreeSlotsClean
<1>1. Chain = {Slot(Size, r, a) : a \in S}
  BY RcvChainIs
<1>2. Nodes(MaxSeqNo + 1, Size, r, l.data1, l.data2, S, e)
  BY DEF RcvHolds, RcvArrays
<1>3. \A i \in 0 .. Size - 1 : (\A a \in S : Slot(Size, r, a) # i) => l.data1[i] = -1 /\ l.data2[i] = -1
  BY <1>2 DEF Nodes
<1>4. ASSUME NEW i \in Slots \ Chain
      PROVE  l.data1[i] = -1 /\ l.data2[i] = -1
  <2>1. i \in 0 .. Size - 1 /\ \A a \in S : Slot(Size, r, a) # i
    BY <1>1, <1>4 DEF Slots
  <2> QED
    BY <1>3, <2>1
<1> QED
  BY <1>4 DEF FreeSlotsClean, None

\* The links back answer the links forth.
LEMMA RcvLinksDoAgree ==
  ASSUME NEW r, NEW S, NEW e, NEW c, RcvHolds(l, r, S, e, c)
  PROVE  LinksAgree
<1> SUFFICES ASSUME l.length > 0
             PROVE  /\ l.next[l.tail] = None /\ l.prior[l.head] = None
                    /\ \A i \in Chain : /\ l.next[i] # None => l.prior[l.next[i]] = i
                                        /\ i = Place(l.data1[i])
  BY DEF LinksAgree
<1>1. Spread(Size, S) /\ (l.length = 0 <=> S = {}) /\ S \subseteq Cover(S, e)
  BY RcvWindow
<1>2. S # {} /\ RcvArrays(l, r, S, e)
  BY <1>1 DEF RcvHolds
<1>3. /\ r \in Int /\ Size \in Nat \ {0} /\ Size \in Nat
      /\ Forward(Size, r, l.next, l.head, S) /\ Backward(Size, r, l.prior, l.tail, S)
  BY <1>2, RcvConstants DEF RcvArrays
<1>4. PICK h \in S : IsLeast(S, h)
  BY <1>1, <1>2, <1>3, EndsExist
<1>5. PICK g \in S : IsGreatest(S, g)
  BY <1>1, <1>2, <1>3, EndsExist
<1>6. l.next[l.tail] = None
  <2>1. l.tail = Slot(Size, r, g)
    BY <1>3, <1>5 DEF Backward
  <2>2. l.next[Slot(Size, r, g)] = -1
    BY <1>3, <1>5 DEF Forward
  <2> QED
    BY <2>1, <2>2 DEF None
<1>7. l.prior[l.head] = None
  <2>1. l.head = Slot(Size, r, h)
    BY <1>3, <1>4 DEF Forward
  <2>2. l.prior[Slot(Size, r, h)] = -1
    BY <1>3, <1>4 DEF Backward
  <2> QED
    BY <2>1, <2>2 DEF None
<1>8. ASSUME NEW a \in S, l.next[Slot(Size, r, a)] # None
      PROVE  l.prior[l.next[Slot(Size, r, a)]] = Slot(Size, r, a)
  <2>1. ~ IsGreatest(S, a)
    BY <1>3, <1>8 DEF Forward, None
  <2>2. PICK d \in S : Adjacent(S, a, d)
    BY <1>1, <1>3, <2>1, FollowerExists
  <2>3. l.next[Slot(Size, r, a)] = Slot(Size, r, d)
    BY <1>3, <2>2 DEF Forward
  <2>4. l.prior[Slot(Size, r, d)] = Slot(Size, r, a)
    BY <1>3, <2>2 DEF Backward
  <2> QED
    BY <2>3, <2>4
<1>9. ASSUME NEW a \in S
      PROVE  Slot(Size, r, a) = Place(l.data1[Slot(Size, r, a)])
  <2>1. l.data1[Slot(Size, r, a)] = Wrap(a)
    BY <1>1, <1>2, RcvNodeData
  <2>2. Close(a, h)
    BY <1>1, <1>4, RcvApart
  <2>3. Place(Wrap(a)) = Slot(Size, r, a)
    BY <1>1, <1>2, <1>4, <2>2, RcvPlaceIs
  <2> QED
    BY <2>1, <2>3
<1>10. Chain = {Slot(Size, r, a) : a \in S}
  BY RcvChainIs
<1> QED
  BY <1>6, <1>7, <1>8, <1>9, <1>10

\* The list holds the numbers missing before the one of the last packet.
RcvInv ==
  /\ \E r, S, e, c : RcvHolds(l, r, S, e, c) /\ Points(RcvCurrSeqNo, c)
  /\ hung \in BOOLEAN /\ givenUp \subseteq 0 .. MaxSeqNo

LEMMA RcvInvShows == RcvInv => ArraysAgree
<1> SUFFICES ASSUME RcvInv
             PROVE  ArraysAgree
  OBVIOUS
<1>1. PICK r, S, e, c : RcvHolds(l, r, S, e, c) /\ Points(RcvCurrSeqNo, c)
  BY DEF RcvInv
<1>2. TypeOK
  <2>1. l \in RcvLists /\ RcvCurrSeqNo \in -1 .. MaxSeqNo
    BY <1>1 DEF RcvHolds, RcvArrays, Points
  <2> QED
    BY <2>1 DEF RcvInv, TypeOK, RcvLists
<1>3. LengthIsCount
  <2>1. Cardinality(Listed) = l.length
    BY <1>1, RcvListedCount
  <2> QED
    BY <2>1 DEF LengthIsCount
<1>4. FreeSlotsClean
  BY <1>1, RcvFreeSlotsAreClean
<1>5. LinksAgree
  BY <1>1, RcvLinksDoAgree
<1> QED
  BY <1>2, <1>3, <1>4, <1>5 DEF ArraysAgree

\* The empty list.
LEMMA RcvEmptyHolds ==
  ASSUME NEW c \in Int
  PROVE  RcvHolds(EmptyList, 0, {}, [i \in Int |-> 0], c)
<1> DEFINE e == [i \in Int |-> 0]
<1>1. MaxSeqNo + 1 - 1 = MaxSeqNo /\ MaxSeqNo \in Nat /\ Size \in Nat \ {0}
  BY RcvConstants
<1>2. EmptyList \in RcvLists
  BY <1>1 DEF EmptyList, RcvLists, Slots, None
<1>3. Nodes(MaxSeqNo + 1, Size, 0, EmptyList.data1, EmptyList.data2, {}, e)
  BY <1>1 DEF Nodes, EmptyList, Slots, None
<1>4. Forward(Size, 0, EmptyList.next, EmptyList.head, {})
  BY <1>1 DEF Forward, EmptyList, Slots, None, IsLeast, IsGreatest, Adjacent
<1>5. Backward(Size, 0, EmptyList.prior, EmptyList.tail, {})
  BY <1>1 DEF Backward, EmptyList, Slots, None, IsLeast, IsGreatest, Adjacent
<1>6. Ranges({}, e) /\ Cover({}, e) = {}
  BY DEF Ranges, Cover
<1>7. EmptyList.length = Cardinality({})
  BY FS_EmptySet DEF EmptyList
<1> HIDE DEF e
<1>8. RcvArrays(EmptyList, 0, {}, e)
  BY <1>2, <1>3, <1>4, <1>5 DEF RcvArrays
<1>9. RcvHolds(EmptyList, 0, {}, e, c)
  BY <1>6, <1>7, <1>8 DEF RcvHolds
<1> QED
  BY <1>9 DEF e

\* The number k steps from the first missing one.
LEMMA RcvStepIs ==
  ASSUME NEW r, NEW S, NEW e, NEW c, NEW f, RcvStands(r, S, e, c, f), NEW k \in Int
  PROVE  Step(FirstMissing, k) = Wrap(f + k)
<1>1. f \in Int /\ FirstMissing = Wrap(f)
  BY DEF RcvStands
<1>2. Wrap(Wrap(f) + k) = Wrap(f + k)
  BY <1>1, RcvSteps
<1> QED
  BY <1>1, <1>2 DEF Step, Wrap

LEMMA RcvGapStep ==
  ASSUME NEW r, NEW S, NEW e, NEW c, NEW f, RcvStands(r, S, e, c, f), NEW k \in 0 .. Span - 1,
         NEW x, x = f + k, Gap(Wrap(x))
  PROVE  /\ c + 1 < x /\ x \in Int
         /\ \E q, T, g : /\ RcvHolds(l', q, T, g, x) /\ Points(RcvCurrSeqNo', x)
                         /\ Cover(T, g) = Cover(S, e) \cup ((c + 1) .. (x - 1))
<1>1. /\ RcvHolds(l, r, S, e, c) /\ Points(RcvCurrSeqNo, c) /\ c \in Int
      /\ f \in Int /\ f <= c + 1 /\ c - f < Span /\ \A u \in Cover(S, e) : f <= u
      /\ Cover(S, e) \in SUBSET Int
  BY RcvWindow DEF RcvStands, Points
<1>2. Span \in Nat \ {0} /\ Span < SeqNoTH /\ SeqNoTH \in Nat
  BY RcvConstants
<1>3. x \in Int
  BY <1>1, <1>2
<1>4. incseq(RcvCurrSeqNo) = Wrap(c + 1) /\ decseq(Wrap(x)) = Wrap(x - 1)
  BY <1>1, <1>3, RcvSteps DEF Points
<1>5. c + 1 < x
  <2>1. Close(x, c + 1)
    BY <1>1, <1>2, <1>3 DEF Close
  <2>2. seqcmp(Wrap(x), Wrap(c + 1)) > 0
    BY <1>4 DEF Gap
  <2> DEFINE p == c + 1
  <2>3. Close(x, p) /\ seqcmp(Wrap(x), Wrap(p)) > 0
    BY <2>1, <2>2
  <2> HIDE DEF p
  <2>4. x > p
    BY <2>3, RcvClose
  <2> QED
    BY <1>1, <1>3, <2>4 DEF p
<1> DEFINE p == c + 1
           y == x - 1
<1>6. /\ p = c + 1 /\ y \in Int /\ p <= y /\ x = y + 1 /\ x - p < Span
      /\ \A u \in Cover(S, e) : x - u < Span
  BY <1>1, <1>2, <1>3, <1>5
<1>7. l' = Inserted(Wrap(p), Wrap(y)) /\ RcvCurrSeqNo' = Wrap(x)
  BY <1>4 DEF Gap
<1>8. \E q, T, g : RcvHolds(l', q, T, g, x) /\ Cover(T, g) = Cover(S, e) \cup (p .. y)
  <2> HIDE DEF p, y
  <2> DEFINE o == l'
  <2>1. o = Inserted(Wrap(p), Wrap(y))
    BY <1>7
  <2> HIDE DEF o
  <2>2. \E q, T, g : RcvHolds(o, q, T, g, x) /\ Cover(T, g) = Cover(S, e) \cup (p .. y)
    <3>1. RcvHolds(l, r, S, e, c)
      BY <1>1
    <3>2. p = c + 1
      BY <1>6
    <3>3. y \in Int /\ p <= y
      BY <1>6
    <3>4. x = y + 1
      BY <1>6
    <3>5. x - p < Span
      BY <1>6
    <3>6. \A u \in Cover(S, e) : x - u < Span
      BY <1>6
    <3> QED
      BY <3>1, <3>2, <3>3, <3>4, <3>5, <3>6, <2>1, RcvInsertedHolds
  <2> QED
    BY <2>2 DEF o
<1>9. Points(RcvCurrSeqNo', x)
  BY <1>3, <1>7, RcvPointsAt
<1> QED
  BY <1>3, <1>5, <1>8, <1>9

LEMMA RcvFollowStep ==
  ASSUME NEW r, NEW S, NEW e, NEW c, NEW f, RcvStands(r, S, e, c, f), NEW k \in 0 .. Span - 1,
         NEW x, x = f + k, Follow(Wrap(x))
  PROVE  x = c + 1 /\ RcvHolds(l', r, S, e, x) /\ Points(RcvCurrSeqNo', x)
<1>1. /\ RcvHolds(l, r, S, e, c) /\ Points(RcvCurrSeqNo, c) /\ c \in Int
      /\ f \in Int /\ f <= c + 1 /\ c - f < Span /\ \A u \in Cover(S, e) : f <= u
      /\ Cover(S, e) \in SUBSET Int
  BY RcvWindow DEF RcvStands, Points
<1>2. Span \in Nat \ {0} /\ Span < SeqNoTH /\ SeqNoTH \in Nat
  BY RcvConstants
<1>3. x \in Int
  BY <1>1, <1>2
<1>4. x = c + 1
  <2> DEFINE p == c + 1
  <2>1. Close(x, p)
    BY <1>1, <1>2, <1>3 DEF Close
  <2>2. Wrap(x) = Wrap(p)
    BY <1>1 DEF Follow, Points
  <2> HIDE DEF p
  <2>3. x = p
    BY <2>1, <2>2, RcvClose
  <2> QED
    BY <2>3 DEF p
<1>5. l' = l /\ RcvCurrSeqNo' = Wrap(x)
  BY DEF Follow
<1>6. /\ RcvArrays(l, r, S, e) /\ Ranges(S, e) /\ l.length = Cardinality(Cover(S, e))
      /\ \A u \in Cover(S, e) : c - u < Span /\ u <= c
  BY <1>1 DEF RcvHolds
<1>7. \A u \in Cover(S, e) : x - u < Span /\ u <= x
  BY <1>1, <1>2, <1>3, <1>4, <1>6
<1>8. RcvHolds(l, r, S, e, x)
  BY <1>3, <1>6, <1>7 DEF RcvHolds
<1>9. Points(RcvCurrSeqNo', x)
  BY <1>3, <1>5, RcvPointsAt
<1> QED
  BY <1>4, <1>5, <1>8, <1>9

LEMMA RcvRetransmittedStep ==
  ASSUME NEW r, NEW S, NEW e, NEW c, NEW f, RcvStands(r, S, e, c, f), NEW k \in 0 .. Span - 1,
         NEW x, x = f + k, Retransmitted(Wrap(x))
  PROVE  /\ x \in Cover(S, e) /\ Points(RcvCurrSeqNo', c)
         /\ \E T, g : RcvHolds(l', r, T, g, c) /\ Cover(T, g) = Cover(S, e) \ {x}
<1>1. /\ RcvHolds(l, r, S, e, c) /\ Points(RcvCurrSeqNo, c) /\ c \in Int
      /\ f \in Int /\ f <= c + 1 /\ c - f < Span /\ \A u \in Cover(S, e) : f <= u
      /\ Cover(S, e) \in SUBSET Int
  BY RcvWindow DEF RcvStands, Points
<1>2. Span \in Nat \ {0} /\ Span < SeqNoTH /\ SeqNoTH \in Nat
  BY RcvConstants
<1>3. x \in Int /\ \A u \in Cover(S, e) : u <= c
  BY <1>1, <1>2 DEF RcvHolds
<1>4. \A u \in Cover(S, e) : x - u < Span /\ u - x < SeqNoTH
  BY <1>1, <1>2, <1>3
<1>5. l' = Removed(l, Wrap(x)) /\ Removed(l, Wrap(x)) # l /\ RcvCurrSeqNo' = RcvCurrSeqNo
  BY DEF Retransmitted
<1> DEFINE o == Removed(l, Wrap(x))
<1>6. PICK T, g : /\ RcvHolds(o, r, T, g, c) /\ Cover(T, g) = Cover(S, e) \ {x}
                  /\ x \notin Cover(S, e) => o = l
  <2>1. o = Removed(l, Wrap(x))
    OBVIOUS
  <2> HIDE DEF o
  <2> QED
    BY <1>1, <1>3, <1>4, <2>1, RcvRemovedHolds
<1> QED
  BY <1>1, <1>5, <1>6

LEMMA RcvDropStep ==
  ASSUME NEW r, NEW S, NEW e, NEW c, NEW f, RcvStands(r, S, e, c, f), NEW i \in -1 .. Span - 1, NEW j \in -1 .. Span - 1,
         i <= j, j - i < MaxGiveUp, NEW a, a = f + i, NEW b, b = f + j, Drop(Wrap(a), Wrap(b))
  PROVE  \E T, g, d : /\ RcvHolds(l', r, T, g, d) /\ Points(RcvCurrSeqNo', d)
                      /\ Wrap(a) <= Wrap(b) => Cover(T, g) = Cover(S, e) \ (a .. b)
<1>1. /\ RcvHolds(l, r, S, e, c) /\ Points(RcvCurrSeqNo, c) /\ c \in Int
      /\ f \in Int /\ f <= c + 1 /\ c - f < Span /\ \A u \in Cover(S, e) : f <= u
      /\ Cover(S, e) \in SUBSET Int
  BY RcvWindow DEF RcvStands, Points
<1>2. /\ Span \in Nat \ {0} /\ Span < SeqNoTH /\ SeqNoTH \in Nat
      /\ MaxGiveUp \in Nat /\ Span + MaxGiveUp < SeqNoTH
  BY RcvConstants
<1>3. a \in Int /\ b \in Int /\ a <= b /\ b - a < SeqNoTH /\ \A u \in Cover(S, e) : u <= c
  BY <1>1, <1>2 DEF RcvHolds
<1>4. ASSUME NEW x \in a .. b
      PROVE  Reaches(Cover(S, e), x)
  <2>1. x \in Int /\ x - f < Span /\ f - 1 <= x
    BY <1>1, <1>2, <1>3
  <2>2. ASSUME NEW u \in Cover(S, e)
        PROVE  x - u < Span /\ u - x < SeqNoTH
    <3>1. u \in Int /\ f <= u /\ u <= c
      BY <1>1, <1>3
    <3> QED
      BY <1>1, <1>2, <2>1, <3>1
  <2> QED
    BY <2>1, <2>2 DEF Reaches
<1>5. l' = RangeRemoved(Wrap(a), Wrap(b))
  BY DEF Drop
<1> DEFINE o == l'
<1>6. PICK T, g : /\ RcvHolds(o, r, T, g, c) /\ Cover(T, g) \subseteq Cover(S, e)
                  /\ Wrap(a) <= Wrap(b) => Cover(T, g) = Cover(S, e) \ (a .. b)
  <2>1. o = RangeRemoved(Wrap(a), Wrap(b))
    BY <1>5
  <2> HIDE DEF o
  <2> QED
    <3>1. RcvHolds(l, r, S, e, c)
      BY <1>1
    <3>2. InReach(Cover(S, e), a, b)
      BY <1>3, <1>4 DEF InReach
    <3> QED
      BY <3>1, <3>2, <2>1, RcvRangeRemovedHolds
<1>7. RcvCurrSeqNo' = IF a <= c + 1 /\ b > c THEN Wrap(b) ELSE RcvCurrSeqNo
  <2>1. incseq(RcvCurrSeqNo) = Wrap(c + 1)
    BY <1>1 DEF Points
  <2>2. Close(b, c)
    BY <1>1, <1>2, <1>3 DEF Close
  <2>3. seqcmp(Wrap(b), RcvCurrSeqNo) > 0 <=> b > c
    BY <1>1, <2>2, RcvAfter
  <2>4. seqcmp(Wrap(a), Wrap(c + 1)) <= 0 <=> a <= c + 1
    <3> DEFINE p == c + 1
    <3>1. Close(a, p)
      BY <1>1, <1>2, <1>3 DEF Close
    <3> HIDE DEF p
    <3>2. seqcmp(Wrap(a), Wrap(p)) <= 0 <=> a <= p
      BY <3>1, RcvClose
    <3> QED
      BY <3>2 DEF p
  <2> QED
    BY <2>1, <2>3, <2>4 DEF Drop
<1>8. CASE a <= c + 1 /\ b > c
  <2>1. Points(RcvCurrSeqNo', b)
    BY <1>3, <1>7, <1>8, RcvPointsAt
  <2>2. /\ RcvArrays(o, r, T, g) /\ Ranges(T, g) /\ o.length = Cardinality(Cover(T, g))
        /\ \A u \in Cover(T, g) : c - u < Span /\ u <= c
    BY <1>6 DEF RcvHolds
  <2>3. \A u \in Cover(T, g) : b - u < Span /\ u <= b
    <3>1. ASSUME NEW u \in Cover(T, g)
          PROVE  b - u < Span /\ u <= b
      <4>1. u \in Int /\ f <= u /\ u <= c
        BY <1>1, <1>3, <1>6
      <4>2. b - f < Span
        BY <1>1, <1>2
      <4> QED
        BY <1>1, <1>2, <1>3, <1>8, <4>1, <4>2
    <3> QED
      BY <3>1
  <2>4. RcvHolds(o, r, T, g, b)
    <3> HIDE DEF o
    <3> QED
      BY <1>3, <2>2, <2>3 DEF RcvHolds
  <2> QED
    BY <1>6, <2>1, <2>4
<1>9. CASE ~ (a <= c + 1 /\ b > c)
  <2>1. Points(RcvCurrSeqNo', c)
    BY <1>1, <1>7, <1>9
  <2> QED
    BY <1>6, <2>1
<1> QED
  BY <1>8, <1>9

LEMMA RcvInvStarts == Init => RcvInv
<1> SUFFICES ASSUME Init
             PROVE  RcvInv
  OBVIOUS
<1>1. PICK isn \in 0 .. MaxSeqNo : RcvCurrSeqNo = isn - 1
  BY DEF Init
<1>2. Points(isn - 1, isn - 1) /\ isn - 1 \in Int
  BY RcvPointsAtFirst, RcvConstants
<1> DEFINE c == isn - 1
<1>3. RcvHolds(EmptyList, 0, {}, [i \in Int |-> 0], c)
  <2>1. c \in Int
    BY <1>2
  <2> HIDE DEF c
  <2> QED
    BY <2>1, RcvEmptyHolds
<1>4. RcvHolds(l, 0, {}, [i \in Int |-> 0], c) /\ Points(RcvCurrSeqNo, c)
  BY <1>1, <1>2, <1>3 DEF Init
<1> HIDE DEF c
<1>5. hung \in BOOLEAN /\ givenUp \subseteq 0 .. MaxSeqNo
  BY DEF Init
<1> QED
  BY <1>4, <1>5 DEF RcvInv

\* Every step of the worker.
LEMMA RcvInvKept == RcvInv /\ [Next]_vars => RcvInv'
<1> SUFFICES ASSUME RcvInv, [Next]_vars
             PROVE  RcvInv'
  OBVIOUS
<1>1. PICK r, S, e, c : RcvHolds(l, r, S, e, c) /\ Points(RcvCurrSeqNo, c)
  BY DEF RcvInv
<1>2. PICK f : RcvStands(r, S, e, c, f)
  BY <1>1, RcvFirst
<1>3. Span \in Nat
  BY RcvConstants
<1>4. ASSUME NEW k \in 0 .. Span - 1, Gap(Step(FirstMissing, k))
      PROVE  RcvInv'
  <2> DEFINE x == f + k
  <2>1. Step(FirstMissing, k) = Wrap(x)
    BY <1>2, <1>3, RcvStepIs
  <2>2. x = f + k /\ Gap(Wrap(x))
    BY <1>4, <2>1
  <2> HIDE DEF x
  <2>3. \E q, T, g : RcvHolds(l', q, T, g, x) /\ Points(RcvCurrSeqNo', x)
    BY <1>2, <2>2, RcvGapStep
  <2>4. hung' \in BOOLEAN /\ givenUp' \subseteq 0 .. MaxSeqNo
    BY <2>2 DEF Gap, RcvInv
  <2> QED
    BY <2>3, <2>4 DEF RcvInv
<1>5. ASSUME NEW k \in 0 .. Span - 1, Follow(Step(FirstMissing, k))
      PROVE  RcvInv'
  <2> DEFINE x == f + k
  <2>1. Step(FirstMissing, k) = Wrap(x)
    BY <1>2, <1>3, RcvStepIs
  <2>2. x = f + k /\ Follow(Wrap(x))
    BY <1>5, <2>1
  <2> HIDE DEF x
  <2>3. RcvHolds(l', r, S, e, x) /\ Points(RcvCurrSeqNo', x)
    BY <1>2, <2>2, RcvFollowStep
  <2>4. hung' \in BOOLEAN /\ givenUp' \subseteq 0 .. MaxSeqNo
    BY <2>2 DEF Follow, RcvInv
  <2> QED
    BY <2>3, <2>4 DEF RcvInv
<1>6. ASSUME NEW k \in 0 .. Span - 1, Retransmitted(Step(FirstMissing, k))
      PROVE  RcvInv'
  <2> DEFINE x == f + k
  <2>1. Step(FirstMissing, k) = Wrap(x)
    BY <1>2, <1>3, RcvStepIs
  <2>2. x = f + k /\ Retransmitted(Wrap(x))
    BY <1>6, <2>1
  <2> HIDE DEF x
  <2>3. Points(RcvCurrSeqNo', c) /\ \E T, g : RcvHolds(l', r, T, g, c)
    BY <1>2, <2>2, RcvRetransmittedStep
  <2>4. hung' \in BOOLEAN /\ givenUp' \subseteq 0 .. MaxSeqNo
    BY <2>2 DEF Retransmitted, RcvInv
  <2> QED
    BY <2>3, <2>4 DEF RcvInv
<1>7. ASSUME NEW g \in GivenUp, Drop(Step(FirstMissing, g[1]), Step(FirstMissing, g[2]))
      PROVE  RcvInv'
  <2> DEFINE i == g[1]
             j == g[2]
             a == f + i
             b == f + j
  <2>1. i \in -1 .. Span - 1 /\ j \in -1 .. Span - 1 /\ i <= j /\ j - i < MaxGiveUp
    BY DEF GivenUp
  <2> HIDE DEF i, j
  <2>2. f \in Int /\ i \in Int /\ j \in Int
    BY <1>2, <1>3, <2>1 DEF RcvStands
  <2>3. Step(FirstMissing, i) = Wrap(a) /\ Step(FirstMissing, j) = Wrap(b)
    BY <1>2, <2>2, RcvStepIs
  <2>4. a = f + i /\ b = f + j /\ Drop(Wrap(a), Wrap(b)) /\ a \in Int /\ b \in Int
    BY <1>7, <2>2, <2>3 DEF i, j
  <2> HIDE DEF a, b
  <2>5. \E T, h, d : RcvHolds(l', r, T, h, d) /\ Points(RcvCurrSeqNo', d)
    BY <1>2, <2>1, <2>4, RcvDropStep
  <2>6. Stretch(Wrap(a), Wrap(b)) \subseteq 0 .. MaxSeqNo
    <3>1. Wrap(a) \in 0 .. MaxSeqNo /\ Wrap(b) \in 0 .. MaxSeqNo /\ MaxSeqNo \in Nat
      BY <2>4, RcvSteps, RcvConstants
    <3>2. \A k \in 0 .. seqlen(Wrap(a), Wrap(b)) - 1 : Wrap(a) + k \in Int
      BY <3>1 DEF seqlen
    <3>3. \A v \in Int : Wrap(v) \in 0 .. MaxSeqNo
      BY RcvSteps
    <3> QED
      BY <3>2, <3>3 DEF Stretch
  <2>7. hung' \in BOOLEAN
    BY <2>4 DEF Drop, NeverEnds
  <2>8. givenUp' \subseteq 0 .. MaxSeqNo
    BY <2>4, <2>6 DEF Drop
  <2> QED
    BY <2>5, <2>7, <2>8 DEF RcvInv
<1>8. CASE UNCHANGED vars
  BY <1>8 DEF vars, RcvInv
<1> QED
  BY <1>4, <1>5, <1>6, <1>7, <1>8 DEF Next

-----------------------------------------------------------------------------
(* The list is the set of lost numbers.                                     *)

Carriers(C) == {Wrap(u) : u \in C}

\* Numbers of C and D that are carried by the same number agree.
Apart(C, D) == \A u \in C, v \in D : Wrap(u) = Wrap(v) => u = v

LEMMA CarriersMinus ==
  ASSUME NEW C, NEW D, Apart(C, D)
  PROVE  Carriers(C \ D) = Carriers(C) \ Carriers(D)
<1>1. ASSUME NEW u \in C \ D
      PROVE  Wrap(u) \in Carriers(C) \ Carriers(D)
  BY DEF Carriers, Apart
<1>2. ASSUME NEW w \in Carriers(C) \ Carriers(D)
      PROVE  w \in Carriers(C \ D)
  BY DEF Carriers
<1> QED
  BY <1>1, <1>2 DEF Carriers

LEMMA CarriersPlus ==
  ASSUME NEW C, NEW D
  PROVE  Carriers(C \cup D) = Carriers(C) \cup Carriers(D)
BY DEF Carriers

\* The abstract specification has its own copy of the arithmetic.
LEMMA SameNumbers ==
  /\ Abstract!MaxSeqNo = MaxSeqNo
  /\ \A i, j : Abstract!seqoff(i, j) = seqoff(i, j)
  /\ \A i, j : Abstract!seqcmp(i, j) = seqcmp(i, j)
  /\ \A i, j : Abstract!seqlen(i, j) = seqlen(i, j)
  /\ \A i : Abstract!incseq(i) = incseq(i)
  /\ \A i, j : Abstract!Stretch(i, j) = Stretch(i, j)
<1>1. Abstract!MaxSeqNo = MaxSeqNo
  BY DEF Abstract!MaxSeqNo, MaxSeqNo
<1>2. \A i, j : Abstract!Near(i, j) <=> Near(i, j)
  BY DEF Abstract!Near, Near
<1>3. \A i, j : Abstract!seqoff(i, j) = seqoff(i, j)
  BY <1>1, <1>2 DEF Abstract!seqoff, seqoff
<1>4. \A i, j : Abstract!seqcmp(i, j) = seqcmp(i, j)
  BY <1>2 DEF Abstract!seqcmp, seqcmp
<1>5. \A i, j : Abstract!seqlen(i, j) = seqlen(i, j)
  BY <1>1 DEF Abstract!seqlen, seqlen
<1>6. \A i : Abstract!incseq(i) = incseq(i)
  BY <1>1 DEF Abstract!incseq, incseq
<1>7. \A u : Abstract!Wrap(u) = Wrap(u)
  BY <1>1 DEF Abstract!Wrap, Wrap
<1>8. \A i, j : Abstract!Stretch(i, j) = Stretch(i, j)
  BY <1>5, <1>7 DEF Abstract!Stretch, Stretch
<1> QED
  BY <1>1, <1>3, <1>4, <1>5, <1>6, <1>8

\* Both mean the same by the first missing number.
LEMMA RcvFirstIs ==
  ASSUME NEW r, NEW S, NEW e, NEW c, NEW f, RcvStands(r, S, e, c, f)
  PROVE  Abstract!FirstMissing = Wrap(f)
<1> DEFINE C == Cover(S, e)
           First(w) == \A t \in Listed : seqoff(w, t) >= 0
<1>1. /\ RcvHolds(l, r, S, e, c) /\ Points(RcvCurrSeqNo, c) /\ f \in Int /\ \A u \in C : f <= u
      /\ C = {} => f = c + 1
      /\ C # {} => f \in C
  BY DEF RcvStands
<1>2. C \in SUBSET Int /\ \A u, v \in C : Close(u, v) /\ (Wrap(u) = Wrap(v) => u = v)
  BY <1>1, RcvApart, RcvWindow
<1>3. Listed = {Wrap(u) : u \in C}
  BY <1>1, RcvListedIs
<1> HIDE DEF C
<1>4. CASE C = {}
  BY <1>1, <1>3, <1>4, SameNumbers DEF Abstract!FirstMissing, Points
<1>5. CASE C # {}
  <2>1. \A u, v \in C : seqoff(Wrap(u), Wrap(v)) = v - u
    BY <1>2, RcvClose
  <2>2. Wrap(f) \in Listed /\ First(Wrap(f))
    <3>1. \A u \in C : seqoff(Wrap(f), Wrap(u)) >= 0
      BY <1>1, <1>2, <1>5, <2>1
    <3> QED
      BY <1>1, <1>3, <1>5, <3>1
  <2>3. ASSUME NEW w \in Listed, First(w)
        PROVE  w = Wrap(f)
    <3>1. PICK u \in C : w = Wrap(u)
      BY <1>3
    <3>2. seqoff(Wrap(u), Wrap(f)) >= 0
      BY <2>2, <2>3, <3>1
    <3>3. f - u >= 0 /\ f <= u /\ u \in Int
      BY <1>1, <1>2, <1>5, <2>1, <3>2
    <3> QED
      BY <1>1, <3>1, <3>3
  <2>4. Abstract!FirstMissing = CHOOSE w \in Listed : First(w)
    BY <1>3, <1>5, SameNumbers DEF Abstract!FirstMissing
  <2> HIDE DEF First
  <2> QED
    BY <2>2, <2>3, <2>4
<1> QED
  BY <1>4, <1>5

\* What the list shows in a state, and so in the next one.
ListsCarriers == \A r, S, e, c : RcvHolds(l, r, S, e, c) => Listed = Carriers(Cover(S, e))

LEMMA RcvListsCarriers == ListsCarriers
BY RcvListedIs DEF ListsCarriers, Carriers

LEMMA RcvListsCarriersNext == ListsCarriers'
BY RcvListsCarriers, PTL

\* A packet leaves a gap, or none, before it.
LEMMA RcvArrives ==
  ASSUME NEW r, NEW S, NEW e, NEW c, NEW f, RcvStands(r, S, e, c, f), NEW k \in 0 .. Span - 1,
         NEW x, x = f + k, c < x, RcvCurrSeqNo' = Wrap(x),
         Listed' = Carriers(Cover(S, e) \cup ((c + 1) .. (x - 1)))
  PROVE  Abstract!Arrive(Wrap(x))
<1>1. /\ RcvHolds(l, r, S, e, c) /\ Points(RcvCurrSeqNo, c) /\ c \in Int
      /\ f \in Int /\ f <= c + 1 /\ c - f < Span
      /\ Cover(S, e) \in SUBSET Int
  BY RcvWindow DEF RcvStands, Points
<1>2. Span \in Nat \ {0} /\ Span < SeqNoTH /\ SeqNoTH \in Nat
  BY RcvConstants
<1>3. x \in Int /\ x - f < Span /\ f <= x
  BY <1>1, <1>2
<1>4. seqcmp(Wrap(x), RcvCurrSeqNo) > 0
  <2>1. Close(x, c)
    BY <1>1, <1>2, <1>3 DEF Close
  <2> QED
    BY <1>1, <2>1, RcvAfter
<1>5. seqoff(Wrap(f), Wrap(x)) < Span
  <2>1. Close(x, f)
    BY <1>1, <1>2, <1>3 DEF Close
  <2>2. seqoff(Wrap(f), Wrap(x)) = x - f
    BY <2>1, RcvClose
  <2> QED
    BY <1>3, <2>2
<1> DEFINE p == c + 1
           D == p .. x
<1>6. Stretch(Wrap(p), Wrap(x)) = Carriers(D)
  <2>1. p \in Int /\ p <= x /\ x - p < SeqNoTH
    BY <1>1, <1>2, <1>3
  <2> HIDE DEF p
  <2>2. Stretch(Wrap(p), Wrap(x)) = {Wrap(w) : w \in p .. x}
    BY <1>3, <2>1, RcvStretch
  <2> QED
    BY <2>2 DEF Carriers
<1>7. Carriers(D \ {x}) = Carriers(D) \ Carriers({x})
  <2>1. ASSUME NEW u \in D, NEW v \in {x}, Wrap(u) = Wrap(v)
        PROVE  u = v
    <3>1. Close(u, v)
      BY <1>1, <1>2, <1>3 DEF Close
    <3> QED
      BY <2>1, <3>1, RcvClose
  <2>2. Apart(D, {x})
    BY <2>1 DEF Apart
  <2> QED
    BY <2>2, CarriersMinus
<1>8. D \ {x} = p .. (x - 1)
  BY <1>1, <1>3
<1>9. Carriers({x}) = {Wrap(x)}
  BY DEF Carriers
<1>10. Listed = Carriers(Cover(S, e))
  BY <1>1, RcvListsCarriers DEF ListsCarriers
<1>11. Listed' = Carriers(Cover(S, e)) \cup Carriers(D \ {x})
  BY <1>8, CarriersPlus
<1>12. incseq(RcvCurrSeqNo) = Wrap(p)
  BY <1>1 DEF Points
<1>13. Abstract!FirstMissing = Wrap(f)
  BY RcvFirstIs
<1> HIDE DEF D, p
<1> QED
  BY <1>4, <1>5, <1>6, <1>7, <1>9, <1>10, <1>11, <1>12, <1>13, SameNumbers DEF Abstract!Arrive

\* A packet closes a gap.
LEMMA RcvCloses ==
  ASSUME NEW r, NEW S, NEW e, NEW c, RcvHolds(l, r, S, e, c), NEW x \in Cover(S, e), RcvCurrSeqNo' = RcvCurrSeqNo,
         Listed' = Carriers(Cover(S, e) \ {x})
  PROVE  Abstract!Arrive(Wrap(x))
<1>1. \A u, v \in Cover(S, e) : Wrap(u) = Wrap(v) => u = v
  BY RcvApart
<1>2. Apart(Cover(S, e), {x})
  BY <1>1 DEF Apart
<1>3. Carriers(Cover(S, e) \ {x}) = Carriers(Cover(S, e)) \ Carriers({x})
  BY <1>2, CarriersMinus
<1>4. Listed = Carriers(Cover(S, e))
  BY RcvListsCarriers DEF ListsCarriers
<1>5. Carriers({x}) = {Wrap(x)} /\ Wrap(x) \in Carriers(Cover(S, e))
  BY DEF Carriers
<1> QED
  BY <1>3, <1>4, <1>5 DEF Abstract!Arrive

\* The numbers of a message are given up.
LEMMA RcvGivesUp ==
  ASSUME NEW r, NEW S, NEW e, NEW c, NEW f, RcvStands(r, S, e, c, f), NEW i \in -1 .. Span - 1, NEW j \in -1 .. Span - 1,
         i <= j, j - i < MaxGiveUp, NEW a, a = f + i, NEW b, b = f + j, Drop(Wrap(a), Wrap(b)),
         Listed' = Carriers(Cover(S, e) \ (a .. b))
  PROVE  /\ Abstract!GiveUp(Wrap(a), Wrap(b)) /\ Abstract!seqlen(Wrap(a), Wrap(b)) <= MaxGiveUp
         /\ Wrap(a) \in 0 .. Abstract!MaxSeqNo /\ Wrap(b) \in 0 .. Abstract!MaxSeqNo
<1>1. /\ RcvHolds(l, r, S, e, c) /\ c \in Int
      /\ f \in Int /\ f <= c + 1 /\ c - f < Span /\ \A u \in Cover(S, e) : f <= u
      /\ Cover(S, e) \in SUBSET Int
  BY RcvWindow DEF RcvStands, Points
<1>2. /\ Span \in Nat \ {0} /\ Span < SeqNoTH /\ SeqNoTH \in Nat
      /\ MaxGiveUp \in Nat /\ Span + MaxGiveUp < SeqNoTH
  BY RcvConstants
<1>3. a \in Int /\ b \in Int /\ a <= b /\ b - a < SeqNoTH /\ b - a < MaxGiveUp /\ \A u \in Cover(S, e) : u <= c
  BY <1>1, <1>2 DEF RcvHolds
<1>4. /\ seqlen(Wrap(a), Wrap(b)) = b - a + 1
      /\ Stretch(Wrap(a), Wrap(b)) = Carriers(a .. b)
  <2>1. a \in Int /\ b \in Int /\ a <= b /\ b - a < SeqNoTH
    BY <1>3
  <2>2. /\ seqlen(Wrap(a), Wrap(b)) = b - a + 1
        /\ Stretch(Wrap(a), Wrap(b)) = {Wrap(w) : w \in a .. b}
    <3> SUFFICES ASSUME a \in Int, b \in Int
                 PROVE  /\ seqlen(Wrap(a), Wrap(b)) = b - a + 1
                        /\ Stretch(Wrap(a), Wrap(b)) = {Wrap(w) : w \in a .. b}
      BY <2>1
    <3> QED
      BY <2>1, RcvStretch
  <2> QED
    BY <2>2 DEF Carriers
<1>5. Apart(Cover(S, e), a .. b)
  <2>1. ASSUME NEW u \in Cover(S, e), NEW v \in a .. b, Wrap(u) = Wrap(v)
        PROVE  u = v
    <3>1. u \in Int /\ f <= u /\ u <= c /\ v \in Int /\ f - 1 <= v /\ v - f < Span
      BY <1>1, <1>2, <1>3
    <3>2. Close(u, v)
      BY <1>1, <1>2, <3>1 DEF Close
    <3> QED
      BY <2>1, <3>2, RcvClose
  <2> QED
    BY <2>1 DEF Apart
<1>6. Carriers(Cover(S, e) \ (a .. b)) = Carriers(Cover(S, e)) \ Carriers(a .. b)
  BY <1>5, CarriersMinus
<1>7. Listed = Carriers(Cover(S, e))
  BY <1>1, RcvListsCarriers DEF ListsCarriers
<1>8. Abstract!GiveUp(Wrap(a), Wrap(b))
  BY <1>4, <1>6, <1>7, SameNumbers DEF Abstract!GiveUp, Drop
<1>9. b - a + 1 <= MaxGiveUp
  BY <1>2, <1>3
<1>10. Wrap(a) \in 0 .. MaxSeqNo /\ Wrap(b) \in 0 .. MaxSeqNo
  BY <1>3, RcvSteps
<1> QED
  BY <1>4, <1>8, <1>9, <1>10, SameNumbers

\* Every step of the worker is one of the set, if no drop request crosses the restart.
LEMMA RcvStepRefines ==
  ASSUME RcvInv, CrossDrops = FALSE, [Next]_vars
  PROVE  [Abstract!Next]_<<Listed, RcvCurrSeqNo>>
<1>1. PICK r, S, e, c : RcvHolds(l, r, S, e, c) /\ Points(RcvCurrSeqNo, c)
  BY DEF RcvInv
<1>2. PICK f : RcvStands(r, S, e, c, f)
  BY <1>1, RcvFirst
<1>3. Span \in Nat /\ f \in Int
  BY <1>2, RcvConstants DEF RcvStands
<1>4. \A q, T, g, d : RcvHolds(l', q, T, g, d) => Listed' = Carriers(Cover(T, g))
  BY RcvListsCarriersNext DEF ListsCarriers
<1>5. ASSUME NEW k \in 0 .. Span - 1, Gap(Step(FirstMissing, k))
      PROVE  Abstract!Next
  <2> DEFINE x == f + k
  <2>1. Step(FirstMissing, k) = Wrap(x)
    BY <1>2, <1>3, RcvStepIs
  <2>2. x = f + k /\ Gap(Wrap(x)) /\ x \in Int
    BY <1>3, <1>5, <2>1
  <2> HIDE DEF x
  <2>3. /\ c + 1 < x /\ \E q, T, g : /\ RcvHolds(l', q, T, g, x)
                                     /\ Cover(T, g) = Cover(S, e) \cup ((c + 1) .. (x - 1))
    BY <1>2, <2>2, RcvGapStep
  <2>4. Listed' = Carriers(Cover(S, e) \cup ((c + 1) .. (x - 1)))
    BY <1>4, <2>3
  <2>5. c < x /\ RcvCurrSeqNo' = Wrap(x)
    BY <1>1, <2>2, <2>3 DEF Gap, Points
  <2>6. Abstract!Arrive(Wrap(x))
    BY <1>2, <2>2, <2>4, <2>5, RcvArrives
  <2>7. Wrap(x) \in 0 .. Abstract!MaxSeqNo
    BY <2>2, RcvSteps, SameNumbers
  <2> QED
    BY <2>6, <2>7 DEF Abstract!Next
<1>6. ASSUME NEW k \in 0 .. Span - 1, Follow(Step(FirstMissing, k))
      PROVE  Abstract!Next
  <2> DEFINE x == f + k
  <2>1. Step(FirstMissing, k) = Wrap(x)
    BY <1>2, <1>3, RcvStepIs
  <2>2. x = f + k /\ Follow(Wrap(x)) /\ x \in Int
    BY <1>3, <1>6, <2>1
  <2> HIDE DEF x
  <2>3. x = c + 1 /\ RcvHolds(l', r, S, e, x)
    BY <1>2, <2>2, RcvFollowStep
  <2>4. Listed' = Carriers(Cover(S, e) \cup ((c + 1) .. (x - 1)))
    <3>1. c \in Int
      BY <1>1 DEF Points
    <3>2. (c + 1) .. (x - 1) = {}
      BY <2>3, <3>1
    <3>3. Cover(S, e) \cup ((c + 1) .. (x - 1)) = Cover(S, e)
      BY <3>2
    <3> QED
      BY <1>4, <2>3, <3>3
  <2>5. c < x /\ RcvCurrSeqNo' = Wrap(x)
    BY <1>1, <2>2, <2>3 DEF Follow, Points
  <2>6. Abstract!Arrive(Wrap(x))
    BY <1>2, <2>2, <2>4, <2>5, RcvArrives
  <2>7. Wrap(x) \in 0 .. Abstract!MaxSeqNo
    BY <2>2, RcvSteps, SameNumbers
  <2> QED
    BY <2>6, <2>7 DEF Abstract!Next
<1>7. ASSUME NEW k \in 0 .. Span - 1, Retransmitted(Step(FirstMissing, k))
      PROVE  Abstract!Next
  <2> DEFINE x == f + k
  <2>1. Step(FirstMissing, k) = Wrap(x)
    BY <1>2, <1>3, RcvStepIs
  <2>2. x = f + k /\ Retransmitted(Wrap(x)) /\ x \in Int
    BY <1>3, <1>7, <2>1
  <2> HIDE DEF x
  <2>3. x \in Cover(S, e) /\ \E T, g : RcvHolds(l', r, T, g, c) /\ Cover(T, g) = Cover(S, e) \ {x}
    BY <1>2, <2>2, RcvRetransmittedStep
  <2>4. Listed' = Carriers(Cover(S, e) \ {x})
    BY <1>4, <2>3
  <2>5. RcvCurrSeqNo' = RcvCurrSeqNo
    BY <2>2 DEF Retransmitted
  <2>6. Abstract!Arrive(Wrap(x))
    BY <1>1, <2>3, <2>4, <2>5, RcvCloses
  <2>7. Wrap(x) \in 0 .. Abstract!MaxSeqNo
    BY <2>2, RcvSteps, SameNumbers
  <2> QED
    BY <2>6, <2>7 DEF Abstract!Next
<1>8. ASSUME NEW g \in GivenUp, Drop(Step(FirstMissing, g[1]), Step(FirstMissing, g[2]))
      PROVE  Abstract!Next
  <2> DEFINE i == g[1]
             j == g[2]
             a == f + i
             b == f + j
  <2>1. i \in -1 .. Span - 1 /\ j \in -1 .. Span - 1 /\ i <= j /\ j - i < MaxGiveUp
    BY DEF GivenUp
  <2> HIDE DEF i, j
  <2>2. i \in Int /\ j \in Int
    BY <1>3, <2>1
  <2>3. Step(FirstMissing, i) = Wrap(a) /\ Step(FirstMissing, j) = Wrap(b)
    BY <1>2, <2>2, RcvStepIs
  <2>4. a = f + i /\ b = f + j /\ Drop(Wrap(a), Wrap(b))
    BY <1>8, <2>3 DEF i, j
  <2> HIDE DEF a, b
  <2>5. Wrap(a) <= Wrap(b)
    BY <2>4 DEF Drop
  <2>6. \E T, h, d : RcvHolds(l', r, T, h, d) /\ Cover(T, h) = Cover(S, e) \ (a .. b)
    BY <1>2, <2>1, <2>4, <2>5, RcvDropStep
  <2>7. Listed' = Carriers(Cover(S, e) \ (a .. b))
    BY <1>4, <2>6
  <2>8. /\ Abstract!GiveUp(Wrap(a), Wrap(b)) /\ Abstract!seqlen(Wrap(a), Wrap(b)) <= MaxGiveUp
        /\ Wrap(a) \in 0 .. Abstract!MaxSeqNo /\ Wrap(b) \in 0 .. Abstract!MaxSeqNo
    BY <1>2, <2>1, <2>4, <2>7, RcvGivesUp
  <2> QED
    BY <2>8 DEF Abstract!Next
<1>9. CASE UNCHANGED vars
  <2>1. RcvCurrSeqNo' = RcvCurrSeqNo /\ l' = l
    BY <1>9 DEF vars
  <2>2. Listed' = Listed
    BY <1>1, <1>4, <2>1, RcvListsCarriers DEF ListsCarriers
  <2> QED
    BY <2>1, <2>2
<1> QED
  BY <1>5, <1>6, <1>7, <1>8, <1>9 DEF Next

-----------------------------------------------------------------------------
(* The receiver's list beside the sender's.                                 *)

LEMMA RcvListSteps == [ListsNext]_<<vars, sndLossVars>> => [Next]_vars
BY DEF ListsNext

LEMMA RcvAlways == ListsSpec => []RcvInv
<1>1. ListsInit => RcvInv
  BY RcvInvStarts DEF ListsInit
<1>2. RcvInv /\ [ListsNext]_<<vars, sndLossVars>> => RcvInv'
  BY RcvListSteps, RcvInvKept
<1> QED
  BY <1>1, <1>2, PTL DEF ListsSpec

\* The receiver's list is the set of lost numbers, in every behaviour in which no drop
\* request names a range that reaches or crosses the restart: remove(seqno1, seqno2)
\* compares the two as if they never restarted (list.cpp), which is a finding.
THEOREM ReceiverImplementsLossSet ==
  ASSUME CrossDrops = FALSE
  PROVE  ListsSpec => RefinesLossSet
<1>1. ListsInit => Abstract!Init
  <2> SUFFICES ASSUME ListsInit
               PROVE  Abstract!Init
    OBVIOUS
  <2>1. l = EmptyList /\ RcvCurrSeqNo \in {isn - 1 : isn \in 0 .. MaxSeqNo}
    BY DEF ListsInit, Init
  <2>2. Listed = {}
    BY <2>1 DEF Listed, Chain, EmptyList
  <2> QED
    BY <2>1, <2>2, SameNumbers DEF Abstract!Init
<1>2. RcvInv /\ [ListsNext]_<<vars, sndLossVars>> => [Abstract!Next]_<<Listed, RcvCurrSeqNo>>
  BY RcvListSteps, RcvStepRefines
<1> QED
  BY <1>1, <1>2, RcvAlways, PTL DEF ListsSpec, RefinesLossSet, Abstract!Spec

-----------------------------------------------------------------------------
(* The numbers of the sender's list.                                        *)

\* How many numbers there are.
SndCircle == Snd!MaxSeqNo + 1

LEMMA SndConstants ==
  /\ SndSeqNoTH \in Nat \ {0} /\ SndSeqNoTH \in Nat
  /\ Snd!MaxSeqNo \in Nat /\ SndCircle \in Nat \ {0} /\ SndCircle - 1 = Snd!MaxSeqNo
  /\ SndCircle = SndSeqNoTH + SndSeqNoTH + 2
  /\ SndSize \in Nat \ {0} /\ SndSize \in Nat
  /\ SndSpan \in Nat \ {0} /\ SndSpan \in Nat /\ SndSpan <= SndSize /\ SndSpan < SndSeqNoTH
  /\ Snd!Slots = 0 .. SndSize - 1 /\ Snd!None = -1
BY LossListsAssumption DEF Snd!SndLossListAssumption, SndCircle, Snd!MaxSeqNo, Snd!Slots, Snd!None

\* Numbers that are close compare as if they never restarted.
LEMMA SndCompares ==
  ASSUME NEW u \in Int, NEW v \in Int, u - v < SndSeqNoTH, v - u < SndSeqNoTH
  PROVE  /\ Snd!seqcmp(Snd!Wrap(u), Snd!Wrap(v)) > 0 <=> u > v
         /\ Snd!seqcmp(Snd!Wrap(u), Snd!Wrap(v)) <= 0 <=> u <= v
         /\ Snd!seqcmp(Snd!Wrap(u), Snd!Wrap(v)) < 0 <=> u < v
         /\ Snd!seqcmp(Snd!Wrap(u), Snd!Wrap(v)) >= 0 <=> u >= v
         /\ Snd!seqoff(Snd!Wrap(v), Snd!Wrap(u)) = u - v
         /\ Snd!Wrap(u) = Snd!Wrap(v) <=> u = v
<1>1. -SndCircle < u - v /\ u - v < SndCircle /\ SndCircle \in Nat \ {0}
  BY SndConstants
<1>2. /\ Snd!Wrap(u) \in 0 .. Snd!MaxSeqNo /\ Snd!Wrap(v) \in 0 .. Snd!MaxSeqNo
      /\ Snd!Wrap(u) - Snd!Wrap(v) \in {u - v, u - v - SndCircle, u - v + SndCircle}
  <2> DEFINE m == SndCircle
  <2>1. m \in Nat \ {0} /\ -m < u - v /\ u - v < m /\ m - 1 = Snd!MaxSeqNo
    BY <1>1, SndConstants
  <2> HIDE DEF m
  <2>2. /\ u % m \in 0 .. m - 1 /\ v % m \in 0 .. m - 1
        /\ (u % m) - (v % m) \in {u - v, u - v - m, u - v + m}
    BY <2>1, RemaindersNear
  <2> QED
    BY <2>1, <2>2 DEF m, SndCircle, Snd!Wrap
<1>3. /\ Snd!Near(Snd!Wrap(u), Snd!Wrap(v)) <=> Snd!Wrap(u) - Snd!Wrap(v) = u - v
      /\ Snd!Wrap(u) - Snd!Wrap(v) = u - v - SndCircle => Snd!Wrap(u) < Snd!Wrap(v)
      /\ Snd!Wrap(u) - Snd!Wrap(v) = u - v + SndCircle => Snd!Wrap(u) > Snd!Wrap(v)
  BY <1>2, SndConstants DEF Snd!Near
<1>4. Snd!Near(Snd!Wrap(v), Snd!Wrap(u)) <=> Snd!Near(Snd!Wrap(u), Snd!Wrap(v))
  BY <1>2, SndConstants DEF Snd!Near
<1> QED
  BY <1>2, <1>3, <1>4, SndConstants DEF Snd!seqcmp, Snd!seqoff

\* One step around the circle, and several.
CloseBy(u, v) == u \in Int /\ v \in Int /\ u - v < SndSeqNoTH /\ v - u < SndSeqNoTH

LEMMA SndClose ==
  ASSUME NEW u, NEW v, CloseBy(u, v)
  PROVE  /\ Snd!seqcmp(Snd!Wrap(u), Snd!Wrap(v)) > 0 <=> u > v
         /\ Snd!seqcmp(Snd!Wrap(u), Snd!Wrap(v)) <= 0 <=> u <= v
         /\ Snd!seqcmp(Snd!Wrap(u), Snd!Wrap(v)) < 0 <=> u < v
         /\ Snd!seqcmp(Snd!Wrap(u), Snd!Wrap(v)) >= 0 <=> u >= v
         /\ Snd!seqoff(Snd!Wrap(v), Snd!Wrap(u)) = u - v
         /\ Snd!Wrap(u) = Snd!Wrap(v) <=> u = v
<1>1. u \in Int /\ v \in Int /\ u - v < SndSeqNoTH /\ v - u < SndSeqNoTH
  BY DEF CloseBy
<1> QED
  BY <1>1, SndCompares

LEMMA SndSteps ==
  ASSUME NEW u \in Int
  PROVE  /\ Snd!Wrap(u) \in 0 .. Snd!MaxSeqNo /\ Snd!Wrap(u) # -1 /\ Snd!Wrap(u) = Carried(SndCircle, u)
         /\ Snd!incseq(Snd!Wrap(u)) = Snd!Wrap(u + 1) /\ Snd!decseq(Snd!Wrap(u)) = Snd!Wrap(u - 1)
         /\ \A k \in Int : Snd!Wrap(Snd!Wrap(u) + k) = Snd!Wrap(u + k)
<1> DEFINE m == SndCircle
<1>1. m \in Nat \ {0} /\ m - 1 = Snd!MaxSeqNo /\ m >= 2
  BY SndConstants
<1> HIDE DEF m
<1>2. \A v \in Int : Snd!Wrap(v) = v % m /\ v % m \in 0 .. m - 1
  BY <1>1, Quotient DEF SndCircle, Snd!Wrap, m
<1>3. \A k \in Int : Snd!Wrap(Snd!Wrap(u) + k) = Snd!Wrap(u + k)
  <2> TAKE k \in Int
  <2>1. ((u % m) + k) % m = (u + k) % m
    BY <1>1, RemainderMoves
  <2>2. u + k \in Int /\ Snd!Wrap(u) = u % m /\ u % m \in 0 .. m - 1 /\ Snd!Wrap(u + k) = (u + k) % m
    BY <1>2
  <2> DEFINE w == u % m
  <2>3. (w + k) % m = Snd!Wrap(u + k) /\ Snd!Wrap(u) = w /\ w \in 0 .. m - 1
    BY <2>1, <2>2
  <2> HIDE DEF w
  <2>4. w + k \in Int
    BY <1>1, <2>3
  <2>5. Snd!Wrap(w + k) = (w + k) % m
    BY <1>2, <2>4
  <2> QED
    BY <2>3, <2>5
<1>4. /\ Snd!Wrap(u) \in 0 .. Snd!MaxSeqNo /\ Snd!Wrap(u + 1) \in 0 .. Snd!MaxSeqNo /\ Snd!Wrap(u - 1) \in 0 .. Snd!MaxSeqNo
      /\ u + 1 \in Int /\ u - 1 \in Int
  <2>1. u + 1 \in Int /\ u - 1 \in Int
    OBVIOUS
  <2> QED
    BY <1>1, <1>2, <2>1
<1>5. /\ Snd!Wrap(u + 1) = IF Snd!Wrap(u) = m - 1 THEN 0 ELSE Snd!Wrap(u) + 1
      /\ Snd!Wrap(u - 1) = IF Snd!Wrap(u) = 0 THEN m - 1 ELSE Snd!Wrap(u) - 1
  <2>1. m \in Nat /\ m >= 2
    BY <1>1
  <2>2. Snd!Wrap(u) = u % m /\ Snd!Wrap(u + 1) = (u + 1) % m /\ Snd!Wrap(u - 1) = (u - 1) % m
    BY <1>2, <1>4
  <2>3. /\ (u + 1) % m = IF u % m = m - 1 THEN 0 ELSE (u % m) + 1
        /\ (u - 1) % m = IF u % m = 0 THEN m - 1 ELSE (u % m) - 1
    BY <2>1, NextRemainder
  <2> QED
    BY <2>2, <2>3, Zenon
<1>6. Snd!incseq(Snd!Wrap(u)) = Snd!Wrap(u + 1)
  BY <1>1, <1>4, <1>5 DEF Snd!incseq
<1>7. Snd!decseq(Snd!Wrap(u)) = Snd!Wrap(u - 1)
  BY <1>1, <1>4, <1>5 DEF Snd!decseq
<1>8. Snd!Wrap(u) = Carried(SndCircle, u)
  BY DEF SndCircle, Snd!Wrap, Carried
<1> QED
  BY <1>3, <1>4, <1>6, <1>7, <1>8

\* The numbers from u to v.
LEMMA SndStretch ==
  ASSUME NEW u \in Int, NEW v \in Int, u <= v, v - u < SndSeqNoTH
  PROVE  /\ Snd!seqlen(Snd!Wrap(u), Snd!Wrap(v)) = v - u + 1
         /\ Snd!Stretch(Snd!Wrap(u), Snd!Wrap(v)) = {Snd!Wrap(w) : w \in u .. v}
<1>1. Snd!seqlen(Snd!Wrap(u), Snd!Wrap(v)) = v - u + 1
  <2>1. -SndCircle < v - u /\ v - u < SndCircle /\ SndCircle \in Nat \ {0} /\ SndCircle - 1 = Snd!MaxSeqNo
    BY SndConstants
  <2>2. /\ Snd!Wrap(u) \in 0 .. Snd!MaxSeqNo /\ Snd!Wrap(v) \in 0 .. Snd!MaxSeqNo
        /\ Snd!Wrap(v) - Snd!Wrap(u) \in {v - u, v - u - SndCircle, v - u + SndCircle}
    <3> DEFINE m == SndCircle
    <3>1. m \in Nat \ {0} /\ -m < v - u /\ v - u < m
      BY <2>1
    <3> HIDE DEF m
    <3>2. (v % m) - (u % m) \in {v - u, v - u - m, v - u + m}
      BY <3>1, RemaindersNear
    <3> QED
      BY <3>2, SndSteps DEF m, SndCircle, Snd!Wrap
  <2>3. Snd!MaxSeqNo \in Nat
    BY SndConstants
  <2> QED
    BY <2>1, <2>2, <2>3 DEF Snd!seqlen
<1>2. \A k \in Int : Snd!Wrap(Snd!Wrap(u) + k) = Snd!Wrap(u + k)
  BY SndSteps
<1>3. Snd!Stretch(Snd!Wrap(u), Snd!Wrap(v)) = {Snd!Wrap(u + k) : k \in 0 .. v - u}
  BY <1>1, <1>2 DEF Snd!Stretch
<1>4. ASSUME NEW w \in u .. v
      PROVE  Snd!Wrap(w) \in {Snd!Wrap(u + k) : k \in 0 .. v - u}
  <2>1. w - u \in 0 .. v - u /\ u + (w - u) = w
    OBVIOUS
  <2> QED
    BY <2>1
<1>5. ASSUME NEW k \in 0 .. v - u
      PROVE  Snd!Wrap(u + k) \in {Snd!Wrap(w) : w \in u .. v}
  <2>1. u + k \in u .. v
    OBVIOUS
  <2> QED
    BY <2>1
<1> QED
  BY <1>1, <1>3, <1>4, <1>5

-----------------------------------------------------------------------------
(* What the operations of the sender's list write.                          *)

SndLists ==
  [data1 : [Snd!Slots -> -1 .. Snd!MaxSeqNo], data2 : [Snd!Slots -> -1 .. Snd!MaxSeqNo],
   next : [Snd!Slots -> -1 .. SndSize - 1], head : -1 .. SndSize - 1,
   lastInsertPos : -1 .. SndSize - 1, length : Nat]

\* No search starts at a slot that was freed.
Unmarked(p, i) == IF p = i THEN -1 ELSE p

IsFreed(k, i, o) ==
  /\ o \in SndLists /\ o.length = k.length /\ o.head = k.head /\ o.next = k.next
  /\ o.data1 = With(k.data1, i, -1) /\ o.data2 = With(k.data2, i, -1)
  /\ o.lastInsertPos = Unmarked(k.lastInsertPos, i)

LEMMA SndFreedIs ==
  ASSUME NEW k \in SndLists, NEW i \in Snd!Slots, NEW o, o = Snd!Freed(k, i)
  PROVE  IsFreed(k, i, o)
<1> DEFINE p == IF k.lastInsertPos = i THEN -1 ELSE k.lastInsertPos
           c1 == With(k.data1, i, -1)
           c2 == With(k.data2, i, -1)
<1>1. /\ k.data1 \in [Snd!Slots -> -1 .. Snd!MaxSeqNo] /\ k.data2 \in [Snd!Slots -> -1 .. Snd!MaxSeqNo]
      /\ k.lastInsertPos \in -1 .. SndSize - 1
  BY DEF SndLists
<1>2. -1 \in -1 .. Snd!MaxSeqNo /\ -1 \in -1 .. SndSize - 1
  BY SndConstants
<1>3. c1 \in [Snd!Slots -> -1 .. Snd!MaxSeqNo] /\ c2 \in [Snd!Slots -> -1 .. Snd!MaxSeqNo]
  BY <1>1, <1>2 DEF With
<1>4. p \in -1 .. SndSize - 1
  BY <1>1, <1>2
<1>5. o = [k EXCEPT !.data1 = c1, !.data2 = c2, !.lastInsertPos = p]
  BY SndConstants DEF Snd!Freed, With, SndLists
<1>6. p = Unmarked(k.lastInsertPos, i)
  BY DEF Unmarked
<1> HIDE DEF p, c1, c2
<1>7. /\ o \in SndLists /\ o.length = k.length /\ o.head = k.head /\ o.next = k.next
      /\ o.data1 = c1 /\ o.data2 = c2 /\ o.lastInsertPos = p
  BY <1>3, <1>4, <1>5 DEF SndLists
<1> QED
  BY <1>6, <1>7 DEF IsFreed, c1, c2

\* The head goes, and n numbers with it.
IsDropped(k, n, o) ==
  /\ o \in SndLists /\ o.length = k.length - n /\ o.head = k.next[k.head] /\ o.next = k.next
  /\ o.data1 = With(k.data1, k.head, -1) /\ o.data2 = With(k.data2, k.head, -1)
  /\ o.lastInsertPos = Unmarked(k.lastInsertPos, k.head)

LEMMA SndDroppedIs ==
  ASSUME NEW k \in SndLists, k.head \in Snd!Slots, NEW n, k.length - n \in Nat,
         NEW o, o = [Snd!Freed(k, k.head) EXCEPT !.head = k.next[k.head], !.length = @ - n]
  PROVE  IsDropped(k, n, o)
<1> DEFINE q == Snd!Freed(k, k.head)
           h == k.next[k.head]
<1>1. h \in -1 .. SndSize - 1
  BY DEF SndLists
<1>2. IsFreed(k, k.head, q)
  BY SndFreedIs
<1>3. o = [q EXCEPT !.head = h, !.length = q.length - n]
  BY <1>2 DEF IsFreed, SndLists
<1> DEFINE z == q.length - n
<1>35. z \in Nat
  BY <1>2 DEF IsFreed
<1>36. o = [q EXCEPT !.head = h, !.length = z]
  BY <1>3
<1> HIDE DEF q, h, z
<1>4. /\ o \in SndLists /\ o.length = z /\ o.head = h /\ o.next = q.next
      /\ o.data1 = q.data1 /\ o.data2 = q.data2 /\ o.lastInsertPos = q.lastInsertPos
  BY <1>1, <1>2, <1>35, <1>36 DEF IsFreed, SndLists
<1> QED
  BY <1>2, <1>4 DEF IsFreed, IsDropped, h, z

LEMMA SndBeheadedDrops ==
  ASSUME NEW k \in SndLists, k.head \in Snd!Slots, k.length - 1 \in Nat, k.data2[k.head] = -1,
         NEW o, o = Snd!Beheaded(k)
  PROVE  IsDropped(k, 1, o)
<1> DEFINE q == [k EXCEPT !.length = @ - 1]
           p == Snd!Freed(q, k.head)
           h == k.next[k.head]
<1>1. h \in -1 .. SndSize - 1
  BY DEF SndLists
<1>2. /\ q \in SndLists /\ q.length = k.length - 1 /\ q.head = k.head /\ q.next = k.next
      /\ q.data1 = k.data1 /\ q.data2 = k.data2 /\ q.lastInsertPos = k.lastInsertPos
  BY DEF SndLists
<1>3. o = [p EXCEPT !.head = h]
  BY SndConstants DEF Snd!Beheaded
<1> HIDE DEF q, h
<1>4. IsFreed(q, k.head, p)
  BY <1>2, SndFreedIs
<1> HIDE DEF p
<1>5. /\ o \in SndLists /\ o.length = p.length /\ o.head = h /\ o.next = p.next
      /\ o.data1 = p.data1 /\ o.data2 = p.data2 /\ o.lastInsertPos = p.lastInsertPos
  BY <1>1, <1>3, <1>4 DEF IsFreed, SndLists
<1> QED
  BY <1>2, <1>4, <1>5 DEF IsFreed, IsDropped, h

\* The end that a node gets for the numbers from first to last.
SndReach(last, first, old) == IF Snd!seqcmp(last, first) > 0 THEN last ELSE old

IsRest(k, i, j, first, o) ==
  /\ o \in SndLists /\ o.length = k.length /\ o.head = k.head /\ o.lastInsertPos = k.lastInsertPos
  /\ o.next = With(k.next, j, k.next[i])
  /\ o.data1 = With(k.data1, j, first)
  /\ o.data2 = With(k.data2, j, SndReach(k.data2[i], first, k.data2[j]))

LEMMA SndRestIs ==
  ASSUME NEW k \in SndLists, NEW i \in Snd!Slots, NEW j \in Snd!Slots,
         NEW seq, NEW first \in 0 .. Snd!MaxSeqNo, first = Snd!incseq(seq), NEW o, o = Snd!Rest(k, i, j, seq)
  PROVE  IsRest(k, i, j, first, o)
<1> DEFINE w  == IF Snd!seqcmp(k.data2[i], first) > 0 THEN k.data2[i] ELSE k.data2[j]
           c1 == With(k.data1, j, first)
           c2 == With(k.data2, j, w)
           y  == With(k.next, j, k.next[i])
<1>1. /\ k.data1 \in [Snd!Slots -> -1 .. Snd!MaxSeqNo] /\ k.data2 \in [Snd!Slots -> -1 .. Snd!MaxSeqNo]
      /\ k.next \in [Snd!Slots -> -1 .. SndSize - 1]
  BY DEF SndLists
<1>2. first \in -1 .. Snd!MaxSeqNo /\ w \in -1 .. Snd!MaxSeqNo /\ k.next[i] \in -1 .. SndSize - 1
  <2>1. k.data2[i] \in -1 .. Snd!MaxSeqNo /\ k.data2[j] \in -1 .. Snd!MaxSeqNo /\ k.next[i] \in -1 .. SndSize - 1
    BY <1>1
  <2>2. w \in -1 .. Snd!MaxSeqNo
    BY <2>1
  <2>3. first \in -1 .. Snd!MaxSeqNo
    BY SndConstants
  <2> QED
    BY <2>1, <2>2, <2>3
<1>3. w = SndReach(k.data2[i], first, k.data2[j])
  BY DEF SndReach
<1>4. o = [k EXCEPT !.data1 = c1, !.data2 = c2, !.next = y]
  BY DEF Snd!Rest, With, SndLists
<1> HIDE DEF w
<1>5. c1 \in [Snd!Slots -> -1 .. Snd!MaxSeqNo] /\ c2 \in [Snd!Slots -> -1 .. Snd!MaxSeqNo]
      /\ y \in [Snd!Slots -> -1 .. SndSize - 1]
  BY <1>1, <1>2 DEF With
<1> HIDE DEF c1, c2, y
<1>6. /\ o \in SndLists /\ o.length = k.length /\ o.head = k.head /\ o.lastInsertPos = k.lastInsertPos
      /\ o.next = y /\ o.data1 = c1 /\ o.data2 = c2
  BY <1>4, <1>5 DEF SndLists
<1> QED
  BY <1>3, <1>6 DEF IsRest, c1, c2, y

SndAfter(i) == (i + 1) % SndSize

\* The first number of the head's range goes.
IsShifted(k, j, first, o) ==
  /\ o \in SndLists /\ o.length = k.length - 1 /\ o.head = j
  /\ o.next = With(k.next, j, k.next[k.head])
  /\ o.data1 = With(With(k.data1, j, first), k.head, -1)
  /\ o.data2 = With(With(k.data2, j, SndReach(k.data2[k.head], first, k.data2[j])), k.head, -1)
  /\ o.lastInsertPos = Unmarked(k.lastInsertPos, k.head)

LEMMA SndShiftedIs ==
  ASSUME NEW k \in SndLists, k.head \in Snd!Slots, k.length - 1 \in Nat, k.data2[k.head] # -1,
         NEW j \in Snd!Slots, j = SndAfter(k.head),
         NEW first \in 0 .. Snd!MaxSeqNo, first = Snd!incseq(k.data1[k.head]), NEW o, o = Snd!Beheaded(k)
  PROVE  IsShifted(k, j, first, o)
<1> DEFINE q == [k EXCEPT !.length = @ - 1]
           p == Snd!Rest(q, k.head, j, k.data1[k.head])
           t == Snd!Freed(p, k.head)
<1>1. j \in -1 .. SndSize - 1
  BY SndConstants
<1>2. /\ q \in SndLists /\ q.length = k.length - 1 /\ q.head = k.head /\ q.next = k.next
      /\ q.data1 = k.data1 /\ q.data2 = k.data2 /\ q.lastInsertPos = k.lastInsertPos
  BY DEF SndLists
<1>3. o = [t EXCEPT !.head = j]
  BY SndConstants DEF Snd!Beheaded, SndAfter
<1> HIDE DEF q
<1>4. IsRest(q, k.head, j, first, p)
  BY <1>2, SndRestIs
<1> HIDE DEF p
<1>5. p \in SndLists /\ p.head = k.head
  BY <1>2, <1>4 DEF IsRest
<1>6. IsFreed(p, k.head, t)
  BY <1>5, SndFreedIs
<1> HIDE DEF t
<1>7. /\ o \in SndLists /\ o.length = t.length /\ o.head = j /\ o.next = t.next
      /\ o.data1 = t.data1 /\ o.data2 = t.data2 /\ o.lastInsertPos = t.lastInsertPos
  BY <1>1, <1>3, <1>6 DEF IsFreed, SndLists
<1> QED
  BY <1>2, <1>4, <1>6, <1>7 DEF IsFreed, IsRest, IsShifted

\* The range at i is left with what ends in w, and one that starts at first follows.
IsParted(k, i, j, first, w, o) ==
  /\ o \in SndLists /\ o.length = k.length /\ o.head = k.head /\ o.lastInsertPos = k.lastInsertPos
  /\ o.next = With(With(k.next, j, k.next[i]), i, j)
  /\ o.data1 = With(k.data1, j, first)
  /\ o.data2 = With(With(k.data2, j, SndReach(k.data2[i], first, k.data2[j])), i, w)

LEMMA SndPartedIs ==
  ASSUME NEW k \in SndLists, NEW i \in Snd!Slots, NEW j \in Snd!Slots,
         NEW seq, NEW first \in 0 .. Snd!MaxSeqNo, first = Snd!incseq(seq), NEW w \in -1 .. Snd!MaxSeqNo,
         NEW o, o = [Snd!Rest(k, i, j, seq) EXCEPT !.data2[i] = w, !.next[i] = j]
  PROVE  IsParted(k, i, j, first, w, o)
<1> DEFINE p  == Snd!Rest(k, i, j, seq)
           c2 == With(p.data2, i, w)
           y  == With(p.next, i, j)
<1>1. j \in -1 .. SndSize - 1
  BY SndConstants
<1>2. IsRest(k, i, j, first, p)
  BY SndRestIs
<1>3. o = [p EXCEPT !.data2[i] = w, !.next[i] = j]
  OBVIOUS
<1> HIDE DEF p
<1>4. p \in SndLists
  BY <1>2 DEF IsRest
<1>5. o = [p EXCEPT !.data2 = c2, !.next = y]
  BY <1>3, <1>4 DEF SndLists, With
<1>6. c2 \in [Snd!Slots -> -1 .. Snd!MaxSeqNo] /\ y \in [Snd!Slots -> -1 .. SndSize - 1]
  BY <1>1, <1>4 DEF SndLists, With
<1> HIDE DEF c2, y
<1>7. /\ o \in SndLists /\ o.length = p.length /\ o.head = p.head /\ o.lastInsertPos = p.lastInsertPos
      /\ o.next = y /\ o.data1 = p.data1 /\ o.data2 = c2
  BY <1>4, <1>5, <1>6 DEF SndLists
<1> QED
  BY <1>2, <1>7 DEF IsRest, IsParted, c2, y

-----------------------------------------------------------------------------
(* The arrays of the sender's list hold the ranges (S, e).                  *)

SndMarked(p, r, S) == p = -1 \/ \E a \in S : p = Slot(SndSize, r, a)

SndArrays(k, r, S, e) ==
  /\ k \in SndLists /\ r \in Int /\ e \in [Int -> Int] /\ Spread(SndSize, S)
  /\ Nodes(SndCircle, SndSize, r, k.data1, k.data2, S, e)
  /\ Forward(SndSize, r, k.next, k.head, S)
  /\ SndMarked(k.lastInsertPos, r, S)

\* The node of the range from x to y: its place, and what it says.
SndPlace(k, r, S, i, x, y) ==
  /\ i = Slot(SndSize, r, x) /\ i \in Snd!Slots /\ x \in Int /\ y \in Int
  /\ i = k.head <=> IsLeast(S, x)
  /\ IsGreatest(S, x) => k.next[i] = -1
  /\ ~ IsGreatest(S, x) => \E c \in S : Adjacent(S, x, c) /\ k.next[i] = Slot(SndSize, r, c)
  /\ k.data1[i] = Snd!Wrap(x) /\ Snd!Wrap(x) # -1
  /\ k.data2[i] = (IF y = x THEN -1 ELSE Snd!Wrap(y)) /\ Snd!Wrap(y) # -1

LEMMA SndNode ==
  ASSUME NEW k, NEW r, NEW S, NEW e, SndArrays(k, r, S, e), NEW x \in S
  PROVE  SndPlace(k, r, S, Slot(SndSize, r, x), x, e[x])
<1> DEFINE i == Slot(SndSize, r, x)
<1>1. r \in Int /\ SndSize \in Nat \ {0} /\ Snd!Slots = 0 .. SndSize - 1 /\ SndSize \in Nat /\ Spread(SndSize, S)
  BY SndConstants DEF SndArrays
<1>2. x \in Int /\ i \in Snd!Slots /\ \A c \in S : Slot(SndSize, r, c) = i => c = x
  BY <1>1, OwnSlots
<1>3. Forward(SndSize, r, k.next, k.head, S)
  BY DEF SndArrays
<1>4. PICK h \in S : IsLeast(S, h)
  BY <1>1, EndsExist
<1>5. i = k.head <=> IsLeast(S, x)
  <2>1. k.head = Slot(SndSize, r, h)
    BY <1>3, <1>4 DEF Forward
  <2>2. IsLeast(S, x) => k.head = i
    BY <1>3 DEF Forward
  <2> QED
    BY <1>2, <1>4, <2>1, <2>2
<1>6. IsGreatest(S, x) => k.next[i] = -1
  BY <1>3 DEF Forward
<1>7. ASSUME ~ IsGreatest(S, x)
      PROVE  \E c \in S : Adjacent(S, x, c) /\ k.next[i] = Slot(SndSize, r, c)
  <2>1. PICK c \in S : Adjacent(S, x, c)
    BY <1>1, <1>7, FollowerExists
  <2> QED
    BY <1>3, <2>1 DEF Forward
<1>8. e[x] \in Int
  BY <1>2 DEF SndArrays
<1>9. k.data1[i] = Carried(SndCircle, x) /\ k.data2[i] = EndOf(SndCircle, e, x)
  BY DEF SndArrays, Nodes
<1>10. /\ Snd!Wrap(x) = Carried(SndCircle, x) /\ Snd!Wrap(x) # -1
       /\ Snd!Wrap(e[x]) = Carried(SndCircle, e[x]) /\ Snd!Wrap(e[x]) # -1
  BY <1>2, <1>8, SndSteps
<1> QED
  BY <1>2, <1>5, <1>6, <1>7, <1>8, <1>9, <1>10 DEF SndPlace, EndOf

\* The slot of a number that starts no range is free.
LEMMA SndFree ==
  ASSUME NEW k, NEW r, NEW S, NEW e, SndArrays(k, r, S, e), NEW y \in Int, y \notin S, Spread(SndSize, S \cup {y})
  PROVE  /\ k.data1[Slot(SndSize, r, y)] = -1 /\ k.data2[Slot(SndSize, r, y)] = -1
         /\ Slot(SndSize, r, y) \in Snd!Slots /\ Nearby(SndSize, S, y)
         /\ \A a \in S : Slot(SndSize, r, a) # Slot(SndSize, r, y)
<1>1. r \in Int /\ SndSize \in Nat \ {0} /\ SndCircle \in Nat \ {0} /\ Snd!Slots = 0 .. SndSize - 1 /\ Spread(SndSize, S)
  BY SndConstants DEF SndArrays
<1>2. Nodes(SndCircle, SndSize, r, k.data1, k.data2, S, e)
  BY DEF SndArrays
<1>3. Nearby(SndSize, S, y)
  BY DEF Spread, Nearby
<1>4. Slot(SndSize, r, y) \in Snd!Slots /\ \A a \in S : Slot(SndSize, r, a) # Slot(SndSize, r, y)
  <2> DEFINE T == S \cup {y}
  <2>1. /\ \A a \in T : a \in Int /\ Slot(SndSize, r, a) \in 0 .. SndSize - 1
        /\ \A a, c \in T : Slot(SndSize, r, a) = Slot(SndSize, r, c) => a = c
    BY <1>1, OwnSlots
  <2>2. y \in T /\ \A a \in S : a \in T /\ a # y
    OBVIOUS
  <2> HIDE DEF T
  <2> QED
    BY <1>1, <2>1, <2>2
<1>5. k.data1[Slot(SndSize, r, y)] = -1 /\ k.data2[Slot(SndSize, r, y)] = -1
  BY <1>1, <1>2, <1>3, FreeSlot
<1> QED
  BY <1>3, <1>4, <1>5

\* The mark is moved off a range that goes.
LEMMA SndUnmarked ==
  ASSUME NEW r \in Int, NEW S, Spread(SndSize, S), NEW x \in S, NEW p, SndMarked(p, r, S)
  PROVE  SndMarked(Unmarked(p, Slot(SndSize, r, x)), r, S \ {x})
BY DEF SndMarked, Unmarked

LEMMA SndDroppedHolds ==
  ASSUME NEW k, NEW r, NEW S, NEW e, SndArrays(k, r, S, e), NEW h, IsLeast(S, h), NEW n, NEW o, IsDropped(k, n, o)
  PROVE  SndArrays(o, r, S \ {h}, e)
<1>1. /\ r \in Int /\ SndSize \in Nat \ {0} /\ SndCircle \in Nat \ {0} /\ Spread(SndSize, S) /\ e \in [Int -> Int]
      /\ Nodes(SndCircle, SndSize, r, k.data1, k.data2, S, e)
      /\ Forward(SndSize, r, k.next, k.head, S) /\ SndMarked(k.lastInsertPos, r, S)
  BY SndConstants DEF SndArrays
<1>2. k.head = Slot(SndSize, r, h) /\ h \in S
  BY <1>1 DEF Forward, IsLeast
<1>3. /\ o \in SndLists /\ o.head = k.next[k.head] /\ o.next = k.next
      /\ o.data1 = With(k.data1, k.head, -1) /\ o.data2 = With(k.data2, k.head, -1)
      /\ o.lastInsertPos = Unmarked(k.lastInsertPos, k.head)
  BY DEF IsDropped
<1>4. Nodes(SndCircle, SndSize, r, o.data1, o.data2, S \ {h}, e)
  BY <1>1, <1>2, <1>3, NodeRemoved
<1>5. Forward(SndSize, r, o.next, o.head, S \ {h})
  <2>1. Forward(SndSize, r, k.next, k.next[Slot(SndSize, r, h)], S \ {h})
    BY <1>1, ForwardBehead
  <2> QED
    BY <1>2, <1>3, <2>1
<1>6. SndMarked(o.lastInsertPos, r, S \ {h})
  BY <1>1, <1>2, <1>3, SndUnmarked
<1>7. Spread(SndSize, S \ {h})
  BY <1>1 DEF Spread
<1> QED
  BY <1>1, <1>3, <1>4, <1>5, <1>6, <1>7 DEF SndArrays

\* What the node of a range from x to y has for its end.
SndEnd(x, y) == IF y = x THEN -1 ELSE Snd!Wrap(y)

\* The end that is written for a range from x to y, in a slot that has none.
LEMMA SndReaches ==
  ASSUME NEW x \in Int, NEW y \in Int, x <= y, y - x < SndSeqNoTH, NEW z \in Int, z < x
  PROVE  SndReach(SndEnd(z, y), Snd!Wrap(x), -1) = IF y = x THEN -1 ELSE Carried(SndCircle, y)
<1>1. y - x < SndSeqNoTH /\ x - y < SndSeqNoTH /\ y # z
  BY SndConstants
<1>2. Snd!seqcmp(Snd!Wrap(y), Snd!Wrap(x)) > 0 <=> y > x
  BY <1>1, SndCompares
<1>3. Snd!Wrap(y) = Carried(SndCircle, y)
  BY SndSteps
<1> QED
  BY <1>1, <1>2, <1>3 DEF SndReach, SndEnd

\* v follows the number x, which starts the range to y; U and f are what is left
\* when x goes.
Advances(S, e, x, v, y, U, f) ==
  /\ IsLeast(S, x) /\ v \in Int /\ v = x + 1 /\ v \notin S /\ Spread(SndSize, S \cup {v})
  /\ y = e[x] /\ x < y /\ y - x < SndSeqNoTH
  /\ f = With(e, v, y) /\ U = (S \ {x}) \cup {v}

LEMMA SndShiftedHolds ==
  ASSUME NEW k, NEW r, NEW S, NEW e, SndArrays(k, r, S, e), NEW x, NEW v, NEW y, NEW U, NEW f,
         Advances(S, e, x, v, y, U, f), k.length - 1 \in Nat, NEW o, o = Snd!Beheaded(k)
  PROVE  SndArrays(o, r, U, f) /\ o.length = k.length - 1
<1> DEFINE j == Slot(SndSize, r, v)
           first == Snd!Wrap(v)
           T == S \cup {v}
<1>1. /\ r \in Int /\ SndSize \in Nat \ {0} /\ SndCircle \in Nat \ {0} /\ Spread(SndSize, S) /\ e \in [Int -> Int]
      /\ k \in SndLists
      /\ Nodes(SndCircle, SndSize, r, k.data1, k.data2, S, e)
      /\ Forward(SndSize, r, k.next, k.head, S) /\ SndMarked(k.lastInsertPos, r, S)
  BY SndConstants DEF SndArrays
<1>2. /\ IsLeast(S, x) /\ v \in Int /\ v = x + 1 /\ v \notin S /\ Spread(SndSize, T)
      /\ y = e[x] /\ x < y /\ y - x < SndSeqNoTH /\ x \in S
      /\ f = With(e, v, y) /\ U = (S \ {x}) \cup {v}
  BY DEF Advances, IsLeast
<1> HIDE DEF T
<1>3. SndPlace(k, r, S, Slot(SndSize, r, x), x, e[x])
  BY <1>2, SndNode
<1>4. /\ k.head = Slot(SndSize, r, x) /\ k.head \in Snd!Slots /\ k.data1[k.head] = Snd!Wrap(x) /\ k.data2[k.head] = Snd!Wrap(y)
      /\ Snd!Wrap(y) # -1 /\ x \in Int /\ y \in Int
  BY <1>2, <1>3 DEF SndPlace
<1>5. /\ j \in Snd!Slots /\ k.data2[j] = -1 /\ Nearby(SndSize, S, v)
  BY <1>1, <1>2, SndFree DEF T
<1>6. j = SndAfter(k.head)
  <2>1. \A u, d \in Int : (Slot(SndSize, r, u) + d) % SndSize = Slot(SndSize, r, u + d)
    BY <1>1, SlotFacts
  <2>2. (Slot(SndSize, r, x) + 1) % SndSize = Slot(SndSize, r, x + 1)
    BY <1>4, <2>1
  <2> QED
    BY <1>2, <1>4, <2>2 DEF SndAfter
<1>7. first \in 0 .. Snd!MaxSeqNo /\ first = Snd!incseq(k.data1[k.head]) /\ first = Carried(SndCircle, v)
  <2>1. Snd!incseq(Snd!Wrap(x)) = Snd!Wrap(x + 1)
    BY <1>4, SndSteps
  <2>2. Snd!Wrap(v) \in 0 .. Snd!MaxSeqNo /\ Snd!Wrap(v) = Carried(SndCircle, v)
    BY <1>2, SndSteps
  <2> QED
    BY <1>2, <1>4, <2>1, <2>2
<1>8. j = Slot(SndSize, r, v) /\ first = Snd!Wrap(v)
  OBVIOUS
<1> HIDE DEF j, first
<1>9. IsShifted(k, j, first, o)
  BY <1>1, <1>4, <1>5, <1>6, <1>7, SndShiftedIs
<1>10. /\ o \in SndLists /\ o.length = k.length - 1 /\ o.head = j
       /\ o.next = With(k.next, j, k.next[k.head])
       /\ o.data1 = With(With(k.data1, j, first), k.head, -1)
       /\ o.data2 = With(With(k.data2, j, SndReach(k.data2[k.head], first, k.data2[j])), k.head, -1)
       /\ o.lastInsertPos = Unmarked(k.lastInsertPos, k.head)
  BY <1>9 DEF IsShifted
<1>11. f \in [Int -> Int] /\ x \in T /\ T \ {x} = U /\ T = S \cup {v}
  BY <1>1, <1>2, <1>4 DEF T, With
<1>12. Nodes(SndCircle, SndSize, r, o.data1, o.data2, U, f)
  <2> DEFINE w == SndReach(k.data2[k.head], first, k.data2[j])
             f1 == With(k.data1, j, first)
             f2 == With(k.data2, j, w)
  <2>1. w = IF y = v THEN -1 ELSE Carried(SndCircle, y)
    <3>1. v <= y /\ y - v < SndSeqNoTH /\ x < v /\ y # x
      BY <1>2, <1>4, SndConstants
    <3>2. SndReach(SndEnd(x, y), Snd!Wrap(v), -1) = IF y = v THEN -1 ELSE Carried(SndCircle, y)
      BY <1>2, <1>4, <3>1, SndReaches
    <3>3. k.data2[k.head] = SndEnd(x, y)
      BY <1>4, <3>1 DEF SndEnd
    <3> QED
      BY <1>5, <1>8, <3>2, <3>3
  <2>2. o.data1 = With(f1, k.head, -1) /\ o.data2 = With(f2, k.head, -1)
    BY <1>10
  <2>3. f1 = With(k.data1, Slot(SndSize, r, v), Carried(SndCircle, v)) /\ f2 = With(k.data2, Slot(SndSize, r, v), w)
    BY <1>7, <1>8
  <2> HIDE DEF w, f1, f2
  <2>4. Nodes(SndCircle, SndSize, r, f1, f2, T, f)
    <3>1. Nodes(SndCircle, SndSize, r, f1, f2, S \cup {v}, With(e, v, y))
      BY <1>1, <1>2, <1>4, <1>5, <2>1, <2>3, NodeAdded
    <3> QED
      BY <1>2, <1>11, <3>1
  <2>5. Nodes(SndCircle, SndSize, r, o.data1, o.data2, T \ {x}, f)
    BY <1>1, <1>2, <1>4, <1>11, <2>2, <2>4, NodeRemoved
  <2> QED
    BY <1>11, <2>5
<1>13. Forward(SndSize, r, o.next, o.head, U)
  <2>1. o.next = With(k.next, Slot(SndSize, r, x + 1), k.next[Slot(SndSize, r, x)]) /\ o.head = Slot(SndSize, r, x + 1)
    BY <1>2, <1>4, <1>8, <1>10
  <2>2. x + 1 \notin S /\ Spread(SndSize, S \cup {x + 1})
    BY <1>2, <1>11
  <2>3. Forward(SndSize, r, o.next, Slot(SndSize, r, x + 1), (S \ {x}) \cup {x + 1})
    BY <1>1, <1>2, <2>1, <2>2, ForwardShiftHead
  <2> QED
    BY <1>2, <2>1, <2>3
<1>14. SndMarked(o.lastInsertPos, r, U)
  <2>1. SndMarked(o.lastInsertPos, r, S \ {x})
    BY <1>1, <1>2, <1>4, <1>10, SndUnmarked
  <2> QED
    BY <1>2, <2>1 DEF SndMarked
<1>15. Spread(SndSize, U)
  BY <1>2, <1>11 DEF Spread
<1> QED
  BY <1>1, <1>10, <1>11, <1>12, <1>13, <1>14, <1>15 DEF SndArrays

\* The range from b to y is left with the numbers up to x, and those from v on are a
\* range of their own.
Splits(S, e, b, x, v, y, U, f) ==
  /\ b \in S /\ x \in Int /\ v \in Int /\ b <= x /\ v = x + 1 /\ v \notin S /\ Spread(SndSize, S \cup {v})
  /\ y = e[b] /\ v <= y /\ y - b < SndSeqNoTH
  /\ \A c \in S : c <= b \/ v < c
  /\ f = With(With(e, b, x), v, y) /\ U = S \cup {v}

SndParts(k, i, j, seq, w) == [Snd!Rest(k, i, j, seq) EXCEPT !.data2[i] = w, !.next[i] = j]

LEMMA SndPartedHolds ==
  ASSUME NEW k, NEW r, NEW S, NEW e, SndArrays(k, r, S, e), NEW b, NEW x, NEW v, NEW y, NEW U, NEW f,
         Splits(S, e, b, x, v, y, U, f), NEW i, i = Slot(SndSize, r, b), NEW j, j = Slot(SndSize, r, v),
         NEW o, o = SndParts(k, i, j, Snd!Wrap(x), SndEnd(b, x))
  PROVE  SndArrays(o, r, U, f) /\ o.length = k.length /\ o.next[i] = j
<1> DEFINE first == Snd!Wrap(v)
           w == SndEnd(b, x)
<1>1. /\ r \in Int /\ SndSize \in Nat \ {0} /\ SndCircle \in Nat \ {0} /\ Spread(SndSize, S) /\ e \in [Int -> Int]
      /\ k \in SndLists
      /\ Nodes(SndCircle, SndSize, r, k.data1, k.data2, S, e)
      /\ Forward(SndSize, r, k.next, k.head, S) /\ SndMarked(k.lastInsertPos, r, S)
  BY SndConstants DEF SndArrays
<1>2. /\ b \in S /\ x \in Int /\ v \in Int /\ b <= x /\ v = x + 1 /\ v \notin S /\ Spread(SndSize, S \cup {v})
      /\ y = e[b] /\ v <= y /\ y - b < SndSeqNoTH
      /\ \A c \in S : c <= b \/ v < c
      /\ f = With(With(e, b, x), v, y) /\ U = S \cup {v}
  BY DEF Splits
<1>21. b \in S /\ x \in Int /\ v \in Int /\ b <= x /\ v = x + 1 /\ v <= y /\ y - b < SndSeqNoTH
  BY <1>2
<1>22. v \in Int /\ v \notin S /\ f = With(With(e, b, x), v, y) /\ U = S \cup {v}
  BY <1>2
<1>3. SndPlace(k, r, S, i, b, y)
  BY <1>2, SndNode
<1>4. /\ i \in Snd!Slots /\ k.data2[i] = SndEnd(b, y) /\ b \in Int /\ y \in Int /\ b < v
  BY <1>2, <1>3 DEF SndPlace, SndEnd
<1>5. /\ j \in Snd!Slots /\ k.data2[j] = -1 /\ Nearby(SndSize, S, v) /\ i # j
  BY <1>1, <1>2, SndFree
<1>7. /\ first \in 0 .. Snd!MaxSeqNo /\ first = Snd!incseq(Snd!Wrap(x)) /\ first = Carried(SndCircle, v)
      /\ w \in -1 .. Snd!MaxSeqNo /\ w = (IF x = b THEN -1 ELSE Carried(SndCircle, x))
  <2>1. Snd!incseq(Snd!Wrap(x)) = Snd!Wrap(x + 1) /\ Snd!Wrap(x) \in 0 .. Snd!MaxSeqNo /\ Snd!Wrap(x) = Carried(SndCircle, x)
    BY <1>2, SndSteps
  <2>2. Snd!Wrap(v) \in 0 .. Snd!MaxSeqNo /\ Snd!Wrap(v) = Carried(SndCircle, v)
    BY <1>2, SndSteps
  <2> QED
    BY <1>2, <2>1, <2>2, SndConstants DEF SndEnd
<1>8. first = Snd!Wrap(v) /\ o = [Snd!Rest(k, i, j, Snd!Wrap(x)) EXCEPT !.data2[i] = w, !.next[i] = j]
  BY DEF SndParts
<1> HIDE DEF first, w
<1>9. IsParted(k, i, j, first, w, o)
  BY <1>1, <1>4, <1>5, <1>7, <1>8, SndPartedIs
<1>10. /\ o \in SndLists /\ o.length = k.length /\ o.head = k.head /\ o.lastInsertPos = k.lastInsertPos
       /\ o.next = With(With(k.next, j, k.next[i]), i, j)
       /\ o.data1 = With(k.data1, j, first)
       /\ o.data2 = With(With(k.data2, j, SndReach(k.data2[i], first, k.data2[j])), i, w)
  BY <1>9 DEF IsParted
<1>11. f \in [Int -> Int]
  BY <1>1, <1>2, <1>4 DEF With
<1>12. Nodes(SndCircle, SndSize, r, o.data1, o.data2, U, f)
  <2> DEFINE t  == SndReach(k.data2[i], first, k.data2[j])
             f1 == With(k.data1, j, first)
             f2 == With(k.data2, j, t)
             g  == With(e, v, y)
  <2>1. t = IF y = v THEN -1 ELSE Carried(SndCircle, y)
    <3>0. SndSeqNoTH \in Int /\ b \in Int /\ v \in Int /\ y \in Int /\ b < v /\ v <= y /\ y - b < SndSeqNoTH
      BY <1>21, <1>4, SndConstants
    <3>1. v <= y /\ y - v < SndSeqNoTH /\ b < v
      BY <3>0
    <3>2. SndReach(SndEnd(b, y), Snd!Wrap(v), -1) = IF y = v THEN -1 ELSE Carried(SndCircle, y)
      BY <1>21, <1>4, <3>1, SndReaches
    <3> QED
      BY <1>4, <1>5, <1>8, <3>2
  <2>2. f1 = With(k.data1, Slot(SndSize, r, v), Carried(SndCircle, v)) /\ f2 = With(k.data2, Slot(SndSize, r, v), t)
    BY <1>7, <1>10
  <2>25. o.data1 = f1
    BY <1>10
  <2>3. o.data2 = With(f2, Slot(SndSize, r, b), w)
    BY <1>10
  <2>4. f = With(g, b, x)
    BY <1>2, <1>4, WithCommutes
  <2>5. g \in [Int -> Int]
    BY <1>1, <1>2, <1>4 DEF With
  <2>6. g = With(e, v, y)
    OBVIOUS
  <2> HIDE DEF t, f1, f2, g
  <2>7. Nodes(SndCircle, SndSize, r, f1, f2, U, g)
    <3>1. Nodes(SndCircle, SndSize, r, f1, f2, S \cup {v}, With(e, v, y))
      BY <1>1, <1>22, <1>4, <1>5, <2>1, <2>2, NodeAdded
    <3> QED
      BY <1>22, <2>6, <3>1
  <2>8. Spread(SndSize, U) /\ b \in U
    BY <1>2
  <2>9. b \in U /\ x \in Int
    BY <1>21, <2>8
  <2> QED
    BY <1>1, <1>7, <2>25, <2>3, <2>4, <2>5, <2>7, <2>8, <2>9, NodeEnds
<1>13. Forward(SndSize, r, o.next, o.head, U)
  <2>1. o.next = With(With(k.next, Slot(SndSize, r, v), k.next[Slot(SndSize, r, b)]), Slot(SndSize, r, b), Slot(SndSize, r, v))
    BY <1>10
  <2>2. Forward(SndSize, r, o.next, k.head, S \cup {v})
    BY <1>1, <1>2, <1>4, <2>1, ForwardAfter
  <2> QED
    BY <1>2, <1>10, <2>2
<1>14. SndMarked(o.lastInsertPos, r, U)
  BY <1>1, <1>2, <1>10 DEF SndMarked
<1>15. o.next[i] = j
  <2> DEFINE nx == With(k.next, j, k.next[i])
  <2>1. nx \in [Snd!Slots -> -1 .. SndSize - 1] \/ DOMAIN nx = Snd!Slots
    BY <1>1 DEF With, SndLists
  <2>2. i \in DOMAIN nx
    BY <1>4, <2>1
  <2>3. o.next = With(nx, i, j)
    BY <1>10
  <2> HIDE DEF nx
  <2> QED
    BY <2>2, <2>3 DEF With
<1> QED
  BY <1>1, <1>2, <1>10, <1>11, <1>12, <1>13, <1>14, <1>15 DEF SndArrays

-----------------------------------------------------------------------------
(* The list k holds the numbers of (S, e), which are from A on and below D. *)

Fits(S, e, A, D) ==
  /\ Ranges(S, e) /\ A \in Int /\ D \in Int /\ A <= D /\ D - A <= SndSpan
  /\ \A u \in Cover(S, e) : A <= u /\ u < D

SndHolds(k, r, S, e, A, D) ==
  SndArrays(k, r, S, e) /\ Fits(S, e, A, D) /\ k.length = Cardinality(Cover(S, e))

\* What that says of the starts and ends.
Within(S, e, A, D) ==
  /\ Cover(S, e) \in SUBSET Int /\ IsFiniteSet(Cover(S, e)) /\ S \subseteq Cover(S, e)
  /\ Spread(SndSize, Cover(S, e)) /\ Spread(SndSize, S)
  /\ \A a \in S : /\ a \in Int /\ e[a] \in Int /\ a <= e[a] /\ e[a] \in Cover(S, e)
                  /\ A <= a /\ e[a] < D /\ e[a] - a < SndSeqNoTH
  /\ S = {} <=> Cover(S, e) = {}

LEMMA SndWithin ==
  ASSUME NEW S, NEW e, NEW A, NEW D, Fits(S, e, A, D)
  PROVE  Within(S, e, A, D)
<1> DEFINE C == Cover(S, e)
<1>1. /\ S \in SUBSET Int /\ e \in [Int -> Int] /\ (\A a \in S : a <= e[a])
      /\ A \in Int /\ D \in Int /\ A <= D /\ D - A <= SndSpan /\ (\A u \in C : A <= u /\ u < D)
  BY DEF Fits, Ranges
<1>2. SndSize \in Nat /\ SndSpan \in Nat /\ SndSpan <= SndSize /\ SndSpan < SndSeqNoTH /\ SndSeqNoTH \in Nat
  BY SndConstants
<1>3. C \in SUBSET Int
  BY DEF Cover
<1>4. \A a \in S : a \in Int /\ e[a] \in Int /\ a <= e[a] /\ a \in C /\ e[a] \in C
  <2> TAKE a \in S
  <2>1. a \in Int /\ e[a] \in Int /\ a <= e[a]
    BY <1>1
  <2> QED
    BY <2>1 DEF Cover
<1>5. C = {} => S = {}
  BY <1>4
<1>6. S = {} => C = {}
  BY DEF Cover
<1> HIDE DEF C
<1>7. IsFiniteSet(C)
  <2>1. C \subseteq A .. D
    BY <1>1, <1>3
  <2>2. IsFiniteSet(A .. D)
    BY <1>1, FS_Interval
  <2> QED
    BY <2>1, <2>2, FS_Subset
<1>8. Spread(SndSize, C)
  <2>1. \A u, v \in C : u - v < SndSize
    <3> TAKE u, v \in C
    <3>1. u \in Int /\ v \in Int /\ A <= u /\ u < D /\ A <= v /\ v < D
      BY <1>1, <1>3
    <3> QED
      BY <1>1, <1>2, <3>1
  <2> QED
    BY <1>3, <2>1 DEF Spread
<1>9. Spread(SndSize, S)
  BY <1>4, <1>8 DEF Spread
<1>10. \A a \in S : A <= a /\ e[a] < D /\ e[a] - a < SndSeqNoTH
  <2> TAKE a \in S
  <2>1. a \in Int /\ e[a] \in Int /\ A <= a /\ e[a] < D
    BY <1>1, <1>4
  <2> QED
    BY <1>1, <1>2, <2>1
<1> QED
  BY <1>3, <1>4, <1>5, <1>6, <1>7, <1>8, <1>9, <1>10 DEF C, Within

\* Fewer numbers fit as well.
LEMMA SndFewer ==
  ASSUME NEW S, NEW e, NEW A, NEW D, Fits(S, e, A, D), NEW T, NEW f, Ranges(T, f), Cover(T, f) \subseteq Cover(S, e)
  PROVE  Fits(T, f, A, D)
BY DEF Fits

\* A list without its first number.
LEMMA SndBeheadedHolds ==
  ASSUME NEW k, NEW r, NEW S, NEW e, NEW A, NEW D, SndHolds(k, r, S, e, A, D), NEW h, IsLeast(S, h),
         NEW o, o = Snd!Beheaded(k)
  PROVE  \E T, f : SndHolds(o, r, T, f, A, D) /\ Cover(T, f) = Cover(S, e) \ {h}
<1>1. SndArrays(k, r, S, e) /\ Fits(S, e, A, D) /\ k.length = Cardinality(Cover(S, e)) /\ Ranges(S, e)
  BY DEF SndHolds, Fits
<1>2. Within(S, e, A, D)
  BY <1>1, SndWithin
<1>3. h \in S /\ h \in Cover(S, e) /\ IsFiniteSet(Cover(S, e)) /\ e[h] \in Int /\ h \in Int /\ h <= e[h] /\ e[h] - h < SndSeqNoTH
  BY <1>2 DEF Within, IsLeast
<1>4. SndPlace(k, r, S, Slot(SndSize, r, h), h, e[h])
  BY <1>1, <1>3, SndNode
<1>5. k.head = Slot(SndSize, r, h) /\ k.head \in Snd!Slots /\ k.data2[k.head] = SndEnd(h, e[h]) /\ k \in SndLists
  BY <1>1, <1>4 DEF SndPlace, SndEnd, SndArrays
<1>6. Cardinality(Cover(S, e) \ {h}) = k.length - 1 /\ k.length - 1 \in Nat
  <2>1. /\ IsFiniteSet(Cover(S, e) \ {h})
        /\ Cardinality(Cover(S, e) \ {h}) = Cardinality(Cover(S, e)) - 1
    BY <1>3, FS_RemoveElement
  <2>2. Cardinality(Cover(S, e) \ {h}) \in Nat
    BY <2>1, FS_CardinalityType
  <2> QED
    BY <1>1, <2>1, <2>2
\* What remains to be shown.
<1>7. ASSUME NEW T, NEW f, SndArrays(o, r, T, f), Ranges(T, f), Cover(T, f) = Cover(S, e) \ {h}, o.length = k.length - 1
      PROVE  \E U, g : SndHolds(o, r, U, g, A, D) /\ Cover(U, g) = Cover(S, e) \ {h}
  <2>1. Fits(T, f, A, D)
    <3>1. Cover(T, f) \subseteq Cover(S, e)
      BY <1>7
    <3> QED
      BY <1>1, <1>7, <3>1, SndFewer
  <2>2. SndHolds(o, r, T, f, A, D)
    BY <1>6, <1>7, <2>1 DEF SndHolds
  <2> QED
    BY <1>7, <2>2
<1>8. CASE e[h] = h
  <2>1. k.data2[k.head] = -1
    BY <1>5, <1>8 DEF SndEnd
  <2>2. IsDropped(k, 1, o)
    BY <1>5, <1>6, <2>1, SndBeheadedDrops
  <2>3. SndArrays(o, r, S \ {h}, e)
    BY <1>1, <2>2, SndDroppedHolds
  <2>4. Ranges(S \ {h}, e) /\ Cover(S \ {h}, e) = Cover(S, e) \ (h .. e[h])
    BY <1>1, <1>3, RangeRemovedIs
  <2>5. h .. e[h] = {h}
    BY <1>3, <1>8
  <2>6. o.length = k.length - 1
    BY <2>2 DEF IsDropped
  <2> QED
    BY <1>7, <2>3, <2>4, <2>5, <2>6
<1>9. CASE e[h] # h
  <2> DEFINE v == h + 1
             f == With(e, v, e[h])
             U == (S \ {h}) \cup {v}
             y == e[h]
  <2>1. h < e[h] /\ v = h + 1 /\ v \in Int /\ h < y
    BY <1>3, <1>9
  <2>2. f = With(e, v, e[h]) /\ U = (S \ {h}) \cup {v} /\ y = e[h]
    OBVIOUS
  <2> HIDE DEF v, f, U, y
  <2>3. Ranges(U, f) /\ Cover(U, f) = Cover(S, e) \ {h} /\ v \notin S
    <3>1. Ranges(S, e) /\ h \in S /\ h < e[h] /\ v = h + 1
      BY <1>1, <1>3, <2>1
    <3>2. f = With(e, v, e[h]) /\ U = (S \ {h}) \cup {v}
      BY <2>2
    <3> QED
      BY <3>1, <3>2, RangeAdvanced
  <2>4. Spread(SndSize, S \cup {v})
    <3>1. v \in Cover(S, e)
      BY <1>3, <2>1 DEF Cover
    <3> QED
      BY <1>2, <3>1 DEF Within, Spread
  <2>5. Advances(S, e, h, v, y, U, f)
    BY <1>3, <2>1, <2>2, <2>3, <2>4 DEF Advances
  <2>6. SndArrays(o, r, U, f) /\ o.length = k.length - 1
    BY <1>1, <1>6, <2>5, SndShiftedHolds
  <2> QED
    BY <1>7, <2>3, <2>6
<1> QED
  BY <1>8, <1>9

-----------------------------------------------------------------------------
(* The loops of the sender's list.                                          *)

\* What holds at first, and after each of n turns if it did before, holds at last.
LEMMA TurnByTurn ==
  ASSUME NEW n \in Nat, NEW P, 0 \in P, \A i \in 1 .. n : i - 1 \in P => i \in P
  PROVE  n \in P
<1> DEFINE Bad == {i \in 0 .. n : i \notin P}
<1> SUFFICES ASSUME Bad # {}
             PROVE  FALSE
  OBVIOUS
<1>1. Bad \in SUBSET Nat
  OBVIOUS
<1>2. PICK i \in Bad : \A j \in Bad : i <= j
  <2> HIDE DEF Bad
  <2> QED
    BY <1>1, LeastOf
<1>3. i \in 0 .. n /\ i \notin P
  BY <1>2
<1>4. i # 0 /\ i \in 1 .. n
  BY <1>3
<1>5. i - 1 \in 0 .. n /\ i - 1 \notin Bad
  <2>1. i - 1 \in 0 .. n /\ ~ (i <= i - 1)
    BY <1>4
  <2> HIDE DEF Bad
  <2> QED
    BY <1>2, <2>1
<1>6. i - 1 \in P
  BY <1>5
<1> QED
  BY <1>3, <1>4, <1>6

\* One turn of each loop: t is a slot, or a list.
SndWalk(k, x, t) ==
  IF k.next[t] # Snd!None /\ Snd!seqcmp(k.data1[k.next[t]], x) < 0 THEN k.next[t] ELSE t

SndGone(t) == IF t.data2[t.head] = Snd!None THEN 1 ELSE Snd!seqlen(t.data1[t.head], t.data2[t.head])

SndCut(x, t) ==
  IF t.head = x THEN t
  ELSE [Snd!Freed(t, t.head) EXCEPT !.head = t.next[t.head], !.length = @ - SndGone(t)]

SndJoin(x, t) == IF Snd!Joins(t, x) THEN Snd!Joined(t, x) ELSE t

SndTurn(w, k, x, t) ==
  IF w = "walk" THEN SndWalk(k, x, t) ELSE IF w = "cut" THEN SndCut(x, t) ELSE SndJoin(x, t)

SndLoop(g, w, k, x, z, i) == IF i = 0 THEN z ELSE SndTurn(w, k, x, g[i - 1])
IsSndLoop(g, w, k, x, z, n) == g = [i \in 0 .. n |-> SndLoop(g, w, k, x, z, i)]

LEMMA SndLoopExists ==
  ASSUME NEW w, NEW k, NEW x, NEW z, NEW n \in Nat
  PROVE  \E g : IsSndLoop(g, w, k, x, z, n)
<1> DEFINE Bad == {i \in Nat : ~ \E g : IsSndLoop(g, w, k, x, z, i)}
<1> SUFFICES ASSUME Bad # {}
             PROVE  FALSE
  OBVIOUS
<1>1. PICK b \in Bad : \A j \in Bad : b <= j
  <2>1. Bad \in SUBSET Nat
    OBVIOUS
  <2> HIDE DEF Bad
  <2> QED
    BY <2>1, LeastOf
<1>2. b \in Nat /\ ~ \E g : IsSndLoop(g, w, k, x, z, b)
  BY <1>1
<1>3. ASSUME NEW f, \A i \in 0 .. b - 1 : f[i] = SndLoop(f, w, k, x, z, i)
      PROVE  FALSE
  <2> DEFINE g == [i \in 0 .. b |-> IF i = b THEN SndLoop(f, w, k, x, z, b) ELSE f[i]]
             h == [i \in 0 .. b |-> SndLoop(g, w, k, x, z, i)]
  <2>1. ASSUME NEW i \in 0 .. b
        PROVE  SndLoop(g, w, k, x, z, i) = SndLoop(f, w, k, x, z, i)
    <3>1. CASE i = 0
      BY <3>1 DEF SndLoop
    <3>2. CASE i # 0
      <4>1. g[i - 1] = f[i - 1]
        BY <1>2, <3>2
      <4> HIDE DEF g
      <4> QED
        BY <4>1 DEF SndLoop
    <3> QED
      BY <3>1, <3>2
  <2>2. ASSUME NEW i \in 0 .. b
        PROVE  g[i] = SndLoop(f, w, k, x, z, i)
    <3>1. CASE i = b
      BY <3>1
    <3>2. CASE i # b
      <4>1. i \in 0 .. b - 1 /\ g[i] = f[i]
        BY <1>2, <3>2
      <4> HIDE DEF g
      <4> QED
        BY <1>3, <4>1
    <3> QED
      BY <3>1, <3>2
  <2>3. g = [i \in 0 .. b |-> g[i]] /\ h = [i \in 0 .. b |-> h[i]]
    OBVIOUS
  <2>4. \A i \in 0 .. b : g[i] = h[i]
    <3> TAKE i \in 0 .. b
    <3>1. h[i] = SndLoop(g, w, k, x, z, i)
      OBVIOUS
    <3> HIDE DEF g, h
    <3> QED
      BY <2>1, <2>2, <3>1
  <2> HIDE DEF g, h
  <2>5. g = h
    BY <2>3, <2>4
  <2>6. IsSndLoop(g, w, k, x, z, b)
    BY <2>5 DEF IsSndLoop, h
  <2> QED
    BY <1>2, <2>6
<1>4. b # 0
  <2> SUFFICES ASSUME b = 0
               PROVE  FALSE
    OBVIOUS
  <2>1. \A i \in 0 .. b - 1 : FALSE
    OBVIOUS
  <2> QED
    BY <1>3, <2>1
<1>5. b - 1 \in Nat /\ b - 1 \notin Bad
  BY <1>1, <1>2, <1>4
<1>6. PICK f : IsSndLoop(f, w, k, x, z, b - 1)
  BY <1>5
<1>7. \A i \in 0 .. b - 1 : f[i] = SndLoop(f, w, k, x, z, i)
  <2> TAKE i \in 0 .. b - 1
  <2> DEFINE v(j) == SndLoop(f, w, k, x, z, j)
  <2>1. f = [j \in 0 .. b - 1 |-> v(j)]
    BY <1>6 DEF IsSndLoop
  <2> HIDE DEF v
  <2>2. f[i] = v(i)
    BY <2>1
  <2> QED
    BY <2>2 DEF v
<1> QED
  BY <1>3, <1>7

\* The values that a loop goes through, and the last of them.
SndRuns(g, w, k, x, z, o) ==
  /\ g[0] = z /\ o = g[SndSize]
  /\ \A i \in 1 .. SndSize : g[i] = SndTurn(w, k, x, g[i - 1])

LEMMA SndLoopRuns ==
  ASSUME NEW w, NEW k, NEW x, NEW z, NEW o, o = (CHOOSE g : IsSndLoop(g, w, k, x, z, SndSize))[SndSize]
  PROVE  \E g : SndRuns(g, w, k, x, z, o)
<1> DEFINE G == CHOOSE g : IsSndLoop(g, w, k, x, z, SndSize)
<1>1. IsSndLoop(G, w, k, x, z, SndSize)
  BY SndConstants, SndLoopExists
<1>2. o = G[SndSize] /\ SndSize \in Nat
  BY SndConstants
<1> HIDE DEF G
<1> DEFINE v(i) == SndLoop(G, w, k, x, z, i)
<1>3. G = [i \in 0 .. SndSize |-> v(i)]
  BY <1>1 DEF IsSndLoop
<1> HIDE DEF v
<1>4. \A i \in 0 .. SndSize : G[i] = v(i)
  BY <1>3
<1>5. G[0] = z
  BY <1>2, <1>4 DEF v, SndLoop
<1>6. \A i \in 1 .. SndSize : G[i] = SndTurn(w, k, x, G[i - 1])
  BY <1>2, <1>4 DEF v, SndLoop
<1> QED
  BY <1>2, <1>5, <1>6 DEF SndRuns

LEMMA SndWalkRuns ==
  ASSUME NEW k, NEW i, NEW x, NEW o, o = Snd!LastBefore(k, i, x)
  PROVE  \E g : SndRuns(g, "walk", k, x, i, o)
<1> DEFINE P(g) == g = [j \in 0 .. SndSize |->
                          IF j = 0 THEN i
                          ELSE IF k.next[g[j - 1]] # Snd!None /\ Snd!seqcmp(k.data1[k.next[g[j - 1]]], x) < 0
                               THEN k.next[g[j - 1]] ELSE g[j - 1]]
<1>1. o = (CHOOSE g : P(g))[SndSize]
  BY DEF Snd!LastBefore
<1>2. \A g : IsSndLoop(g, "walk", k, x, i, SndSize) <=> P(g)
  BY DEF IsSndLoop, SndLoop, SndTurn, SndWalk
<1> HIDE DEF P
<1>3. (CHOOSE g : IsSndLoop(g, "walk", k, x, i, SndSize)) = (CHOOSE g : P(g))
  BY <1>2, Zenon
<1> QED
  BY <1>1, <1>3, SndLoopRuns

LEMMA SndCutRuns ==
  ASSUME NEW k, NEW x, NEW o, o = Snd!CutTo(k, x)
  PROVE  \E g : SndRuns(g, "cut", k, x, k, o)
<1> DEFINE P(g) == g = [j \in 0 .. SndSize |->
                          IF j = 0 THEN k
                          ELSE IF g[j - 1].head = x THEN g[j - 1]
                          ELSE [Snd!Freed(g[j - 1], g[j - 1].head) EXCEPT
                                  !.head = g[j - 1].next[g[j - 1].head],
                                  !.length = @ - (IF g[j - 1].data2[g[j - 1].head] = Snd!None THEN 1
                                                  ELSE Snd!seqlen(g[j - 1].data1[g[j - 1].head],
                                                                  g[j - 1].data2[g[j - 1].head]))]]
<1>1. o = (CHOOSE g : P(g))[SndSize]
  BY DEF Snd!CutTo
<1>2. \A g : IsSndLoop(g, "cut", k, x, k, SndSize) <=> P(g)
  BY DEF IsSndLoop, SndLoop, SndTurn, SndCut, SndGone
<1> HIDE DEF P
<1>3. (CHOOSE g : IsSndLoop(g, "cut", k, x, k, SndSize)) = (CHOOSE g : P(g))
  BY <1>2, Zenon
<1> QED
  BY <1>1, <1>3, SndLoopRuns

LEMMA SndJoinRuns ==
  ASSUME NEW k, NEW i, NEW o, o = Snd!Coalesced(k, i)
  PROVE  \E g : SndRuns(g, "join", k, i, k, o)
<1> DEFINE P(g) == g = [j \in 0 .. SndSize |->
                          IF j = 0 THEN k
                          ELSE IF Snd!Joins(g[j - 1], i) THEN Snd!Joined(g[j - 1], i) ELSE g[j - 1]]
<1>1. o = (CHOOSE g : P(g))[SndSize]
  BY DEF Snd!Coalesced
<1>2. \A g : IsSndLoop(g, "join", k, i, k, SndSize) <=> P(g)
  BY DEF IsSndLoop, SndLoop, SndTurn, SndJoin
<1> HIDE DEF P
<1>3. (CHOOSE g : IsSndLoop(g, "join", k, i, k, SndSize)) = (CHOOSE g : P(g))
  BY <1>2, Zenon
<1> QED
  BY <1>1, <1>3, SndLoopRuns

-----------------------------------------------------------------------------
(* The last node that starts before a number.                               *)

AllClose(S, x) == \A c \in S : CloseBy(c, x)

\* The last start before x.
Precedes(S, b, x) == b \in S /\ b < x /\ \A c \in S : c <= b \/ x <= c

LEMMA SndWalksOn ==
  ASSUME NEW k, NEW r, NEW S, NEW e, SndArrays(k, r, S, e), NEW x \in Int, AllClose(S, x), NEW b \in S, b < x
  PROVE  \/ Precedes(S, b, x) /\ SndWalk(k, Snd!Wrap(x), Slot(SndSize, r, b)) = Slot(SndSize, r, b)
         \/ \E c \in S : b < c /\ c < x /\ SndWalk(k, Snd!Wrap(x), Slot(SndSize, r, b)) = Slot(SndSize, r, c)
<1> DEFINE i == Slot(SndSize, r, b)
<1>0. Snd!None = -1 /\ Snd!Slots = 0 .. SndSize - 1 /\ SndSize \in Nat
  BY SndConstants
<1>1. SndPlace(k, r, S, i, b, e[b])
  BY SndNode
<1> HIDE DEF i
<1>2. CASE IsGreatest(S, b)
  <2>1. k.next[i] = -1
    BY <1>1, <1>2 DEF SndPlace
  <2>2. SndWalk(k, Snd!Wrap(x), i) = i
    BY <1>0, <2>1 DEF SndWalk
  <2>3. Precedes(S, b, x)
    BY <1>2 DEF IsGreatest, Precedes
  <2> QED
    BY <2>2, <2>3 DEF i
<1>3. CASE ~ IsGreatest(S, b)
  <2>1. PICK c \in S : Adjacent(S, b, c) /\ k.next[i] = Slot(SndSize, r, c)
    BY <1>1, <1>3 DEF SndPlace
  <2>2. SndPlace(k, r, S, Slot(SndSize, r, c), c, e[c])
    BY SndNode
  <2>3. k.next[i] # -1 /\ k.data1[k.next[i]] = Snd!Wrap(c) /\ c \in Int
    BY <1>0, <2>1, <2>2 DEF SndPlace
  <2>4. Snd!seqcmp(Snd!Wrap(c), Snd!Wrap(x)) < 0 <=> c < x
    <3>1. CloseBy(c, x)
      BY DEF AllClose
    <3> QED
      BY <3>1, SndClose
  <2>5. CASE c < x
    <3>1. SndWalk(k, Snd!Wrap(x), i) = Slot(SndSize, r, c)
      BY <1>0, <2>1, <2>3, <2>4, <2>5 DEF SndWalk
    <3> QED
      BY <2>1, <2>5, <3>1 DEF i, Adjacent
  <2>6. CASE ~ c < x
    <3>1. SndWalk(k, Snd!Wrap(x), i) = i
      BY <1>0, <2>3, <2>4, <2>6 DEF SndWalk
    <3>2. \A d \in S : d <= b \/ x <= d
      <4> TAKE d \in S
      <4>1. d \in Int /\ (d <= b \/ c <= d)
        BY <2>1 DEF Adjacent, SndArrays, Spread
      <4> QED
        BY <2>3, <2>6, <4>1
    <3>3. Precedes(S, b, x)
      BY <3>2 DEF Precedes
    <3> QED
      BY <3>1, <3>3 DEF i
  <2> QED
    BY <2>5, <2>6
<1> QED
  BY <1>2, <1>3

LEMMA SndLastBefore ==
  ASSUME NEW k, NEW r, NEW S, NEW e, SndArrays(k, r, S, e), NEW x \in Int, AllClose(S, x), NEW a \in S, a < x,
         NEW o, o = Snd!LastBefore(k, Slot(SndSize, r, a), Snd!Wrap(x))
  PROVE  \E b \in S : Precedes(S, b, x) /\ o = Slot(SndSize, r, b)
<1>1. PICK g : SndRuns(g, "walk", k, Snd!Wrap(x), Slot(SndSize, r, a), o)
  BY SndWalkRuns
<1>2. /\ g[0] = Slot(SndSize, r, a) /\ o = g[SndSize]
      /\ \A i \in 1 .. SndSize : g[i] = SndWalk(k, Snd!Wrap(x), g[i - 1])
  BY <1>1 DEF SndRuns, SndTurn
<1>3. SndSize \in Nat /\ Spread(SndSize, S) /\ \A c \in S : c \in Int
  BY SndConstants DEF SndArrays, Spread
<1> DEFINE Good(i) == \E b \in S : b < x /\ (Precedes(S, b, x) \/ b >= a + i) /\ g[i] = Slot(SndSize, r, b)
           P == {i \in 0 .. SndSize : Good(i)}
<1>4. 0 \in P
  <2>1. Good(0)
    BY <1>2, <1>3
  <2> QED
    BY <1>3, <2>1
<1>5. ASSUME NEW i \in 1 .. SndSize, i - 1 \in P
      PROVE  i \in P
  <2>1. PICK b \in S : b < x /\ (Precedes(S, b, x) \/ b >= a + (i - 1)) /\ g[i - 1] = Slot(SndSize, r, b)
    BY <1>5
  <2>2. g[i] = SndWalk(k, Snd!Wrap(x), Slot(SndSize, r, b))
    BY <1>2, <2>1
  <2>3. CASE Precedes(S, b, x) /\ g[i] = Slot(SndSize, r, b)
    BY <2>1, <2>3
  <2>4. ASSUME NEW c \in S, b < c, c < x, g[i] = Slot(SndSize, r, c)
        PROVE  Good(i)
    <3>1. ~ Precedes(S, b, x)
      BY <1>3, <2>4 DEF Precedes
    <3>2. b \in Int /\ c \in Int /\ a \in Int /\ b >= a + (i - 1)
      BY <1>3, <2>1, <3>1
    <3>3. c >= a + i
      BY <2>4, <3>2
    <3> QED
      BY <2>4, <3>3
  <2> QED
    BY <2>1, <2>2, <2>3, <2>4, SndWalksOn
<1>6. SndSize \in P
  <2> HIDE DEF P
  <2> QED
    BY <1>3, <1>4, <1>5, TurnByTurn
<1>7. PICK b \in S : b < x /\ (Precedes(S, b, x) \/ b >= a + SndSize) /\ g[SndSize] = Slot(SndSize, r, b)
  BY <1>6
<1>8. b - a < SndSize /\ a \in Int /\ b \in Int
  BY <1>3 DEF Spread
<1>9. Precedes(S, b, x)
  BY <1>3, <1>7, <1>8
<1> QED
  BY <1>2, <1>7, <1>9

-----------------------------------------------------------------------------
(* The nodes before the new head go.                                        *)

LEMMA NumbersGo ==
  ASSUME NEW C, IsFiniteSet(C), NEW x \in Int, NEW y \in Int, x <= y, x .. y \subseteq C
  PROVE  Cardinality(C \ (x .. y)) = Cardinality(C) - (y - x + 1) /\ Cardinality(C \ (x .. y)) \in Nat
<1>1. Cardinality(x .. y) = y - x + 1
  BY FS_Interval
<1>2. IsFiniteSet(C \ (x .. y)) /\ Cardinality(C \ (x .. y)) = Cardinality(C) - Cardinality(C \cap (x .. y))
  BY FS_Difference
<1>3. C \cap (x .. y) = x .. y
  OBVIOUS
<1>4. Cardinality(C \ (x .. y)) \in Nat
  BY <1>2, FS_CardinalityType
<1> QED
  BY <1>1, <1>2, <1>3, <1>4

LEMMA NumbersCome ==
  ASSUME NEW C, IsFiniteSet(C), NEW x \in Int, NEW y \in Int, x <= y, \A u \in C : u < x \/ y < u
  PROVE  Cardinality(C \cup (x .. y)) = Cardinality(C) + (y - x + 1)
<1>1. IsFiniteSet(x .. y) /\ Cardinality(x .. y) = y - x + 1
  BY FS_Interval
<1>2. C \cap (x .. y) = {}
  OBVIOUS
<1>3. Cardinality(C) \in Nat
  BY FS_CardinalityType
<1>4. Cardinality(C \cup (x .. y)) = Cardinality(C) + Cardinality(x .. y) - Cardinality(C \cap (x .. y))
  BY <1>1, FS_Union
<1>5. Cardinality(C \cap (x .. y)) = 0
  BY <1>2, FS_EmptySet
<1> QED
  BY <1>1, <1>3, <1>4, <1>5

\* The head's range goes.
LEMMA SndHeadGoes ==
  ASSUME NEW k, NEW r, NEW S, NEW e, NEW A, NEW D, SndHolds(k, r, S, e, A, D), NEW h, IsLeast(S, h),
         NEW o, o = [Snd!Freed(k, k.head) EXCEPT !.head = k.next[k.head], !.length = @ - SndGone(k)]
  PROVE  SndHolds(o, r, S \ {h}, e, A, D)
<1> DEFINE n == SndGone(k)
           y == e[h]
<1>1. SndArrays(k, r, S, e) /\ Fits(S, e, A, D) /\ k.length = Cardinality(Cover(S, e)) /\ Ranges(S, e)
  BY DEF SndHolds, Fits
<1>2. Within(S, e, A, D)
  BY <1>1, SndWithin
<1>3. h \in S /\ IsFiniteSet(Cover(S, e)) /\ y \in Int /\ h \in Int /\ h <= y /\ y - h < SndSeqNoTH
  BY <1>2 DEF Within, IsLeast
<1>4. SndPlace(k, r, S, Slot(SndSize, r, h), h, y)
  BY <1>1, <1>3, SndNode
<1>5. /\ k.head \in Snd!Slots /\ k.data1[k.head] = Snd!Wrap(h) /\ k.data2[k.head] = SndEnd(h, y) /\ k \in SndLists
      /\ Snd!Wrap(y) # -1
  BY <1>1, <1>3, <1>4 DEF SndPlace, SndEnd, SndArrays
<1>6. n = y - h + 1
  <2>1. Snd!seqlen(Snd!Wrap(h), Snd!Wrap(y)) = y - h + 1
    BY <1>3, SndStretch
  <2>2. CASE y = h
    <3>1. n = 1
      BY <1>5, <2>2, SndConstants DEF SndEnd, SndGone
    <3> QED
      BY <1>3, <2>2, <3>1
  <2>3. CASE y # h
    BY <1>5, <2>1, <2>3, SndConstants DEF SndEnd, SndGone
  <2> QED
    BY <2>2, <2>3
<1>7. Ranges(S \ {h}, e) /\ h .. y \subseteq Cover(S, e) /\ Cover(S \ {h}, e) = Cover(S, e) \ (h .. y)
  BY <1>1, <1>3, RangeRemovedIs
<1>8. o = [Snd!Freed(k, k.head) EXCEPT !.head = k.next[k.head], !.length = @ - n]
  OBVIOUS
<1> HIDE DEF n, y
<1>9. Cardinality(Cover(S \ {h}, e)) = k.length - n /\ k.length - n \in Nat
  <2> DEFINE C == Cover(S, e)
  <2>1. IsFiniteSet(C) /\ h .. y \subseteq C
    BY <1>3, <1>7
  <2>2. Cover(S \ {h}, e) = C \ (h .. y) /\ k.length = Cardinality(C)
    BY <1>1, <1>7
  <2> HIDE DEF C
  <2>3. Cardinality(C \ (h .. y)) = Cardinality(C) - (y - h + 1) /\ Cardinality(C \ (h .. y)) \in Nat
    BY <1>3, <2>1, NumbersGo
  <2> QED
    BY <1>6, <2>2, <2>3
<1>10. IsDropped(k, n, o)
  BY <1>5, <1>8, <1>9, SndDroppedIs
<1>11. SndArrays(o, r, S \ {h}, e)
  BY <1>1, <1>10, SndDroppedHolds
<1>12. Fits(S \ {h}, e, A, D)
  <2>1. Cover(S \ {h}, e) \subseteq Cover(S, e)
    BY <1>7
  <2> QED
    BY <1>1, <1>7, <2>1, SndFewer
<1>13. o.length = k.length - n
  BY <1>10 DEF IsDropped
<1> QED
  BY <1>9, <1>11, <1>12, <1>13 DEF SndHolds

\* T are the last of S.
Upper(S, T) == T \subseteq S /\ \A a \in S, c \in T : c <= a => a \in T

\* hd is the slot of the first of T.
HeadOf(r, T, hd) == (T = {} /\ hd = -1) \/ \E c \in T : IsLeast(T, c) /\ hd = Slot(SndSize, r, c)

\* One turn: the list k is cut already, or it loses the first range.
CutsOn(o, k, r, S, e, A, D, T) ==
  \/ S = T /\ o = k
  \/ \E h \in S \ T : IsLeast(S, h) /\ SndHolds(o, r, S \ {h}, e, A, D)

LEMMA SndCutsOn ==
  ASSUME NEW k, NEW r, NEW S, NEW e, NEW A, NEW D, SndHolds(k, r, S, e, A, D), NEW T, Upper(S, T),
         NEW hd, HeadOf(r, T, hd), NEW o, o = SndCut(hd, k)
  PROVE  CutsOn(o, k, r, S, e, A, D, T)
<1>1. SndArrays(k, r, S, e) /\ Spread(SndSize, S) /\ SndSize \in Nat /\ \A a \in S : a \in Int
  BY SndConstants DEF SndHolds, SndArrays, Spread
<1>2. CASE S = {}
  <2>1. T = {} /\ hd = -1
    BY <1>2 DEF HeadOf, Upper
  <2>2. k.head = -1
    BY <1>1, <1>2 DEF SndArrays, Forward
  <2> QED
    BY <1>2, <2>1, <2>2 DEF SndCut, CutsOn
<1>3. CASE S # {}
  <2>1. PICK h \in S : IsLeast(S, h)
    BY <1>1, <1>3, EndsExist
  <2>2. SndPlace(k, r, S, Slot(SndSize, r, h), h, e[h])
    BY <1>1, SndNode
  <2>3. k.head = Slot(SndSize, r, h) /\ k.head \in 0 .. SndSize - 1
    BY <2>1, <2>2, SndConstants DEF SndPlace
  <2>4. CASE h \in T
    <3>1. S = T
      BY <2>1, <2>4 DEF IsLeast, Upper
    <3>2. PICK c \in T : IsLeast(T, c) /\ hd = Slot(SndSize, r, c)
      BY <2>4 DEF HeadOf
    <3>3. c = h
      BY <1>1, <2>1, <3>1, <3>2 DEF IsLeast
    <3>4. o = k
      BY <2>3, <3>2, <3>3 DEF SndCut
    <3> QED
      BY <3>1, <3>4 DEF CutsOn
  <2>5. CASE h \notin T
    <3>1. hd # k.head
      <4>1. CASE T = {} /\ hd = -1
        BY <1>1, <2>3, <4>1
      <4>2. ASSUME NEW c \in T, hd = Slot(SndSize, r, c)
            PROVE  hd # k.head
        <5>1. c \in S /\ c # h
          BY <2>5 DEF Upper
        <5>2. Slot(SndSize, r, c) # Slot(SndSize, r, h)
          <6>1. r \in Int /\ SndSize \in Nat \ {0}
            BY <1>1, SndConstants DEF SndArrays
          <6> QED
            BY <1>1, <5>1, <6>1, OwnSlots
        <5> QED
          BY <2>3, <4>2, <5>2
      <4> QED
        BY <4>1, <4>2 DEF HeadOf
    <3>2. o = [Snd!Freed(k, k.head) EXCEPT !.head = k.next[k.head], !.length = @ - SndGone(k)]
      BY <3>1 DEF SndCut
    <3>3. SndHolds(o, r, S \ {h}, e, A, D)
      BY <2>1, <3>2, SndHeadGoes
    <3> QED
      BY <2>1, <2>5, <3>3 DEF CutsOn
  <2> QED
    BY <2>4, <2>5
<1> QED
  BY <1>2, <1>3

\* The ranges from T on stay.
LEMMA SndCutHolds ==
  ASSUME NEW k, NEW r, NEW S, NEW e, NEW A, NEW D, SndHolds(k, r, S, e, A, D), NEW T, Upper(S, T),
         NEW hd, HeadOf(r, T, hd), NEW o, o = Snd!CutTo(k, hd)
  PROVE  SndHolds(o, r, T, e, A, D)
<1>1. PICK g : SndRuns(g, "cut", k, hd, k, o)
  BY SndCutRuns
<1>2. /\ g[0] = k /\ o = g[SndSize]
      /\ \A i \in 1 .. SndSize : g[i] = SndCut(hd, g[i - 1])
  BY <1>1 DEF SndRuns, SndTurn
<1>3. SndSize \in Nat /\ SndSpan \in Nat /\ SndSpan <= SndSize /\ A \in Int /\ D \in Int /\ D - A <= SndSpan
  BY SndConstants DEF SndHolds, Fits
<1>4. \A a \in S : a \in Int /\ A <= a /\ a < D
  <2>1. Within(S, e, A, D)
    BY SndWithin DEF SndHolds
  <2> TAKE a \in S
  <2>2. a \in Int /\ e[a] \in Int /\ A <= a /\ a <= e[a] /\ e[a] < D
    BY <2>1 DEF Within
  <2> QED
    BY <1>3, <2>2
<1> DEFINE Good(i) == \E U \in SUBSET S : /\ T \subseteq U /\ SndHolds(g[i], r, U, e, A, D)
                                          /\ \A b \in U \ T : b >= A + i
           P == {i \in 0 .. SndSize : Good(i)}
<1>5. 0 \in P
  <2>1. Good(0)
    BY <1>2, <1>3, <1>4 DEF Upper
  <2> QED
    BY <1>3, <2>1
<1>6. ASSUME NEW i \in 1 .. SndSize, i - 1 \in P
      PROVE  i \in P
  <2>1. PICK U \in SUBSET S : /\ T \subseteq U /\ SndHolds(g[i - 1], r, U, e, A, D)
                              /\ \A b \in U \ T : b >= A + (i - 1)
    BY <1>6
  <2> DEFINE t == g[i - 1]
             q == g[i]
  <2>2. q = SndCut(hd, t) /\ SndHolds(t, r, U, e, A, D)
    BY <1>2, <2>1
  <2>3. q = g[i] /\ t = g[i - 1] /\ i \in 0 .. SndSize /\ i \in Int
    BY <1>3
  <2> HIDE DEF t, q
  <2>4. T \subseteq U /\ Upper(U, T)
    BY <2>1 DEF Upper
  <2>5. \/ U = T /\ q = t
        \/ \E h \in U \ T : IsLeast(U, h) /\ SndHolds(q, r, U \ {h}, e, A, D)
    <3>1. CutsOn(q, t, r, U, e, A, D, T)
      BY <2>2, <2>4, SndCutsOn
    <3> QED
      BY <3>1 DEF CutsOn
  <2>6. CASE U = T /\ q = t
    <3>1. SndHolds(g[i], r, T, e, A, D) /\ T \in SUBSET S
      BY <2>2, <2>3, <2>6 DEF Upper
    <3>2. Good(i)
      BY <3>1
    <3> QED
      BY <2>3, <3>2
  <2>7. ASSUME NEW h \in U \ T, IsLeast(U, h), SndHolds(q, r, U \ {h}, e, A, D)
        PROVE  i \in P
    <3>1. \A b \in (U \ {h}) \ T : b >= A + i
      <4> TAKE b \in (U \ {h}) \ T
      <4>1. b \in Int /\ h \in Int /\ h <= b /\ h # b /\ h >= A + (i - 1)
        BY <1>4, <2>1, <2>7 DEF IsLeast
      <4> QED
        BY <1>3, <2>3, <4>1
    <3>2. U \ {h} \in SUBSET S /\ T \subseteq U \ {h} /\ SndHolds(g[i], r, U \ {h}, e, A, D)
      BY <2>3, <2>4, <2>7
    <3>3. Good(i)
      BY <3>1, <3>2
    <3> QED
      BY <2>3, <3>3
  <2> QED
    BY <2>5, <2>6, <2>7
<1>7. SndSize \in P
  <2> HIDE DEF P
  <2> QED
    BY <1>3, <1>5, <1>6, TurnByTurn
<1>8. PICK U \in SUBSET S : /\ T \subseteq U /\ SndHolds(g[SndSize], r, U, e, A, D)
                            /\ \A b \in U \ T : b >= A + SndSize
  BY <1>7
<1>9. U = T
  <2>1. ASSUME NEW b \in U \ T
        PROVE  FALSE
    <3>1. b \in Int /\ b < D /\ b >= A + SndSize
      BY <1>4, <1>8
    <3> QED
      BY <1>3, <3>1
  <2> QED
    BY <1>8, <2>1
<1> QED
  BY <1>2, <1>8, <1>9

-----------------------------------------------------------------------------
(* remove                                                                   *)

Beyond(C, x) == {u \in C : x < u}

\* b is the last start up to x.
Last(S, b, x) == b \in S /\ b <= x /\ \A c \in S : c <= b \/ x < c

\* A list that holds the numbers of C beyond x.
SndLeft(o, r, C, x, A, D) == \E T, f : SndHolds(o, r, T, f, A, D) /\ Cover(T, f) = Beyond(C, x)

\* The ranges up to b's go, which end by x.
LEMMA SndCutAfter ==
  ASSUME NEW k, NEW r, NEW S, NEW e, NEW A, NEW D, SndHolds(k, r, S, e, A, D), NEW x \in Int, NEW b, Last(S, b, x),
         e[b] <= x, NEW o, o = Snd!CutTo(k, k.next[Slot(SndSize, r, b)])
  PROVE  SndLeft(o, r, Cover(S, e), x, A, D)
<1> DEFINE T == Beyond(S, x)
           hd == k.next[Slot(SndSize, r, b)]
<1>1. SndArrays(k, r, S, e) /\ Fits(S, e, A, D) /\ Ranges(S, e)
  BY DEF SndHolds, Fits
<1>2. b \in S /\ b <= x /\ \A c \in S : c <= b \/ x < c
  BY DEF Last
<1>3. \A a \in S : a \in Int /\ e[a] \in Int /\ a <= e[a]
  <2>1. Within(S, e, A, D)
    BY <1>1, SndWithin
  <2> QED
    BY <2>1 DEF Within
<1>4. SndPlace(k, r, S, Slot(SndSize, r, b), b, e[b])
  BY <1>1, <1>2, SndNode
<1>5. Upper(S, T)
  <2>1. \A a \in S, c \in T : c <= a => a \in T
    <3> TAKE a \in S, c \in T
    <3>1. a \in Int /\ c \in Int /\ x < c
      BY <1>3 DEF Beyond
    <3> QED
      BY <3>1 DEF Beyond
  <2> QED
    BY <2>1 DEF Upper, Beyond
<1>6. HeadOf(r, T, hd)
  <2>1. CASE IsGreatest(S, b)
    <3>1. hd = -1
      BY <1>4, <2>1 DEF SndPlace
    <3>2. T = {}
      <4> SUFFICES ASSUME NEW c \in S, x < c
                   PROVE  FALSE
        BY DEF Beyond
      <4>1. c <= b /\ c \in Int /\ b \in Int
        BY <1>2, <1>3, <2>1 DEF IsGreatest
      <4> QED
        BY <1>2, <4>1
    <3> QED
      BY <3>1, <3>2 DEF HeadOf
  <2>2. CASE ~ IsGreatest(S, b)
    <3>1. PICK c \in S : Adjacent(S, b, c) /\ hd = Slot(SndSize, r, c)
      BY <1>4, <2>2 DEF SndPlace
    <3>2. b < c /\ \A a \in S : a <= b \/ c <= a
      BY <3>1 DEF Adjacent
    <3>3. c \in T
      <4>1. c <= b \/ x < c
        BY <1>2
      <4>2. x < c
        BY <1>2, <1>3, <3>2, <4>1
      <4> QED
        BY <4>2 DEF Beyond
    <3>4. \A a \in T : c <= a
      <4> TAKE a \in T
      <4>1. a \in S /\ x < a /\ a \in Int /\ b \in Int
        BY <1>2, <1>3 DEF Beyond
      <4> QED
        BY <1>2, <3>2, <4>1
    <3> QED
      BY <3>1, <3>3, <3>4 DEF HeadOf, IsLeast
  <2> QED
    BY <2>1, <2>2
<1>7. o = Snd!CutTo(k, hd)
  OBVIOUS
<1> HIDE DEF hd, T
<1>8. SndHolds(o, r, T, e, A, D)
  BY <1>5, <1>6, <1>7, SndCutHolds
<1>9. Cover(T, e) = Beyond(Cover(S, e), x)
  <2>1. ASSUME NEW u \in Int
        PROVE  u \in Cover(T, e) <=> u \in Beyond(Cover(S, e), x)
    <3>1. ASSUME NEW a \in T, a <= u, u <= e[a]
          PROVE  a \in S /\ x < u
      <4>1. a \in S /\ a \in Int /\ x < a
        BY <1>3 DEF T, Beyond
      <4> QED
        BY <3>1, <4>1
    <3>2. ASSUME NEW a \in S, a <= u, u <= e[a], x < u
          PROVE  a \in T
      <4>1. a \in Int /\ b \in Int /\ e[a] \in Int /\ e[b] \in Int
        BY <1>2, <1>3
      <4>2. a # b
        BY <3>2, <4>1
      <4>3. CASE a <= b
        <5>1. e[a] < b
          BY <1>1, <1>2, <4>1, <4>2, <4>3 DEF Ranges
        <5> QED
          BY <1>2, <3>2, <4>1, <5>1
      <4>4. CASE x < a
        BY <4>4 DEF T, Beyond
      <4> QED
        BY <1>2, <4>3, <4>4
    <3> QED
      BY <3>1, <3>2 DEF Cover, Beyond
  <2>2. Cover(T, e) \subseteq Int /\ Beyond(Cover(S, e), x) \subseteq Int
    BY DEF Cover, Beyond
  <2> QED
    BY <2>1, <2>2
<1> QED
  BY <1>8, <1>9 DEF SndLeft

\* So do they when b's range goes on, of which the numbers from v on stay.
LEMMA SndPartAfter ==
  ASSUME NEW k, NEW r, NEW S, NEW e, NEW A, NEW D, SndHolds(k, r, S, e, A, D), NEW x \in Int, NEW b, Last(S, b, x),
         x < e[b], NEW i, i = Slot(SndSize, r, b), NEW v, v = x + 1, NEW j, j = Slot(SndSize, r, v),
         NEW q, q = SndParts(k, i, j, Snd!Wrap(x), SndEnd(b, x)),
         NEW o, o = Snd!CutTo(q, j)
  PROVE  SndLeft(o, r, Cover(S, e), x, A, D)
<1> DEFINE y == e[b]
           f == With(With(e, b, x), v, y)
           U == S \cup {v}
<1>1. SndArrays(k, r, S, e) /\ Fits(S, e, A, D) /\ Ranges(S, e) /\ k.length = Cardinality(Cover(S, e)) /\ e \in [Int -> Int]
  BY DEF SndHolds, SndArrays, Fits
<1>2. b \in S /\ b <= x /\ \A c \in S : c <= b \/ x < c
  BY DEF Last
<1>3. Within(S, e, A, D)
  BY <1>1, SndWithin
<1>4. \A a \in S : a \in Int /\ e[a] \in Int /\ a <= e[a]
  BY <1>3 DEF Within
<1>5. b \in S /\ b \in Int /\ y \in Int /\ v \in Int /\ b <= x /\ x < v /\ v <= y /\ y - b < SndSeqNoTH
  BY <1>2, <1>3 DEF Within
<1>6. f = With(With(e, b, x), v, y) /\ U = S \cup {v} /\ y = e[b]
  OBVIOUS
<1> HIDE DEF f, U, y
<1>7. SplitAt(S, e, b, x, v, U, f)
  BY <1>5, <1>6 DEF SplitAt
<1>8. Ranges(U, f) /\ v \notin S /\ Cover(U, f) = Cover(S, e) \ ((x + 1) .. (v - 1))
  BY <1>1, <1>7, RangeSplit
<1>9. Cover(U, f) = Cover(S, e)
  <2>1. (x + 1) .. (v - 1) = {}
    OBVIOUS
  <2> QED
    BY <1>8, <2>1
<1>10. Spread(SndSize, S \cup {v})
  <2>1. v \in Cover(S, e)
    BY <1>5, <1>6 DEF Cover
  <2> QED
    BY <1>3, <2>1 DEF Within, Spread
<1>11. \A c \in S : c <= b \/ v < c
  <2> TAKE c \in S
  <2>1. c \in Int /\ c # v /\ (c <= b \/ x < c)
    BY <1>2, <1>4, <1>8
  <2> QED
    BY <2>1
<1>12. Splits(S, e, b, x, v, y, U, f)
  BY <1>5, <1>6, <1>8, <1>10, <1>11 DEF Splits
<1>13. SndArrays(q, r, U, f) /\ q.length = k.length /\ q.next[i] = j
  <2>1. SndArrays(k, r, S, e)
    BY <1>1
  <2> QED
    BY <1>12, <2>1, SndPartedHolds
<1>14. SndHolds(q, r, U, f, A, D)
  <2>1. Fits(U, f, A, D)
    BY <1>1, <1>8, <1>9 DEF Fits
  <2> QED
    BY <1>1, <1>9, <1>13, <2>1 DEF SndHolds
<1>15. Last(U, b, x)
  <2>1. b \in U /\ b <= x
    BY <1>5, <1>6
  <2>2. \A c \in U : c <= b \/ x < c
    BY <1>2, <1>5, <1>6
  <2> QED
    BY <2>1, <2>2 DEF Last
<1>16. f[b] <= x
  <2>1. f[b] = x
    BY <1>1, <1>5, <1>6 DEF With
  <2> QED
    BY <2>1
<1>17. q.next[Slot(SndSize, r, b)] = j
  BY <1>13
<1>18. o = Snd!CutTo(q, q.next[Slot(SndSize, r, b)])
  BY <1>17
<1>19. SndLeft(o, r, Cover(U, f), x, A, D)
  BY <1>14, <1>15, <1>16, <1>18, SndCutAfter
<1> QED
  BY <1>9, <1>19

\* The numbers of the list, and one that may enter it, are close.
LEMMA SndAllNear ==
  ASSUME NEW S, NEW e, NEW A, NEW D, Fits(S, e, A, D), NEW x \in Int, A <= x, x < D
  PROVE  /\ AllClose(S, x) /\ Spread(SndSize, S \cup {x})
         /\ \A b \in S : CloseBy(e[b], x) /\ b \in Int /\ e[b] \in Int /\ b <= e[b] /\ A <= b /\ e[b] < D
<1>1. A \in Int /\ D \in Int /\ D - A <= SndSpan
  BY DEF Fits
<1>2. SndSize \in Nat /\ SndSpan \in Nat /\ SndSpan <= SndSize /\ SndSpan < SndSeqNoTH /\ SndSeqNoTH \in Nat
  BY SndConstants
<1>3. ASSUME NEW b \in S
      PROVE  /\ b \in Int /\ e[b] \in Int /\ b <= e[b] /\ A <= b /\ e[b] < D
             /\ CloseBy(b, x) /\ CloseBy(e[b], x) /\ b - x < SndSize /\ x - b < SndSize
  <2>1. Within(S, e, A, D)
    BY SndWithin
  <2>2. b \in Int /\ e[b] \in Int /\ b <= e[b] /\ A <= b /\ e[b] < D
    BY <2>1 DEF Within
  <2> DEFINE y == e[b]
  <2>3. b \in Int /\ y \in Int /\ b <= y /\ A <= b /\ y < D
    BY <2>2
  <2> HIDE DEF y
  <2>4. b - x < SndSeqNoTH /\ x - b < SndSeqNoTH /\ y - x < SndSeqNoTH /\ x - y < SndSeqNoTH
    BY <1>1, <1>2, <2>3
  <2>5. b - x < SndSize /\ x - b < SndSize
    BY <1>1, <1>2, <2>3
  <2> QED
    BY <2>2, <2>3, <2>4, <2>5 DEF y, CloseBy
<1>4. Spread(SndSize, S \cup {x})
  <2>1. Spread(SndSize, S)
    BY SndWithin DEF Within
  <2>2. S \cup {x} \in SUBSET Int
    BY <2>1 DEF Spread
  <2>3. \A u, v \in S \cup {x} : u - v < SndSize
    <3> TAKE u, v \in S \cup {x}
    <3>1. CASE u \in S /\ v \in S
      BY <2>1, <3>1 DEF Spread
    <3>2. CASE u \in S /\ v = x
      BY <1>3, <3>2
    <3>3. CASE v \in S /\ u = x
      BY <1>3, <3>3
    <3>4. CASE u = x /\ v = x
      BY <3>4, SndConstants
    <3> QED
      BY <3>1, <3>2, <3>3, <3>4
  <2> QED
    BY <2>2, <2>3 DEF Spread
<1> QED
  BY <1>3, <1>4 DEF AllClose

\* Where the head is, and where a number has its place.
SndFront(k, r, S, e, h) ==
  /\ IsLeast(S, h) /\ h \in S /\ h \in Int /\ k.head = Slot(SndSize, r, h) /\ k.head \in Snd!Slots
  /\ k.data1[k.head] = Snd!Wrap(h)

LEMMA SndFronts ==
  ASSUME NEW k, NEW r, NEW S, NEW e, NEW A, NEW D, SndHolds(k, r, S, e, A, D)
  PROVE  /\ k.length = 0 <=> S = {}
         /\ S # {} => \E h : SndFront(k, r, S, e, h)
<1>1. SndArrays(k, r, S, e) /\ Fits(S, e, A, D) /\ k.length = Cardinality(Cover(S, e))
  BY DEF SndHolds
<1>2. Within(S, e, A, D)
  BY <1>1, SndWithin
<1>3. k.length = 0 <=> S = {}
  <2>1. IsFiniteSet(Cover(S, e)) /\ (S = {} <=> Cover(S, e) = {})
    BY <1>2 DEF Within
  <2> QED
    BY <1>1, <2>1, FS_EmptySet
<1>4. ASSUME S # {}
      PROVE  \E h : SndFront(k, r, S, e, h)
  <2>1. Spread(SndSize, S) /\ SndSize \in Nat
    BY <1>2, SndConstants DEF Within
  <2>2. PICK h \in S : IsLeast(S, h)
    BY <1>4, <2>1, EndsExist
  <2>3. SndPlace(k, r, S, Slot(SndSize, r, h), h, e[h])
    BY <1>1, SndNode
  <2>4. SndFront(k, r, S, e, h)
    BY <2>2, <2>3 DEF SndPlace, SndFront
  <2> QED
    BY <2>4
<1> QED
  BY <1>3, <1>4

LEMMA SndSlotMoves ==
  ASSUME NEW r \in Int, NEW u \in Int, NEW k \in Int
  PROVE  (Slot(SndSize, r, u) + k) % SndSize = Slot(SndSize, r, u + k)
<1>1. SndSize \in Nat \ {0}
  BY SndConstants
<1>2. \A w, d \in Int : (Slot(SndSize, r, w) + d) % SndSize = Slot(SndSize, r, w + d)
  BY <1>1, SlotFacts
<1> QED
  BY <1>2

LEMMA SndPlaces ==
  ASSUME NEW k, NEW r \in Int, NEW S, NEW e, NEW h, SndFront(k, r, S, e, h), NEW x \in Int, CloseBy(h, x)
  PROVE  /\ Snd!Place(k, Snd!Wrap(x)) = Slot(SndSize, r, x)
         /\ Snd!seqoff(k.data1[k.head], Snd!Wrap(x)) = x - h
<1>1. Snd!seqoff(Snd!Wrap(h), Snd!Wrap(x)) = x - h
  <2>1. CloseBy(x, h)
    BY DEF CloseBy
  <2> QED
    BY <2>1, SndClose
<1>2. h \in Int /\ k.head = Slot(SndSize, r, h) /\ k.data1[k.head] = Snd!Wrap(h)
  BY DEF SndFront
<1>3. (Slot(SndSize, r, h) + (x - h)) % SndSize = Slot(SndSize, r, x)
  <2> DEFINE d == x - h
  <2>1. d \in Int /\ h + d = x
    BY <1>2
  <2> HIDE DEF d
  <2>2. (Slot(SndSize, r, h) + d) % SndSize = Slot(SndSize, r, h + d)
    BY <1>2, <2>1, SndSlotMoves
  <2> QED
    BY <2>1, <2>2 DEF d
<1> QED
  BY <1>1, <1>2, <1>3 DEF Snd!Place

\* The slot of the next number.
LEMMA SndNextSlot ==
  ASSUME NEW r \in Int, NEW x \in Int, NEW v, v = x + 1
  PROVE  (Slot(SndSize, r, x) + 1) % SndSize = Slot(SndSize, r, v) /\ v \in Int
<1>1. v \in Int
  OBVIOUS
<1>2. (Slot(SndSize, r, x) + 1) % SndSize = Slot(SndSize, r, x + 1)
  <2> DEFINE d == 1
  <2>1. d \in Int /\ d = 1
    OBVIOUS
  <2> HIDE DEF d
  <2>2. (Slot(SndSize, r, x) + d) % SndSize = Slot(SndSize, r, x + d)
    BY <2>1, SndSlotMoves
  <2> QED
    BY <2>1, <2>2
<1> QED
  BY <1>1, <1>2

\* What remove has done, by the way that it takes: none up to seq, the first alone, a range
\* that starts at seq, one that starts before.
SndRemoves(k, i, j, b, seq, o) ==
  LET off == Snd!seqoff(k.data1[k.head], seq) IN
    \/ (k.length = 0 \/ off < 0) /\ o = k
    \/ k.length # 0 /\ off = 0 /\ o = Snd!Beheaded(k)
    \/ /\ k.length # 0 /\ ~ off < 0 /\ off # 0 /\ k.data1[i] = seq
       /\ \/ k.data2[i] = -1 /\ o = Snd!CutTo(k, k.next[i])
          \/ k.data2[i] # -1 /\ o = Snd!CutTo(SndParts(k, i, j, seq, -1), j)
    \/ /\ k.length # 0 /\ ~ off < 0 /\ off # 0 /\ k.data1[i] # seq
       /\ \/ /\ k.data2[b] # -1 /\ Snd!seqcmp(k.data2[b], seq) > 0
             /\ o = Snd!CutTo(SndParts(k, b, j, seq, seq), j)
          \/ ~ (k.data2[b] # -1 /\ Snd!seqcmp(k.data2[b], seq) > 0) /\ o = Snd!CutTo(k, k.next[b])

LEMMA SndRemovesIs ==
  ASSUME NEW k, NEW seq, NEW i, i = Snd!Place(k, seq), NEW j, j = (i + 1) % SndSize,
         NEW b, b = Snd!LastBefore(k, k.head, seq), NEW o, o = Snd!Removed(k, seq)
  PROVE  SndRemoves(k, i, j, b, seq, o)
<1> DEFINE off == Snd!seqoff(k.data1[k.head], seq)
           split == SndParts(k, b, j, seq, seq)
           first == SndParts(k, i, j, seq, -1)
<1>1. o = IF k.length = 0 \/ off < 0 THEN k
          ELSE IF off = 0 THEN Snd!Beheaded(k)
          ELSE IF k.data1[i] = seq
            THEN IF k.data2[i] = -1 THEN Snd!CutTo(k, k.next[i]) ELSE Snd!CutTo(first, j)
          ELSE IF k.data2[b] # -1 /\ Snd!seqcmp(k.data2[b], seq) > 0 THEN Snd!CutTo(split, j)
          ELSE Snd!CutTo(k, k.next[b])
  BY DEF Snd!Removed, SndParts, Snd!None
<1> HIDE DEF off, split, first
<1>2. off = Snd!seqoff(k.data1[k.head], seq) /\ split = SndParts(k, b, j, seq, seq) /\ first = SndParts(k, i, j, seq, -1)
  BY DEF off, split, first
<1> QED
  BY <1>1, <1>2, Zenon DEF SndRemoves

LEMMA SndRemovedHolds ==
  ASSUME NEW k, NEW r, NEW S, NEW e, NEW A, NEW D, SndHolds(k, r, S, e, A, D), NEW x \in Int, A <= x, x < D,
         NEW o, o = Snd!Removed(k, Snd!Wrap(x))
  PROVE  SndLeft(o, r, Cover(S, e), x, A, D)
<1>1. SndArrays(k, r, S, e) /\ Fits(S, e, A, D) /\ r \in Int
  BY DEF SndHolds, SndArrays
<1>2. /\ AllClose(S, x) /\ Spread(SndSize, S \cup {x})
      /\ \A c \in S : CloseBy(e[c], x) /\ c \in Int /\ e[c] \in Int /\ c <= e[c] /\ A <= c /\ e[c] < D
  BY <1>1, SndAllNear
<1> DEFINE seq == Snd!Wrap(x)
           i == Snd!Place(k, seq)
           j == (i + 1) % SndSize
           before == Snd!LastBefore(k, k.head, seq)
           C == Cover(S, e)
           v == x + 1
<1>3. SndRemoves(k, i, j, before, seq, o)
  BY SndRemovesIs
<1>4. seq = Snd!Wrap(x) /\ seq # -1
  BY SndSteps
<1>5. i = Snd!Place(k, seq) /\ j = (i + 1) % SndSize /\ before = Snd!LastBefore(k, k.head, seq) /\ v = x + 1 /\ C = Cover(S, e)
  OBVIOUS
<1> HIDE DEF seq, i, j, before, C, v
<1>6. C \subseteq Int /\ \A u \in C : \E a \in S : a <= u /\ u <= e[a]
  BY <1>5 DEF Cover
<1>7. CASE S = {}
  <2>1. k.length = 0
    BY <1>7, SndFronts
  <2>2. o = k
    BY <1>3, <2>1 DEF SndRemoves
  <2>3. Beyond(C, x) = C
    BY <1>6, <1>7 DEF Beyond
  <2> QED
    BY <1>5, <2>2, <2>3 DEF SndLeft
<1>8. CASE S # {}
  <2>1. PICK h : SndFront(k, r, S, e, h)
    BY <1>8, SndFronts
  <2>2. h \in S /\ h \in Int /\ (\A a \in S : h <= a) /\ k.head = Slot(SndSize, r, h) /\ k.length # 0
    BY <1>8, <2>1, SndFronts DEF SndFront, IsLeast
  <2>3. i = Slot(SndSize, r, x) /\ Snd!seqoff(k.data1[k.head], seq) = x - h
    <3>1. CloseBy(h, x)
      BY <1>2, <2>2 DEF AllClose
    <3> QED
      BY <1>1, <1>4, <1>5, <2>1, <3>1, SndPlaces
  <2>4. j = Slot(SndSize, r, v) /\ v \in Int
    <3>1. r \in Int /\ x \in Int /\ v = x + 1
      BY <1>1, <1>5
    <3>2. (Slot(SndSize, r, x) + 1) % SndSize = Slot(SndSize, r, v) /\ v \in Int
      BY <3>1, SndNextSlot
    <3> QED
      BY <1>5, <2>3, <3>2
  <2>5. \/ x < h /\ o = k
        \/ x = h /\ o = Snd!Beheaded(k)
        \/ /\ h < x /\ k.data1[i] = seq
           /\ \/ k.data2[i] = -1 /\ o = Snd!CutTo(k, k.next[i])
              \/ k.data2[i] # -1 /\ o = Snd!CutTo(SndParts(k, i, j, seq, -1), j)
        \/ /\ h < x /\ k.data1[i] # seq
           /\ \/ /\ k.data2[before] # -1 /\ Snd!seqcmp(k.data2[before], seq) > 0
                 /\ o = Snd!CutTo(SndParts(k, before, j, seq, seq), j)
              \/ /\ ~ (k.data2[before] # -1 /\ Snd!seqcmp(k.data2[before], seq) > 0)
                 /\ o = Snd!CutTo(k, k.next[before])
    <3>1. (x - h < 0 <=> x < h) /\ (x - h = 0 <=> x = h) /\ (~ x - h < 0 /\ x - h # 0 <=> h < x)
      BY <2>2
    <3> QED
      BY <1>3, <2>2, <2>3, <3>1, Zenon DEF SndRemoves
  <2>6. CASE x < h /\ o = k
    <3>1. Beyond(C, x) = C
      <4>1. \A u \in C : x < u
        <5> TAKE u \in C
        <5>1. PICK a \in S : a <= u
          BY <1>6
        <5> QED
          BY <1>2, <1>6, <2>2, <2>6, <5>1
      <4> QED
        BY <4>1 DEF Beyond
    <3> QED
      BY <1>5, <2>6, <3>1 DEF SndLeft
  <2>7. CASE x = h /\ o = Snd!Beheaded(k)
    <3>1. IsLeast(S, h)
      BY <2>1 DEF SndFront
    <3>2. \E T, f : SndHolds(o, r, T, f, A, D) /\ Cover(T, f) = C \ {h}
      BY <1>5, <2>7, <3>1, SndBeheadedHolds
    <3>3. Beyond(C, x) = C \ {h}
      <4>1. \A u \in C : x < u <=> u # h
        <5> TAKE u \in C
        <5>1. PICK a \in S : a <= u
          BY <1>6
        <5> QED
          BY <1>2, <1>6, <2>2, <2>7, <5>1
      <4> QED
        BY <4>1 DEF Beyond
    <3> QED
      BY <1>5, <3>2, <3>3 DEF SndLeft
  <2>8. ASSUME NEW b \in S, Last(S, b, x), e[b] <= x, o = Snd!CutTo(k, k.next[Slot(SndSize, r, b)])
        PROVE  SndLeft(o, r, Cover(S, e), x, A, D)
    BY <2>8, SndCutAfter
  <2>9. ASSUME NEW b \in S, Last(S, b, x), x < e[b],
               o = Snd!CutTo(SndParts(k, Slot(SndSize, r, b), j, seq, SndEnd(b, x)), j)
        PROVE  SndLeft(o, r, Cover(S, e), x, A, D)
    <3> DEFINE t == Slot(SndSize, r, b)
               q == SndParts(k, t, j, Snd!Wrap(x), SndEnd(b, x))
    <3>1. o = Snd!CutTo(q, j) /\ t = Slot(SndSize, r, b) /\ q = SndParts(k, t, j, Snd!Wrap(x), SndEnd(b, x))
      BY <1>4, <2>9
    <3> HIDE DEF t, q
    <3>2. SndHolds(k, r, S, e, A, D) /\ x \in Int /\ Last(S, b, x) /\ x < e[b] /\ v = x + 1 /\ j = Slot(SndSize, r, v)
      BY <1>5, <2>4, <2>9
    <3> QED
      BY <3>1, <3>2, SndPartAfter
  <2>10. CASE h < x /\ k.data1[i] = seq
    <3>0. h < x /\ ~ x < h /\ x # h /\ k.data1[i] = seq
      BY <2>2, <2>10
    <3>1. x \in S
      <4>1. SUFFICES ASSUME x \notin S PROVE FALSE
        OBVIOUS
      <4>2. k.data1[Slot(SndSize, r, x)] = -1
        BY <1>1, <1>2, <4>1, SndFree
      <4> QED
        BY <1>4, <2>3, <2>10, <4>2
    <3>2. Last(S, x, x)
      <4>1. \A c \in S : c <= x \/ x < c
        BY <1>2
      <4> QED
        BY <3>1, <4>1 DEF Last
    <3>3. k.data2[i] = SndEnd(x, e[x]) /\ Snd!Wrap(e[x]) # -1 /\ e[x] \in Int /\ x <= e[x]
      <4>1. SndPlace(k, r, S, Slot(SndSize, r, x), x, e[x])
        BY <1>1, <3>1, SndNode
      <4> QED
        BY <1>2, <2>3, <3>1, <4>1 DEF SndPlace, SndEnd
    <3>4. CASE k.data2[i] = -1
      <4>1. e[x] = x
        BY <3>3, <3>4 DEF SndEnd
      <4>2. o = Snd!CutTo(k, k.next[i])
        BY <2>5, <3>0, <3>4, Zenon
      <4> QED
        BY <2>3, <2>8, <3>1, <3>2, <4>1, <4>2
    <3>5. CASE k.data2[i] # -1
      <4>1. x < e[x]
        BY <3>3, <3>5 DEF SndEnd
      <4>2. o = Snd!CutTo(SndParts(k, i, j, seq, -1), j)
        BY <2>5, <3>0, <3>5, Zenon
      <4>3. SndEnd(x, x) = -1
        BY DEF SndEnd
      <4> QED
        BY <2>3, <2>9, <3>1, <3>2, <4>1, <4>2, <4>3
    <3> QED
      BY <3>4, <3>5
  <2>11. CASE h < x /\ k.data1[i] # seq
    <3>0. h < x /\ ~ x < h /\ x # h /\ k.data1[i] # seq
      BY <2>2, <2>11
    <3>1. x \notin S
      <4>1. SUFFICES ASSUME x \in S PROVE FALSE
        OBVIOUS
      <4>2. SndPlace(k, r, S, Slot(SndSize, r, x), x, e[x])
        BY <1>1, <4>1, SndNode
      <4> QED
        BY <1>4, <2>3, <2>11, <4>2 DEF SndPlace
    <3>2. PICK b \in S : Precedes(S, b, x) /\ before = Slot(SndSize, r, b)
      <4>1. before = Snd!LastBefore(k, Slot(SndSize, r, h), Snd!Wrap(x))
        BY <1>4, <1>5, <2>2
      <4>2. h \in S /\ h < x /\ AllClose(S, x)
        BY <1>2, <2>2, <2>11
      <4> QED
        BY <1>1, <4>1, <4>2, SndLastBefore
    <3>3. Last(S, b, x) /\ b < x
      <4>1. b < x /\ \A c \in S : c <= b \/ x <= c
        BY <3>2 DEF Precedes
      <4>2. \A c \in S : c <= b \/ x < c
        <5> TAKE c \in S
        <5>1. c \in Int /\ c # x
          BY <1>2, <3>1
        <5> QED
          BY <4>1, <5>1
      <4>3. b <= x
        BY <1>2, <4>1
      <4> QED
        BY <4>1, <4>2, <4>3 DEF Last
    <3>4. /\ k.data2[before] = SndEnd(b, e[b]) /\ Snd!Wrap(e[b]) # -1 /\ e[b] \in Int /\ b \in Int /\ b <= e[b]
      <4>1. SndPlace(k, r, S, Slot(SndSize, r, b), b, e[b])
        BY <1>1, SndNode
      <4> QED
        BY <1>2, <3>2, <4>1 DEF SndPlace, SndEnd
    <3>5. Snd!seqcmp(Snd!Wrap(e[b]), seq) > 0 <=> e[b] > x
      BY <1>2, <1>4, SndClose
    <3>6. (k.data2[before] # -1 /\ Snd!seqcmp(k.data2[before], seq) > 0) <=> x < e[b]
      <4>1. CASE e[b] = b
        BY <3>3, <3>4, <4>1 DEF SndEnd
      <4>2. CASE e[b] # b
        <5>1. k.data2[before] = Snd!Wrap(e[b])
          BY <3>4, <4>2 DEF SndEnd
        <5> QED
          BY <3>4, <3>5, <5>1
      <4> QED
        BY <4>1, <4>2
    <3>7. CASE x < e[b]
      <4>1. o = Snd!CutTo(SndParts(k, before, j, seq, seq), j)
        BY <2>5, <3>0, <3>6, <3>7, Zenon
      <4>2. SndEnd(b, x) = seq
        BY <1>4, <3>3, <3>4 DEF SndEnd
      <4> QED
        BY <2>9, <3>2, <3>3, <3>7, <4>1, <4>2
    <3>8. CASE ~ x < e[b]
      <4>1. o = Snd!CutTo(k, k.next[before])
        BY <2>5, <3>0, <3>6, <3>8, Zenon
      <4>2. e[b] <= x
        BY <3>4, <3>8
      <4> QED
        BY <2>8, <3>2, <3>3, <4>1, <4>2
    <3> QED
      BY <3>7, <3>8
  <2> QED
    BY <2>5, <2>6, <2>7, <2>10, <2>11
<1> QED
  BY <1>7, <1>8

-----------------------------------------------------------------------------
(* Ranges that overlap are joined.                                          *)

\* The node n after the one at i goes.
IsDetached(k, i, n, o) ==
  /\ o \in SndLists /\ o.length = k.length /\ o.head = k.head /\ o.lastInsertPos = k.lastInsertPos
  /\ o.next = With(k.next, i, k.next[n])
  /\ o.data1 = With(k.data1, n, -1) /\ o.data2 = With(k.data2, n, -1)

SndUnlink(k, i, n) == [k EXCEPT !.data1[n] = Snd!None, !.data2[n] = Snd!None, !.next[i] = k.next[n]]

LEMMA SndUnlinkedIs ==
  ASSUME NEW k \in SndLists, NEW i \in Snd!Slots, NEW n \in Snd!Slots, NEW o, o = SndUnlink(k, i, n)
  PROVE  IsDetached(k, i, n, o)
<1> DEFINE c1 == With(k.data1, n, -1)
           c2 == With(k.data2, n, -1)
           y  == With(k.next, i, k.next[n])
<1>1. /\ k.data1 \in [Snd!Slots -> -1 .. Snd!MaxSeqNo] /\ k.data2 \in [Snd!Slots -> -1 .. Snd!MaxSeqNo]
      /\ k.next \in [Snd!Slots -> -1 .. SndSize - 1]
  BY DEF SndLists
<1>2. -1 \in -1 .. Snd!MaxSeqNo
  BY SndConstants
<1>3. /\ c1 \in [Snd!Slots -> -1 .. Snd!MaxSeqNo] /\ c2 \in [Snd!Slots -> -1 .. Snd!MaxSeqNo]
      /\ y \in [Snd!Slots -> -1 .. SndSize - 1]
  BY <1>1, <1>2 DEF With
<1>4. o = [k EXCEPT !.data1 = c1, !.data2 = c2, !.next = y]
  BY SndConstants DEF SndUnlink, With, SndLists
<1> HIDE DEF c1, c2, y
<1>5. /\ o \in SndLists /\ o.length = k.length /\ o.head = k.head /\ o.lastInsertPos = k.lastInsertPos
      /\ o.next = y /\ o.data1 = c1 /\ o.data2 = c2
  BY <1>3, <1>4 DEF SndLists
<1> QED
  BY <1>5 DEF IsDetached, c1, c2, y

\* The range at i ends in w, and the list has m numbers.
IsEnded(k, i, w, m, o) ==
  /\ o \in SndLists /\ o.length = m /\ o.head = k.head /\ o.lastInsertPos = k.lastInsertPos
  /\ o.next = k.next /\ o.data1 = k.data1 /\ o.data2 = With(k.data2, i, w)

LEMMA SndEndedIs ==
  ASSUME NEW k \in SndLists, NEW i \in Snd!Slots, NEW w \in -1 .. Snd!MaxSeqNo, NEW m \in Nat,
         NEW o, o = [k EXCEPT !.data2[i] = w, !.length = m]
  PROVE  IsEnded(k, i, w, m, o)
<1> DEFINE c2 == With(k.data2, i, w)
<1>1. c2 \in [Snd!Slots -> -1 .. Snd!MaxSeqNo]
  BY DEF SndLists, With
<1>2. o = [k EXCEPT !.data2 = c2, !.length = m]
  BY DEF SndLists, With
<1> HIDE DEF c2
<1>3. /\ o \in SndLists /\ o.length = m /\ o.head = k.head /\ o.lastInsertPos = k.lastInsertPos
      /\ o.next = k.next /\ o.data1 = k.data1 /\ o.data2 = c2
  BY <1>1, <1>2 DEF SndLists
<1> QED
  BY <1>3 DEF IsEnded, c2

LEMMA SndCountedIs ==
  ASSUME NEW k \in SndLists, NEW m \in Nat, NEW o, o = [k EXCEPT !.length = m]
  PROVE  /\ o \in SndLists /\ o.length = m /\ o.head = k.head /\ o.lastInsertPos = k.lastInsertPos
         /\ o.next = k.next /\ o.data1 = k.data1 /\ o.data2 = k.data2
BY DEF SndLists

\* A turn, by the end of the range at i, and the start and end of the next.
SndJoinEnd(k, n) == IF k.data2[n] = -1 THEN k.data1[n] ELSE k.data2[n]

SndJoinsBy(k, i, n, first, last, end, t, o) ==
    \/ ~ (n # -1 /\ end # -1 /\ Snd!seqcmp(first, Snd!incseq(end)) <= 0) /\ o = k
    \/ /\ n # -1 /\ end # -1 /\ Snd!seqcmp(first, Snd!incseq(end)) <= 0
       /\ \/ Snd!seqcmp(last, end) > 0 /\ Snd!seqcmp(end, first) >= 0
             /\ o = [t EXCEPT !.data2[i] = last, !.length = k.length - Snd!seqlen(first, end)]
          \/ Snd!seqcmp(last, end) > 0 /\ ~ Snd!seqcmp(end, first) >= 0
             /\ o = [t EXCEPT !.data2[i] = last, !.length = k.length]
          \/ ~ Snd!seqcmp(last, end) > 0 /\ o = [t EXCEPT !.length = k.length - Snd!seqlen(first, last)]

LEMMA SndJoinIs ==
  ASSUME NEW k \in SndLists, NEW i \in Snd!Slots, NEW n, n = k.next[i],
         NEW first, first = k.data1[n], NEW last, last = SndJoinEnd(k, n), NEW end, end = k.data2[i],
         NEW t, t = SndUnlink(k, i, n), NEW o, o = SndJoin(i, k)
  PROVE  SndJoinsBy(k, i, n, first, last, end, t, o)
<1> DEFINE Meets == n # -1 /\ end # -1 /\ Snd!seqcmp(first, Snd!incseq(end)) <= 0
<1>1. Snd!Joins(k, i) <=> Meets
  BY SndConstants DEF Snd!Joins
<1>2. t.length = k.length
  BY DEF SndUnlink, SndLists
<1>3. Snd!Joined(k, i) =
        IF Snd!seqcmp(last, end) > 0
          THEN [t EXCEPT !.data2[i] = last,
                         !.length = IF Snd!seqcmp(end, first) >= 0 THEN @ - Snd!seqlen(first, end) ELSE @]
          ELSE [t EXCEPT !.length = @ - Snd!seqlen(first, last)]
  BY SndConstants DEF Snd!Joined, SndUnlink, SndJoinEnd
<1>4. o = IF Meets THEN Snd!Joined(k, i) ELSE k
  BY <1>1 DEF SndJoin
<1> HIDE DEF Meets
<1>5. CASE ~ Meets
  BY <1>4, <1>5 DEF Meets, SndJoinsBy
<1>6. CASE Meets
  <2>1. o = IF Snd!seqcmp(last, end) > 0
              THEN [t EXCEPT !.data2[i] = last,
                             !.length = IF Snd!seqcmp(end, first) >= 0 THEN @ - Snd!seqlen(first, end) ELSE @]
              ELSE [t EXCEPT !.length = @ - Snd!seqlen(first, last)]
    BY <1>3, <1>4, <1>6
  <2>2. CASE Snd!seqcmp(last, end) > 0 /\ Snd!seqcmp(end, first) >= 0
    <3>1. o = [t EXCEPT !.data2[i] = last, !.length = k.length - Snd!seqlen(first, end)]
      BY <1>2, <2>1, <2>2
    <3> QED
      BY <1>6, <2>2, <3>1 DEF Meets, SndJoinsBy
  <2>3. CASE Snd!seqcmp(last, end) > 0 /\ ~ Snd!seqcmp(end, first) >= 0
    <3>1. o = [t EXCEPT !.data2[i] = last, !.length = k.length]
      BY <1>2, <2>1, <2>3
    <3> QED
      BY <1>6, <2>3, <3>1 DEF Meets, SndJoinsBy
  <2>4. CASE ~ Snd!seqcmp(last, end) > 0
    <3>1. o = [t EXCEPT !.length = k.length - Snd!seqlen(first, last)]
      BY <1>2, <2>1, <2>4
    <3> QED
      BY <1>6, <2>4, <3>1 DEF Meets, SndJoinsBy
  <2> QED
    BY <2>2, <2>3, <2>4
<1> QED
  BY <1>5, <1>6

\* Ranges that do not overlap but for the one that starts at a, which begins in no other.
Loose(S, e, a) ==
  /\ S \in SUBSET Int /\ e \in [Int -> Int] /\ Ranges(S \ {a}, e) /\ a \in S /\ a <= e[a]
  /\ \A b \in S \ {a} : e[b] < a \/ a < b

\* It takes in the range that follows.
Merges(S, e, a, c, y, U, f) ==
  /\ Adjacent(S, a, c) /\ c <= e[a] + 1 /\ y = (IF e[a] < e[c] THEN e[c] ELSE e[a])
  /\ U = S \ {c} /\ f = With(e, a, y)

Merged(S, e, a, c, y, U, f) ==
  /\ Loose(U, f, a) /\ Cover(U, f) = Cover(S, e) /\ f[a] = y
  /\ c .. e[c] \subseteq Cover(S \ {a}, e) /\ Cover(U \ {a}, f) = Cover(S \ {a}, e) \ (c .. e[c])

LEMMA RangesMerged ==
  ASSUME NEW S, NEW e, NEW a, Loose(S, e, a), NEW c, NEW y, NEW U, NEW f, Merges(S, e, a, c, y, U, f)
  PROVE  Merged(S, e, a, c, y, U, f)
<1>1. /\ S \in SUBSET Int /\ e \in [Int -> Int] /\ Ranges(S \ {a}, e) /\ a \in S /\ a <= e[a]
      /\ \A b \in S \ {a} : e[b] < a \/ a < b
  BY DEF Loose
<1>2. /\ a < c /\ c \in S \ {a} /\ (\A b \in S : b <= a \/ c <= b) /\ c <= e[a] + 1
      /\ y = (IF e[a] < e[c] THEN e[c] ELSE e[a]) /\ U = S \ {c} /\ f = With(e, a, y)
  <2>1. a < c /\ c \in S
    BY DEF Merges, Adjacent
  <2> QED
    BY <1>1, <2>1 DEF Merges, Adjacent
<1>3. a \in Int /\ c \in Int /\ e[a] \in Int /\ e[c] \in Int /\ c <= e[c] /\ y \in Int
  <2>1. c <= e[c]
    BY <1>1, <1>2 DEF Ranges
  <2> QED
    BY <1>1, <1>2, <2>1
<1>4. e[a] <= y /\ e[c] <= y /\ a <= y /\ (y = e[a] \/ y = e[c])
  BY <1>1, <1>2, <1>3
<1>5. f \in [Int -> Int] /\ f[a] = y /\ \A b \in Int \ {a} : f[b] = e[b]
  BY <1>1, <1>2, <1>3 DEF With
<1>6. /\ Ranges((S \ {a}) \ {c}, e) /\ c .. e[c] \subseteq Cover(S \ {a}, e)
      /\ Cover((S \ {a}) \ {c}, e) = Cover(S \ {a}, e) \ (c .. e[c])
  BY <1>1, <1>2, RangeRemovedIs
<1>7. U \ {a} = (S \ {a}) \ {c} /\ U \ {a} \subseteq Int \ {a}
  BY <1>1, <1>2
<1>8. Ranges(U \ {a}, f) /\ Cover(U \ {a}, f) = Cover((S \ {a}) \ {c}, e)
  <2>1. \A b \in U \ {a} : f[b] = e[b]
    BY <1>5, <1>7
  <2>2. Ranges(U \ {a}, f)
    BY <1>5, <1>6, <1>7, <2>1 DEF Ranges
  <2> QED
    BY <1>7, <2>1, <2>2 DEF Cover
<1>9. Loose(U, f, a)
  <2>1. \A b \in U \ {a} : f[b] < a \/ a < b
    BY <1>1, <1>2, <1>5
  <2>2. U \in SUBSET Int /\ a \in U
    BY <1>1, <1>2
  <2> QED
    BY <1>4, <1>5, <1>8, <2>1, <2>2 DEF Loose
<1>10. Cover(U, f) = Cover(S, e)
  <2>1. ASSUME NEW u \in Int, NEW b \in U, b <= u, u <= f[b]
        PROVE  \E d \in S : d <= u /\ u <= e[d]
    <3>1. CASE b # a
      BY <1>1, <1>2, <1>5, <2>1, <3>1
    <3>2. CASE b = a /\ u <= e[a]
      BY <1>1, <2>1, <3>2
    <3>3. CASE b = a /\ ~ u <= e[a]
      <4>1. u <= e[c] /\ c <= u
        BY <1>2, <1>3, <1>4, <1>5, <2>1, <3>3
      <4> QED
        BY <1>2, <4>1
    <3> QED
      BY <3>1, <3>2, <3>3
  <2>2. ASSUME NEW u \in Int, NEW b \in S, b <= u, u <= e[b]
        PROVE  \E d \in U : d <= u /\ u <= f[d]
    <3>1. a \in U
      BY <1>1, <1>2
    <3>2. CASE b # a /\ b # c
      BY <1>1, <1>2, <1>5, <2>2, <3>2
    <3>3. CASE b = a
      <4>1. a <= u /\ u <= y
        BY <1>3, <1>4, <2>2, <3>3
      <4> QED
        BY <1>5, <3>1, <4>1
    <3>4. CASE b = c
      <4>1. a <= u /\ u <= y
        BY <1>2, <1>3, <1>4, <2>2, <3>4
      <4> QED
        BY <1>5, <3>1, <4>1
    <3> QED
      BY <3>2, <3>3, <3>4
  <2>3. \A u \in Int : (\E b \in U : b <= u /\ u <= f[b]) <=> (\E b \in S : b <= u /\ u <= e[b])
    BY <2>1, <2>2
  <2> QED
    BY <2>3 DEF Cover
<1> QED
  BY <1>5, <1>6, <1>7, <1>8, <1>9, <1>10 DEF Merged

\* It overlaps none when the next starts beyond its end, or when it is one number.
LEMMA LooseEnds ==
  ASSUME NEW S, NEW e, NEW a, Loose(S, e, a), e[a] = a \/ \A b \in S : b <= a \/ e[a] < b
  PROVE  Ranges(S, e)
<1>1. /\ S \in SUBSET Int /\ e \in [Int -> Int] /\ Ranges(S \ {a}, e) /\ a \in S /\ a <= e[a]
      /\ \A b \in S \ {a} : e[b] < a \/ a < b
  BY DEF Loose
<1>2. \A b \in S : b <= e[b]
  BY <1>1 DEF Ranges
<1>3. ASSUME NEW b \in S, NEW c \in S, b < c
      PROVE  e[b] < c
  <2>1. b \in Int /\ c \in Int /\ e[b] \in Int /\ e[a] \in Int /\ a \in Int
    BY <1>1
  <2>2. CASE b # a /\ c # a
    BY <1>1, <1>3, <2>2 DEF Ranges
  <2>3. CASE b = a
    BY <1>3, <2>1, <2>3
  <2>4. CASE c = a
    BY <1>1, <1>3, <2>1, <2>4
  <2> QED
    BY <2>2, <2>3, <2>4
<1> QED
  BY <1>1, <1>2, <1>3 DEF Ranges

SndLoose(k, r, S, e, a, A, D) ==
  /\ SndArrays(k, r, S, e) /\ Loose(S, e, a) /\ k.lastInsertPos = Slot(SndSize, r, a)
  /\ Fits(S \ {a}, e, A, D) /\ A <= a /\ e[a] < D
  /\ k.length = Cardinality(Cover(S \ {a}, e)) + (e[a] - a + 1)

\* The numbers in a list whose ranges may overlap.
LEMMA SndLooseNear ==
  ASSUME NEW k, NEW r, NEW S, NEW e, NEW a, NEW A, NEW D, SndLoose(k, r, S, e, a, A, D), NEW b \in S
  PROVE  /\ b \in Int /\ e[b] \in Int /\ b <= e[b] /\ A <= b /\ e[b] < D
         /\ A \in Int /\ D \in Int /\ D - A <= SndSpan
<1>1. /\ Loose(S, e, a) /\ Fits(S \ {a}, e, A, D) /\ A <= a /\ e[a] < D
  BY DEF SndLoose
<1>2. Within(S \ {a}, e, A, D)
  BY <1>1, SndWithin
<1>3. CASE b = a
  BY <1>1, <1>3 DEF Loose, Fits
<1>4. CASE b # a
  BY <1>1, <1>2, <1>4 DEF Within, Fits
<1> QED
  BY <1>3, <1>4

\* Any two of them are close.
LEMMA SndLooseClose ==
  ASSUME NEW k, NEW r, NEW S, NEW e, NEW a, NEW A, NEW D, SndLoose(k, r, S, e, a, A, D), NEW b \in S, NEW c \in S
  PROVE  CloseBy(e[b], e[c]) /\ CloseBy(e[b], c) /\ CloseBy(c, e[b]) /\ CloseBy(b, c)
<1>1. /\ b \in Int /\ e[b] \in Int /\ b <= e[b] /\ A <= b /\ e[b] < D
      /\ A \in Int /\ D \in Int /\ D - A <= SndSpan
  BY SndLooseNear
<1>2. c \in Int /\ e[c] \in Int /\ c <= e[c] /\ A <= c /\ e[c] < D
  BY SndLooseNear
<1>3. SndSpan < SndSeqNoTH /\ SndSpan \in Int /\ SndSeqNoTH \in Int
  BY SndConstants
<1> DEFINE p == e[b]
           q == e[c]
<1>4. p \in Int /\ b <= p /\ p < D /\ q \in Int /\ c <= q /\ q < D
  BY <1>1, <1>2
<1> HIDE DEF p, q
<1>5. /\ p - q < SndSeqNoTH /\ q - p < SndSeqNoTH /\ p - c < SndSeqNoTH /\ c - p < SndSeqNoTH
      /\ b - c < SndSeqNoTH /\ c - b < SndSeqNoTH
  BY <1>1, <1>2, <1>3, <1>4
<1> QED
  BY <1>1, <1>2, <1>4, <1>5 DEF CloseBy, p, q

\* One turn: nothing overlaps, or the next range is taken in.
SndJoinsOn(o, k, r, S, e, a, A, D) ==
  \/ o = k /\ Ranges(S, e)
  \/ \E c, f : /\ Adjacent(S, a, c) /\ SndLoose(o, r, S \ {c}, f, a, A, D)
               /\ Cover(S \ {c}, f) = Cover(S, e)

\* The arrays once a node is taken in.
LEMMA SndMergedArrays ==
  ASSUME NEW k, NEW r, NEW S, NEW e, SndArrays(k, r, S, e),
         NEW a, NEW c, Adjacent(S, a, c), k.lastInsertPos = Slot(SndSize, r, a),
         NEW t, t = SndUnlink(k, Slot(SndSize, r, a), Slot(SndSize, r, c))
  PROVE  SndArrays(t, r, S \ {c}, e) /\ t.length = k.length /\ t.lastInsertPos = Slot(SndSize, r, a)
<1> DEFINE i == Slot(SndSize, r, a)
           n == Slot(SndSize, r, c)
<1>1. /\ r \in Int /\ SndSize \in Nat \ {0} /\ SndCircle \in Nat \ {0} /\ Spread(SndSize, S) /\ e \in [Int -> Int]
      /\ k \in SndLists
      /\ Nodes(SndCircle, SndSize, r, k.data1, k.data2, S, e)
      /\ Forward(SndSize, r, k.next, k.head, S)
  BY SndConstants DEF SndArrays
<1>2. a \in S /\ c \in S /\ a < c /\ a \in Int /\ c \in Int
  BY <1>1 DEF Adjacent, Spread
<1>3. i \in Snd!Slots /\ n \in Snd!Slots
  <2>1. SndPlace(k, r, S, i, a, e[a]) /\ SndPlace(k, r, S, n, c, e[c])
    BY <1>2, SndNode
  <2> QED
    BY <2>1 DEF SndPlace
<1>4. i = Slot(SndSize, r, a) /\ n = Slot(SndSize, r, c) /\ t = SndUnlink(k, i, n)
  OBVIOUS
<1> HIDE DEF i, n
<1>5. IsDetached(k, i, n, t)
  BY <1>1, <1>3, <1>4, SndUnlinkedIs
<1>6. /\ t \in SndLists /\ t.length = k.length /\ t.head = k.head /\ t.lastInsertPos = k.lastInsertPos
      /\ t.next = With(k.next, i, k.next[n])
      /\ t.data1 = With(k.data1, n, -1) /\ t.data2 = With(k.data2, n, -1)
  BY <1>5 DEF IsDetached
<1>7. Nodes(SndCircle, SndSize, r, t.data1, t.data2, S \ {c}, e)
  BY <1>1, <1>2, <1>4, <1>6, NodeRemoved
<1>8. Forward(SndSize, r, t.next, t.head, S \ {c})
  <2>1. t.next = With(k.next, Slot(SndSize, r, a), k.next[Slot(SndSize, r, c)])
    BY <1>4, <1>6
  <2>2. Forward(SndSize, r, t.next, k.head, S \ {c})
    BY <1>1, <2>1, ForwardSkip
  <2> QED
    BY <1>6, <2>2
<1>9. SndMarked(t.lastInsertPos, r, S \ {c})
  <2>1. a \in S \ {c}
    BY <1>2
  <2> QED
    BY <1>6, <2>1 DEF SndMarked
<1>10. Spread(SndSize, S \ {c})
  BY <1>1 DEF Spread
<1> QED
  BY <1>1, <1>6, <1>7, <1>8, <1>9, <1>10 DEF SndArrays

\* The arrays once the range at a ends in y.
SndEnding(k, i, w, m) == [k EXCEPT !.data2[i] = w, !.length = m]

LEMMA SndEndedArrays ==
  ASSUME NEW k, NEW r, NEW S, NEW e, SndArrays(k, r, S, e), NEW a \in S, NEW y \in Int, NEW m \in Nat,
         NEW f, f = With(e, a, y), NEW w, w = SndEnd(a, y), NEW i, i = Slot(SndSize, r, a),
         NEW o, o = SndEnding(k, i, w, m)
  PROVE  SndArrays(o, r, S, f) /\ o.length = m /\ o.lastInsertPos = k.lastInsertPos
<1>1. /\ r \in Int /\ SndSize \in Nat \ {0} /\ SndCircle \in Nat \ {0} /\ Spread(SndSize, S) /\ e \in [Int -> Int]
      /\ k \in SndLists
      /\ Nodes(SndCircle, SndSize, r, k.data1, k.data2, S, e)
      /\ Forward(SndSize, r, k.next, k.head, S) /\ SndMarked(k.lastInsertPos, r, S)
  BY SndConstants DEF SndArrays
<1>2. i \in Snd!Slots /\ a \in Int
  <2>1. SndPlace(k, r, S, Slot(SndSize, r, a), a, e[a])
    BY SndNode
  <2> QED
    BY <2>1 DEF SndPlace
<1>3. w = (IF y = a THEN -1 ELSE Carried(SndCircle, y)) /\ w \in -1 .. Snd!MaxSeqNo
  <2>1. Snd!Wrap(y) = Carried(SndCircle, y) /\ Snd!Wrap(y) \in 0 .. Snd!MaxSeqNo
    BY SndSteps
  <2> QED
    BY <2>1, SndConstants DEF SndEnd
<1>4. IsEnded(k, i, w, m, o)
  <2>1. o = [k EXCEPT !.data2[i] = w, !.length = m]
    BY DEF SndEnding
  <2> QED
    BY <1>1, <1>2, <1>3, <2>1, SndEndedIs
<1>5. /\ o \in SndLists /\ o.length = m /\ o.head = k.head /\ o.lastInsertPos = k.lastInsertPos
      /\ o.next = k.next /\ o.data1 = k.data1 /\ o.data2 = With(k.data2, i, w)
  BY <1>4 DEF IsEnded
<1>6. Nodes(SndCircle, SndSize, r, o.data1, o.data2, S, f)
  <2>1. o.data2 = With(k.data2, Slot(SndSize, r, a), w)
    BY <1>5
  <2>2. Nodes(SndCircle, SndSize, r, k.data1, o.data2, S, With(e, a, y))
    BY <1>1, <1>3, <2>1, NodeEnds
  <2> QED
    BY <1>5, <2>2
<1>7. f \in [Int -> Int]
  BY <1>1, <1>2 DEF With
<1> QED
  BY <1>1, <1>5, <1>6, <1>7 DEF SndArrays

\* How many numbers fewer there are when the next range, from c to v, is taken in by one up to u.
LEMMA MergedCount ==
  ASSUME NEW p \in Int, NEW a \in Int, NEW u \in Int, NEW c \in Int, NEW v \in Int, NEW y \in Int,
         y = (IF u < v THEN v ELSE u), NEW m, m = p + (u - a + 1), NEW w, w = p - (v - c + 1)
  PROVE  /\ u < v => w + (y - a + 1) = m - (u - c + 1)
         /\ ~ u < v => w + (y - a + 1) = m - (v - c + 1)
OBVIOUS

LEMMA SndJoined ==
  ASSUME NEW k, NEW r, NEW S, NEW e, NEW a, NEW A, NEW D, SndLoose(k, r, S, e, a, A, D),
         NEW o, o = SndJoin(Slot(SndSize, r, a), k)
  PROVE  SndJoinsOn(o, k, r, S, e, a, A, D)
<1> DEFINE i == Slot(SndSize, r, a)
           n == k.next[i]
           first == k.data1[n]
           last == SndJoinEnd(k, n)
           end == k.data2[i]
           t == SndUnlink(k, i, n)
           u == e[a]
<1>1. /\ SndArrays(k, r, S, e) /\ Loose(S, e, a) /\ k.lastInsertPos = Slot(SndSize, r, a)
      /\ Fits(S \ {a}, e, A, D) /\ A <= a /\ u < D
      /\ k.length = Cardinality(Cover(S \ {a}, e)) + (u - a + 1)
      /\ k \in SndLists /\ r \in Int /\ Spread(SndSize, S) /\ e \in [Int -> Int]
  BY DEF SndLoose, SndArrays
<1>2. a \in S /\ a \in Int /\ u \in Int /\ a <= u
  BY <1>1 DEF Loose
<1>3. SndPlace(k, r, S, i, a, u)
  BY <1>1, <1>2, SndNode
<1>4. i \in Snd!Slots /\ end = SndEnd(a, u) /\ Snd!Wrap(u) # -1
  BY <1>3 DEF SndPlace, SndEnd
<1>5. \/ ~ (n # -1 /\ end # -1 /\ Snd!seqcmp(first, Snd!incseq(end)) <= 0) /\ o = k
      \/ /\ n # -1 /\ end # -1 /\ Snd!seqcmp(first, Snd!incseq(end)) <= 0
         /\ n \in Snd!Slots
         /\ \/ Snd!seqcmp(last, end) > 0 /\ Snd!seqcmp(end, first) >= 0
               /\ o = [t EXCEPT !.data2[i] = last, !.length = k.length - Snd!seqlen(first, end)]
            \/ Snd!seqcmp(last, end) > 0 /\ ~ Snd!seqcmp(end, first) >= 0
               /\ o = [t EXCEPT !.data2[i] = last, !.length = k.length]
            \/ ~ Snd!seqcmp(last, end) > 0 /\ o = [t EXCEPT !.length = k.length - Snd!seqlen(first, last)]
  <2>1. n = -1 \/ n \in Snd!Slots
    <3>1. k.next \in [Snd!Slots -> -1 .. SndSize - 1]
      BY <1>1 DEF SndLists
    <3>2. k.next[i] \in -1 .. SndSize - 1
      BY <1>4, <3>1
    <3>3. k.next[i] = -1 \/ k.next[i] \in 0 .. SndSize - 1
      BY <3>2, SndConstants
    <3> QED
      BY <3>3, SndConstants
  <2>2. CASE n \in Snd!Slots
    <3>1. o = SndJoin(i, k)
      OBVIOUS
    <3>2. k \in SndLists /\ i \in Snd!Slots
      BY <1>1, <1>4
    <3> HIDE DEF i
    <3>3. n = k.next[i] /\ first = k.data1[n] /\ last = SndJoinEnd(k, n) /\ end = k.data2[i] /\ t = SndUnlink(k, i, n)
      OBVIOUS
    <3> HIDE DEF n, first, last, end, t
    <3>4. SndJoinsBy(k, i, n, first, last, end, t, o)
      BY <2>2, <3>1, <3>2, <3>3, SndJoinIs
    <3> QED
      BY <2>2, <3>4, Zenon DEF SndJoinsBy
  <2>3. CASE n = -1
    <3>1. ~ Snd!Joins(k, i)
      BY <2>3, SndConstants DEF Snd!Joins
    <3>2. o = k
      BY <3>1 DEF SndJoin
    <3> QED
      BY <2>3, <3>2
  <2> QED
    BY <2>1, <2>2, <2>3
<1>6. n = k.next[i] /\ first = k.data1[n] /\ last = SndJoinEnd(k, n) /\ t = SndUnlink(k, i, n) /\ i = Slot(SndSize, r, a) /\ u = e[a]
  OBVIOUS
<1> HIDE DEF i, n, first, last, end, t, u
\* Nothing is taken in.
<1>7. ASSUME o = k, u = a \/ \A b \in S : b <= a \/ u < b
      PROVE  SndJoinsOn(o, k, r, S, e, a, A, D)
  <2>1. Ranges(S, e)
    BY <1>1, <1>6, <1>7, LooseEnds
  <2> QED
    BY <1>7, <2>1 DEF SndJoinsOn
<1>8. CASE end = -1
  <2>1. o = k
    BY <1>5, <1>8
  <2>2. u = a
    BY <1>4, <1>8 DEF SndEnd
  <2> QED
    BY <1>7, <2>1, <2>2
<1>9. CASE end # -1 /\ IsGreatest(S, a)
  <2>1. n = -1
    BY <1>3, <1>6, <1>9 DEF SndPlace
  <2>2. o = k
    BY <1>5, <2>1
  <2>3. \A b \in S : b <= a
    BY <1>9 DEF IsGreatest
  <2> QED
    BY <1>7, <2>2, <2>3
<1>10. CASE end # -1 /\ ~ IsGreatest(S, a)
  <2>1. PICK c \in S : Adjacent(S, a, c) /\ n = Slot(SndSize, r, c)
    BY <1>3, <1>6, <1>10 DEF SndPlace
  <2> DEFINE v == e[c]
  <2>2. SndPlace(k, r, S, n, c, v)
    BY <1>1, <2>1, SndNode
  <2>3. n # -1 /\ first = Snd!Wrap(c) /\ c \in Int /\ v \in Int /\ k.data2[n] = SndEnd(c, v) /\ Snd!Wrap(v) # -1
    BY <1>6, <2>2, SndConstants DEF SndPlace, SndEnd
  <2>4. last = Snd!Wrap(v)
    BY <1>6, <2>3 DEF SndJoinEnd, SndEnd
  <2>5. end = Snd!Wrap(u)
    BY <1>4, <1>10 DEF SndEnd
  <2>6. CloseBy(v, u) /\ CloseBy(u, c) /\ c <= v /\ v < D /\ A <= c /\ a < c /\ \A b \in S : b <= a \/ c <= b
    <3>1. CloseBy(v, u) /\ CloseBy(u, c)
      BY <1>2, <1>6, <2>1, SndLooseClose
    <3>2. c <= v /\ v < D /\ A <= c
      BY <2>1, SndLooseNear
    <3> QED
      BY <2>1, <3>1, <3>2 DEF Adjacent
  <2> HIDE DEF v
  <2>7. v = e[c]
    BY DEF v
  <2>8. Snd!seqcmp(first, Snd!incseq(end)) <= 0 <=> c <= u + 1
    <3> DEFINE u1 == u + 1
    <3>1. Snd!incseq(end) = Snd!Wrap(u1) /\ u1 \in Int /\ u1 = u + 1
      BY <1>2, <2>5, SndSteps
    <3> HIDE DEF u1
    <3>2. CloseBy(c, u1)
      <4>1. A \in Int /\ D \in Int /\ D - A <= SndSpan /\ SndSpan < SndSeqNoTH /\ SndSpan \in Int /\ SndSeqNoTH \in Int
        BY <1>1, SndConstants DEF Fits
      <4>2. c - u1 < SndSeqNoTH /\ u1 - c < SndSeqNoTH
        BY <1>1, <1>2, <2>3, <2>6, <3>1, <4>1
      <4> QED
        BY <2>3, <3>1, <4>2 DEF CloseBy
    <3>3. Snd!seqcmp(Snd!Wrap(c), Snd!Wrap(u1)) <= 0 <=> c <= u1
      BY <3>2, SndClose
    <3> QED
      BY <2>3, <3>1, <3>3
  <2>9. (Snd!seqcmp(last, end) > 0 <=> u < v) /\ (Snd!seqcmp(end, first) >= 0 <=> c <= u)
    <3>1. (Snd!seqcmp(Snd!Wrap(v), Snd!Wrap(u)) > 0 <=> v > u)
      BY <2>6, SndClose
    <3>2. Snd!seqcmp(Snd!Wrap(u), Snd!Wrap(c)) >= 0 <=> u >= c
      BY <2>6, SndClose
    <3> QED
      BY <1>2, <2>3, <2>4, <2>5, <3>1, <3>2
  <2>10. CASE ~ c <= u + 1
    <3>1. o = k
      BY <1>5, <2>8, <2>10
    <3>2. \A b \in S : b <= a \/ u < b
      <4> TAKE b \in S
      <4>1. b \in Int /\ (b <= a \/ c <= b)
        BY <1>1, <2>6 DEF Spread
      <4> QED
        BY <1>2, <2>3, <2>10, <4>1
    <3> QED
      BY <1>7, <3>1, <3>2
  <2>11. CASE c <= u + 1
    <3> DEFINE y == IF u < v THEN v ELSE u
               U == S \ {c}
               f == With(e, a, y)
               m == Cardinality(Cover(U \ {a}, f)) + (y - a + 1)
    <3>1. Merges(S, e, a, c, y, U, f)
      BY <1>6, <2>1, <2>7, <2>11 DEF Merges
    <3>2. y \in Int /\ y = (IF u < v THEN v ELSE u) /\ U = S \ {c} /\ f = With(e, a, y)
          /\ m = Cardinality(Cover(U \ {a}, f)) + (y - a + 1)
      BY <1>2, <2>3
    <3> HIDE DEF y, U, f, m
    <3>3. /\ Loose(U, f, a) /\ Cover(U, f) = Cover(S, e) /\ f[a] = y
          /\ c .. v \subseteq Cover(S \ {a}, e) /\ Cover(U \ {a}, f) = Cover(S \ {a}, e) \ (c .. v)
      <4>1. Loose(S, e, a)
        BY <1>1
      <4>2. Merged(S, e, a, c, y, U, f)
        BY <3>1, <4>1, RangesMerged
      <4> QED
        BY <2>7, <4>2 DEF Merged
    <3>4. Fits(U \ {a}, f, A, D)
      <4>1. Ranges(U \ {a}, f)
        BY <3>3 DEF Loose
      <4>2. Cover(U \ {a}, f) \subseteq Cover(S \ {a}, e)
        BY <3>3
      <4> QED
        BY <1>1, <4>1, <4>2, SndFewer
    <3>5. /\ u < v => m = k.length - (u - c + 1)
          /\ ~ u < v => m = k.length - (v - c + 1)
          /\ m \in Nat
      <4> DEFINE C == Cover(S \ {a}, e)
                 p == Cardinality(C)
                 w == Cardinality(C \ (c .. v))
      <4>1. IsFiniteSet(C) /\ c .. v \subseteq C /\ k.length = p + (u - a + 1) /\ m = w + (y - a + 1)
        <5>1. Within(S \ {a}, e, A, D)
          BY <1>1, SndWithin
        <5> QED
          BY <1>1, <3>2, <3>3, <5>1 DEF Within
      <4>2. p \in Nat
        BY <4>1, FS_CardinalityType
      <4>3. w = p - (v - c + 1) /\ w \in Nat
        BY <2>3, <2>6, <4>1, NumbersGo
      <4> HIDE DEF p, w
      <4>4. m \in Nat
        BY <1>2, <2>3, <3>2, <4>1, <4>3
      <4>5. /\ u < v => w + (y - a + 1) = k.length - (u - c + 1)
            /\ ~ u < v => w + (y - a + 1) = k.length - (v - c + 1)
        BY <1>2, <2>3, <3>2, <4>1, <4>2, <4>3, MergedCount
      <4> QED
        BY <4>1, <4>4, <4>5
    <3>6. SndArrays(t, r, U, e) /\ t.length = k.length /\ t.lastInsertPos = i
      <4>1. t = SndUnlink(k, Slot(SndSize, r, a), Slot(SndSize, r, c))
        BY <1>6, <2>1
      <4>2. SndArrays(t, r, S \ {c}, e) /\ t.length = k.length /\ t.lastInsertPos = Slot(SndSize, r, a)
        BY <1>1, <2>1, <4>1, SndMergedArrays
      <4> QED
        BY <1>6, <3>2, <4>2
\* What remains to be shown.
    <3>7. ASSUME SndArrays(o, r, U, f), o.length = m, o.lastInsertPos = i
          PROVE  SndJoinsOn(o, k, r, S, e, a, A, D)
      <4>1. y < D
        BY <1>1, <2>6, <3>2
      <4>2. SndLoose(o, r, U, f, a, A, D)
        BY <1>1, <1>6, <3>2, <3>3, <3>4, <3>7, <4>1 DEF SndLoose
      <4> QED
        BY <2>1, <3>2, <3>3, <4>2 DEF SndJoinsOn
    <3>8. CASE u < v
      <4>1. o = [t EXCEPT !.data2[i] = last, !.length = m]
        <5>1. CASE c <= u
          <6>1. Snd!seqlen(first, end) = u - c + 1
            <7>1. u - c < SndSeqNoTH
              BY <2>6 DEF CloseBy
            <7> QED
              BY <1>2, <2>3, <2>5, <5>1, <7>1, SndStretch
          <6>2. o = [t EXCEPT !.data2[i] = last, !.length = k.length - Snd!seqlen(first, end)]
            BY <1>5, <1>10, <2>3, <2>8, <2>9, <2>11, <3>8, <5>1
          <6> QED
            BY <3>5, <3>8, <6>1, <6>2
        <5>2. CASE ~ c <= u
          <6>1. o = [t EXCEPT !.data2[i] = last, !.length = k.length]
            BY <1>5, <1>10, <2>3, <2>8, <2>9, <2>11, <3>8, <5>2
          <6>2. m = k.length
            <7>1. u - c + 1 = 0
              BY <1>2, <2>3, <2>11, <5>2
            <7>2. m = k.length - (u - c + 1)
              BY <3>5, <3>8
            <7>3. k.length \in Nat
              BY <1>1 DEF SndLists
            <7> QED
              BY <7>1, <7>2, <7>3
          <6> QED
            BY <6>1, <6>2
        <5> QED
          BY <5>1, <5>2
      <4>2. last = SndEnd(a, y) /\ a \in U
        <5>1. y = v /\ y # a
          BY <1>2, <2>3, <3>2, <3>8
        <5>2. a \in U
          BY <1>2, <2>6, <3>2
        <5> QED
          BY <2>4, <5>1, <5>2 DEF SndEnd
      <4>3. SndArrays(o, r, U, f) /\ o.length = m /\ o.lastInsertPos = t.lastInsertPos
        <5>1. SndArrays(t, r, U, e) /\ a \in U /\ y \in Int /\ m \in Nat
          BY <3>2, <3>5, <3>6, <4>2
        <5>2. f = With(e, a, y) /\ last = SndEnd(a, y) /\ i = Slot(SndSize, r, a)
          BY <1>6, <3>2, <4>2
        <5>3. o = SndEnding(t, i, last, m)
          BY <4>1 DEF SndEnding
        <5> QED
          BY <5>1, <5>2, <5>3, SndEndedArrays
      <4> QED
        BY <3>6, <3>7, <4>3
    <3>9. CASE ~ u < v
      <4>1. Snd!seqlen(first, last) = v - c + 1
        <5>1. v - c < SndSeqNoTH
          <6>1. CloseBy(v, c)
            BY <2>1, <2>7, SndLooseClose
          <6> QED
            BY <6>1 DEF CloseBy
        <5> QED
          BY <2>3, <2>4, <2>6, <5>1, SndStretch
      <4>2. o = [t EXCEPT !.length = k.length - Snd!seqlen(first, last)]
        BY <1>5, <1>10, <2>3, <2>8, <2>9, <2>11, <3>9
      <4>3. o = [t EXCEPT !.length = m] /\ m \in Nat
        BY <3>5, <3>9, <4>1, <4>2
      <4>4. f = e
        BY <1>1, <1>2, <1>6, <3>2, <3>9 DEF With
      <4>5. t \in SndLists
        BY <3>6 DEF SndArrays
      <4>6. /\ o \in SndLists /\ o.length = m /\ o.head = t.head /\ o.lastInsertPos = t.lastInsertPos
            /\ o.next = t.next /\ o.data1 = t.data1 /\ o.data2 = t.data2
        BY <4>3, <4>5, SndCountedIs
      <4>7. SndArrays(o, r, U, e)
        BY <3>6, <4>6 DEF SndArrays
      <4> QED
        BY <3>6, <3>7, <4>4, <4>6, <4>7
    <3> QED
      BY <3>8, <3>9
  <2> QED
    BY <2>10, <2>11
<1> QED
  BY <1>8, <1>9, <1>10

\* A list that holds the numbers of C.
SndGot(o, C, A, D) == \E r, T, f : SndHolds(o, r, T, f, A, D) /\ Cover(T, f) = C

LEMMA SndLooseHolds ==
  ASSUME NEW k, NEW r, NEW S, NEW e, NEW a, NEW A, NEW D, SndLoose(k, r, S, e, a, A, D), Ranges(S, e)
  PROVE  SndHolds(k, r, S, e, A, D)
<1> DEFINE C == Cover(S, e)
           y == e[a]
<1>1. /\ SndArrays(k, r, S, e) /\ a \in S /\ Fits(S \ {a}, e, A, D) /\ A <= a /\ y < D
      /\ k.length = Cardinality(Cover(S \ {a}, e)) + (y - a + 1)
  BY DEF SndLoose, Loose
<1>2. a \in Int /\ y \in Int /\ a <= y /\ A \in Int /\ D \in Int /\ A <= D /\ D - A <= SndSpan
  BY <1>1, SndLooseNear DEF Fits
<1>3. Cover(S \ {a}, e) = C \ (a .. y) /\ a .. y \subseteq C
  BY <1>1, RangeRemovedIs
<1>4. C \subseteq Int
  BY DEF Cover
<1> HIDE DEF C, y
<1>5. \A u \in C : A <= u /\ u < D
  <2> TAKE u \in C
  <2>1. u \in Int
    BY <1>4
  <2>2. CASE u \in a .. y
    BY <1>1, <1>2, <2>2
  <2>3. CASE u \notin a .. y
    <3>1. u \in Cover(S \ {a}, e)
      BY <1>3, <2>3
    <3> QED
      BY <1>1, <3>1 DEF Fits
  <2> QED
    BY <2>2, <2>3
<1>6. Fits(S, e, A, D)
  BY <1>2, <1>5 DEF Fits, C
<1>7. k.length = Cardinality(C)
  <2>1. IsFiniteSet(C)
    <3>1. Within(S, e, A, D)
      BY <1>6, SndWithin
    <3> QED
      BY <3>1 DEF Within, C
  <2>2. Cardinality(C \ (a .. y)) = Cardinality(C) - (y - a + 1)
    BY <1>2, <1>3, <2>1, NumbersGo
  <2>3. Cardinality(C) \in Nat
    BY <2>1, FS_CardinalityType
  <2>4. k.length = Cardinality(C \ (a .. y)) + (y - a + 1)
    BY <1>1, <1>3
  <2> QED
    BY <1>2, <2>2, <2>3, <2>4
<1> QED
  BY <1>1, <1>6, <1>7 DEF SndHolds, C

LEMMA SndCoalescedHolds ==
  ASSUME NEW k, NEW r, NEW S, NEW e, NEW a, NEW A, NEW D, SndLoose(k, r, S, e, a, A, D),
         NEW o, o = Snd!Coalesced(k, Slot(SndSize, r, a))
  PROVE  SndGot(o, Cover(S, e), A, D)
<1> DEFINE x == Slot(SndSize, r, a)
           C == Cover(S, e)
<1>1. PICK g : SndRuns(g, "join", k, x, k, o)
  BY SndJoinRuns
<1>2. /\ g[0] = k /\ o = g[SndSize]
      /\ \A i \in 1 .. SndSize : g[i] = SndJoin(x, g[i - 1])
  BY <1>1 DEF SndRuns, SndTurn
<1>3. SndSize \in Nat /\ SndSpan \in Nat /\ SndSpan <= SndSize /\ A \in Int /\ D \in Int /\ D - A <= SndSpan
  BY SndConstants DEF SndLoose, Fits
<1>4. A <= a /\ a \in S /\ a \in Int /\ \A b \in S : b \in Int /\ b < D
  <2>1. ASSUME NEW b \in S
        PROVE  b \in Int /\ A <= b /\ b < D
    <3>1. b \in Int /\ e[b] \in Int /\ b <= e[b] /\ A <= b /\ e[b] < D
      BY SndLooseNear
    <3> QED
      BY <1>3, <3>1
  <2>2. a \in S
    BY DEF SndLoose, Loose
  <2> QED
    BY <2>1, <2>2
<1>5. x = Slot(SndSize, r, a) /\ C = Cover(S, e)
  OBVIOUS
<1> HIDE DEF x, C
<1> DEFINE Stays(i) == SndJoin(x, g[i]) = g[i] /\ SndGot(g[i], C, A, D)
           Goes(i) == \E U, f : /\ U \subseteq S /\ SndLoose(g[i], r, U, f, a, A, D) /\ Cover(U, f) = C
                                /\ \A b \in U : b <= a \/ b > a + i
           P == {i \in 0 .. SndSize : Stays(i) \/ Goes(i)}
<1>6. 0 \in P
  <2>1. \A b \in S : b <= a \/ b > a + 0
    BY <1>4
  <2>2. Goes(0)
    BY <1>2, <1>5, <2>1
  <2> QED
    BY <1>3, <2>2
<1>7. ASSUME NEW i \in 1 .. SndSize, i - 1 \in P
      PROVE  i \in P
  <2>1. i \in 0 .. SndSize /\ i \in Int /\ g[i] = SndJoin(x, g[i - 1])
    BY <1>2, <1>3
  <2>2. CASE Stays(i - 1)
    <3>1. g[i] = g[i - 1]
      BY <2>1, <2>2
    <3>2. Stays(i)
      BY <2>2, <3>1
    <3> QED
      BY <2>1, <3>2
  <2>3. CASE Goes(i - 1)
    <3>1. PICK U, f : /\ U \subseteq S /\ SndLoose(g[i - 1], r, U, f, a, A, D) /\ Cover(U, f) = C
                      /\ \A b \in U : b <= a \/ b > a + (i - 1)
      BY <2>3
    <3> DEFINE t == g[i - 1]
               q == g[i]
    <3>2. SndLoose(t, r, U, f, a, A, D) /\ q = SndJoin(Slot(SndSize, r, a), t) /\ q = g[i] /\ t = g[i - 1]
      BY <1>5, <2>1, <3>1
    <3> HIDE DEF t, q
    <3>3. SndJoinsOn(q, t, r, U, f, a, A, D)
      BY <3>2, SndJoined
    <3>4. CASE q = t /\ Ranges(U, f)
      <4>1. SndHolds(t, r, U, f, A, D)
        BY <3>2, <3>4, SndLooseHolds
      <4>2. SndGot(g[i], C, A, D)
        BY <3>1, <3>2, <3>4, <4>1 DEF SndGot
      <4>3. SndJoin(x, g[i]) = g[i]
        BY <2>1, <3>2, <3>4
      <4>4. Stays(i)
        BY <4>2, <4>3
      <4> QED
        BY <2>1, <4>4
    <3>5. ASSUME NEW c, NEW h, Adjacent(U, a, c), SndLoose(q, r, U \ {c}, h, a, A, D), Cover(U \ {c}, h) = Cover(U, f)
          PROVE  i \in P
      <4>1. \A b \in U \ {c} : b <= a \/ b > a + i
        <5> TAKE b \in U \ {c}
        <5>1. b \in Int /\ c \in Int /\ c > a + (i - 1) /\ (b <= a \/ c <= b) /\ b # c
          BY <1>4, <3>1, <3>5 DEF Adjacent
        <5> QED
          BY <1>4, <2>1, <5>1
      <4>2. U \ {c} \in SUBSET S /\ SndLoose(g[i], r, U \ {c}, h, a, A, D) /\ Cover(U \ {c}, h) = C
        BY <3>1, <3>2, <3>5
      <4>3. Goes(i)
        BY <4>1, <4>2
      <4> QED
        BY <2>1, <4>3
    <3> QED
      BY <3>3, <3>4, <3>5 DEF SndJoinsOn
  <2> QED
    BY <1>7, <2>2, <2>3
<1>8. SndSize \in P
  <2> HIDE DEF P
  <2> QED
    BY <1>3, <1>6, <1>7, TurnByTurn
<1>9. CASE Stays(SndSize)
  BY <1>2, <1>5, <1>9
<1>10. CASE Goes(SndSize)
  <2>1. PICK U, f : /\ U \subseteq S /\ SndLoose(g[SndSize], r, U, f, a, A, D) /\ Cover(U, f) = C
                    /\ \A b \in U : b <= a \/ b > a + SndSize
    BY <1>10
  <2>2. \A b \in U : b <= a
    <3> TAKE b \in U
    <3>1. b \in Int /\ b < D /\ (b <= a \/ b > a + SndSize)
      BY <1>4, <2>1
    <3> QED
      BY <1>3, <1>4, <3>1
  <2>3. Ranges(U, f)
    <3>1. Loose(U, f, a)
      BY <2>1 DEF SndLoose
    <3> QED
      BY <2>2, <3>1, LooseEnds
  <2>4. SndHolds(o, r, U, f, A, D)
    BY <1>2, <2>1, <2>3, SndLooseHolds
  <2> QED
    BY <1>5, <2>1, <2>4 DEF SndGot
<1> QED
  BY <1>8, <1>9, <1>10

-----------------------------------------------------------------------------
(* insert                                                                   *)

\* The range that starts at a, and holds x, is made to reach y.
Prolongs(S, e, a, x, y, z, f) ==
  /\ a \in S /\ x \in Int /\ y \in Int /\ a <= x /\ x <= e[a] /\ x <= y
  /\ z = (IF e[a] < y THEN y ELSE e[a]) /\ f = With(e, a, z)

Prolonged(S, e, a, x, y, z, f) ==
  /\ Loose(S, f, a) /\ Cover(S, f) = Cover(S, e) \cup (x .. y) /\ f[a] = z
  /\ Cover(S \ {a}, f) = Cover(S \ {a}, e)

LEMMA RangesReached ==
  ASSUME NEW S, NEW e, Ranges(S, e), NEW a, NEW x, NEW y, NEW z, NEW f, Prolongs(S, e, a, x, y, z, f)
  PROVE  Prolonged(S, e, a, x, y, z, f)
<1>1. /\ S \in SUBSET Int /\ e \in [Int -> Int] /\ (\A b \in S : b <= e[b])
      /\ \A b, c \in S : b < c => e[b] < c
  BY DEF Ranges
<1>2. /\ a \in S /\ x \in Int /\ y \in Int /\ a <= x /\ x <= e[a] /\ x <= y
      /\ z = (IF e[a] < y THEN y ELSE e[a]) /\ f = With(e, a, z)
  BY DEF Prolongs
<1>3. a \in Int /\ e[a] \in Int /\ z \in Int /\ a <= z /\ e[a] <= z /\ y <= z /\ (z = y \/ z = e[a])
  BY <1>1, <1>2
<1>4. f \in [Int -> Int] /\ f[a] = z /\ \A b \in Int \ {a} : f[b] = e[b]
  BY <1>1, <1>2, <1>3 DEF With
<1>5. \A b \in S \ {a} : b \in Int /\ f[b] = e[b]
  BY <1>1, <1>4
<1>6. Ranges(S \ {a}, f) /\ Cover(S \ {a}, f) = Cover(S \ {a}, e)
  <2>1. Ranges(S \ {a}, f)
    BY <1>1, <1>4, <1>5 DEF Ranges
  <2> QED
    BY <1>5, <2>1 DEF Cover
<1>7. \A b \in S \ {a} : f[b] < a \/ a < b
  <2> TAKE b \in S \ {a}
  <2>1. b \in Int /\ b # a /\ (b < a => e[b] < a)
    BY <1>1, <1>2
  <2> QED
    BY <1>3, <1>5, <2>1
<1>8. Loose(S, f, a)
  BY <1>1, <1>2, <1>3, <1>4, <1>6, <1>7 DEF Loose
<1>9. Cover(S, f) = Cover(S, e) \cup (x .. y)
  <2>1. ASSUME NEW u \in Int, NEW b \in S, b <= u, u <= f[b]
        PROVE  (\E d \in S : d <= u /\ u <= e[d]) \/ u \in x .. y
    <3>1. CASE b # a
      BY <1>5, <2>1, <3>1
    <3>2. CASE b = a
      BY <1>2, <1>3, <1>4, <2>1, <3>2
    <3> QED
      BY <3>1, <3>2
  <2>2. ASSUME NEW u \in Int, NEW b \in S, b <= u, u <= e[b]
        PROVE  \E d \in S : d <= u /\ u <= f[d]
    <3>1. CASE b # a
      BY <1>5, <2>2, <3>1
    <3>2. CASE b = a
      <4>1. a <= u /\ u <= f[a]
        BY <1>3, <1>4, <2>2, <3>2
      <4> QED
        BY <1>2, <4>1
    <3> QED
      BY <3>1, <3>2
  <2>3. ASSUME NEW u \in x .. y
        PROVE  u \in Int /\ \E d \in S : d <= u /\ u <= f[d]
    <3>1. u \in Int /\ a <= u /\ u <= f[a]
      BY <1>2, <1>3, <1>4
    <3> QED
      BY <1>2, <3>1
  <2>4. \A u \in Int : (\E b \in S : b <= u /\ u <= f[b]) <=> ((\E b \in S : b <= u /\ u <= e[b]) \/ u \in x .. y)
    BY <2>1, <2>2, <2>3
  <2>5. x .. y \subseteq Int
    OBVIOUS
  <2> QED
    BY <2>4, <2>5 DEF Cover
<1> QED
  BY <1>4, <1>6, <1>8, <1>9 DEF Prolonged

\* What the range that starts at a adds to the length.
LEMMA SndCounts ==
  ASSUME NEW k, NEW r, NEW S, NEW e, NEW A, NEW D, SndHolds(k, r, S, e, A, D), NEW a \in S
  PROVE  /\ k.length = Cardinality(Cover(S \ {a}, e)) + (e[a] - a + 1)
         /\ Cardinality(Cover(S \ {a}, e)) \in Nat /\ Fits(S \ {a}, e, A, D)
<1> DEFINE C == Cover(S, e)
           y == e[a]
<1>1. Fits(S, e, A, D) /\ Ranges(S, e) /\ k.length = Cardinality(C)
  BY DEF SndHolds, Fits
<1>2. a \in Int /\ y \in Int /\ a <= y /\ IsFiniteSet(C)
  <2>1. Within(S, e, A, D)
    BY <1>1, SndWithin
  <2> QED
    BY <2>1 DEF Within
<1>3. Ranges(S \ {a}, e) /\ Cover(S \ {a}, e) = C \ (a .. y) /\ a .. y \subseteq C
  BY <1>1, RangeRemovedIs
<1>4. Fits(S \ {a}, e, A, D)
  <2>1. Cover(S \ {a}, e) \subseteq Cover(S, e)
    BY <1>3
  <2> QED
    BY <1>1, <1>3, <2>1, SndFewer
<1> HIDE DEF C
<1>5. Cardinality(C \ (a .. y)) = Cardinality(C) - (y - a + 1) /\ Cardinality(C \ (a .. y)) \in Nat
  <2> HIDE DEF y
  <2> QED
    BY <1>2, <1>3, NumbersGo
<1>6. Cardinality(C) \in Nat
  BY <1>2, FS_CardinalityType
<1>7. Cardinality(Cover(S \ {a}, e)) = Cardinality(C \ (a .. y))
  BY <1>3
<1> QED
  BY <1>1, <1>2, <1>4, <1>5, <1>6, <1>7

\* The search starts here the next time.
SndMark(k, i) == [k EXCEPT !.lastInsertPos = i]

LEMMA SndMarkHolds ==
  ASSUME NEW k, NEW r, NEW S, NEW e, SndArrays(k, r, S, e), NEW a \in S, NEW i, i = Slot(SndSize, r, a),
         NEW o, o = SndMark(k, i)
  PROVE  /\ SndArrays(o, r, S, e) /\ o.lastInsertPos = i /\ o.length = k.length
         /\ o.data1 = k.data1 /\ o.data2 = k.data2 /\ o.next = k.next /\ o.head = k.head
<1>1. i \in -1 .. SndSize - 1
  <2>1. SndPlace(k, r, S, Slot(SndSize, r, a), a, e[a])
    BY SndNode
  <2> QED
    BY <2>1, SndConstants DEF SndPlace
<1>2. k \in SndLists
  BY DEF SndArrays
<1>3. /\ o \in SndLists /\ o.lastInsertPos = i /\ o.length = k.length
      /\ o.data1 = k.data1 /\ o.data2 = k.data2 /\ o.next = k.next /\ o.head = k.head
  BY <1>1, <1>2 DEF SndLists, SndMark
<1>4. SndMarked(i, r, S)
  BY DEF SndMarked
<1> QED
  BY <1>3, <1>4 DEF SndArrays

\* A list, perhaps with ranges that overlap, that holds the numbers of C.
SndGrown(o, r, S, a, C, A, D) == \E f : SndLoose(o, r, S, f, a, A, D) /\ Cover(S, f) = C

SndExtends(k, i, first, last, o) ==
  \/ k.data2[i] = -1 /\ first # last
     /\ o = SndEnding(k, i, last, k.length + Snd!seqlen(first, last) - 1)
  \/ ~ (k.data2[i] = -1 /\ first # last) /\ k.data2[i] # -1 /\ Snd!seqcmp(last, k.data2[i]) > 0
     /\ o = SndEnding(k, i, last, k.length + Snd!seqlen(k.data2[i], last) - 1)
  \/ ~ (k.data2[i] = -1 /\ first # last) /\ ~ (k.data2[i] # -1 /\ Snd!seqcmp(last, k.data2[i]) > 0) /\ o = k

LEMMA SndExtendsIs ==
  ASSUME NEW k \in SndLists, NEW i, NEW first, NEW last, NEW o, o = Snd!Extend(k, i, first, last)
  PROVE  SndExtends(k, i, first, last, o)
<1>1. o = IF k.data2[i] = -1 /\ first # last
            THEN SndEnding(k, i, last, k.length + Snd!seqlen(first, last) - 1)
          ELSE IF k.data2[i] # -1 /\ Snd!seqcmp(last, k.data2[i]) > 0
            THEN SndEnding(k, i, last, k.length + Snd!seqlen(k.data2[i], last) - 1)
          ELSE k
  <2>1. \A m : [k EXCEPT !.data2[i] = last, !.length = @ + m - 1] = SndEnding(k, i, last, k.length + m - 1)
    BY DEF SndEnding, SndLists
  <2> QED
    BY <2>1 DEF Snd!Extend, Snd!None
<1> QED
  BY <1>1, Zenon DEF SndExtends

LEMMA SndExtendHolds ==
  ASSUME NEW k, NEW r, NEW S, NEW e, NEW A, NEW D, SndHolds(k, r, S, e, A, D), NEW a \in S,
         NEW x \in Int, NEW y \in Int, a <= x, x <= e[a], x <= y, y < D,
         NEW i, i = Slot(SndSize, r, a), NEW q, q = SndMark(k, i),
         NEW o, o = Snd!Extend(q, i, Snd!Wrap(x), Snd!Wrap(y))
  PROVE  SndGrown(o, r, S, a, Cover(S, e) \cup (x .. y), A, D)
<1> DEFINE u == e[a]
           z == IF u < y THEN y ELSE u
           f == With(e, a, z)
           first == Snd!Wrap(x)
           last == Snd!Wrap(y)
           end == q.data2[i]
           n == Cardinality(Cover(S \ {a}, e))
<1>1. SndArrays(k, r, S, e) /\ Fits(S, e, A, D) /\ Ranges(S, e) /\ e \in [Int -> Int]
  BY DEF SndHolds, Fits, SndArrays
<1>2. /\ a \in Int /\ u \in Int /\ a <= u /\ A <= a /\ u < D /\ A \in Int /\ D \in Int /\ D - A <= SndSpan
      /\ SndSpan < SndSeqNoTH /\ SndSpan \in Int /\ SndSeqNoTH \in Int
  <2>1. Within(S, e, A, D)
    BY <1>1, SndWithin
  <2> QED
    BY <1>1, <2>1, SndConstants DEF Within, Fits
<1>3. k.length = n + (u - a + 1) /\ n \in Nat /\ Fits(S \ {a}, e, A, D)
  BY SndCounts
<1>4. SndArrays(q, r, S, e) /\ q.lastInsertPos = i /\ q.length = k.length /\ end = k.data2[i]
  BY <1>1, SndMarkHolds
<1>5. end = SndEnd(a, u) /\ Snd!Wrap(u) # -1
  <2>1. SndPlace(k, r, S, Slot(SndSize, r, a), a, e[a])
    BY <1>1, SndNode
  <2> QED
    BY <1>4, <2>1 DEF SndPlace, SndEnd
<1>6. Prolongs(S, e, a, x, y, z, f)
  BY DEF Prolongs
<1>7. SndExtends(q, i, first, last, o)
  <2>1. q \in SndLists
    BY <1>4 DEF SndArrays
  <2> QED
    BY <2>1, SndExtendsIs
<1>8. first = Snd!Wrap(x) /\ last = Snd!Wrap(y) /\ end = q.data2[i] /\ u = e[a] /\ z = (IF u < y THEN y ELSE u)
      /\ f = With(e, a, z) /\ n = Cardinality(Cover(S \ {a}, e))
  OBVIOUS
<1> HIDE DEF u, z, f, first, last, end, n
<1>9. Prolonged(S, e, a, x, y, z, f)
  BY <1>1, <1>6, RangesReached
<1>10. /\ Loose(S, f, a) /\ Cover(S, f) = Cover(S, e) \cup (x .. y) /\ f[a] = z
       /\ Cover(S \ {a}, f) = Cover(S \ {a}, e)
  BY <1>9 DEF Prolonged
<1>11. Fits(S \ {a}, f, A, D)
  <2>1. Ranges(S \ {a}, f)
    BY <1>10 DEF Loose
  <2> QED
    BY <1>3, <1>10, <2>1 DEF Fits
<1>12. z \in Int /\ a <= z /\ z < D
  BY <1>2, <1>8
<1>13. ASSUME SndArrays(o, r, S, f), o.lastInsertPos = i, o.length = n + (z - a + 1)
       PROVE  SndGrown(o, r, S, a, Cover(S, e) \cup (x .. y), A, D)
  <2>1. SndLoose(o, r, S, f, a, A, D)
    BY <1>2, <1>8, <1>10, <1>11, <1>12, <1>13 DEF SndLoose
  <2> QED
    BY <1>10, <2>1 DEF SndGrown
<1>14. Snd!seqlen(first, last) = y - x + 1 /\ (first = last <=> x = y) /\ (Snd!seqcmp(last, Snd!Wrap(u)) > 0 <=> y > u)
       /\ (u <= y => Snd!seqlen(Snd!Wrap(u), last) = y - u + 1)
  <2>1. y - x < SndSeqNoTH /\ x - y < SndSeqNoTH /\ y - u < SndSeqNoTH /\ u - y < SndSeqNoTH
    BY <1>2, <1>8
  <2>2. CloseBy(x, y) /\ CloseBy(y, u)
    BY <1>2, <2>1 DEF CloseBy
  <2>3. first = last <=> x = y
    BY <1>8, <2>2, SndClose
  <2>4. Snd!seqcmp(last, Snd!Wrap(u)) > 0 <=> y > u
    BY <1>8, <2>2, SndClose
  <2>5. Snd!seqlen(first, last) = y - x + 1
    BY <1>8, <2>1, SndStretch
  <2>6. u <= y => Snd!seqlen(Snd!Wrap(u), last) = y - u + 1
    BY <1>2, <1>8, <2>1, SndStretch
  <2> QED
    BY <2>3, <2>4, <2>5, <2>6
\* It ends later.
<1>15. ASSUME u < y, NEW m, m = k.length + (y - u), o = SndEnding(q, i, last, m)
       PROVE  SndGrown(o, r, S, a, Cover(S, e) \cup (x .. y), A, D)
  <2>1. z = y /\ m \in Nat /\ m = n + (z - a + 1)
    BY <1>2, <1>3, <1>8, <1>15
  <2>2. last = SndEnd(a, z)
    <3>1. z # a
      BY <1>2, <1>15, <2>1
    <3> QED
      BY <1>8, <2>1, <3>1 DEF SndEnd
  <2>3. SndArrays(q, r, S, e) /\ a \in S /\ z \in Int /\ m \in Nat /\ f = With(e, a, z)
    BY <1>4, <1>8, <1>12, <2>1
  <2>4. SndArrays(o, r, S, f) /\ o.length = m /\ o.lastInsertPos = q.lastInsertPos
    BY <1>15, <2>2, <2>3, SndEndedArrays
  <2> QED
    BY <1>4, <1>13, <2>1, <2>4
\* It stays.
<1>16. ASSUME ~ u < y, o = q
       PROVE  SndGrown(o, r, S, a, Cover(S, e) \cup (x .. y), A, D)
  <2>1. z = u
    BY <1>8, <1>16
  <2>2. f = e
    BY <1>1, <1>2, <1>8, <2>1 DEF With
  <2> QED
    BY <1>3, <1>4, <1>13, <1>16, <2>1, <2>2
<1>17. CASE end = -1 /\ first # last
  <2>1. u = a /\ x = a /\ x # y
    <3>1. u = a
      BY <1>5, <1>17 DEF SndEnd
    <3> QED
      BY <1>2, <1>8, <1>14, <1>17, <3>1
  <2>2. o = SndEnding(q, i, last, q.length + Snd!seqlen(first, last) - 1)
    BY <1>7, <1>8, <1>17 DEF SndExtends
  <2>3. q.length + Snd!seqlen(first, last) - 1 = k.length + (y - u) /\ u < y
    BY <1>2, <1>3, <1>4, <1>14, <2>1
  <2> QED
    BY <1>15, <2>2, <2>3
<1>18. CASE ~ (end = -1 /\ first # last) /\ end # -1
  <2>1. end = Snd!Wrap(u)
    BY <1>5, <1>18 DEF SndEnd
  <2>2. CASE u < y
    <3>1. o = SndEnding(q, i, last, q.length + Snd!seqlen(end, last) - 1)
      BY <1>7, <1>8, <1>14, <1>18, <2>1, <2>2 DEF SndExtends
    <3>2. q.length + Snd!seqlen(end, last) - 1 = k.length + (y - u)
      BY <1>2, <1>3, <1>4, <1>14, <2>1, <2>2
    <3> QED
      BY <1>15, <2>2, <3>1, <3>2
  <2>3. CASE ~ u < y
    <3>1. o = q
      BY <1>7, <1>8, <1>14, <1>18, <2>1, <2>3 DEF SndExtends
    <3> QED
      BY <1>16, <2>3, <3>1
  <2> QED
    BY <2>2, <2>3
<1>19. CASE ~ (end = -1 /\ first # last) /\ end = -1
  <2>1. ~ u < y
    <3>1. u = a
      BY <1>5, <1>19 DEF SndEnd
    <3>2. x = y
      BY <1>14, <1>19
    <3> QED
      BY <1>2, <1>8, <3>1, <3>2
  <2>2. o = q
    BY <1>7, <1>8, <1>19 DEF SndExtends
  <2> QED
    BY <1>16, <2>1, <2>2
<1> QED
  BY <1>17, <1>18, <1>19

\* A node of its own, for n numbers, with links nx and head hd.
IsPlaced(k, i, first, w, n, nx, hd, o) ==
  /\ o \in SndLists /\ o.length = k.length + n /\ o.lastInsertPos = i /\ o.next = nx /\ o.head = hd
  /\ o.data1 = With(k.data1, i, first) /\ o.data2 = With(k.data2, i, w)

LEMMA SndFilledIs ==
  ASSUME NEW k \in SndLists, NEW i \in Snd!Slots, NEW first \in 0 .. Snd!MaxSeqNo, NEW last \in 0 .. Snd!MaxSeqNo,
         k.data2[i] = -1, NEW n \in Nat, n = Snd!seqlen(first, last),
         NEW w, w = (IF first # last THEN last ELSE -1), NEW o, o = Snd!Fill(k, i, first, last)
  PROVE  IsPlaced(k, i, first, w, n, k.next, k.head, o)
<1> DEFINE c1 == With(k.data1, i, first)
           c2 == With(k.data2, i, w)
           m  == k.length + n
<1>1. /\ k.data1 \in [Snd!Slots -> -1 .. Snd!MaxSeqNo] /\ k.data2 \in [Snd!Slots -> -1 .. Snd!MaxSeqNo]
      /\ k.length \in Nat
  BY DEF SndLists
<1>2. w \in -1 .. Snd!MaxSeqNo /\ i \in -1 .. SndSize - 1 /\ first \in -1 .. Snd!MaxSeqNo /\ m \in Nat
  <2>1. w \in -1 .. Snd!MaxSeqNo /\ first \in -1 .. Snd!MaxSeqNo
    BY SndConstants
  <2>2. i \in -1 .. SndSize - 1
    BY SndConstants
  <2>3. m \in Nat
    BY <1>1
  <2> QED
    BY <2>1, <2>2, <2>3
<1>3. c1 \in [Snd!Slots -> -1 .. Snd!MaxSeqNo] /\ c2 \in [Snd!Slots -> -1 .. Snd!MaxSeqNo]
  BY <1>1, <1>2 DEF With
<1>4. o = [k EXCEPT !.data1 = c1, !.data2 = c2, !.length = m, !.lastInsertPos = i]
  BY DEF Snd!Fill, With, SndLists
<1> HIDE DEF c1, c2, m
<1>5. /\ o \in SndLists /\ o.length = m /\ o.lastInsertPos = i /\ o.next = k.next /\ o.head = k.head
      /\ o.data1 = c1 /\ o.data2 = c2
  BY <1>2, <1>3, <1>4 DEF SndLists
<1> QED
  BY <1>5 DEF IsPlaced, c1, c2, m

LEMMA SndRelinked ==
  ASSUME NEW k, NEW i, NEW first, NEW w, NEW n, NEW p, IsPlaced(k, i, first, w, n, k.next, k.head, p),
         NEW nx \in [Snd!Slots -> -1 .. SndSize - 1], NEW hd \in -1 .. SndSize - 1,
         NEW o, o = [p EXCEPT !.next = nx, !.head = hd]
  PROVE  IsPlaced(k, i, first, w, n, nx, hd, o)
<1>1. /\ p \in SndLists /\ p.length = k.length + n /\ p.lastInsertPos = i
      /\ p.data1 = With(k.data1, i, first) /\ p.data2 = With(k.data2, i, w)
  BY DEF IsPlaced
<1>2. /\ o \in SndLists /\ o.length = p.length /\ o.lastInsertPos = p.lastInsertPos /\ o.next = nx /\ o.head = hd
      /\ o.data1 = p.data1 /\ o.data2 = p.data2
  BY <1>1 DEF SndLists
<1> QED
  BY <1>1, <1>2 DEF IsPlaced

\* x and y are the ends of a range that starts in none of those of S.
Enters(S, e, x, y, A, D) ==
  /\ x \in Int /\ y \in Int /\ A <= x /\ x <= y /\ y < D /\ x \notin S
  /\ \A b \in S : e[b] < x \/ x < b

LEMMA SndPlacedHolds ==
  ASSUME NEW k, NEW r, NEW S, NEW e, NEW A, NEW D, SndHolds(k, r, S, e, A, D), NEW x, NEW y, Enters(S, e, x, y, A, D),
         NEW i, i = Slot(SndSize, r, x), NEW first, first = Snd!Wrap(x), NEW w, w = SndEnd(x, y),
         NEW n, n = y - x + 1, NEW nx, NEW hd, NEW o, IsPlaced(k, i, first, w, n, nx, hd, o),
         Forward(SndSize, r, nx, hd, S \cup {x})
  PROVE  SndGrown(o, r, S \cup {x}, x, Cover(S, e) \cup (x .. y), A, D)
<1> DEFINE U == S \cup {x}
           f == With(e, x, y)
<1>1. /\ SndArrays(k, r, S, e) /\ Fits(S, e, A, D) /\ Ranges(S, e) /\ e \in [Int -> Int] /\ r \in Int
      /\ Nodes(SndCircle, SndSize, r, k.data1, k.data2, S, e) /\ Spread(SndSize, S) /\ S \in SUBSET Int
      /\ k.length = Cardinality(Cover(S, e))
  BY DEF SndHolds, Fits, SndArrays, Spread
<1>2. /\ x \in Int /\ y \in Int /\ A <= x /\ x <= y /\ y < D /\ x \notin S
      /\ \A b \in S : e[b] < x \/ x < b
  BY DEF Enters
<1>3. Spread(SndSize, U) /\ Nearby(SndSize, S, x)
  <2>1. x < D
    <3>1. D \in Int
      BY <1>1 DEF Fits
    <3> QED
      BY <1>2, <3>1
  <2>2. Spread(SndSize, S \cup {x})
    BY <1>1, <1>2, <2>1, SndAllNear
  <2> QED
    BY <1>1, <1>2, <2>2, SndFree
<1>4. /\ o \in SndLists /\ o.length = k.length + n /\ o.lastInsertPos = i /\ o.next = nx /\ o.head = hd
      /\ o.data1 = With(k.data1, i, first) /\ o.data2 = With(k.data2, i, w)
  BY DEF IsPlaced
<1>5. f \in [Int -> Int] /\ f[x] = y /\ \A b \in S : f[b] = e[b]
  BY <1>1, <1>2 DEF With
<1>6. U = S \cup {x} /\ f = With(e, x, y) /\ U \ {x} = S /\ x \in U
  BY <1>2
<1> HIDE DEF U, f
<1>7. Nodes(SndCircle, SndSize, r, o.data1, o.data2, U, f)
  <2>1. first = Carried(SndCircle, x) /\ w = (IF y = x THEN -1 ELSE Carried(SndCircle, y))
    <3>1. Snd!Wrap(x) = Carried(SndCircle, x) /\ Snd!Wrap(y) = Carried(SndCircle, y)
      BY <1>2, SndSteps
    <3> QED
      BY <3>1 DEF SndEnd
  <2>2. SndCircle \in Nat \ {0} /\ SndSize \in Nat \ {0}
    BY SndConstants
  <2>3. o.data1 = With(k.data1, Slot(SndSize, r, x), Carried(SndCircle, x)) /\ o.data2 = With(k.data2, Slot(SndSize, r, x), w)
    BY <1>4, <2>1
  <2>4. Nodes(SndCircle, SndSize, r, o.data1, o.data2, S \cup {x}, With(e, x, y))
    BY <1>1, <1>2, <1>3, <2>1, <2>2, <2>3, NodeAdded
  <2> QED
    BY <1>6, <2>4
<1>8. SndArrays(o, r, U, f)
  <2>1. SndMarked(o.lastInsertPos, r, U)
    BY <1>4, <1>6 DEF SndMarked
  <2> QED
    BY <1>1, <1>3, <1>4, <1>5, <1>6, <1>7, <2>1 DEF SndArrays
<1>9. Ranges(S, f) /\ Cover(S, f) = Cover(S, e)
  <2>1. Ranges(S, f)
    BY <1>1, <1>5 DEF Ranges
  <2> QED
    BY <1>5, <2>1 DEF Cover
<1>10. Loose(U, f, x)
  <2>1. U \in SUBSET Int
    BY <1>1, <1>2, <1>6
  <2>2. \A b \in U \ {x} : f[b] < x \/ x < b
    BY <1>2, <1>5, <1>6
  <2> QED
    BY <1>2, <1>5, <1>6, <1>9, <2>1, <2>2 DEF Loose
<1>11. Cover(U, f) = Cover(S, e) \cup (x .. y)
  <2>1. \A u \in Int : (\E b \in U : b <= u /\ u <= f[b]) <=> ((\E b \in S : b <= u /\ u <= e[b]) \/ (x <= u /\ u <= y))
    BY <1>5, <1>6
  <2>2. \A u \in Int : u \in x .. y <=> (x <= u /\ u <= y)
    BY <1>2
  <2>3. x .. y \subseteq Int
    BY <1>2
  <2> QED
    BY <2>1, <2>2, <2>3 DEF Cover
<1>12. Fits(U \ {x}, f, A, D)
  BY <1>1, <1>6, <1>9 DEF Fits
<1>13. o.length = Cardinality(Cover(U \ {x}, f)) + (f[x] - x + 1)
  BY <1>1, <1>4, <1>5, <1>6, <1>9
<1>14. SndLoose(o, r, U, f, x, A, D)
  <2>1. o.lastInsertPos = Slot(SndSize, r, x) /\ A <= x /\ f[x] < D
    BY <1>2, <1>4, <1>5
  <2> QED
    BY <1>8, <1>10, <1>12, <1>13, <2>1 DEF SndLoose
<1> QED
  BY <1>6, <1>11, <1>14 DEF SndGrown

SndFronted(k, i, first, last) == [Snd!Fill(k, i, first, last) EXCEPT !.next[i] = k.head, !.head = i]

SndLinked(k, i, b, first, last) ==
  [Snd!Fill(k, i, first, last) EXCEPT !.next[i] = k.next[b], !.next[b] = i]

\* A node of its own, at the front or after the one at b.
LEMMA SndFrontedIs ==
  ASSUME NEW k \in SndLists, NEW i \in Snd!Slots, NEW first \in 0 .. Snd!MaxSeqNo, NEW last \in 0 .. Snd!MaxSeqNo,
         k.data2[i] = -1, NEW n \in Nat, n = Snd!seqlen(first, last),
         NEW w, w = (IF first # last THEN last ELSE -1), NEW o, o = SndFronted(k, i, first, last)
  PROVE  IsPlaced(k, i, first, w, n, With(k.next, i, k.head), i, o)
<1> DEFINE p == Snd!Fill(k, i, first, last)
           nx == With(k.next, i, k.head)
<1>1. IsPlaced(k, i, first, w, n, k.next, k.head, p)
  BY SndFilledIs
<1>2. nx \in [Snd!Slots -> -1 .. SndSize - 1] /\ i \in -1 .. SndSize - 1
  <2>1. i \in -1 .. SndSize - 1
    BY SndConstants
  <2>2. k.next \in [Snd!Slots -> -1 .. SndSize - 1] /\ k.head \in -1 .. SndSize - 1
    BY DEF SndLists
  <2> QED
    BY <2>1, <2>2 DEF With
<1>3. o = [p EXCEPT !.next[i] = k.head, !.head = i]
  BY DEF SndFronted
<1> HIDE DEF p
<1>4. o = [p EXCEPT !.next = nx, !.head = i]
  <2>1. p \in SndLists /\ p.next = k.next
    BY <1>1 DEF IsPlaced
  <2> QED
    BY <1>3, <2>1 DEF SndLists, With
<1> HIDE DEF nx
<1>5. IsPlaced(k, i, first, w, n, nx, i, o)
  BY <1>1, <1>2, <1>4, SndRelinked
<1> QED
  BY <1>5 DEF nx

LEMMA SndLinkedIs ==
  ASSUME NEW k \in SndLists, NEW i \in Snd!Slots, NEW first \in 0 .. Snd!MaxSeqNo, NEW last \in 0 .. Snd!MaxSeqNo,
         k.data2[i] = -1, NEW n \in Nat, n = Snd!seqlen(first, last), NEW b \in Snd!Slots,
         NEW w, w = (IF first # last THEN last ELSE -1), NEW o, o = SndLinked(k, i, b, first, last)
  PROVE  IsPlaced(k, i, first, w, n, With(With(k.next, i, k.next[b]), b, i), k.head, o)
<1> DEFINE p == Snd!Fill(k, i, first, last)
           nx == With(With(k.next, i, k.next[b]), b, i)
<1>1. IsPlaced(k, i, first, w, n, k.next, k.head, p)
  BY SndFilledIs
<1>2. nx \in [Snd!Slots -> -1 .. SndSize - 1] /\ k.head \in -1 .. SndSize - 1
  <2>1. i \in -1 .. SndSize - 1
    BY SndConstants
  <2>2. k.next \in [Snd!Slots -> -1 .. SndSize - 1] /\ k.head \in -1 .. SndSize - 1
    BY DEF SndLists
  <2>3. k.next[b] \in -1 .. SndSize - 1
    BY <2>2
  <2> QED
    BY <2>1, <2>2, <2>3 DEF With
<1>3. o = [p EXCEPT !.next[i] = k.next[b], !.next[b] = i]
  BY DEF SndLinked
<1> HIDE DEF p
<1>4. o = [p EXCEPT !.next = nx, !.head = k.head]
  <2>1. p \in SndLists /\ p.next = k.next /\ p.head = k.head
    BY <1>1 DEF IsPlaced
  <2> QED
    BY <1>3, <2>1 DEF SndLists, With
<1> HIDE DEF nx
<1>5. IsPlaced(k, i, first, w, n, nx, k.head, o)
  BY <1>1, <1>2, <1>4, SndRelinked
<1> QED
  BY <1>5 DEF nx

\* What insert has done, by the way that it takes: it is the first, it comes before all others,
\* it starts where another does, it comes after the one at b, it starts in the one at b.
SndInserts(k, i, b, first, last, o) ==
  LET off == Snd!seqoff(k.data1[k.head], first)
      apart == k.data2[b] = -1 \/ Snd!seqcmp(k.data2[b], first) < 0
  IN
    \/ k.length = 0 /\ o = [Snd!Fill(k, 0, first, last) EXCEPT !.head = 0, !.next[0] = -1]
    \/ k.length # 0 /\ off < 0 /\ o = Snd!Coalesced(SndFronted(k, i, first, last), i)
    \/ /\ k.length # 0 /\ ~ off < 0 /\ k.data1[i] = first
       /\ o = Snd!Coalesced(Snd!Extend(SndMark(k, i), i, first, last), i)
    \/ /\ k.length # 0 /\ ~ off < 0 /\ k.data1[i] # first
       /\ \/ apart /\ o = Snd!Coalesced(SndLinked(k, i, b, first, last), i)
          \/ ~ apart /\ o = Snd!Coalesced(Snd!Extend(SndMark(k, b), b, first, last), b)

LEMMA SndInsertsIs ==
  ASSUME NEW k, NEW first, NEW last, NEW i, i = Snd!Place(k, first),
         NEW b, b = Snd!LastBefore(k, Snd!StartOf(k, first), first), NEW o, o = Snd!Inserted(k, first, last)
  PROVE  SndInserts(k, i, b, first, last, o)
<1> DEFINE off == Snd!seqoff(k.data1[k.head], first)
           apart == k.data2[b] = -1 \/ Snd!seqcmp(k.data2[b], first) < 0
           o0 == [Snd!Fill(k, 0, first, last) EXCEPT !.head = 0, !.next[0] = -1]
           o1 == Snd!Coalesced(SndFronted(k, i, first, last), i)
           o2 == Snd!Coalesced(Snd!Extend(SndMark(k, i), i, first, last), i)
           o3 == Snd!Coalesced(SndLinked(k, i, b, first, last), i)
           o4 == Snd!Coalesced(Snd!Extend(SndMark(k, b), b, first, last), b)
<1>1. o = IF k.length = 0 THEN o0 ELSE IF off < 0 THEN o1 ELSE IF k.data1[i] = first THEN o2
          ELSE IF apart THEN o3 ELSE o4
  BY DEF Snd!Inserted, SndFronted, SndLinked, SndMark, Snd!None
<1>2. \/ k.length = 0 /\ o = o0
      \/ k.length # 0 /\ off < 0 /\ o = o1
      \/ k.length # 0 /\ ~ off < 0 /\ k.data1[i] = first /\ o = o2
      \/ k.length # 0 /\ ~ off < 0 /\ k.data1[i] # first /\ ((apart /\ o = o3) \/ (~ apart /\ o = o4))
  <2> HIDE DEF off, apart, o0, o1, o2, o3, o4
  <2> QED
    BY <1>1, Zenon
<1> QED
  BY <1>2, Zenon DEF SndInserts

\* Where the search for the node before x starts.
LEMMA SndStarts ==
  ASSUME NEW k, NEW r, NEW S, NEW e, SndArrays(k, r, S, e), NEW h, SndFront(k, r, S, e, h),
         NEW x \in Int, h < x, AllClose(S, x)
  PROVE  \E a \in S : a < x /\ Snd!StartOf(k, Snd!Wrap(x)) = Slot(SndSize, r, a)
<1> DEFINE p == k.lastInsertPos
           seq == Snd!Wrap(x)
           begins == Snd!StartOf(k, seq)
<1>1. begins = IF p # -1 /\ Snd!seqcmp(k.data1[p], seq) < 0 THEN p ELSE k.head
  BY DEF Snd!StartOf, Snd!None
<1>2. h \in S /\ k.head = Slot(SndSize, r, h)
  BY DEF SndFront
<1>3. SndMarked(p, r, S)
  BY DEF SndArrays
<1> HIDE DEF p, begins
<1>4. CASE p # -1 /\ Snd!seqcmp(k.data1[p], seq) < 0
  <2>1. begins = p
    BY <1>1, <1>4
  <2>2. PICK a \in S : p = Slot(SndSize, r, a)
    BY <1>3, <1>4 DEF SndMarked
  <2>3. SndPlace(k, r, S, Slot(SndSize, r, a), a, e[a])
    BY SndNode
  <2>4. k.data1[p] = Snd!Wrap(a)
    BY <2>2, <2>3 DEF SndPlace
  <2>5. CloseBy(a, x)
    BY DEF AllClose
  <2>6. a < x
    BY <1>4, <2>4, <2>5, SndClose
  <2> QED
    BY <2>1, <2>2, <2>6 DEF begins
<1>5. CASE ~ (p # -1 /\ Snd!seqcmp(k.data1[p], seq) < 0)
  <2>1. begins = k.head
    BY <1>1, <1>5
  <2> QED
    BY <1>2, <2>1 DEF begins
<1> QED
  BY <1>4, <1>5

LEMMA SndGrownHolds ==
  ASSUME NEW q, NEW r, NEW S, NEW a, NEW C, NEW A, NEW D, SndGrown(q, r, S, a, C, A, D),
         NEW o, o = Snd!Coalesced(q, Slot(SndSize, r, a))
  PROVE  SndGot(o, C, A, D)
<1>1. PICK f : SndLoose(q, r, S, f, a, A, D) /\ Cover(S, f) = C
  BY DEF SndGrown
<1>2. SndGot(o, Cover(S, f), A, D)
  BY <1>1, SndCoalescedHolds
<1> QED
  BY <1>1, <1>2

\* An empty list may count its slots from anywhere.
LEMMA SndEmptyHolds ==
  ASSUME NEW k, NEW r, NEW S, NEW e, NEW A, NEW D, SndHolds(k, r, S, e, A, D), S = {}, NEW x \in Int
  PROVE  /\ SndHolds(k, x, {}, e, A, D) /\ k.head = -1 /\ k.length = 0 /\ Slot(SndSize, x, x) = 0 /\ 0 \in Snd!Slots
         /\ k.data2[0] = -1 /\ k \in SndLists
<1>1. SndArrays(k, r, {}, e) /\ Fits({}, e, A, D) /\ k.length = Cardinality(Cover({}, e))
  BY DEF SndHolds
<1>2. /\ k \in SndLists /\ e \in [Int -> Int] /\ Spread(SndSize, {})
      /\ Nodes(SndCircle, SndSize, r, k.data1, k.data2, {}, e)
      /\ Forward(SndSize, r, k.next, k.head, {}) /\ SndMarked(k.lastInsertPos, r, {})
  BY <1>1 DEF SndArrays
<1>3. Nodes(SndCircle, SndSize, x, k.data1, k.data2, {}, e)
  BY <1>2 DEF Nodes
<1>4. Forward(SndSize, x, k.next, k.head, {}) /\ k.head = -1
  BY <1>2 DEF Forward, IsLeast, IsGreatest, Adjacent
<1>5. SndMarked(k.lastInsertPos, x, {})
  BY <1>2 DEF SndMarked
<1>6. SndHolds(k, x, {}, e, A, D)
  BY <1>1, <1>2, <1>3, <1>4, <1>5 DEF SndArrays, SndHolds
<1>7. Slot(SndSize, x, x) = 0 /\ 0 \in Snd!Slots
  <2>1. SndSize \in Nat \ {0}
    BY SndConstants
  <2> QED
    BY <2>1, SlotFacts, SndConstants
<1>8. k.data2[0] = -1
  <2>1. 0 \in 0 .. SndSize - 1
    BY <1>7, SndConstants
  <2> QED
    BY <1>2, <2>1 DEF Nodes
<1>9. k.length = 0
  BY SndFronts
<1> QED
  BY <1>2, <1>4, <1>6, <1>7, <1>8, <1>9

\* The node of a range that starts in no other, before all of them.
LEMMA SndFrontedHolds ==
  ASSUME NEW k, NEW r, NEW S, NEW e, NEW A, NEW D, SndHolds(k, r, S, e, A, D),
         NEW x \in Int, NEW y \in Int, A <= x, x <= y, y < D, \A b \in S : x < b,
         NEW i, i = Slot(SndSize, r, x), NEW o, o = SndFronted(k, i, Snd!Wrap(x), Snd!Wrap(y))
  PROVE  SndGrown(o, r, S \cup {x}, x, Cover(S, e) \cup (x .. y), A, D)
<1> DEFINE first == Snd!Wrap(x)
           last == Snd!Wrap(y)
           n == y - x + 1
           w == SndEnd(x, y)
           nx == With(k.next, i, k.head)
<1>1. /\ SndArrays(k, r, S, e) /\ Fits(S, e, A, D) /\ k \in SndLists /\ r \in Int
      /\ Forward(SndSize, r, k.next, k.head, S)
      /\ A \in Int /\ D \in Int /\ D - A <= SndSpan /\ SndSpan < SndSeqNoTH /\ SndSpan \in Int /\ SndSeqNoTH \in Int
      /\ SndSize \in Nat \ {0}
  BY SndConstants DEF SndHolds, SndArrays, Fits
<1>2. x < D /\ y - x < SndSeqNoTH /\ x - y < SndSeqNoTH /\ n \in Nat
  BY <1>1
<1>3. Spread(SndSize, S \cup {x}) /\ \A b \in S : b \in Int
  BY <1>1, <1>2, SndAllNear
<1>4. x \notin S
  BY <1>3
<1>5. i \in Snd!Slots /\ k.data2[i] = -1
  BY <1>1, <1>3, <1>4, SndFree
<1>6. first \in 0 .. Snd!MaxSeqNo /\ last \in 0 .. Snd!MaxSeqNo /\ n = Snd!seqlen(first, last)
      /\ w = (IF first # last THEN last ELSE -1)
  <2>1. CloseBy(x, y)
    BY <1>2 DEF CloseBy
  <2>2. first = last <=> x = y
    BY <2>1, SndClose
  <2>3. n = Snd!seqlen(first, last)
    BY <1>2, SndStretch
  <2> QED
    BY <2>2, <2>3, SndSteps DEF SndEnd
<1>7. o = SndFronted(k, i, first, last) /\ first = Snd!Wrap(x) /\ w = SndEnd(x, y) /\ n = y - x + 1
      /\ nx = With(k.next, i, k.head)
  OBVIOUS
<1> HIDE DEF first, last, n, w, nx
<1>8. IsPlaced(k, i, first, w, n, nx, i, o)
  BY <1>1, <1>2, <1>5, <1>6, <1>7, SndFrontedIs
<1>9. Forward(SndSize, r, nx, i, S \cup {x})
  <2>1. nx = With(k.next, Slot(SndSize, r, x), k.head)
    BY <1>7
  <2> QED
    BY <1>1, <1>3, <2>1, ForwardFront
<1>10. Enters(S, e, x, y, A, D)
  BY <1>4 DEF Enters
<1> QED
  BY <1>7, <1>8, <1>9, <1>10, SndPlacedHolds

\* The node of a range that starts after the one at b, and not in it.
LEMMA SndLinkedHolds ==
  ASSUME NEW k, NEW r, NEW S, NEW e, NEW A, NEW D, SndHolds(k, r, S, e, A, D),
         NEW x \in Int, NEW y \in Int, A <= x, x <= y, y < D, NEW b, Last(S, b, x), e[b] < x,
         NEW i, i = Slot(SndSize, r, x), NEW j, j = Slot(SndSize, r, b),
         NEW o, o = SndLinked(k, i, j, Snd!Wrap(x), Snd!Wrap(y))
  PROVE  SndGrown(o, r, S \cup {x}, x, Cover(S, e) \cup (x .. y), A, D)
<1> DEFINE first == Snd!Wrap(x)
           last == Snd!Wrap(y)
           n == y - x + 1
           w == SndEnd(x, y)
           nx == With(With(k.next, i, k.next[j]), j, i)
<1>1. /\ SndArrays(k, r, S, e) /\ Fits(S, e, A, D) /\ k \in SndLists /\ r \in Int /\ Ranges(S, e)
      /\ Forward(SndSize, r, k.next, k.head, S)
      /\ A \in Int /\ D \in Int /\ D - A <= SndSpan /\ SndSpan < SndSeqNoTH /\ SndSpan \in Int /\ SndSeqNoTH \in Int
      /\ SndSize \in Nat \ {0}
  BY SndConstants DEF SndHolds, SndArrays, Fits
<1>2. x < D /\ y - x < SndSeqNoTH /\ x - y < SndSeqNoTH /\ n \in Nat
  BY <1>1
<1>3. Spread(SndSize, S \cup {x}) /\ \A c \in S : c \in Int /\ e[c] \in Int /\ c <= e[c]
  BY <1>1, <1>2, SndAllNear
<1>4. b \in S /\ b < x /\ (\A c \in S : c <= b \/ x < c) /\ x \notin S
  <2>1. b \in S /\ \A c \in S : c <= b \/ x < c
    BY DEF Last
  <2>2. b < x
    BY <1>3, <2>1
  <2> QED
    BY <1>3, <2>1, <2>2
<1>5. i \in Snd!Slots /\ k.data2[i] = -1 /\ j \in Snd!Slots
  <2>1. i \in Snd!Slots /\ k.data2[i] = -1
    BY <1>1, <1>3, <1>4, SndFree
  <2>2. SndPlace(k, r, S, Slot(SndSize, r, b), b, e[b])
    BY <1>1, <1>4, SndNode
  <2> QED
    BY <2>1, <2>2 DEF SndPlace
<1>6. first \in 0 .. Snd!MaxSeqNo /\ last \in 0 .. Snd!MaxSeqNo /\ n = Snd!seqlen(first, last)
      /\ w = (IF first # last THEN last ELSE -1)
  <2>1. CloseBy(x, y)
    BY <1>2 DEF CloseBy
  <2>2. first = last <=> x = y
    BY <2>1, SndClose
  <2>3. n = Snd!seqlen(first, last)
    BY <1>2, SndStretch
  <2> QED
    BY <2>2, <2>3, SndSteps DEF SndEnd
<1>7. o = SndLinked(k, i, j, first, last) /\ first = Snd!Wrap(x) /\ w = SndEnd(x, y) /\ n = y - x + 1
      /\ nx = With(With(k.next, i, k.next[j]), j, i)
  OBVIOUS
<1> HIDE DEF first, last, n, w, nx
<1>8. IsPlaced(k, i, first, w, n, nx, k.head, o)
  BY <1>1, <1>2, <1>5, <1>6, <1>7, SndLinkedIs
<1>9. Forward(SndSize, r, nx, k.head, S \cup {x})
  <2>1. nx = With(With(k.next, Slot(SndSize, r, x), k.next[Slot(SndSize, r, b)]), Slot(SndSize, r, b), Slot(SndSize, r, x))
    BY <1>7
  <2> QED
    BY <1>1, <1>3, <1>4, <2>1, ForwardAfter
<1>10. Enters(S, e, x, y, A, D)
  <2>1. \A c \in S : e[c] < x \/ x < c
    <3> TAKE c \in S
    <3>1. c \in Int /\ b \in Int /\ e[c] \in Int /\ e[b] \in Int /\ (c <= b \/ x < c)
      BY <1>3, <1>4
    <3>2. c < b => e[c] < b
      BY <1>1, <1>4 DEF Ranges
    <3>3. CASE c = b
      BY <3>3
    <3>4. CASE c < b
      BY <1>4, <3>1, <3>2, <3>4
    <3> QED
      BY <3>1, <3>3, <3>4
  <2> QED
    BY <1>4, <2>1 DEF Enters
<1> QED
  BY <1>7, <1>8, <1>9, <1>10, SndPlacedHolds

LEMMA SndInsertedHolds ==
  ASSUME NEW k, NEW r, NEW S, NEW e, NEW A, NEW D, SndHolds(k, r, S, e, A, D),
         NEW x \in Int, NEW y \in Int, A <= x, x <= y, y < D, NEW o, o = Snd!Inserted(k, Snd!Wrap(x), Snd!Wrap(y))
  PROVE  SndGot(o, Cover(S, e) \cup (x .. y), A, D)
<1> DEFINE first == Snd!Wrap(x)
           last == Snd!Wrap(y)
           i == Snd!Place(k, first)
           before == Snd!LastBefore(k, Snd!StartOf(k, first), first)
           W == Cover(S, e) \cup (x .. y)
<1>1. SndArrays(k, r, S, e) /\ Fits(S, e, A, D) /\ r \in Int /\ A \in Int /\ D \in Int /\ x < D
  BY DEF SndHolds, SndArrays, Fits
<1>2. /\ AllClose(S, x) /\ Spread(SndSize, S \cup {x})
      /\ \A c \in S : CloseBy(e[c], x) /\ c \in Int /\ e[c] \in Int /\ c <= e[c] /\ A <= c /\ e[c] < D
  BY <1>1, SndAllNear
<1>3. SndInserts(k, i, before, first, last, o)
  BY SndInsertsIs
<1>4. first = Snd!Wrap(x) /\ last = Snd!Wrap(y) /\ first # -1
  BY SndSteps
<1>5. i = Snd!Place(k, first) /\ before = Snd!LastBefore(k, Snd!StartOf(k, first), first) /\ W = Cover(S, e) \cup (x .. y)
  OBVIOUS
<1> HIDE DEF first, last, i, before, W
\* The first of all.
<1>6. CASE S = {}
  <2>1. /\ SndHolds(k, x, {}, e, A, D) /\ k.head = -1 /\ k.length = 0 /\ Slot(SndSize, x, x) = 0 /\ 0 \in Snd!Slots
        /\ k \in SndLists
    BY <1>6, SndEmptyHolds
  <2>2. o = [Snd!Fill(k, 0, first, last) EXCEPT !.head = 0, !.next[0] = -1]
    BY <1>3, <2>1 DEF SndInserts
  <2>3. o = SndFronted(k, 0, first, last)
    <3> DEFINE p == Snd!Fill(k, 0, first, last)
    <3>1. [p EXCEPT !.head = 0, !.next[0] = -1] = [p EXCEPT !.next[0] = -1, !.head = 0]
      <4>1. DOMAIN p = DOMAIN k /\ "next" \in DOMAIN k /\ "head" \in DOMAIN k
        BY <2>1 DEF SndLists, Snd!Fill
      <4> HIDE DEF p
      <4> QED
        BY <4>1
    <3> QED
      BY <2>1, <2>2, <3>1 DEF SndFronted
  <2>4. SndGrown(o, x, {x}, x, W, A, D)
    <3>1. \A b \in {} : x < b
      OBVIOUS
    <3>2. 0 = Slot(SndSize, x, x) /\ o = SndFronted(k, 0, Snd!Wrap(x), Snd!Wrap(y))
      BY <1>4, <2>1, <2>3
    <3>3. SndGrown(o, x, {} \cup {x}, x, Cover({}, e) \cup (x .. y), A, D)
      BY <2>1, <3>1, <3>2, SndFrontedHolds
    <3>4. {} \cup {x} = {x} /\ Cover({}, e) = Cover(S, e)
      BY <1>6
    <3> QED
      BY <1>5, <3>3, <3>4
  <2>5. PICK f : SndLoose(o, x, {x}, f, x, A, D) /\ Cover({x}, f) = W
    BY <2>4 DEF SndGrown
  <2>6. Ranges({x}, f)
    <3>1. Loose({x}, f, x)
      BY <2>5 DEF SndLoose
    <3>2. \A b \in {x} : b <= x
      OBVIOUS
    <3> QED
      BY <3>1, <3>2, LooseEnds
  <2>7. SndHolds(o, x, {x}, f, A, D)
    BY <2>5, <2>6, SndLooseHolds
  <2> QED
    BY <1>5, <2>5, <2>7 DEF SndGot
<1>7. CASE S # {}
  <2>1. PICK h : SndFront(k, r, S, e, h)
    BY <1>7, SndFronts
  <2>2. h \in S /\ h \in Int /\ (\A a \in S : h <= a) /\ k.length # 0
    BY <1>7, <2>1, SndFronts DEF SndFront, IsLeast
  <2>3. i = Slot(SndSize, r, x) /\ Snd!seqoff(k.data1[k.head], first) = x - h
    <3>1. CloseBy(h, x)
      BY <1>2, <2>2 DEF AllClose
    <3> QED
      BY <1>1, <1>4, <1>5, <2>1, <3>1, SndPlaces
  <2>4. x - h < 0 <=> x < h
    BY <2>2
\* It extends the range that starts at a.
  <2>5. ASSUME NEW a \in S, a <= x, x <= e[a], NEW j, j = Slot(SndSize, r, a),
               o = Snd!Coalesced(Snd!Extend(SndMark(k, j), j, first, last), j)
        PROVE  SndGot(o, W, A, D)
    <3> DEFINE q == SndMark(k, j)
               t == Snd!Extend(q, j, first, last)
    <3>1. o = Snd!Coalesced(t, Slot(SndSize, r, a)) /\ q = SndMark(k, j)
          /\ t = Snd!Extend(q, j, Snd!Wrap(x), Snd!Wrap(y))
      BY <1>4, <2>5
    <3> HIDE DEF q, t
    <3>2. SndGrown(t, r, S, a, Cover(S, e) \cup (x .. y), A, D)
      BY <2>5, <3>1, SndExtendHolds
    <3>3. SndGrown(t, r, S, a, W, A, D)
      BY <1>5, <3>2
    <3> QED
      BY <3>1, <3>3, SndGrownHolds
\* It comes first.
  <2>6. CASE x < h
    <3> DEFINE t == SndFronted(k, i, first, last)
    <3>1. o = Snd!Coalesced(t, i)
      BY <1>3, <2>2, <2>3, <2>4, <2>6 DEF SndInserts
    <3>2. t = SndFronted(k, i, Snd!Wrap(x), Snd!Wrap(y))
      BY <1>4
    <3> HIDE DEF t
    <3>3. \A b \in S : x < b
      BY <1>2, <2>2, <2>6
    <3>4. SndGrown(t, r, S \cup {x}, x, Cover(S, e) \cup (x .. y), A, D)
      BY <2>3, <3>2, <3>3, SndFrontedHolds
    <3>5. SndGrown(t, r, S \cup {x}, x, W, A, D)
      BY <1>5, <3>4
    <3> QED
      BY <1>5, <2>3, <3>1, <3>5, SndGrownHolds
\* It starts where another does.
  <2>7. CASE ~ x < h /\ x \in S
    <3>1. SndPlace(k, r, S, Slot(SndSize, r, x), x, e[x])
      BY <1>1, <2>7, SndNode
    <3>2. k.data1[i] = first
      BY <1>4, <2>3, <3>1 DEF SndPlace
    <3>3. o = Snd!Coalesced(Snd!Extend(SndMark(k, i), i, first, last), i)
      BY <1>3, <2>2, <2>3, <2>4, <2>7, <3>2 DEF SndInserts
    <3>4. x <= x /\ x <= e[x]
      BY <1>2, <2>7
    <3> QED
      BY <1>5, <2>3, <2>5, <2>7, <3>3, <3>4
\* It comes after others.
  <2>8. CASE ~ x < h /\ x \notin S
    <3>1. k.data1[i] # first
      <4>1. k.data1[Slot(SndSize, r, x)] = -1
        BY <1>1, <1>2, <2>8, SndFree
      <4> QED
        BY <1>4, <2>3, <4>1
    <3>2. h < x
      BY <2>2, <2>8
    <3>3. PICK a \in S : a < x /\ Snd!StartOf(k, Snd!Wrap(x)) = Slot(SndSize, r, a)
      BY <1>1, <1>2, <2>1, <3>2, SndStarts
    <3>4. PICK b \in S : Precedes(S, b, x) /\ before = Slot(SndSize, r, b)
      <4>1. before = Snd!LastBefore(k, Slot(SndSize, r, a), Snd!Wrap(x))
        BY <1>4, <1>5, <3>3
      <4>2. a \in S /\ a < x /\ AllClose(S, x)
        BY <1>2, <3>3
      <4> QED
        BY <1>1, <4>1, <4>2, SndLastBefore
    <3>5. Last(S, b, x) /\ b < x
      <4>1. b < x /\ \A c \in S : c <= b \/ x <= c
        BY <3>4 DEF Precedes
      <4>2. \A c \in S : c <= b \/ x < c
        <5> TAKE c \in S
        <5>1. c \in Int /\ c # x
          BY <1>2, <2>8
        <5> QED
          BY <4>1, <5>1
      <4>3. b <= x
        BY <1>2, <4>1
      <4> QED
        BY <4>1, <4>2, <4>3 DEF Last
    <3>6. /\ k.data2[before] = SndEnd(b, e[b]) /\ Snd!Wrap(e[b]) # -1 /\ e[b] \in Int /\ b \in Int /\ b <= e[b]
      <4>1. SndPlace(k, r, S, Slot(SndSize, r, b), b, e[b])
        BY <1>1, SndNode
      <4> QED
        BY <1>2, <3>4, <4>1 DEF SndPlace, SndEnd
    <3>7. Snd!seqcmp(Snd!Wrap(e[b]), first) < 0 <=> e[b] < x
      BY <1>2, <1>4, SndClose
    <3>8. (k.data2[before] = -1 \/ Snd!seqcmp(k.data2[before], first) < 0) <=> e[b] < x
      <4>1. CASE e[b] = b
        BY <3>5, <3>6, <4>1 DEF SndEnd
      <4>2. CASE e[b] # b
        <5>1. k.data2[before] = Snd!Wrap(e[b])
          BY <3>6, <4>2 DEF SndEnd
        <5> QED
          BY <3>6, <3>7, <5>1
      <4> QED
        BY <4>1, <4>2
    <3>9. \/ e[b] < x /\ o = Snd!Coalesced(SndLinked(k, i, before, first, last), i)
          \/ ~ e[b] < x /\ o = Snd!Coalesced(Snd!Extend(SndMark(k, before), before, first, last), before)
      BY <1>3, <2>2, <2>3, <2>4, <2>8, <3>1, <3>8, Zenon DEF SndInserts
    <3>10. CASE e[b] < x /\ o = Snd!Coalesced(SndLinked(k, i, before, first, last), i)
      <4> DEFINE t == SndLinked(k, i, before, first, last)
      <4>1. o = Snd!Coalesced(t, i)
        BY <3>10
      <4>2. t = SndLinked(k, i, before, Snd!Wrap(x), Snd!Wrap(y))
        BY <1>4
      <4> HIDE DEF t
      <4>3. SndGrown(t, r, S \cup {x}, x, Cover(S, e) \cup (x .. y), A, D)
        BY <2>3, <3>4, <3>5, <3>10, <4>2, SndLinkedHolds
      <4>4. SndGrown(t, r, S \cup {x}, x, W, A, D)
        BY <1>5, <4>3
      <4> QED
        BY <1>5, <2>3, <4>1, <4>4, SndGrownHolds
    <3>11. CASE ~ e[b] < x /\ o = Snd!Coalesced(Snd!Extend(SndMark(k, before), before, first, last), before)
      <4>1. b <= x /\ x <= e[b]
        BY <1>2, <3>5, <3>6, <3>11
      <4> QED
        BY <1>5, <2>5, <3>4, <3>11, <4>1
    <3> QED
      BY <3>9, <3>10, <3>11
  <2> QED
    BY <2>6, <2>7, <2>8
<1> QED
  BY <1>6, <1>7

-----------------------------------------------------------------------------
(* The steps of the sender.                                                 *)

\* cur stands for the number c: before the first packet it may be the number before 0.
SndPoints(cur, c) ==
  /\ cur \in -1 .. Snd!MaxSeqNo /\ c \in Int
  /\ Snd!incseq(cur) = Snd!Wrap(c + 1)

LEMMA SndPointsAt ==
  ASSUME NEW c \in Int
  PROVE  SndPoints(Snd!Wrap(c), c)
<1>1. Snd!Wrap(c) \in 0 .. Snd!MaxSeqNo /\ Snd!incseq(Snd!Wrap(c)) = Snd!Wrap(c + 1)
  BY SndSteps
<1>2. Snd!MaxSeqNo \in Nat
  BY SndConstants
<1> QED
  BY <1>1, <1>2 DEF SndPoints

LEMMA SndPointsAtFirst ==
  ASSUME NEW n \in 0 .. Snd!MaxSeqNo
  PROVE  Snd!Wrap(n) = n /\ SndPoints(n - 1, n - 1)
<1> DEFINE m == SndCircle
<1>1. m \in Nat \ {0} /\ m - 1 = Snd!MaxSeqNo /\ m >= 2 /\ n \in Int
  BY SndConstants
<1>2. Snd!Wrap(n) = n % m
  BY SndConstants DEF Snd!Wrap
<1> HIDE DEF m
<1>3. n % m = n
  <2>1. -m < n - 0 /\ n - 0 < m
    BY <1>1
  <2>2. /\ n % m \in 0 .. m - 1 /\ 0 % m \in 0 .. m - 1
        /\ (n % m) - (0 % m) \in {n - 0, n - 0 - m, n - 0 + m}
    BY <1>1, <2>1, RemaindersNear
  <2>3. 0 % m = 0
    BY <1>1
  <2> DEFINE a == n % m
             b == 0 % m
  <2>4. a \in 0 .. m - 1 /\ b = 0 /\ a - b \in {n - 0, n - 0 - m, n - 0 + m}
    BY <2>2, <2>3
  <2> HIDE DEF a, b
  <2>5. a = n
    BY <1>1, <2>4
  <2> QED
    BY <2>5 DEF a
<1>4. Snd!Wrap(n) = n
  BY <1>2, <1>3
<1>5. Snd!incseq(n - 1) = n
  BY <1>1 DEF Snd!incseq
<1>6. (n - 1) + 1 = n /\ n - 1 \in Int /\ n - 1 \in -1 .. Snd!MaxSeqNo
  BY <1>1
<1> QED
  BY <1>4, <1>5, <1>6 DEF SndPoints

\* The list holds numbers from A on, the first unacknowledged one, up to c, the last sent.
SndStands(r, S, e, A, c) ==
  /\ A \in Int /\ c \in Int
  /\ SndHolds(s, r, S, e, A, c + 1)
  /\ SndLastDataAck = Snd!Wrap(A) /\ SndPoints(SndCurrSeqNo, c)

SndInv == \E r, S, e, A, c : SndStands(r, S, e, A, c)

\* What the sender reckons with.
LEMMA SndReckons ==
  ASSUME NEW r, NEW S, NEW e, NEW A, NEW c, SndStands(r, S, e, A, c)
  PROVE  /\ A \in Int /\ c \in Int /\ A <= c + 1 /\ c + 1 - A <= SndSpan
         /\ Snd!InFlight = c + 1 - A
         /\ \A k \in Int : Snd!Nth(k) = Snd!Wrap(A + k - 1)
<1>1. A \in Int /\ c \in Int /\ A <= c + 1 /\ c + 1 - A <= SndSpan
  BY DEF SndStands, SndHolds, Fits
<1>2. Snd!InFlight = c + 1 - A
  <2> DEFINE v == c + 1
  <2>1. v \in Int /\ A <= v /\ v - A < SndSeqNoTH
    BY <1>1, SndConstants
  <2>2. Snd!incseq(SndCurrSeqNo) = Snd!Wrap(v) /\ SndLastDataAck = Snd!Wrap(A)
    BY DEF SndStands, SndPoints
  <2> HIDE DEF v
  <2>3. Snd!seqlen(Snd!Wrap(A), Snd!Wrap(v)) = v - A + 1
    BY <1>1, <2>1, SndStretch
  <2>4. Snd!InFlight = (v - A + 1) - 1
    BY <2>2, <2>3 DEF Snd!InFlight
  <2> QED
    BY <1>1, <2>4 DEF v
<1>3. ASSUME NEW k \in Int
      PROVE  Snd!Nth(k) = Snd!Wrap(A + k - 1)
  <2> DEFINE i == k - 1
  <2>1. i \in Int /\ A + i = A + k - 1
    BY <1>1
  <2>2. Snd!Nth(k) = Snd!Wrap(Snd!Wrap(A) + k - 1)
    BY DEF SndStands, Snd!Nth
  <2>3. Snd!Wrap(A) + k - 1 = Snd!Wrap(A) + i
    <3>1. Snd!Wrap(A) \in 0 .. Snd!MaxSeqNo
      BY <1>1, SndSteps
    <3> QED
      BY <3>1, SndConstants
  <2> HIDE DEF i
  <2>4. Snd!Wrap(Snd!Wrap(A) + i) = Snd!Wrap(A + i)
    BY <1>1, <2>1, SndSteps
  <2> QED
    BY <2>1, <2>2, <2>3, <2>4
<1> QED
  BY <1>1, <1>2, <1>3

LEMMA SndSendStep ==
  ASSUME NEW r, NEW S, NEW e, NEW A, NEW c, SndStands(r, S, e, A, c), Snd!Send
  PROVE  \E d : d = c + 1 /\ SndStands(r, S, e, A, d)'
<1> DEFINE d == c + 1
<1>1. s' = s /\ SndLastDataAck' = SndLastDataAck /\ SndCurrSeqNo' = Snd!incseq(SndCurrSeqNo) /\ Snd!InFlight < SndSpan
  BY DEF Snd!Send
<1>2. A \in Int /\ c \in Int /\ A <= d /\ c + 1 - A < SndSpan
  BY <1>1, SndReckons
<1>3. SndArrays(s, r, S, e) /\ Fits(S, e, A, d) /\ s.length = Cardinality(Cover(S, e)) /\ SndLastDataAck = Snd!Wrap(A)
      /\ Snd!incseq(SndCurrSeqNo) = Snd!Wrap(d)
  BY DEF SndStands, SndHolds, SndPoints
<1>4. d \in Int /\ A <= d + 1 /\ d + 1 - A <= SndSpan /\ d + 1 \in Int
  BY <1>2, SndConstants
<1>5. \A u \in Cover(S, e) : A <= u /\ u < d + 1
  <2>1. /\ \A u \in Cover(S, e) : A <= u /\ u < d
        /\ Cover(S, e) \in SUBSET Int
    BY <1>3, SndWithin DEF Fits, Within
  <2> QED
    BY <1>4, <2>1
<1> HIDE DEF d
<1>6. Fits(S, e, A, d + 1)
  BY <1>2, <1>3, <1>4, <1>5 DEF Fits
<1>7. SndHolds(s', r, S, e, A, d + 1)
  BY <1>1, <1>3, <1>6 DEF SndHolds
<1>8. SndPoints(SndCurrSeqNo', d)
  BY <1>1, <1>3, <1>4, SndPointsAt
<1>9. SndStands(r, S, e, A, d)'
  BY <1>1, <1>2, <1>3, <1>4, <1>7, <1>8 DEF SndStands
<1> QED
  BY <1>9 DEF d

\* What a list that changes and numbers that stay make of a step.
SndBecomes(C, A, c) == \E r, T, f : SndStands(r, T, f, A, c)' /\ Cover(T, f) = C

LEMMA SndPickStep ==
  ASSUME NEW r, NEW S, NEW e, NEW A, NEW c, SndStands(r, S, e, A, c), Snd!Pick
  PROVE  \E h : IsLeast(S, h) /\ SndBecomes(Cover(S, e) \ {h}, A, c)
<1>1. s.length > 0 /\ s' = Snd!Beheaded(s) /\ SndLastDataAck' = SndLastDataAck /\ SndCurrSeqNo' = SndCurrSeqNo
  BY DEF Snd!Pick
<1> DEFINE D == c + 1
           o == s'
<1>2. SndHolds(s, r, S, e, A, D)
  BY DEF SndStands
<1>3. o = Snd!Beheaded(s)
  BY <1>1
<1> HIDE DEF D, o
<1>4. S # {}
  <2>1. s.length # 0
    BY <1>1
  <2> QED
    BY <1>2, <2>1, SndFronts
<1>5. PICK h : SndFront(s, r, S, e, h)
  BY <1>2, <1>4, SndFronts
<1>6. IsLeast(S, h)
  BY <1>5 DEF SndFront
<1>7. PICK T, f : SndHolds(o, r, T, f, A, D) /\ Cover(T, f) = Cover(S, e) \ {h}
  BY <1>2, <1>3, <1>6, SndBeheadedHolds
<1>8. SndStands(r, T, f, A, c)'
  BY <1>1, <1>7 DEF SndStands, D, o
<1> QED
  BY <1>6, <1>7, <1>8 DEF SndBecomes

LEMMA SndForgetStep ==
  ASSUME NEW r, NEW S, NEW e, NEW A, NEW c, SndStands(r, S, e, A, c),
         NEW i \in Int, 1 <= i, i <= Snd!InFlight, Snd!Forget(i)
  PROVE  SndBecomes(Beyond(Cover(S, e), A + i - 1), A, c)
<1>1. s' = Snd!Removed(s, Snd!Nth(i)) /\ SndLastDataAck' = SndLastDataAck /\ SndCurrSeqNo' = SndCurrSeqNo
  BY DEF Snd!Forget
<1> DEFINE D == c + 1
           o == s'
           x == A + i - 1
<1>2. SndHolds(s, r, S, e, A, D)
  BY DEF SndStands
<1>3. x \in Int /\ A <= x /\ x < D
  BY SndReckons
<1>4. o = Snd!Removed(s, Snd!Wrap(x))
  BY <1>1, SndReckons
<1> HIDE DEF D, o, x
<1>5. SndLeft(o, r, Cover(S, e), x, A, D)
  BY <1>2, <1>3, <1>4, SndRemovedHolds
<1>6. PICK T, f : SndHolds(o, r, T, f, A, D) /\ Cover(T, f) = Beyond(Cover(S, e), x)
  BY <1>5 DEF SndLeft
<1>7. SndStands(r, T, f, A, c)'
  BY <1>1, <1>6 DEF SndStands, D, o
<1> QED
  BY <1>6, <1>7 DEF SndBecomes, x

LEMMA SndReportStep ==
  ASSUME NEW r, NEW S, NEW e, NEW A, NEW c, SndStands(r, S, e, A, c),
         NEW i \in Int, NEW j \in Int, 1 <= i, i <= j, j <= Snd!InFlight, Snd!Report(i, j)
  PROVE  SndBecomes(Cover(S, e) \cup ((A + i - 1) .. (A + j - 1)), A, c)
<1>1. s' = Snd!Inserted(s, Snd!Nth(i), Snd!Nth(j)) /\ SndLastDataAck' = SndLastDataAck /\ SndCurrSeqNo' = SndCurrSeqNo
  BY DEF Snd!Report
<1> DEFINE D == c + 1
           o == s'
           x == A + i - 1
           y == A + j - 1
<1>2. SndHolds(s, r, S, e, A, D)
  BY DEF SndStands
<1>3. x \in Int /\ y \in Int /\ A <= x /\ x <= y /\ y < D
  BY SndReckons
<1>4. o = Snd!Inserted(s, Snd!Wrap(x), Snd!Wrap(y))
  BY <1>1, SndReckons
<1> HIDE DEF D, o, x, y
<1>5. SndGot(o, Cover(S, e) \cup (x .. y), A, D)
  BY <1>2, <1>3, <1>4, SndInsertedHolds
<1>6. PICK q, T, f : SndHolds(o, q, T, f, A, D) /\ Cover(T, f) = Cover(S, e) \cup (x .. y)
  BY <1>5 DEF SndGot
<1>7. SndStands(q, T, f, A, c)'
  BY <1>1, <1>6 DEF SndStands, D, o
<1> QED
  BY <1>6, <1>7 DEF SndBecomes, x, y

LEMMA SndAcknowledgeStep ==
  ASSUME NEW r, NEW S, NEW e, NEW A, NEW c, SndStands(r, S, e, A, c),
         NEW i \in Int, 1 <= i, i <= Snd!InFlight, Snd!Acknowledge(i)
  PROVE  SndBecomes(Beyond(Cover(S, e), A + i - 1), A + i, c)
<1>1. SndLastDataAck' = Snd!Nth(i + 1) /\ s' = Snd!Removed(s, Snd!decseq(SndLastDataAck')) /\ SndCurrSeqNo' = SndCurrSeqNo
  BY DEF Snd!Acknowledge
<1> DEFINE D == c + 1
           o == s'
           x == A + i - 1
           B == A + i
<1>2. SndHolds(s, r, S, e, A, D)
  BY DEF SndStands
<1>3. x \in Int /\ A <= x /\ x < D /\ B \in Int /\ B <= D /\ A <= B /\ D \in Int /\ x + 1 = B /\ B - 1 = x /\ A \in Int
      /\ A + (i + 1) - 1 = B /\ i + 1 \in Int
  BY SndReckons
<1>4. SndLastDataAck' = Snd!Wrap(B)
  BY <1>1, <1>3, SndReckons
<1>5. Snd!decseq(Snd!Wrap(B)) = Snd!Wrap(x)
  BY <1>3, SndSteps
<1>6. o = Snd!Removed(s, Snd!Wrap(x))
  BY <1>1, <1>4, <1>5
<1> HIDE DEF D, o, x, B
<1>7. SndLeft(o, r, Cover(S, e), x, A, D)
  BY <1>2, <1>3, <1>6, SndRemovedHolds
<1>8. PICK T, f : SndHolds(o, r, T, f, A, D) /\ Cover(T, f) = Beyond(Cover(S, e), x)
  BY <1>7 DEF SndLeft
<1>9. SndHolds(o, r, T, f, B, D)
  <2>1. SndArrays(o, r, T, f) /\ Fits(T, f, A, D) /\ o.length = Cardinality(Cover(T, f))
    BY <1>8 DEF SndHolds
  <2>2. Ranges(T, f) /\ D - A <= SndSpan /\ \A u \in Cover(T, f) : A <= u /\ u < D
    BY <2>1 DEF Fits
  <2>3. D - B <= SndSpan
    BY <1>3, <2>2, SndConstants
  <2>4. \A u \in Cover(T, f) : B <= u /\ u < D
    <3>1. Cover(T, f) \in SUBSET Int
      BY <2>1, SndWithin DEF Within
    <3>2. \A u \in Cover(T, f) : x < u
      BY <1>8 DEF Beyond
    <3> QED
      BY <1>3, <2>2, <3>1, <3>2
  <2>5. Fits(T, f, B, D)
    BY <1>3, <2>2, <2>3, <2>4 DEF Fits
  <2> QED
    BY <2>1, <2>5 DEF SndHolds
<1>10. SndStands(r, T, f, B, c)'
  <2>1. c \in Int /\ SndPoints(SndCurrSeqNo, c)
    BY DEF SndStands
  <2> QED
    BY <1>1, <1>3, <1>4, <1>9, <2>1 DEF SndStands, D, o
<1> QED
  BY <1>8, <1>10 DEF SndBecomes, x, B

-----------------------------------------------------------------------------
(* What the arrays of the sender's list show.                               *)

LEMMA SndChainIs ==
  ASSUME NEW r, NEW S, NEW e, NEW A, NEW D, SndHolds(s, r, S, e, A, D)
  PROVE  Snd!Chain = {Slot(SndSize, r, a) : a \in S}
<1>1. Spread(SndSize, S) /\ (s.length = 0 <=> S = {})
  BY SndFronts DEF SndHolds, SndArrays
<1>2. r \in Int /\ Forward(SndSize, r, s.next, s.head, S) /\ SndSize \in Nat \ {0} /\ SndSize \in Nat
  BY SndConstants DEF SndHolds, SndArrays
<1>3. CASE S = {}
  BY <1>1, <1>3 DEF Snd!Chain
<1>4. CASE S # {}
  <2> DEFINE g == CHOOSE f : IsWalk(f, SndSize, s.next, SndSize)
  <2>1. IsWalk(g, SndSize, s.next, SndSize)
    BY <1>2, WalkExists
  <2>2. Snd!Chain = Snd!Walk[SndSize][s.head]
    BY <1>1, <1>4 DEF Snd!Chain
  <2>3. Snd!Walk = g
    <3>1. \A f : IsWalk(f, SndSize, s.next, SndSize) <=>
            f = [k \in 0 .. SndSize |-> [i \in -1 .. SndSize - 1 |-> IF i = -1 \/ k = 0 THEN {} ELSE {i} \cup f[k - 1][s.next[i]]]]
      BY DEF IsWalk, Ahead
    <3>2. Snd!Walk = CHOOSE f : f = [k \in 0 .. SndSize |-> [i \in -1 .. SndSize - 1 |-> IF i = -1 \/ k = 0 THEN {} ELSE {i} \cup f[k - 1][s.next[i]]]]
      BY DEF Snd!Walk, Snd!None
    <3> QED
      BY <3>1, <3>2, Zenon DEF IsWalk, Ahead
  <2> HIDE DEF g
  <2>4. g[SndSize][s.head] = {Slot(SndSize, r, a) : a \in S}
    BY <1>1, <1>2, <1>4, <2>1, WalkMeets
  <2> QED
    BY <2>2, <2>3, <2>4
<1> QED
  BY <1>3, <1>4

LEMMA SndListedIs ==
  ASSUME NEW r, NEW S, NEW e, NEW A, NEW D, SndHolds(s, r, S, e, A, D)
  PROVE  Snd!Listed = {Snd!Wrap(u) : u \in Cover(S, e)}
<1>1. SndArrays(s, r, S, e) /\ Within(S, e, A, D)
  BY SndWithin DEF SndHolds
<1>2. Snd!Chain = {Slot(SndSize, r, a) : a \in S}
  BY SndChainIs
<1> DEFINE At(a) == Snd!Stretch(s.data1[Slot(SndSize, r, a)], Snd!LastOf(Slot(SndSize, r, a)))
<1>3. ASSUME NEW a \in S
      PROVE  At(a) = {Snd!Wrap(u) : u \in a .. e[a]}
  <2> DEFINE y == e[a]
             i == Slot(SndSize, r, a)
  <2>1. SndPlace(s, r, S, i, a, y)
    BY <1>1, SndNode
  <2>2. a \in Int /\ y \in Int /\ a <= y /\ y - a < SndSeqNoTH
    BY <1>1 DEF Within
  <2> HIDE DEF y, i
  <2>3. s.data1[i] = Snd!Wrap(a) /\ s.data2[i] = (IF y = a THEN -1 ELSE Snd!Wrap(y)) /\ Snd!Wrap(y) # -1
    BY <2>1 DEF SndPlace
  <2>4. Snd!LastOf(i) = Snd!Wrap(y)
    BY <2>3 DEF Snd!LastOf, Snd!None
  <2>5. Snd!Stretch(Snd!Wrap(a), Snd!Wrap(y)) = {Snd!Wrap(u) : u \in a .. y}
    BY <2>2, SndStretch
  <2> QED
    BY <2>3, <2>4, <2>5 DEF y, i
<1>4. Snd!Listed = UNION {At(a) : a \in S}
  BY <1>2 DEF Snd!Listed
<1> HIDE DEF At
<1>5. ASSUME NEW w \in Snd!Listed
      PROVE  w \in {Snd!Wrap(u) : u \in Cover(S, e)}
  <2>1. PICK a \in S : w \in At(a)
    BY <1>4
  <2>2. PICK u \in a .. e[a] : w = Snd!Wrap(u)
    BY <1>3, <2>1
  <2>3. u \in Cover(S, e)
    BY <1>1 DEF Cover, Within
  <2> QED
    BY <2>2, <2>3
<1>6. ASSUME NEW u \in Cover(S, e)
      PROVE  Snd!Wrap(u) \in Snd!Listed
  <2>1. PICK a \in S : a <= u /\ u <= e[a] /\ u \in Int
    BY DEF Cover
  <2>2. u \in a .. e[a]
    BY <1>1, <2>1 DEF Within
  <2>3. Snd!Wrap(u) \in At(a)
    BY <1>3, <2>2
  <2> QED
    BY <1>4, <2>3
<1> QED
  BY <1>5, <1>6

\* Numbers from A on and below D differ.
LEMMA SndWindow ==
  ASSUME NEW A \in Int, NEW D \in Int, D - A <= SndSpan
  PROVE  \A u, v \in Int : A <= u /\ u < D /\ A <= v /\ v < D => CloseBy(u, v) /\ (Snd!Wrap(u) = Snd!Wrap(v) => u = v)
<1>1. SndSpan < SndSeqNoTH /\ SndSpan \in Nat /\ SndSeqNoTH \in Nat
  BY SndConstants
<1> SUFFICES ASSUME NEW u \in Int, NEW v \in Int, A <= u, u < D, A <= v, v < D
             PROVE  CloseBy(u, v) /\ (Snd!Wrap(u) = Snd!Wrap(v) => u = v)
  OBVIOUS
<1>2. CloseBy(u, v)
  BY <1>1 DEF CloseBy
<1> QED
  BY <1>2, SndClose

LEMMA SndApart ==
  ASSUME NEW S, NEW e, NEW A, NEW D, Fits(S, e, A, D)
  PROVE  \A u, v \in Cover(S, e) : CloseBy(u, v) /\ (Snd!Wrap(u) = Snd!Wrap(v) => u = v)
<1>1. /\ A \in Int /\ D \in Int /\ D - A <= SndSpan /\ \A u \in Cover(S, e) : A <= u /\ u < D
      /\ Cover(S, e) \in SUBSET Int
  BY SndWithin DEF Fits, Within
<1> QED
  BY <1>1, SndWindow

LEMMA SndListedCount ==
  ASSUME NEW r, NEW S, NEW e, NEW A, NEW D, SndHolds(s, r, S, e, A, D)
  PROVE  IsFiniteSet(Snd!Listed) /\ Cardinality(Snd!Listed) = s.length
<1> DEFINE C == Cover(S, e)
           g == [u \in C |-> Snd!Wrap(u)]
<1>1. IsFiniteSet(C) /\ s.length = Cardinality(C)
  BY SndWithin DEF SndHolds, Within
<1>2. Snd!Listed = {Snd!Wrap(u) : u \in C}
  BY SndListedIs
<1>3. \A u, v \in C : Snd!Wrap(u) = Snd!Wrap(v) => u = v
  BY SndApart DEF SndHolds
<1> HIDE DEF C
<1>4. g \in Bijection(C, Snd!Listed)
  BY <1>2, <1>3 DEF Bijection, Injection, IsInjective, Surjection
<1> HIDE DEF g
<1>5. ExistsBijection(C, Snd!Listed)
  BY <1>4 DEF ExistsBijection
<1> QED
  BY <1>1, <1>5, FS_Bijection

LEMMA SndInvShows == SndInv => Snd!ArraysAgree
<1> SUFFICES ASSUME SndInv
             PROVE  Snd!ArraysAgree
  OBVIOUS
<1>1. PICK r, S, e, A, c : SndStands(r, S, e, A, c)
  BY DEF SndInv
<1> DEFINE D == c + 1
<1>2. SndHolds(s, r, S, e, A, D) /\ SndLastDataAck = Snd!Wrap(A) /\ A \in Int /\ SndCurrSeqNo \in -1 .. Snd!MaxSeqNo
  BY <1>1 DEF SndStands, SndPoints
<1> HIDE DEF D
<1>3. SndArrays(s, r, S, e)
  BY <1>2 DEF SndHolds
<1>4. Snd!TypeOK
  <2>1. s \in SndLists
    BY <1>3 DEF SndArrays
  <2>2. SndLastDataAck \in 0 .. Snd!MaxSeqNo
    BY <1>2, SndSteps
  <2> QED
    BY <1>2, <2>1, <2>2 DEF Snd!TypeOK, SndLists, Snd!None
<1>5. Snd!LengthIsCount
  <2>1. Cardinality(Snd!Listed) = s.length
    BY <1>2, SndListedCount
  <2> QED
    BY <2>1 DEF Snd!LengthIsCount, Snd!Cardinality, Cardinality
<1>6. Snd!Chain = {Slot(SndSize, r, a) : a \in S}
  BY <1>2, SndChainIs
<1>7. Snd!FreeSlotsClean
  <2>1. \A i \in 0 .. SndSize - 1 : (\A a \in S : Slot(SndSize, r, a) # i) => s.data1[i] = -1 /\ s.data2[i] = -1
    BY <1>3 DEF SndArrays, Nodes
  <2>2. ASSUME NEW i \in Snd!Slots \ Snd!Chain
        PROVE  s.data1[i] = -1 /\ s.data2[i] = -1
    <3>1. i \in 0 .. SndSize - 1 /\ \A a \in S : Slot(SndSize, r, a) # i
      BY <1>6, <2>2, SndConstants
    <3> QED
      BY <2>1, <3>1
  <2> QED
    BY <2>2 DEF Snd!FreeSlotsClean, Snd!None
<1>8. Snd!InsertPosIsLinked
  <2>1. SndMarked(s.lastInsertPos, r, S)
    BY <1>3 DEF SndArrays
  <2> QED
    BY <1>6, <2>1 DEF SndMarked, Snd!InsertPosIsLinked, Snd!None
<1> QED
  BY <1>4, <1>5, <1>7, <1>8 DEF Snd!ArraysAgree

-----------------------------------------------------------------------------
(* The sender's list in every state.                                        *)

LEMMA SndStartHolds ==
  ASSUME NEW A \in Int, NEW k, k = Snd!EmptyList
  PROVE  \E f : SndHolds(k, 0, {}, f, A, A)
<1> DEFINE e == [i \in Int |-> 0]
<1>1. SndCircle - 1 = Snd!MaxSeqNo /\ Snd!MaxSeqNo \in Nat /\ SndSize \in Nat \ {0} /\ SndSpan \in Nat
  BY SndConstants
<1>2. k \in SndLists
  BY <1>1 DEF Snd!EmptyList, SndLists, Snd!Slots, Snd!None
<1>3. Nodes(SndCircle, SndSize, 0, k.data1, k.data2, {}, e)
  BY <1>1 DEF Nodes, Snd!EmptyList, Snd!Slots, Snd!None
<1>4. Forward(SndSize, 0, k.next, k.head, {})
  BY <1>1 DEF Forward, Snd!EmptyList, Snd!Slots, Snd!None, IsLeast, IsGreatest, Adjacent
<1>5. SndMarked(k.lastInsertPos, 0, {})
  BY DEF SndMarked, Snd!EmptyList, Snd!None
<1>6. Ranges({}, e) /\ Cover({}, e) = {}
  BY DEF Ranges, Cover
<1>7. k.length = Cardinality({})
  BY FS_EmptySet DEF Snd!EmptyList
<1>8. Spread(SndSize, {})
  BY DEF Spread
<1>9. e \in [Int -> Int]
  OBVIOUS
<1> HIDE DEF e
<1>10. SndArrays(k, 0, {}, e)
  BY <1>2, <1>3, <1>4, <1>5, <1>8, <1>9 DEF SndArrays
<1>11. Fits({}, e, A, A)
  BY <1>1, <1>6 DEF Fits
<1>12. SndHolds(k, 0, {}, e, A, A)
  BY <1>6, <1>7, <1>10, <1>11 DEF SndHolds
<1> QED
  BY <1>12

LEMMA SndInvStarts == Snd!Init => SndInv
<1> SUFFICES ASSUME Snd!Init
             PROVE  SndInv
  OBVIOUS
<1> DEFINE A == SndLastDataAck
           c == A - 1
<1>1. s = Snd!EmptyList /\ A \in 0 .. Snd!MaxSeqNo /\ SndCurrSeqNo = c
  BY DEF Snd!Init
<1>2. A \in Int /\ c \in Int /\ c + 1 = A
  BY <1>1, SndConstants
<1>3. Snd!Wrap(A) = A /\ SndPoints(SndCurrSeqNo, c)
  BY <1>1, SndPointsAtFirst
<1>4. PICK f : SndHolds(s, 0, {}, f, A, A)
  BY <1>1, <1>2, SndStartHolds
<1> HIDE DEF c
<1>5. SndStands(0, {}, f, A, c)
  BY <1>2, <1>3, <1>4 DEF SndStands
<1> QED
  BY <1>5 DEF SndInv

LEMMA SndInvKept ==
  ASSUME SndInv, [Snd!Next]_(Snd!vars)
  PROVE  SndInv'
<1>1. PICK r, S, e, A, c : SndStands(r, S, e, A, c)
  BY DEF SndInv
<1>2. ASSUME NEW C, NEW B, NEW d, SndBecomes(C, B, d)
      PROVE  SndInv'
  BY <1>2 DEF SndBecomes, SndInv
<1>3. CASE Snd!Send
  <2>1. PICK d : SndStands(r, S, e, A, d)'
    BY <1>1, <1>3, SndSendStep
  <2> QED
    BY <2>1 DEF SndInv
<1>4. CASE Snd!Pick
  <2>1. \E C : SndBecomes(C, A, c)
    BY <1>1, <1>4, SndPickStep
  <2> QED
    BY <1>2, <2>1
<1>5. ASSUME NEW i \in 1 .. Snd!InFlight,
             Snd!Forget(i) \/ Snd!Acknowledge(i) \/ \E j \in i .. Snd!InFlight : Snd!Report(i, j)
      PROVE  SndInv'
  <2>1. i \in Int /\ 1 <= i /\ i <= Snd!InFlight /\ Snd!InFlight \in Int
    BY <1>1, <1>5, SndReckons
  <2>2. CASE Snd!Forget(i)
    <3>1. SndBecomes(Beyond(Cover(S, e), A + i - 1), A, c)
      BY <1>1, <2>1, <2>2, SndForgetStep
    <3> QED
      BY <1>2, <3>1
  <2>3. CASE Snd!Acknowledge(i)
    <3>1. SndBecomes(Beyond(Cover(S, e), A + i - 1), A + i, c)
      BY <1>1, <2>1, <2>3, SndAcknowledgeStep
    <3> QED
      BY <1>2, <3>1
  <2>4. ASSUME NEW j \in i .. Snd!InFlight, Snd!Report(i, j)
        PROVE  SndInv'
    <3>1. j \in Int /\ i <= j /\ j <= Snd!InFlight
      BY <2>1
    <3>2. SndBecomes(Cover(S, e) \cup ((A + i - 1) .. (A + j - 1)), A, c)
      BY <1>1, <2>1, <2>4, <3>1, SndReportStep
    <3> QED
      BY <1>2, <3>2
  <2> QED
    BY <1>5, <2>2, <2>3, <2>4
<1>6. CASE UNCHANGED Snd!vars
  <2>1. s' = s /\ SndLastDataAck' = SndLastDataAck /\ SndCurrSeqNo' = SndCurrSeqNo
    BY <1>6 DEF Snd!vars
  <2>2. SndStands(r, S, e, A, c)'
    BY <1>1, <2>1 DEF SndStands
  <2> QED
    BY <2>2 DEF SndInv
<1> QED
  BY <1>3, <1>4, <1>5, <1>6 DEF Snd!Next

LEMMA SndListSteps == [ListsNext]_<<vars, sndLossVars>> => [Snd!Next]_(Snd!vars)
BY DEF ListsNext, sndLossVars, Snd!vars

LEMMA SndAlways == ListsSpec => []SndInv
<1>1. ListsInit => SndInv
  BY SndInvStarts DEF ListsInit
<1>2. SndInv /\ [ListsNext]_<<vars, sndLossVars>> => SndInv'
  BY SndListSteps, SndInvKept
<1> QED
  BY <1>1, <1>2, PTL DEF ListsSpec

-----------------------------------------------------------------------------
(* The sender's list is the set of numbers to send again.                   *)

SndCarriers(C) == {Snd!Wrap(u) : u \in C}

LEMMA SndCarriersMinus ==
  ASSUME NEW C, NEW B, \A u \in C, v \in B : Snd!Wrap(u) = Snd!Wrap(v) => u = v
  PROVE  SndCarriers(C \ B) = SndCarriers(C) \ SndCarriers(B)
<1>1. ASSUME NEW u \in C \ B
      PROVE  Snd!Wrap(u) \in SndCarriers(C) \ SndCarriers(B)
  BY DEF SndCarriers
<1>2. ASSUME NEW w \in SndCarriers(C) \ SndCarriers(B)
      PROVE  w \in SndCarriers(C \ B)
  BY DEF SndCarriers
<1> QED
  BY <1>1, <1>2 DEF SndCarriers

LEMMA SndCarriersPlus ==
  ASSUME NEW C, NEW B
  PROVE  SndCarriers(C \cup B) = SndCarriers(C) \cup SndCarriers(B)
BY DEF SndCarriers

\* The numbers from the u-th to the v-th.
LEMMA SndCarriersFromTo ==
  ASSUME NEW u \in Int, NEW v \in Int, u <= v, v - u < SndSeqNoTH
  PROVE  Snd!Stretch(Snd!Wrap(u), Snd!Wrap(v)) = SndCarriers(u .. v)
<1>1. Snd!Stretch(Snd!Wrap(u), Snd!Wrap(v)) = {Snd!Wrap(w) : w \in u .. v}
  BY SndStretch
<1> QED
  BY <1>1 DEF SndCarriers

\* The abstract specification has its own copy of the arithmetic.
LEMMA SndSameNumbers ==
  /\ Snd!Abstract!MaxSeqNo = Snd!MaxSeqNo
  /\ \A i, j : Snd!Abstract!seqoff(i, j) = Snd!seqoff(i, j)
  /\ \A i : Snd!Abstract!incseq(i) = Snd!incseq(i)
  /\ \A i, j : Snd!Abstract!Stretch(i, j) = Snd!Stretch(i, j)
  /\ Snd!Abstract!InFlight = Snd!InFlight
  /\ \A k : Snd!Abstract!Nth(k) = Snd!Nth(k)
<1>1. Snd!Abstract!MaxSeqNo = Snd!MaxSeqNo
  BY DEF Snd!Abstract!MaxSeqNo, Snd!MaxSeqNo
<1>2. \A i, j : Snd!Abstract!Near(i, j) <=> Snd!Near(i, j)
  BY DEF Snd!Abstract!Near, Snd!Near
<1>3. \A i, j : Snd!Abstract!seqoff(i, j) = Snd!seqoff(i, j)
  BY <1>1, <1>2 DEF Snd!Abstract!seqoff, Snd!seqoff
<1>4. \A i, j : Snd!Abstract!seqlen(i, j) = Snd!seqlen(i, j)
  BY <1>1 DEF Snd!Abstract!seqlen, Snd!seqlen
<1>5. \A i : Snd!Abstract!incseq(i) = Snd!incseq(i)
  BY <1>1 DEF Snd!Abstract!incseq, Snd!incseq
<1>6. \A u : Snd!Abstract!Wrap(u) = Snd!Wrap(u)
  BY <1>1 DEF Snd!Abstract!Wrap, Snd!Wrap
<1>7. \A i, j : Snd!Abstract!Stretch(i, j) = Snd!Stretch(i, j)
  BY <1>4, <1>6 DEF Snd!Abstract!Stretch, Snd!Stretch
<1>8. Snd!Abstract!InFlight = Snd!InFlight
  BY <1>4, <1>5 DEF Snd!Abstract!InFlight, Snd!InFlight
<1>9. \A k : Snd!Abstract!Nth(k) = Snd!Nth(k)
  BY <1>6 DEF Snd!Abstract!Nth, Snd!Nth
<1> QED
  BY <1>1, <1>3, <1>5, <1>7, <1>8, <1>9

\* What the list shows in a state, and so in the next one.
SndListsCarriers == \A r, S, e, A, D : SndHolds(s, r, S, e, A, D) => Snd!Listed = SndCarriers(Cover(S, e))

LEMMA SndListsItsCarriers == SndListsCarriers
BY SndListedIs DEF SndListsCarriers, SndCarriers

LEMMA SndListsItsCarriersNext == SndListsCarriers'
BY SndListsItsCarriers, PTL

LEMMA SndBecomesCarriers ==
  ASSUME NEW C, NEW A, NEW c, SndBecomes(C, A, c)
  PROVE  (Snd!Listed)' = SndCarriers(C)
<1>1. PICK r, T, f : SndStands(r, T, f, A, c)' /\ Cover(T, f) = C
  BY DEF SndBecomes
<1>2. SndHolds(s', r, T, f, A, c + 1)
  BY <1>1 DEF SndStands
<1>3. \A q, U, g, B, D : SndHolds(s', q, U, g, B, D) => (Snd!Listed)' = SndCarriers(Cover(U, g))
  BY SndListsItsCarriersNext DEF SndListsCarriers
<1> QED
  BY <1>1, <1>2, <1>3

\* The numbers up to x go.
LEMMA SndCarriersBeyond ==
  ASSUME NEW S, NEW e, NEW A, NEW D, Fits(S, e, A, D), NEW x \in Int, A <= x, x < D
  PROVE  SndCarriers(Beyond(Cover(S, e), x)) = SndCarriers(Cover(S, e)) \ Snd!Stretch(Snd!Wrap(A), Snd!Wrap(x))
<1> DEFINE C == Cover(S, e)
           B == A .. x
<1>1. /\ A \in Int /\ D \in Int /\ D - A <= SndSpan /\ C \in SUBSET Int
      /\ \A u \in C : A <= u /\ u < D
  BY SndWithin DEF Fits, Within
<1>2. Beyond(C, x) = C \ B
  BY <1>1 DEF Beyond
<1>3. \A u \in C, v \in B : Snd!Wrap(u) = Snd!Wrap(v) => u = v
  <2> TAKE u \in C, v \in B
  <2>1. u \in Int /\ v \in Int /\ A <= u /\ u < D /\ A <= v /\ v < D
    BY <1>1
  <2> HIDE DEF C, B
  <2> QED
    BY <1>1, <2>1, SndWindow
<1>4. Snd!Stretch(Snd!Wrap(A), Snd!Wrap(x)) = SndCarriers(B)
  <2>1. x - A < SndSeqNoTH
    BY <1>1, SndConstants
  <2> QED
    BY <1>1, <2>1, SndCarriersFromTo
<1> HIDE DEF C, B
<1>5. SndCarriers(C \ B) = SndCarriers(C) \ SndCarriers(B)
  BY <1>3, SndCarriersMinus
<1> QED
  BY <1>2, <1>4, <1>5 DEF C

\* The first number is the one before all others.
LEMMA SndFirstIs ==
  ASSUME NEW S, NEW e, NEW A, NEW D, Fits(S, e, A, D), NEW h, IsLeast(S, h)
  PROVE  /\ h \in Cover(S, e)
         /\ {w \in SndCarriers(Cover(S, e)) : \A t \in SndCarriers(Cover(S, e)) : Snd!seqoff(w, t) >= 0} = {Snd!Wrap(h)}
<1> DEFINE C == Cover(S, e)
           L == SndCarriers(C)
<1>1. S \subseteq C /\ C \in SUBSET Int /\ \A a \in S : a \in Int
  BY SndWithin DEF Within
<1>2. h \in C /\ h \in Int /\ \A u \in C : h <= u
  <2>1. h \in S /\ \A a \in S : h <= a
    BY DEF IsLeast
  <2>2. ASSUME NEW u \in C
        PROVE  h <= u
    <3>1. PICK a \in S : a <= u /\ u \in Int
      BY DEF Cover
    <3> QED
      BY <1>1, <2>1, <3>1
  <2> QED
    BY <1>1, <2>1, <2>2
<1>3. \A u, v \in C : u \in Int /\ v \in Int /\ Snd!seqoff(Snd!Wrap(u), Snd!Wrap(v)) = v - u
  <2> TAKE u, v \in C
  <2>1. CloseBy(v, u)
    BY SndApart
  <2> QED
    BY <1>1, <2>1, SndClose
<1> HIDE DEF C
<1>4. L = {Snd!Wrap(u) : u \in C}
  BY DEF SndCarriers
<1> HIDE DEF L
<1>5. Snd!Wrap(h) \in L /\ \A t \in L : Snd!seqoff(Snd!Wrap(h), t) >= 0
  <2>1. \A u \in C : Snd!seqoff(Snd!Wrap(h), Snd!Wrap(u)) >= 0
    BY <1>2, <1>3
  <2> QED
    BY <1>2, <1>4, <2>1
<1>6. ASSUME NEW w \in L, \A t \in L : Snd!seqoff(w, t) >= 0
      PROVE  w = Snd!Wrap(h)
  <2>1. PICK u \in C : w = Snd!Wrap(u)
    BY <1>4
  <2>2. Snd!seqoff(Snd!Wrap(u), Snd!Wrap(h)) >= 0
    BY <1>5, <1>6, <2>1
  <2>3. u = h
    BY <1>2, <1>3, <2>2
  <2> QED
    BY <2>1, <2>3
<1> QED
  BY <1>2, <1>5, <1>6 DEF C, L

\* Every step of the sender is one of the set.
LEMMA SndStepRefines ==
  ASSUME SndInv, [Snd!Next]_(Snd!vars)
  PROVE  [Snd!Abstract!Next]_(Snd!Abstract!vars)
<1>1. PICK r, S, e, A, c : SndStands(r, S, e, A, c)
  BY DEF SndInv
<1> DEFINE C == Cover(S, e)
           D == c + 1
<1>2. SndHolds(s, r, S, e, A, D) /\ SndLastDataAck = Snd!Wrap(A)
  BY <1>1 DEF SndStands
<1>3. A \in Int /\ c \in Int /\ D \in Int /\ D - A <= SndSpan /\ Snd!InFlight = D - A /\ Fits(S, e, A, D)
  BY <1>1, <1>2, SndReckons DEF SndHolds
<1>4. Snd!Listed = SndCarriers(C)
  BY <1>2, SndListsItsCarriers DEF SndListsCarriers
<1>5. \A k \in Int : Snd!Nth(k) = Snd!Wrap(A + k - 1)
  BY <1>1, SndReckons
<1> HIDE DEF D
<1>6. CASE Snd!Send
  <2>1. PICK d : SndStands(r, S, e, A, d)'
    BY <1>1, <1>6, SndSendStep
  <2>2. SndBecomes(C, A, d)
    BY <2>1 DEF SndBecomes
  <2>3. (Snd!Listed)' = Snd!Listed
    BY <1>4, <2>2, SndBecomesCarriers
  <2>4. Snd!Abstract!Send
    BY <1>6, <2>3, SndSameNumbers DEF Snd!Send, Snd!Abstract!Send
  <2> QED
    BY <2>4 DEF Snd!Abstract!Next
<1>7. CASE Snd!Pick
  <2>1. PICK h : IsLeast(S, h) /\ SndBecomes(C \ {h}, A, c)
    BY <1>1, <1>7, SndPickStep
  <2>2. (Snd!Listed)' = SndCarriers(C \ {h})
    BY <2>1, SndBecomesCarriers
  <2>3. /\ h \in C
        /\ {w \in SndCarriers(C) : \A t \in SndCarriers(C) : Snd!seqoff(w, t) >= 0} = {Snd!Wrap(h)}
    BY <1>3, <2>1, SndFirstIs
  <2>4. SndCarriers(C \ {h}) = SndCarriers(C) \ {Snd!Wrap(h)}
    <3>1. \A u \in C, v \in {h} : Snd!Wrap(u) = Snd!Wrap(v) => u = v
      BY <1>3, <2>3, SndApart
    <3>2. SndCarriers({h}) = {Snd!Wrap(h)}
      BY DEF SndCarriers
    <3> HIDE DEF C
    <3> QED
      BY <3>1, <3>2, SndCarriersMinus
  <2>5. SndCarriers(C) # {}
    BY <2>3 DEF SndCarriers
  <2> HIDE DEF C
  <2>6. Snd!Abstract!Pick
    <3>1. \A i, j : Snd!Abstract!seqoff(i, j) = Snd!seqoff(i, j)
      BY SndSameNumbers
    <3>2. {w \in Snd!Listed : \A t \in Snd!Listed : Snd!Abstract!seqoff(w, t) >= 0} = {Snd!Wrap(h)}
      BY <1>4, <2>3, <3>1
    <3>3. SndLastDataAck' = SndLastDataAck /\ SndCurrSeqNo' = SndCurrSeqNo
      BY <1>7 DEF Snd!Pick
    <3> QED
      BY <1>4, <2>2, <2>4, <2>5, <3>2, <3>3 DEF Snd!Abstract!Pick
  <2> QED
    BY <2>6 DEF Snd!Abstract!Next
<1>8. ASSUME NEW i \in 1 .. Snd!InFlight, Snd!Forget(i)
      PROVE  Snd!Abstract!Next
  <2> DEFINE x == A + i - 1
  <2>1. i \in Int /\ 1 <= i /\ i <= Snd!InFlight /\ x \in Int /\ A <= x /\ x < D
    BY <1>3, <1>8
  <2>2. SndBecomes(Beyond(C, x), A, c)
    BY <1>1, <1>8, <2>1, SndForgetStep
  <2>3. Snd!Nth(i) = Snd!Wrap(x)
    BY <1>5, <2>1
  <2> HIDE DEF x
  <2>4. (Snd!Listed)' = Snd!Listed \ Snd!Stretch(SndLastDataAck, Snd!Nth(i))
    BY <1>2, <1>3, <1>4, <2>1, <2>2, <2>3, SndBecomesCarriers, SndCarriersBeyond
  <2>5. Snd!Abstract!Forget(i)
    BY <1>8, <2>4, SndSameNumbers DEF Snd!Forget, Snd!Abstract!Forget, Snd!Abstract!Forgotten
  <2>6. i \in 1 .. Snd!Abstract!InFlight
    BY <1>8, SndSameNumbers
  <2> QED
    BY <2>5, <2>6 DEF Snd!Abstract!Next
<1>9. ASSUME NEW i \in 1 .. Snd!InFlight, Snd!Acknowledge(i)
      PROVE  Snd!Abstract!Next
  <2> DEFINE x == A + i - 1
             B == A + i
  <2>1. i \in Int /\ 1 <= i /\ i <= Snd!InFlight /\ x \in Int /\ A <= x /\ x < D
    BY <1>3, <1>9
  <2>2. SndBecomes(Beyond(C, x), B, c)
    BY <1>1, <1>9, <2>1, SndAcknowledgeStep
  <2>3. Snd!Nth(i) = Snd!Wrap(x)
    BY <1>5, <2>1
  <2> HIDE DEF x, B
  <2>4. (Snd!Listed)' = Snd!Listed \ Snd!Stretch(SndLastDataAck, Snd!Nth(i))
    BY <1>2, <1>3, <1>4, <2>1, <2>2, <2>3, SndBecomesCarriers, SndCarriersBeyond
  <2>5. Snd!Abstract!Acknowledge(i)
    BY <1>9, <2>4, SndSameNumbers DEF Snd!Acknowledge, Snd!Abstract!Acknowledge, Snd!Abstract!Forgotten
  <2>6. i \in 1 .. Snd!Abstract!InFlight
    BY <1>9, SndSameNumbers
  <2> QED
    BY <2>5, <2>6 DEF Snd!Abstract!Next
<1>10. ASSUME NEW i \in 1 .. Snd!InFlight, NEW j \in i .. Snd!InFlight, Snd!Report(i, j)
       PROVE  Snd!Abstract!Next
  <2> DEFINE x == A + i - 1
             y == A + j - 1
  <2>1. /\ i \in Int /\ 1 <= i /\ j \in Int /\ i <= j /\ j <= Snd!InFlight
        /\ x \in Int /\ y \in Int /\ x <= y /\ y - x < SndSeqNoTH
    BY <1>3, <1>10, SndConstants
  <2>2. SndBecomes(C \cup (x .. y), A, c)
    BY <1>1, <1>10, <2>1, SndReportStep
  <2>3. Snd!Nth(i) = Snd!Wrap(x) /\ Snd!Nth(j) = Snd!Wrap(y)
    BY <1>5, <2>1
  <2> HIDE DEF x, y, C
  <2>4. Snd!Stretch(Snd!Nth(i), Snd!Nth(j)) = SndCarriers(x .. y)
    BY <2>1, <2>3, SndCarriersFromTo
  <2>5. (Snd!Listed)' = Snd!Listed \cup Snd!Stretch(Snd!Nth(i), Snd!Nth(j))
    <3> DEFINE N == x .. y
    <3>1. SndBecomes(C \cup N, A, c) /\ Snd!Stretch(Snd!Nth(i), Snd!Nth(j)) = SndCarriers(N)
      BY <2>2, <2>4
    <3> HIDE DEF N
    <3>2. (Snd!Listed)' = SndCarriers(C \cup N)
      BY <3>1, SndBecomesCarriers
    <3>3. SndCarriers(C \cup N) = SndCarriers(C) \cup SndCarriers(N)
      BY SndCarriersPlus
    <3> QED
      BY <1>4, <3>1, <3>2, <3>3
  <2>6. Snd!Abstract!Report(i, j)
    BY <1>10, <2>5, SndSameNumbers DEF Snd!Report, Snd!Abstract!Report
  <2>7. i \in 1 .. Snd!Abstract!InFlight /\ j \in i .. Snd!Abstract!InFlight
    BY <1>10, SndSameNumbers
  <2> QED
    BY <2>6, <2>7 DEF Snd!Abstract!Next
<1>11. CASE UNCHANGED Snd!vars
  <2>1. s' = s /\ SndLastDataAck' = SndLastDataAck /\ SndCurrSeqNo' = SndCurrSeqNo
    BY <1>11 DEF Snd!vars
  <2>2. SndStands(r, S, e, A, c)'
    BY <1>1, <2>1 DEF SndStands
  <2>3. SndBecomes(C, A, c)
    BY <2>2 DEF SndBecomes
  <2>4. (Snd!Listed)' = Snd!Listed
    BY <1>4, <2>3, SndBecomesCarriers
  <2> QED
    BY <2>1, <2>4 DEF Snd!Abstract!vars
<1> QED
  BY <1>6, <1>7, <1>8, <1>9, <1>10, <1>11 DEF Snd!Next

\* The sender's list, with its searches that begin at the last insertion, its joining of
\* ranges that overlap and its splitting of the range an acknowledgement ends in
\* (CSndLossList, list.cpp), is the set of numbers to send again, in every behaviour.
THEOREM SenderImplementsLossSet == ListsSpec => RefinesSndLossSet
<1>1. ListsInit => Snd!Abstract!Init
  <2> SUFFICES ASSUME ListsInit
               PROVE  Snd!Abstract!Init
    OBVIOUS
  <2>1. s = Snd!EmptyList /\ SndLastDataAck \in 0 .. Snd!MaxSeqNo /\ SndCurrSeqNo = SndLastDataAck - 1
    BY DEF ListsInit, Snd!Init
  <2>2. Snd!Listed = {}
    BY <2>1 DEF Snd!Listed, Snd!Chain, Snd!EmptyList
  <2> QED
    BY <2>1, <2>2, SndSameNumbers DEF Snd!Abstract!Init
<1>2. SndInv /\ [ListsNext]_<<vars, sndLossVars>> => [Snd!Abstract!Next]_(Snd!Abstract!vars)
  BY SndListSteps, SndStepRefines
<1> QED
  BY <1>1, <1>2, SndAlways, PTL DEF ListsSpec, RefinesSndLossSet, Snd!RefinesSndLossSet, Snd!Abstract!Spec

-----------------------------------------------------------------------------
(* Both lists.                                                              *)

\* The arrays of either list hold one chain of ranges and nothing else, whatever steps the
\* workers take (CSndLossList and CRcvLossList, list.cpp): the length that keeps the EXP
\* timer from reporting twice counts the numbers, no free slot keeps an end that a later
\* range would take over, the links back answer the links forth, and a search begins at
\* a node of the list.
THEOREM LossListsAgree == ListsSpec => []ListsAgree
<1>1. RcvInv /\ SndInv => ListsAgree
  BY RcvInvShows, SndInvShows DEF ListsAgree
<1> QED
  BY <1>1, RcvAlways, SndAlways, PTL

====
