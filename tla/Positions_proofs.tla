--------------------------- MODULE Positions_proofs ---------------------------
(***************************************************************************)
(* Facts about positions that the other proofs rest on: where the entries  *)
(* of a concatenation come from, which position of a set is the last, what *)
(* Pick keeps, and what a loop has after each of its rounds.               *)
(***************************************************************************)
EXTENDS Positions, FiniteSetsExt, SequenceTheorems, FiniteSetTheorems,
        WellFoundedInduction, TLAPS

\* Every set of natural numbers that is not empty has a least member.
LEMMA LeastNatural ==
  ASSUME NEW T, T \subseteq Nat, T # {}
  PROVE  \E x \in T : \A y \in T : x <= y
<1>1. IsWellFoundedOn(OpToRel(<, Nat), Nat)
  BY NatLessThanWellFounded
<1>2. PICK x \in T : \A y \in T : ~(<<y, x>> \in OpToRel(<, Nat))
  BY <1>1, WFMin
<1>3. \A y \in T : ~(y < x)
  BY <1>2 DEF OpToRel
<1>4. \A y \in T : x <= y
  BY <1>3
<1>5. QED  BY <1>4

\* A set of positions that is not empty has a last one.
LEMMA LastPosition ==
  ASSUME NEW n \in Nat, NEW T \in SUBSET (1 .. n), T # {}
  PROVE  Max(T) \in T /\ \A x \in T : x <= Max(T)
<1> DEFINE R == {m \in Nat : n - m \in T}
<1>1. R # {}
  <2>1. PICK x \in T : TRUE
    OBVIOUS
  <2>2. n - x \in Nat /\ n - (n - x) = x
    OBVIOUS
  <2>3. QED  BY <2>1, <2>2
<1>2. PICK m \in R : \A y \in R : m <= y
  BY <1>1, LeastNatural
<1>3. n - m \in T
  OBVIOUS
<1>4. \A x \in T : n - x \in R /\ m <= n - x
  <2> TAKE x \in T
  <2>1. n - x \in Nat /\ n - (n - x) = x
    OBVIOUS
  <2>2. n - x \in R
    BY <2>1
  <2>3. QED  BY <1>2, <2>2
<1>5. \A x \in T : n - m >= x
  BY <1>4
<1>6. \E z \in T : \A x \in T : z >= x
  BY <1>3, <1>5
<1>7. Max(T) \in T /\ \A x \in T : Max(T) >= x
  BY <1>6 DEF Max
<1>8. QED  BY <1>7

\* Where the items of a concatenation come from.
LEMMA ConcatIndices ==
  ASSUME NEW S, NEW s \in Seq(S), NEW t \in Seq(S)
  PROVE  /\ s \o t \in Seq(S)
         /\ Len(s) \in Nat /\ DOMAIN s = 1 .. Len(s) /\ DOMAIN t \subseteq Nat \ {0}
         /\ \A i \in DOMAIN s : i \in DOMAIN (s \o t) /\ (s \o t)[i] = s[i]
         /\ \A j \in DOMAIN t :
              Len(s) + j \in DOMAIN (s \o t) /\ (s \o t)[Len(s) + j] = t[j]
         /\ \A k \in DOMAIN (s \o t) :
              k \in DOMAIN s \/ \E j \in DOMAIN t : k = Len(s) + j
<1>1. /\ s \o t \in Seq(S) /\ Len(s) \in Nat /\ Len(t) \in Nat
      /\ DOMAIN s = 1 .. Len(s) /\ DOMAIN t = 1 .. Len(t)
      /\ DOMAIN (s \o t) = 1 .. (Len(s) + Len(t))
      /\ \A i \in 1 .. Len(s) + Len(t) :
           (s \o t)[i] = IF i <= Len(s) THEN s[i] ELSE t[i - Len(s)]
  BY ConcatProperties, LenProperties
<1>2. ASSUME NEW i \in DOMAIN s PROVE i \in DOMAIN (s \o t) /\ (s \o t)[i] = s[i]
  BY <1>1, <1>2
<1>3. ASSUME NEW j \in DOMAIN t
      PROVE  Len(s) + j \in DOMAIN (s \o t) /\ (s \o t)[Len(s) + j] = t[j]
  <2>1. Len(s) + j \in 1 .. Len(s) + Len(t) /\ ~(Len(s) + j <= Len(s))
        /\ (Len(s) + j) - Len(s) = j
    BY <1>1
  <2>2. QED  BY <1>1, <2>1
<1>4. ASSUME NEW k \in DOMAIN (s \o t)
      PROVE  k \in DOMAIN s \/ \E j \in DOMAIN t : k = Len(s) + j
  <2>1. k \in 1 .. Len(s) \/ (k - Len(s) \in 1 .. Len(t) /\ k = Len(s) + (k - Len(s)))
    BY <1>1
  <2>2. QED  BY <1>1, <2>1
<1>5. QED  BY <1>1, <1>2, <1>3, <1>4

\* Sets of positions are finite, and the larger one has more members.
LEMMA PositionSets ==
  ASSUME NEW m \in Nat, NEW P \in SUBSET (1 .. m)
  PROVE  /\ IsFiniteSet(P) /\ Cardinality(P) \in Nat
         /\ \A Q \in SUBSET P : /\ IsFiniteSet(Q) /\ Cardinality(Q) \in Nat
                                /\ Cardinality(Q) <= Cardinality(P)
                                /\ Cardinality(Q) = Cardinality(P) => Q = P
<1>1. IsFiniteSet(1 .. m)
  BY FS_Interval
<1>2. IsFiniteSet(P)
  BY <1>1, FS_Subset
<1>3. Cardinality(P) \in Nat
  BY <1>2, FS_CardinalityType
<1>4. ASSUME NEW Q \in SUBSET P
      PROVE  /\ IsFiniteSet(Q) /\ Cardinality(Q) <= Cardinality(P)
             /\ Cardinality(Q) = Cardinality(P) => Q = P
  BY <1>2, FS_Subset
<1>5. ASSUME NEW Q \in SUBSET P PROVE Cardinality(Q) \in Nat
  BY <1>4, FS_CardinalityType
<1>6. QED  BY <1>2, <1>3, <1>4, <1>5

\* The positions up to i are one more than those before it.
LEMMA UpTo ==
  ASSUME NEW m \in Nat, NEW P \in SUBSET (1 .. m), NEW i \in P
  PROVE  Cardinality({h \in P : h <= i}) = Cardinality({h \in P : h < i}) + 1
<1> DEFINE V == {h \in P : h < i}
<1>0. \A h \in P : h \in Int
  OBVIOUS
<1>1. {h \in P : h <= i} = V \cup {i} /\ i \notin V
  <2>1. \A h \in P : h <= i <=> (h < i \/ h = i)
    BY <1>0
  <2>2. ~(i < i)
    BY <1>0
  <2>3. QED  BY <2>1, <2>2, Zenon
<1>2. IsFiniteSet(V)
  BY PositionSets
<1>3. QED  BY <1>1, <1>2, FS_AddElement

\* Nth finds a position, and finds each.
LEMMA NthExists ==
  ASSUME NEW m \in Nat, NEW P \in SUBSET (1 .. m), NEW n \in 1 .. Cardinality(P)
  PROVE  Nth(P, n) \in P /\ Cardinality({h \in P : h <= Nth(P, n)}) = n
<1> DEFINE Count(i) == Cardinality({h \in P : h <= i})
           R == {i \in P : Count(i) >= n}
<1>0. \A h \in P : h \in Nat
  OBVIOUS
<1>1. P # {} /\ Cardinality(P) \in Nat
  <2>1. P = {} => Cardinality(P) = 0
    BY FS_EmptySet
  <2>2. Cardinality(P) \in Nat
    BY PositionSets
  <2>3. Cardinality(P) # 0
    BY <2>2
  <2>4. QED  BY <2>1, <2>2, <2>3
<1>2. R # {}
  <2>1. Max(P) \in P /\ \A x \in P : x <= Max(P)
    BY <1>1, LastPosition
  <2>2. {h \in P : h <= Max(P)} = P
    BY <2>1
  <2>3. Count(Max(P)) = Cardinality(P)
    BY <2>2
  <2>4. Count(Max(P)) >= n
    BY <2>3, <1>1
  <2>5. QED  BY <2>1, <2>4
<1>3. PICK i \in R : \A y \in R : i <= y
  <2>1. R \subseteq Nat
    BY <1>0, Zenon
  <2>2. QED  BY <1>2, <2>1, LeastNatural
<1>4. Count(i) = n
  <2> DEFINE V == {h \in P : h < i}
  <2>1. Count(i) = Cardinality(V) + 1 /\ Count(i) >= n
    BY UpTo
  <2>2. Cardinality(V) \in Nat /\ V \in SUBSET (1 .. m)
    BY PositionSets
  <2>3. Cardinality(V) < n
    <3>1. CASE V = {}
      BY <3>1, FS_EmptySet
    <3>2. CASE V # {}
      <4>1. Max(V) \in V /\ \A x \in V : x <= Max(V)
        BY <3>2, <2>2, LastPosition
      <4>2. {h \in P : h <= Max(V)} = V
        <5>1. \A h \in P : h < i <=> h <= Max(V)
          <6>1. Max(V) \in P /\ Max(V) < i
            BY <4>1
          <6>2. \A h \in P : h <= Max(V) => h < i
            <7>1. \A a, b, d \in Nat : a <= b /\ b < d => a < d
              OBVIOUS
            <7>2. Max(V) \in Nat /\ i \in Nat
              BY <6>1, <1>0, Zenon
            <7>3. QED  BY <6>1, <7>1, <7>2, <1>0, Zenon
          <6>3. \A h \in P : h < i => h <= Max(V)
            BY <4>1
          <6>4. QED  BY <6>2, <6>3
        <5>2. QED  BY <5>1, Zenon
      <4>3. Count(Max(V)) = Cardinality(V)
        BY <4>2
      <4>4. Max(V) \in P /\ Max(V) < i
        BY <4>1
      <4>5. Max(V) \notin R
        <5>1. ~(i <= Max(V))
          <6>1. \A a, b \in Nat : a < b => ~(b <= a)
            OBVIOUS
          <6>2. Max(V) \in Nat /\ i \in Nat
            BY <4>4, <1>0, Zenon
          <6>3. QED  BY <6>1, <6>2, <4>4, Zenon
        <5>2. QED  BY <5>1, <1>3, Zenon
      <4>6. ~(Count(Max(V)) >= n)
        BY <4>4, <4>5
      <4>7. ~(Cardinality(V) >= n)
        BY <4>3, <4>6
      <4>8. QED  BY <4>7, <2>2
    <3>3. QED  BY <3>1, <3>2
  <2>4. QED  BY <2>1, <2>2, <2>3
<1>5. \E x \in P : Cardinality({h \in P : h <= x}) = n
  BY <1>4
<1>6. QED  BY <1>5 DEF Nth

LEMMA NthOf ==
  ASSUME NEW m \in Nat, NEW P \in SUBSET (1 .. m), NEW i \in P
  PROVE  \E n \in 1 .. Cardinality(P) : Nth(P, n) = i
<1> DEFINE Upto(x) == {h \in P : h <= x}
           n == Cardinality(Upto(i))
           y == Nth(P, n)
<1>1. n \in 1 .. Cardinality(P)
  <2>1. n = Cardinality({h \in P : h < i}) + 1
    BY UpTo
  <2>2. Cardinality({h \in P : h < i}) \in Nat /\ n <= Cardinality(P)
        /\ Cardinality(P) \in Nat
    BY PositionSets
  <2>3. QED  BY <2>1, <2>2
<1>2. y \in P /\ Cardinality(Upto(y)) = n
  <2>1. \E x \in P : Cardinality(Upto(x)) = n
    OBVIOUS
  <2>2. QED  BY <2>1 DEF Nth
<1>0. \A h \in P : h \in Int
  OBVIOUS
<1>3. Upto(y) \subseteq Upto(i) \/ Upto(i) \subseteq Upto(y)
  <2>1. y \in Int /\ i \in Int
    BY <1>0, <1>2
  <2>2. CASE y <= i
    <3>1. \A h \in P : h <= y => h <= i
      BY <1>0, <2>1, <2>2
    <3>2. QED  BY <3>1, Zenon
  <2>3. CASE i <= y
    <3>1. \A h \in P : h <= i => h <= y
      BY <1>0, <2>1, <2>3
    <3>2. QED  BY <3>1, Zenon
  <2>4. QED  BY <2>1, <2>2, <2>3
<1>4. Upto(y) = Upto(i)
  <2>1. Upto(y) \in SUBSET (1 .. m) /\ Upto(i) \in SUBSET (1 .. m)
    OBVIOUS
  <2>2. CASE Upto(y) \subseteq Upto(i)
    BY <2>1, <2>2, <1>2, PositionSets
  <2>3. CASE Upto(i) \subseteq Upto(y)
    BY <2>1, <2>3, <1>2, PositionSets
  <2>4. QED  BY <1>3, <2>2, <2>3
<1>5. y \in Upto(i) /\ i \in Upto(y)
  <2>1. y <= y /\ i <= i
    <3>1. \A h \in P : h <= h
      BY <1>0
    <3>2. QED  BY <3>1, <1>2, Zenon
  <2>2. y \in Upto(y) /\ i \in Upto(i)
    BY <2>1, <1>2, Zenon
  <2>3. QED  BY <2>2, <1>4, Zenon
<1>6. y = i
  <2>1. y <= i /\ i <= y
    BY <1>5, Zenon
  <2>2. \A a, b \in Int : a <= b /\ b <= a => a = b
    OBVIOUS
  <2>3. y \in Int /\ i \in Int
    BY <1>0, <1>2, Zenon
  <2>4. QED  BY <2>1, <2>2, <2>3, Zenon
<1>7. QED  BY <1>1, <1>6

\* Nth keeps the order of the positions.
LEMMA NthIncreases ==
  ASSUME NEW m \in Nat, NEW P \in SUBSET (1 .. m),
         NEW a \in 1 .. Cardinality(P), NEW b \in 1 .. Cardinality(P), a < b
  PROVE  Nth(P, a) < Nth(P, b)
<1> DEFINE Upto(x) == {h \in P : h <= x}
           x == Nth(P, a)
           y == Nth(P, b)
<1>1. /\ x \in P /\ Cardinality(Upto(x)) = a
      /\ y \in P /\ Cardinality(Upto(y)) = b
  BY NthExists
<1>2. \A h \in P : h \in Int
  OBVIOUS
<1> HIDE DEF x, y
<1>3. SUFFICES ASSUME y <= x PROVE FALSE
  <2>1. x \in Int /\ y \in Int
    BY <1>1, <1>2, Zenon
  <2>2. \A u, v \in Int : ~(v <= u) => u < v
    OBVIOUS
  <2>3. ~(y <= x) => x < y
    BY <2>1, <2>2, Zenon
  <2>4. QED  BY <2>3, Zenon DEF x, y
<1>4. Upto(y) \subseteq Upto(x)
  <2>1. \A h \in P : h <= y => h <= x
    BY <1>1, <1>2, <1>3
  <2>2. QED  BY <2>1, Zenon
<1>5. Upto(x) \in SUBSET (1 .. m)
  OBVIOUS
<1>6. b <= a
  BY <1>1, <1>4, <1>5, PositionSets
<1>7. QED  BY <1>6, PositionSets

\* Pick keeps the entries at the positions, all of them, in their order.
LEMMA PickShape ==
  ASSUME NEW S, NEW s \in Seq(S), NEW P \in SUBSET (DOMAIN s)
  PROVE  /\ Pick(s, P) \in Seq(S) /\ DOMAIN Pick(s, P) = 1 .. Cardinality(P)
         /\ Cardinality(P) \in Nat
         /\ \A n \in DOMAIN Pick(s, P) : Nth(P, n) \in P /\ Pick(s, P)[n] = s[Nth(P, n)]
         /\ \A i \in P : \E n \in DOMAIN Pick(s, P) : Nth(P, n) = i
         /\ \A a, b \in DOMAIN Pick(s, P) : a < b => Nth(P, a) < Nth(P, b)
<1> DEFINE c == Cardinality(P)
<1>1. Len(s) \in Nat /\ P \in SUBSET (1 .. Len(s))
  BY LenProperties
<1>2. c \in Nat
  BY <1>1, PositionSets
<1>3. \A n \in 1 .. c : Nth(P, n) \in P
  BY <1>1, NthExists
<1>4. Pick(s, P) = [n \in 1 .. c |-> s[Nth(P, n)]]
  BY DEF Pick
<1>5. \A n \in 1 .. c : s[Nth(P, n)] \in S
  BY <1>1, <1>3
<1>6. Pick(s, P) \in Seq(S)
  BY <1>2, <1>4, <1>5, IsASeq
<1>7. \A i \in P : \E n \in 1 .. c : Nth(P, n) = i
  BY <1>1, NthOf
<1>8. \A a, b \in 1 .. c : a < b => Nth(P, a) < Nth(P, b)
  BY <1>1, NthIncreases
<1>9. QED  BY <1>2, <1>3, <1>4, <1>6, <1>7, <1>8

-----------------------------------------------------------------------------
(***************************************************************************)
(* Loops over values: what they have after each round.                     *)
(***************************************************************************)
\* Positions that are reached one by one are all reached.
LEMMA Stepwise ==
  ASSUME NEW k \in Nat, NEW T, 0 \in T, \A n \in 1 .. k : n - 1 \in T => n \in T
  PROVE  \A n \in 0 .. k : n \in T
<1> DEFINE Bad == {n \in 0 .. k : n \notin T}
<1>1. SUFFICES ASSUME Bad # {} PROVE FALSE
  OBVIOUS
<1>2. PICK n \in Bad : \A m \in Bad : n <= m
  <2>1. Bad \subseteq Nat
    OBVIOUS
  <2> HIDE DEF Bad
  <2>2. QED  BY <1>1, <2>1, LeastNatural
<1>3. n \in 1 .. k /\ n - 1 \in 0 .. k /\ ~(n <= n - 1)
  <2>1. n \in 0 .. k /\ n # 0
    OBVIOUS
  <2>2. QED  BY <2>1
<1>4. n - 1 \in T
  BY <1>2, <1>3
<1>5. QED  BY <1>3, <1>4

\* A loop of k rounds over values in X: the function that says what it has after
\* each of them.
StepsOf(X, k) == [X \X (1 .. k) -> X]

IsRun(f, X, a, k, step) ==
  f \in [0 .. k -> X] /\ f[0] = a /\ \A n \in 1 .. k : f[n] = step[<<f[n - 1], n>>]

LEMMA Loop ==
  ASSUME NEW X, NEW a \in X, NEW k \in Nat, NEW step \in StepsOf(X, k)
  PROVE  \E f : IsRun(f, X, a, k, step)
<1> DEFINE Is(f, j) == /\ f \in [0 .. j -> X] /\ f[0] = a
                       /\ \A n \in 1 .. j : f[n] = step[<<f[n - 1], n>>]
           T == {j \in 0 .. k : \E f : Is(f, j)}
<1>0. step \in [X \X (1 .. k) -> X]
  BY DEF StepsOf
<1>1. 0 \in T
  <2>1. Is([n \in 0 .. 0 |-> a], 0)
    OBVIOUS
  <2> HIDE DEF Is
  <2>2. QED  BY <2>1
<1>2. ASSUME NEW j \in 1 .. k, j - 1 \in T PROVE j \in T
  <2>1. PICK f : Is(f, j - 1)
    BY <1>2
  <2> DEFINE last == step[<<f[j - 1], j>>]
             g == [n \in 0 .. j |-> IF n = j THEN last ELSE f[n]]
  <2>2. f[j - 1] \in X /\ last \in X
    <3>1. j - 1 \in 0 .. j - 1
      OBVIOUS
    <3>2. f[j - 1] \in X
      BY <2>1, <3>1
    <3>3. QED  BY <1>0, <3>2
  <2>3. g \in [0 .. j -> X] /\ g[0] = a
    <3>1. \A n \in 0 .. j : n # j => n \in 0 .. j - 1
      OBVIOUS
    <3>2. 0 # j /\ 0 \in 0 .. j
      OBVIOUS
    <3> HIDE DEF last
    <3>3. QED  BY <2>1, <2>2, <3>1, <3>2
  <2>4. ASSUME NEW n \in 1 .. j PROVE g[n] = step[<<g[n - 1], n>>]
    <3>1. n - 1 \in 0 .. j /\ n - 1 # j /\ g[n - 1] = f[n - 1]
      OBVIOUS
    <3>2. CASE n = j
      <4>1. g[n] = last
        BY <3>2
      <4>2. QED  BY <3>1, <3>2, <4>1
    <3>3. CASE n # j
      <4>1. n \in 1 .. j - 1 /\ g[n] = f[n]
        BY <3>3
      <4>2. f[n] = step[<<f[n - 1], n>>]
        BY <2>1, <4>1
      <4>3. QED  BY <3>1, <4>1, <4>2
    <3>4. QED  BY <3>2, <3>3
  <2>5. Is(g, j)
    <3> HIDE DEF g
    <3>1. QED  BY <2>3, <2>4
  <2> HIDE DEF Is
  <2>6. QED  BY <2>5
<1>3. \A j \in 0 .. k : j \in T
  <2> HIDE DEF T
  <2>1. QED  BY <1>1, <1>2, Stepwise
<1>4. PICK f : Is(f, k)
  BY <1>3
<1>5. QED  BY <1>4 DEF IsRun

=============================================================================
