---------------------------- MODULE Library_proofs ----------------------------
(***************************************************************************)
(* Theorems about the parts of the library that share no state with each   *)
(* other: the denial circuit breaker, for every limit and window, profile  *)
(* sessions, for every profile and set of capabilities, the protection of  *)
(* old turns, for every conversation, and the assistant's text, for every  *)
(* text, every pair of tags and every way to cut it.                       *)
(***************************************************************************)
EXTENDS Library, Positions_proofs, FunctionTheorems, SequenceTheorems,
        FiniteSetTheorems, TLAPS

-----------------------------------------------------------------------------
(***************************************************************************)
(* The breaker: what its two fields say of a list l of reviews.            *)
(***************************************************************************)
Denials(l, k) == {i \in 1 .. k : l[i] /\ i > k - DenialWindowSize}

EndsDenied(l, k, n) == k >= n /\ \A i \in (k - n + 1) .. k : l[i]

Excess(l, k) ==
  /\ l[k]
  /\ \/ EndsDenied(l, k, MaxConsecutiveDenials)
     \/ Cardinality(Denials(l, k)) >= MaxRecentDenials

\* r is the end of l, as much of it as the window holds.
KeepsWindow(l, r) ==
  /\ l \in Seq(BOOLEAN) /\ r \in Seq(BOOLEAN)
  /\ Len(r) <= DenialWindowSize /\ Len(r) <= Len(l)
  /\ Len(r) < DenialWindowSize => Len(r) = Len(l)
  /\ \A i \in 1 .. Len(r) : r[i] = l[Len(l) - Len(r) + i]

\* l ends in c denials in a row, and not in more.
KeepsRun(l, c) ==
  /\ c \in Nat /\ c <= Len(l)
  /\ \A i \in (Len(l) - c + 1) .. Len(l) : l[i]
  /\ c < Len(l) => ~l[Len(l) - c]

LEMMA Appended1 ==
  ASSUME NEW l \in Seq(BOOLEAN), NEW d \in BOOLEAN
  PROVE  /\ Append(l, d) \in Seq(BOOLEAN) /\ Len(Append(l, d)) = Len(l) + 1
         /\ Len(l) \in Nat
         /\ \A i \in 1 .. Len(l) : Append(l, d)[i] = l[i]
         /\ Append(l, d)[Len(l) + 1] = d
BY AppendProperties, LenProperties

LEMMA WindowStep ==
  ASSUME NEW l, NEW r, NEW d \in BOOLEAN, KeepsWindow(l, r)
  PROVE  KeepsWindow(Append(l, d), RecordRecentReview(r, d))
<1> DEFINE a == Append(l, d)
           b == Append(r, d)
           n == Len(l)
           m == Len(r)
<1>1. l \in Seq(BOOLEAN) /\ r \in Seq(BOOLEAN) /\ DenialWindowSize \in Nat \ {0}
  BY BreakerAssumption DEF KeepsWindow, BreakerAssumption
<1>2. /\ n \in Nat /\ m \in Nat /\ m <= DenialWindowSize /\ m <= n
      /\ m < DenialWindowSize => m = n
      /\ \A i \in 1 .. m : r[i] = l[n - m + i]
  BY <1>1 DEF KeepsWindow
<1>3. /\ a \in Seq(BOOLEAN) /\ Len(a) = n + 1 /\ a[n + 1] = d
      /\ \A i \in 1 .. n : a[i] = l[i]
  BY <1>1, Appended1
<1>4. /\ b \in Seq(BOOLEAN) /\ Len(b) = m + 1 /\ b[m + 1] = d /\ b # <<>>
      /\ \A i \in 1 .. m : b[i] = r[i]
  BY <1>1, Appended1, AppendProperties
<1> HIDE DEF a, b, n, m
<1>5. ASSUME NEW i \in 1 .. m + 1 PROVE b[i] = a[(n + 1) - (m + 1) + i]
  <2>1. CASE i = m + 1
    <3>1. (n + 1) - (m + 1) + i = n + 1
      BY <1>2, <2>1
    <3>2. QED  BY <1>3, <1>4, <2>1, <3>1
  <2>2. CASE i # m + 1
    <3>1. i \in 1 .. m /\ (n + 1) - (m + 1) + i = n - m + i /\ n - m + i \in 1 .. n
      BY <1>2, <2>2
    <3>2. b[i] = r[i] /\ r[i] = l[n - m + i] /\ a[n - m + i] = l[n - m + i]
      BY <1>2, <1>3, <1>4, <3>1
    <3>3. QED  BY <3>1, <3>2
  <2>3. QED  BY <2>1, <2>2
<1>6. CASE m < DenialWindowSize
  <2>1. RecordRecentReview(r, d) = b
    BY <1>6 DEF RecordRecentReview, b, m
  <2>2. KeepsWindow(a, b)
    BY <1>1, <1>2, <1>3, <1>4, <1>5, <1>6 DEF KeepsWindow
  <2>3. QED  BY <2>1, <2>2 DEF a
<1>7. CASE ~(m < DenialWindowSize)
  <2>1. RecordRecentReview(r, d) = Tail(b)
    BY <1>7 DEF RecordRecentReview, b, m
  <2> DEFINE t == Tail(b)
  <2>2. t \in Seq(BOOLEAN) /\ Len(t) = m /\ \A i \in 1 .. m : t[i] = b[i + 1]
    <3>1. /\ t \in Seq(BOOLEAN) /\ Len(t) = Len(b) - 1
          /\ \A i \in 1 .. Len(t) : t[i] = b[i + 1]
      BY <1>4, HeadTailProperties
    <3>2. Len(t) = m
      BY <1>2, <1>4, <3>1
    <3>3. QED  BY <3>1, <3>2
  <2> HIDE DEF t
  <2>3. ASSUME NEW i \in 1 .. m PROVE t[i] = a[(n + 1) - m + i]
    <3>1. i + 1 \in 1 .. m + 1 /\ (n + 1) - (m + 1) + (i + 1) = (n + 1) - m + i
      BY <1>2
    <3>2. QED  BY <1>5, <2>2, <3>1
  <2>4. KeepsWindow(a, t)
    <3>1. m <= DenialWindowSize /\ m <= n + 1
      BY <1>2
    <3>2. QED  BY <1>3, <1>7, <2>2, <2>3, <3>1 DEF KeepsWindow
  <2>5. QED  BY <2>1, <2>4 DEF a, t
<1>8. QED  BY <1>6, <1>7

\* The window counts the denials among the last reviews.
LEMMA WindowCount ==
  ASSUME NEW l, NEW r, KeepsWindow(l, r)
  PROVE  CountDenials(r) = Cardinality(Denials(l, Len(l)))
<1> DEFINE n == Len(l)
           m == Len(r)
           S == {i \in DOMAIN r : r[i]}
           T == Denials(l, n)
           f == [i \in S |-> n - m + i]
<1>1. l \in Seq(BOOLEAN) /\ r \in Seq(BOOLEAN) /\ DenialWindowSize \in Nat \ {0}
  BY BreakerAssumption DEF KeepsWindow, BreakerAssumption
<1>2. /\ n \in Nat /\ m \in Nat /\ m <= DenialWindowSize /\ m <= n
      /\ m < DenialWindowSize => m = n
      /\ \A i \in 1 .. m : r[i] = l[n - m + i]
      /\ DOMAIN r = 1 .. m
  BY <1>1, LenProperties DEF KeepsWindow
<1>3. IsFiniteSet(S)
  <2>1. IsFiniteSet(1 .. m) /\ S \subseteq 1 .. m
    BY <1>2, FS_Interval
  <2>2. QED  BY <2>1, FS_Subset
<1> HIDE DEF n, m
<1>4. \A i \in S : n - m + i \in T
  <2> TAKE i \in S
  <2>1. i \in 1 .. m /\ r[i]
    BY <1>2
  <2>2. n - m + i \in 1 .. n /\ n - m + i > n - DenialWindowSize
    BY <1>1, <1>2, <2>1
  <2>3. l[n - m + i]
    BY <1>2, <2>1
  <2>4. QED  BY <2>2, <2>3 DEF Denials
<1>5. \A k \in T : \E i \in S : k = n - m + i
  <2> TAKE k \in T
  <2>1. k \in 1 .. n /\ l[k] /\ k > n - DenialWindowSize
    BY DEF Denials
  <2>2. k - (n - m) \in 1 .. m /\ n - m + (k - (n - m)) = k
    BY <1>1, <1>2, <2>1
  <2>3. r[k - (n - m)]
    BY <1>2, <2>1, <2>2
  <2>4. k - (n - m) \in S
    BY <1>2, <2>2, <2>3
  <2>5. QED  BY <2>2, <2>4
<1>6. f \in Bijection(S, T)
  <2>1. f \in [S -> T]
    BY <1>4
  <2>2. \A i, j \in S : f[i] = f[j] => i = j
    BY <1>2
  <2>3. \A k \in T : \E i \in S : f[i] = k
    BY <1>5
  <2> HIDE DEF f, S, T
  <2>4. QED  BY <2>1, <2>2, <2>3, Fun_IsBij
<1>7. Cardinality(S) = Cardinality(T)
  BY <1>3, <1>6, FS_Bijection DEF ExistsBijection
<1>8. QED  BY <1>7 DEF CountDenials, n

LEMMA RunStep ==
  ASSUME NEW l \in Seq(BOOLEAN), NEW c, KeepsRun(l, c)
  PROVE  KeepsRun(Append(l, TRUE), c + 1) /\ KeepsRun(Append(l, FALSE), 0)
<1> DEFINE n == Len(l)
<1>1. /\ n \in Nat /\ c \in Nat /\ c <= n
      /\ \A i \in (n - c + 1) .. n : l[i]
      /\ c < n => ~l[n - c]
  BY LenProperties DEF KeepsRun
<1>2. KeepsRun(Append(l, TRUE), c + 1)
  <2> DEFINE a == Append(l, TRUE)
  <2>1. Len(a) = n + 1 /\ a[n + 1] = TRUE /\ \A i \in 1 .. n : a[i] = l[i]
    BY Appended1
  <2> HIDE DEF n, a
  <2>2. ASSUME NEW i \in ((n + 1) - (c + 1) + 1) .. (n + 1) PROVE a[i]
    <3>1. i = n + 1 \/ (i \in (n - c + 1) .. n /\ i \in 1 .. n)
      BY <1>1
    <3>2. CASE i = n + 1
      BY <2>1, <3>2
    <3>3. CASE i \in (n - c + 1) .. n /\ i \in 1 .. n
      BY <1>1, <2>1, <3>3
    <3>4. QED  BY <3>1, <3>2, <3>3
  <2>3. ASSUME c + 1 < n + 1 PROVE ~a[(n + 1) - (c + 1)]
    <3>1. c < n /\ (n + 1) - (c + 1) = n - c /\ n - c \in 1 .. n
      BY <1>1, <2>3
    <3>2. QED  BY <1>1, <2>1, <3>1
  <2>4. c + 1 \in Nat /\ c + 1 <= n + 1
    BY <1>1
  <2>5. KeepsRun(a, c + 1)
    BY <2>1, <2>2, <2>3, <2>4 DEF KeepsRun
  <2>6. QED  BY <2>5 DEF a
<1>3. KeepsRun(Append(l, FALSE), 0)
  <2> DEFINE a == Append(l, FALSE)
  <2>1. Len(a) = n + 1 /\ a[n + 1] = FALSE
    BY Appended1
  <2> HIDE DEF n, a
  <2>2. (n + 1) - 0 = n + 1 /\ \A i \in ((n + 1) - 0 + 1) .. (n + 1) : FALSE
    BY <1>1
  <2>3. 0 \in Nat /\ 0 <= n + 1
    BY <1>1
  <2>4. KeepsRun(a, 0)
    BY <2>1, <2>2, <2>3 DEF KeepsRun
  <2>5. QED  BY <2>4 DEF a
<1>4. QED  BY <1>2, <1>3

LEMMA RunExcess ==
  ASSUME NEW l \in Seq(BOOLEAN), NEW c, KeepsRun(l, c), NEW n \in Nat \ {0}
  PROVE  EndsDenied(l, Len(l), n) <=> c >= n
<1> DEFINE m == Len(l)
<1>1. /\ m \in Nat /\ c \in Nat /\ c <= m
      /\ \A i \in (m - c + 1) .. m : l[i]
      /\ c < m => ~l[m - c]
  BY LenProperties DEF KeepsRun
<1> HIDE DEF m
<1>2. ASSUME c >= n PROVE EndsDenied(l, m, n)
  <2>1. m >= n /\ \A i \in (m - n + 1) .. m : i \in (m - c + 1) .. m
    BY <1>1, <1>2
  <2>2. QED  BY <1>1, <2>1 DEF EndsDenied
<1>3. ASSUME EndsDenied(l, m, n), ~(c >= n) PROVE FALSE
  <2>1. m >= n /\ \A i \in (m - n + 1) .. m : l[i]
    BY <1>3 DEF EndsDenied
  <2>2. c < m /\ m - c \in (m - n + 1) .. m
    BY <1>1, <1>3, <2>1
  <2>3. QED  BY <1>1, <2>1, <2>2
<1>4. QED  BY <1>2, <1>3 DEF m

\* Later reviews change nothing about earlier ones.
LEMMA ExcessKept ==
  ASSUME NEW l \in Seq(BOOLEAN), NEW d \in BOOLEAN, NEW k \in 1 .. Len(l)
  PROVE  Excess(Append(l, d), k) <=> Excess(l, k)
<1> DEFINE a == Append(l, d)
<1>1. Len(l) \in Nat /\ \A i \in 1 .. Len(l) : a[i] = l[i]
  BY Appended1
<1>2. \A i \in 1 .. k : i \in 1 .. Len(l)
  BY <1>1
<1> HIDE DEF a
<1>3. Denials(a, k) = Denials(l, k)
  BY <1>1, <1>2, Zenon DEF Denials
<1>4. k >= MaxConsecutiveDenials =>
        \A i \in (k - MaxConsecutiveDenials + 1) .. k : i \in 1 .. Len(l)
  BY <1>1, BreakerAssumption DEF BreakerAssumption
<1>5. EndsDenied(a, k, MaxConsecutiveDenials) <=> EndsDenied(l, k, MaxConsecutiveDenials)
  BY <1>1, <1>4, Zenon DEF EndsDenied
<1>6. a[k] = l[k]
  BY <1>1
<1>7. QED  BY <1>3, <1>5, <1>6, Zenon DEF Excess, a

-----------------------------------------------------------------------------
(***************************************************************************)
(* Breaker and reviews together.                                           *)
(***************************************************************************)
FirstExcess(l) ==
  {k \in 1 .. Len(l) : Excess(l, k) /\ \A j \in 1 .. k - 1 : ~Excess(l, j)}

\* The window holds the last reviews and the counter the last run of denials;
\* the breaker has tripped if any review so far was one too many, and the error
\* was returned for the first of them.
BreakerInv ==
  /\ breaker \in Breakers
  /\ KeepsWindow(log, breaker.recent)
  /\ KeepsRun(log, breaker.consecutive)
  /\ breaker.tripped <=> \E k \in 1 .. Len(log) : Excess(log, k)
  /\ errors = FirstExcess(log)

\* One more review.
LEMMA ExcessStep ==
  ASSUME NEW l \in Seq(BOOLEAN), NEW d \in BOOLEAN
  PROVE  /\ (\E k \in 1 .. Len(Append(l, d)) : Excess(Append(l, d), k))
              <=> \/ \E k \in 1 .. Len(l) : Excess(l, k)
                  \/ Excess(Append(l, d), Len(l) + 1)
         /\ FirstExcess(Append(l, d)) =
              FirstExcess(l) \cup
                (IF /\ Excess(Append(l, d), Len(l) + 1)
                    /\ ~\E k \in 1 .. Len(l) : Excess(l, k)
                 THEN {Len(l) + 1} ELSE {})
<1> DEFINE a == Append(l, d)
           n == Len(l)
<1>1. n \in Nat /\ Len(a) = n + 1
  BY Appended1
<1>2. \A k \in 1 .. n : Excess(a, k) <=> Excess(l, k)
  BY ExcessKept
<1> HIDE DEF a, n
<1>3. \A k \in 1 .. n + 1 : k \in 1 .. n \/ k = n + 1
  BY <1>1
<1>4. \A k \in 1 .. n : k \in 1 .. n + 1
  BY <1>1
<1>5. n + 1 \in 1 .. n + 1 /\ n + 1 \notin 1 .. n
  BY <1>1
<1>6. (\E k \in 1 .. n + 1 : Excess(a, k))
        <=> (\E k \in 1 .. n : Excess(l, k)) \/ Excess(a, n + 1)
  BY <1>2, <1>3, <1>4, <1>5, Zenon
<1>7. \A k \in 1 .. n : \A j \in 1 .. k - 1 : j \in 1 .. n
  BY <1>1
<1>8. 1 .. (n + 1) - 1 = 1 .. n
  BY <1>1
<1> DEFINE New == IF Excess(a, n + 1) /\ ~\E k \in 1 .. n : Excess(l, k)
                  THEN {n + 1} ELSE {}
<1>9. ASSUME NEW k \in 1 .. n
      PROVE  (Excess(a, k) /\ \A j \in 1 .. k - 1 : ~Excess(a, j))
               <=> (Excess(l, k) /\ \A j \in 1 .. k - 1 : ~Excess(l, j))
  BY <1>2, <1>7, <1>9, Zenon
<1>10. (Excess(a, n + 1) /\ \A j \in 1 .. (n + 1) - 1 : ~Excess(a, j))
         <=> n + 1 \in New
  <2>1. (\A j \in 1 .. n : ~Excess(a, j)) <=> ~\E k \in 1 .. n : Excess(l, k)
    BY <1>2, Zenon
  <2>2. QED  BY <1>8, <2>1, Zenon
<1>11. New \subseteq {n + 1}
  OBVIOUS
<1> HIDE DEF New
<1>12. FirstExcess(a) = FirstExcess(l) \cup New
  <2>1. ASSUME NEW k \in FirstExcess(a) PROVE k \in FirstExcess(l) \cup New
    <3>1. /\ k \in 1 .. n + 1 /\ Excess(a, k)
          /\ \A j \in 1 .. k - 1 : ~Excess(a, j)
      BY <1>1, <2>1 DEF FirstExcess
    <3>2. CASE k \in 1 .. n
      BY <1>9, <3>1, <3>2, Zenon DEF FirstExcess, n
    <3>3. CASE k = n + 1
      BY <1>10, <3>1, <3>3, Zenon
    <3>4. QED  BY <1>3, <3>1, <3>2, <3>3, Zenon
  <2>2. ASSUME NEW k \in FirstExcess(l) PROVE k \in FirstExcess(a)
    <3>1. /\ k \in 1 .. n /\ Excess(l, k)
          /\ \A j \in 1 .. k - 1 : ~Excess(l, j)
      BY <2>2 DEF FirstExcess, n
    <3>2. k \in 1 .. Len(a)
      BY <1>1, <1>4, <3>1
    <3>3. QED  BY <1>9, <3>1, <3>2, Zenon DEF FirstExcess
  <2>3. ASSUME NEW k \in New PROVE k \in FirstExcess(a)
    <3>1. k = n + 1 /\ k \in 1 .. Len(a)
      BY <1>1, <1>5, <1>11, <2>3
    <3>2. QED  BY <1>10, <2>3, <3>1, Zenon DEF FirstExcess
  <2>4. QED  BY <2>1, <2>2, <2>3, Zenon
<1>13. QED  BY <1>1, <1>6, <1>12, Zenon DEF a, n, New

LEMMA BreakerStep == BreakerInv /\ [Next]_vars => BreakerInv'
<1> SUFFICES ASSUME BreakerInv, [Next]_vars PROVE BreakerInv'
  OBVIOUS
<1>1. CASE UNCHANGED vars
  BY <1>1 DEF vars, BreakerInv
<1> DEFINE w(d) == RecordRecentReview(breaker.recent, d)
<1>2. /\ breaker \in Breakers /\ log \in Seq(BOOLEAN)
      /\ KeepsWindow(log, breaker.recent) /\ KeepsRun(log, breaker.consecutive)
      /\ breaker.tripped <=> \E k \in 1 .. Len(log) : Excess(log, k)
      /\ errors = FirstExcess(log)
  BY DEF BreakerInv, KeepsWindow
<1>3. /\ breaker.consecutive \in Nat /\ breaker.recent \in Seq(BOOLEAN)
      /\ breaker.tripped \in BOOLEAN
  BY <1>2 DEF Breakers
<1>4. CASE Deny
  <2> DEFINE a == Append(log, TRUE)
             c == breaker.consecutive + 1
  <2>1. /\ log' = a /\ breaker' = RecordDenial(breaker)
        /\ errors' = IF DenialTrips(breaker) THEN errors \cup {Len(log')} ELSE errors
    BY <1>4 DEF Deny
  <2>2. KeepsWindow(a, w(TRUE)) /\ KeepsRun(a, c)
    BY <1>2, WindowStep, RunStep
  <2>3. Len(a) = Len(log) + 1 /\ a[Len(log) + 1] = TRUE
    BY <1>2, Appended1
  <2>4. CountDenials(w(TRUE)) = Cardinality(Denials(a, Len(a)))
    BY <2>2, WindowCount
  <2>5. EndsDenied(a, Len(a), MaxConsecutiveDenials) <=> c >= MaxConsecutiveDenials
    <3>1. a \in Seq(BOOLEAN)
      BY <1>2, Appended1
    <3>2. QED  BY <2>2, <3>1, RunExcess, BreakerAssumption DEF BreakerAssumption
  <2>6. Excess(a, Len(log) + 1) <=>
          \/ c >= MaxConsecutiveDenials
          \/ CountDenials(w(TRUE)) >= MaxRecentDenials
    BY <2>3, <2>4, <2>5 DEF Excess
  <2>7. /\ breaker'.consecutive = c /\ breaker'.recent = w(TRUE)
        /\ breaker'.tripped = (breaker.tripped \/ Excess(a, Len(log) + 1))
    BY <2>1, <2>6 DEF RecordDenial
  <2>8. breaker' \in Breakers
    <3>1. c \in Nat
      BY <1>3
    <3>2. w(TRUE) \in Seq(BOOLEAN)
      BY <2>2 DEF KeepsWindow
    <3>3. QED  BY <1>3, <2>1, <3>1, <3>2 DEF RecordDenial, Breakers
  <2>9. DenialTrips(breaker) <=> ~breaker.tripped /\ Excess(a, Len(log) + 1)
    BY <2>1, <2>7 DEF DenialTrips
  <2> HIDE DEF a, c, w
  <2>10. breaker'.tripped <=> \E k \in 1 .. Len(log') : Excess(log', k)
    BY <1>2, <2>1, <2>7, ExcessStep, Zenon DEF a
  <2>11. errors' = FirstExcess(log')
    <3>1. FirstExcess(a) = FirstExcess(log) \cup
            (IF Excess(a, Len(log) + 1) /\ ~\E k \in 1 .. Len(log) : Excess(log, k)
             THEN {Len(log) + 1} ELSE {})
      BY <1>2, ExcessStep DEF a
    <3>2. CASE DenialTrips(breaker)
      BY <1>2, <2>1, <2>3, <2>9, <3>1, <3>2
    <3>3. CASE ~DenialTrips(breaker)
      BY <1>2, <2>1, <2>9, <3>1, <3>3
    <3>4. QED  BY <3>2, <3>3
  <2>12. QED  BY <2>1, <2>2, <2>7, <2>8, <2>10, <2>11 DEF BreakerInv
<1>5. CASE Approve
  <2> DEFINE a == Append(log, FALSE)
  <2>1. /\ log' = a /\ breaker' = RecordNonDenial(breaker) /\ errors' = errors
    BY <1>5 DEF Approve
  <2>2. KeepsWindow(a, w(FALSE)) /\ KeepsRun(a, 0)
    BY <1>2, WindowStep, RunStep
  <2>3. ~Excess(a, Len(log) + 1)
    BY <1>2, Appended1 DEF Excess
  <2>4. /\ breaker'.consecutive = 0 /\ breaker'.recent = w(FALSE)
        /\ breaker'.tripped = breaker.tripped /\ breaker' \in Breakers
    <3>1. w(FALSE) \in Seq(BOOLEAN)
      BY <2>2 DEF KeepsWindow
    <3>2. QED  BY <1>2, <2>1, <3>1 DEF RecordNonDenial, Breakers
  <2> HIDE DEF a, w
  <2>5. breaker'.tripped <=> \E k \in 1 .. Len(log') : Excess(log', k)
    BY <1>2, <2>1, <2>3, <2>4, ExcessStep, Zenon DEF a
  <2>6. errors' = FirstExcess(log')
    BY <1>2, <2>1, <2>3, ExcessStep DEF a
  <2>7. QED  BY <2>1, <2>2, <2>4, <2>5, <2>6 DEF BreakerInv
<1>6. QED  BY <1>1, <1>4, <1>5 DEF Next

LEMMA BreakerInvariant == Spec => []BreakerInv
<1>1. Init => BreakerInv
  <2> SUFFICES ASSUME Init PROVE BreakerInv
    OBVIOUS
  <2>1. /\ breaker.consecutive = 0 /\ breaker.recent = <<>> /\ breaker.tripped = FALSE
        /\ breaker \in Breakers /\ log = <<>> /\ errors = {}
    BY EmptySeq DEF Init, NewBreaker, Breakers
  <2>2. Len(<<>>) = 0 /\ <<>> \in Seq(BOOLEAN)
    BY EmptySeq
  <2>3. KeepsWindow(<<>>, <<>>) /\ KeepsRun(<<>>, 0)
    BY <2>2, BreakerAssumption DEF KeepsWindow, KeepsRun, BreakerAssumption
  <2>4. FirstExcess(<<>>) = {} /\ ~\E k \in 1 .. Len(<<>>) : Excess(<<>>, k)
    BY <2>2 DEF FirstExcess
  <2>5. QED  BY <2>1, <2>3, <2>4 DEF BreakerInv
<1>2. QED  BY <1>1, BreakerStep, PTL DEF Spec

\* The window never holds more reviews than it may, and only reviews that took
\* place returned the error, for every limit.
THEOREM BreakerWellTyped == Spec => []TypeOK
<1>1. BreakerInv => TypeOK
  BY DEF BreakerInv, KeepsWindow, FirstExcess, TypeOK
<1>2. QED  BY <1>1, BreakerInvariant, PTL

\* A turn is interrupted by exactly the first review that completes the denials
\* in a row or in the window that the limits allow, for every limit, window
\* and order of reviews (recordDenial, recordNonDenial).
THEOREM FirstExcessTrips == Spec => []TripsExactlyOnFirstExcess
<1>1. BreakerInv => TripsExactlyOnFirstExcess
  <2>1. \A k : MustTripAt(k) <=> Excess(log, k)
    BY DEF MustTripAt, Excess, EndsInDenials, EndsDenied, DenialsInWindow, Denials
  <2>2. QED
    BY <2>1, Zenon DEF BreakerInv, TripsExactlyOnFirstExcess, FirstExcess
<1>2. QED  BY <1>1, BreakerInvariant, PTL

-----------------------------------------------------------------------------
(***************************************************************************)
(* The search for deferred tools.                                          *)
(***************************************************************************)
LEMMA ScoreType ==
  ASSUME NEW name, NEW query \in Seq(Terms)
  PROVE  Score(name, query) \in Nat
<1>1. DOMAIN query = 1 .. Len(query) /\ Len(query) \in Nat
  BY LenProperties
<1>2. IsFiniteSet(1 .. Len(query))
  BY <1>1, FS_Interval
<1>3. IsFiniteSet({i \in DOMAIN query : Matches(name, query[i])})
  BY <1>1, <1>2, FS_Subset
<1>4. QED  BY <1>3, FS_CardinalityType DEF Score

\* Ranking is a strict order of the names.
LEMMA RanksOrder ==
  ASSUME NEW query \in Seq(Terms)
  PROVE  /\ \A a \in Nat : ~RanksBefore(a, a, query)
         /\ \A a, b \in Nat : a = b \/ RanksBefore(a, b, query) \/ RanksBefore(b, a, query)
         /\ \A a, b, c \in Nat :
              RanksBefore(a, b, query) /\ RanksBefore(b, c, query) => RanksBefore(a, c, query)
         /\ \A a, b \in Nat : RanksBefore(a, b, query) => Score(b, query) <= Score(a, query)
BY ScoreType DEF RanksBefore

\* The matches in front of n.
Ahead(M, n, query) == {m \in M : RanksBefore(m, n, query)}

LEMMA FrontCounts ==
  ASSUME NEW M, IsFiniteSet(M), M \subseteq Nat, NEW query \in Seq(Terms)
  PROVE  /\ \A n \in M : Cardinality(Ahead(M, n, query)) \in 0 .. Cardinality(M) - 1
         /\ \A m, n \in M :
              RanksBefore(m, n, query) =>
                Cardinality(Ahead(M, m, query)) < Cardinality(Ahead(M, n, query))
<1> DEFINE F(n) == Ahead(M, n, query)
<1>1. \A n \in M : F(n) \subseteq M /\ n \notin F(n)
  BY RanksOrder DEF Ahead
<1>2. \A n \in M : IsFiniteSet(F(n)) /\ Cardinality(F(n)) \in Nat
  BY <1>1, FS_Subset, FS_CardinalityType
<1>3. ASSUME NEW n \in M PROVE Cardinality(F(n)) \in 0 .. Cardinality(M) - 1
  <2>1. F(n) \subseteq M \ {n}
    BY <1>1
  <2>2. IsFiniteSet(M \ {n}) /\ Cardinality(M \ {n}) = Cardinality(M) - 1
    BY FS_RemoveElement
  <2>3. Cardinality(F(n)) <= Cardinality(M \ {n})
    BY <2>1, <2>2, FS_Subset
  <2>4. Cardinality(F(n)) \in Nat /\ Cardinality(M) \in Nat
    BY <1>2, FS_CardinalityType
  <2> HIDE DEF F
  <2>5. QED  BY <2>2, <2>3, <2>4
<1>4. ASSUME NEW m \in M, NEW n \in M, RanksBefore(m, n, query)
      PROVE  Cardinality(F(m)) < Cardinality(F(n))
  <2>1. \A x \in F(m) : x \in F(n)
    BY <1>4, RanksOrder DEF Ahead
  <2>2. m \in F(n) /\ m \notin F(m)
    BY <1>1, <1>4 DEF Ahead
  <2>3. F(m) \cup {m} \subseteq F(n)
    BY <2>1, <2>2
  <2>4. Cardinality(F(m) \cup {m}) = Cardinality(F(m)) + 1
    BY <1>2, <2>2, FS_AddElement
  <2>5. Cardinality(F(m) \cup {m}) <= Cardinality(F(n))
    BY <1>2, <2>3, FS_Subset
  <2>6. Cardinality(F(m)) \in Nat /\ Cardinality(F(n)) \in Nat
    BY <1>2
  <2> HIDE DEF F
  <2>7. QED  BY <2>4, <2>5, <2>6
<1>5. QED  BY <1>3, <1>4

Sorted(M, query) ==
  [i \in 1 .. Cardinality(M) |-> CHOOSE n \in M : Cardinality(Ahead(M, n, query)) = i - 1]

\* The sorted list holds every match once, the better ones first.
LEMMA SortedMatches ==
  ASSUME NEW M, IsFiniteSet(M), M \subseteq Nat, NEW query \in Seq(Terms)
  PROVE  LET s == Sorted(M, query) IN
         /\ s \in Seq(M) /\ Len(s) = Cardinality(M)
         /\ \A n \in M : \E i \in 1 .. Len(s) : s[i] = n
         /\ \A i, j \in 1 .. Len(s) : i < j => Score(s[j], query) <= Score(s[i], query)
<1> DEFINE c == Cardinality(M)
           s == Sorted(M, query)
           K(n) == Cardinality(Ahead(M, n, query))
           f == [n \in M |-> K(n)]
<1>1. c \in Nat
  BY FS_CardinalityType
<1>2. \A n \in M : K(n) \in 0 .. c - 1
  BY FrontCounts
<1>3. \A m, n \in M : RanksBefore(m, n, query) => K(m) < K(n)
  BY FrontCounts
<1>4. \A m, n \in M : K(m) = K(n) => m = n
  <2> TAKE m \in M, n \in M
  <2> HAVE K(m) = K(n)
  <2>1. m \in Nat /\ n \in Nat
    OBVIOUS
  <2>2. ~(K(m) < K(n)) /\ ~(K(n) < K(m))
    BY <1>2
  <2>3. ~RanksBefore(m, n, query) /\ ~RanksBefore(n, m, query)
    BY <1>3, <2>2
  <2>4. QED  BY <2>1, <2>3, RanksOrder
<1> HIDE DEF c, K
<1>5. f \in Injection(M, 0 .. c - 1)
  <2>1. f \in [M -> 0 .. c - 1]
    BY <1>2
  <2>2. \A m, n \in M : f[m] = f[n] => m = n
    BY <1>4
  <2> HIDE DEF f
  <2>3. QED  BY <2>1, <2>2, Fun_IsInj
<1>6. f \in Surjection(M, 0 .. c - 1)
  <2>1. IsFiniteSet(0 .. c - 1) /\ Cardinality(0 .. c - 1) = c
    BY <1>1, FS_Interval
  <2> HIDE DEF f
  <2>2. QED  BY <1>5, <2>1, FS_Injection DEF c
<1>7. \A k \in 0 .. c - 1 : \E n \in M : K(n) = k
  <2>1. \A k \in 0 .. c - 1 : \E n \in M : f[n] = k
    BY <1>6, Zenon DEF Surjection
  <2>2. QED  BY <2>1
<1>8. s = [i \in 1 .. c |-> CHOOSE n \in M : K(n) = i - 1]
  BY DEF c, K, Sorted
<1> HIDE DEF s
<1>9. \A i \in 1 .. c : s[i] \in M /\ K(s[i]) = i - 1
  <2> TAKE i \in 1 .. c
  <2>1. i - 1 \in 0 .. c - 1
    BY <1>1
  <2>2. s[i] = CHOOSE n \in M : K(n) = i - 1
    BY <1>8
  <2>3. QED  BY <1>7, <2>1, <2>2
<1>10. s \in Seq(M) /\ Len(s) = c /\ c = Cardinality(M)
  <2>1. s = [i \in 1 .. c |-> s[i]]
    BY <1>8
  <2>2. \A i \in 1 .. c : s[i] \in M
    BY <1>9
  <2>3. s \in Seq(M)
    BY <1>1, <2>1, <2>2, IsASeq
  <2>4. Len(s) = c
    <3>1. DOMAIN s = 1 .. c
      BY <1>8
    <3>2. QED  BY <1>1, <2>3, <3>1, LenProperties
  <2>5. QED  BY <2>3, <2>4 DEF c
<1>11. ASSUME NEW n \in M PROVE \E i \in 1 .. c : s[i] = n
  <2>1. K(n) + 1 \in 1 .. c /\ (K(n) + 1) - 1 = K(n)
    BY <1>1, <1>2
  <2>2. s[K(n) + 1] \in M /\ K(s[K(n) + 1]) = K(n)
    BY <1>9, <2>1
  <2>3. s[K(n) + 1] = n
    BY <1>4, <2>2
  <2>4. QED  BY <2>1, <2>3
<1>12. ASSUME NEW i \in 1 .. c, NEW j \in 1 .. c, i < j
       PROVE  Score(s[j], query) <= Score(s[i], query)
  <2>0. /\ s[i] \in M /\ s[j] \in M
        /\ K(s[i]) = i - 1 /\ K(s[j]) = j - 1 /\ i - 1 < j - 1
    BY <1>9, <1>12
  <2>1. s[i] \in Nat /\ s[j] \in Nat /\ K(s[i]) < K(s[j]) /\ s[i] # s[j]
    <3>1. i - 1 # j - 1
      BY <2>0
    <3>2. s[i] # s[j]
      BY <2>0, <3>1
    <3>3. K(s[i]) < K(s[j])
      BY <2>0, Zenon
    <3>4. QED  BY <2>0, <3>2, <3>3
  <2>2. ~RanksBefore(s[j], s[i], query)
    <3>1. RanksBefore(s[j], s[i], query) => K(s[j]) < K(s[i])
      BY <1>3, <1>9
    <3>2. ~(K(s[j]) < K(s[i]))
      <4>1. K(s[i]) \in Int /\ K(s[j]) \in Int
        BY <2>0
      <4>2. QED  BY <2>1, <4>1
    <3>3. QED  BY <3>1, <3>2
  <2>3. RanksBefore(s[i], s[j], query)
    BY <2>1, <2>2, RanksOrder
  <2>4. QED  BY <2>1, <2>3, RanksOrder
<1>13. QED  BY <1>10, <1>11, <1>12 DEF s

\* What a search answers: the best matches, and all of them if the limit allows.
Best(tools, query, most, found) ==
  LET left == {n \in tools : Score(n, query) > 0} \ ToSet(found) IN
  /\ ToSet(found) \subseteq tools
  /\ \A n \in left, i \in DOMAIN found : Score(n, query) <= Score(found[i], query)
  /\ left # {} => Len(found) = most

LEMMA SearchIsBest ==
  ASSUME NEW tools, IsFiniteSet(Deferred(tools)), Deferred(tools) \subseteq Nat,
         NEW query \in Seq(Terms), NEW most \in Nat
  PROVE  Best(Deferred(tools), query, most, DispatchToolSearch(tools, query, most))
<1> DEFINE D == Deferred(tools)
           M == {n \in D : Score(n, query) > 0}
           s == SearchDeferredTools(tools, query)
           found == DispatchToolSearch(tools, query, most)
<1>1. IsFiniteSet(M) /\ M \subseteq Nat
  BY FS_Subset
<1>2. s = Sorted(M, query)
  BY DEF SearchDeferredTools, Sorted, Ahead
<1>3. found = IF Len(s) > most THEN SubSeq(s, 1, most) ELSE s
  BY DEF DispatchToolSearch
<1> HIDE DEF s, found
<1>4. /\ s \in Seq(M) /\ Len(s) = Cardinality(M)
      /\ \A n \in M : \E i \in 1 .. Len(s) : s[i] = n
      /\ \A i, j \in 1 .. Len(s) : i < j => Score(s[j], query) <= Score(s[i], query)
  <2> HIDE DEF M
  <2>1. QED  BY <1>1, <1>2, SortedMatches
<1>5. Len(s) \in Nat /\ DOMAIN s = 1 .. Len(s)
  BY <1>4, LenProperties
<1>6. CASE Len(s) > most
  <2>1. found = SubSeq(s, 1, most)
    BY <1>3, <1>6
  <2>2. /\ Len(found) = most /\ DOMAIN found = 1 .. most
        /\ \A i \in 1 .. most : found[i] = s[i] /\ i \in 1 .. Len(s)
    <3>1. \A i \in 1 .. most : i \in 1 .. Len(s) /\ s[i] \in M
      BY <1>4, <1>5, <1>6
    <3>2. /\ SubSeq(s, 1, most) \in Seq(M)
          /\ Len(SubSeq(s, 1, most)) = IF 1 <= most THEN most - 1 + 1 ELSE 0
          /\ \A i \in 1 .. most - 1 + 1 : SubSeq(s, 1, most)[i] = s[1 + i - 1]
      <4> HIDE DEF M
      <4>1. 1 \in Int /\ most \in Int
        OBVIOUS
      <4>2. QED  BY <3>1, <4>1, SubSeqProperties
    <3>3. Len(found) = most
      BY <2>1, <3>2
    <3>4. DOMAIN found = 1 .. most
      <4>1. found \in Seq(M)
        BY <2>1, <3>2
      <4>2. QED  BY <3>3, <4>1, LenProperties
    <3>5. ASSUME NEW i \in 1 .. most PROVE found[i] = s[i]
      <4>1. i \in 1 .. most - 1 + 1 /\ 1 + i - 1 = i
        OBVIOUS
      <4>2. QED  BY <2>1, <3>2, <4>1
    <3>6. QED  BY <3>1, <3>3, <3>4, <3>5
  <2>3. \A i \in DOMAIN found : found[i] \in M
    BY <1>4, <1>5, <2>2
  <2>4. ASSUME NEW n \in M, n \notin ToSet(found), NEW i \in DOMAIN found
        PROVE  Score(n, query) <= Score(found[i], query)
    <3>1. PICK j \in 1 .. Len(s) : s[j] = n
      BY <1>4
    <3>2. j \notin 1 .. most
      BY <2>2, <2>4, <3>1 DEF ToSet
    <3>3. i \in 1 .. Len(s) /\ i < j /\ found[i] = s[i]
      BY <1>5, <2>2, <3>2
    <3>4. QED  BY <1>4, <3>1, <3>3
  <2>5. ToSet(found) \subseteq D
    BY <2>3 DEF ToSet
  <2>6. QED  BY <2>2, <2>4, <2>5 DEF Best, found
<1>7. CASE ~(Len(s) > most)
  <2>1. found = s
    BY <1>3, <1>7
  <2>2. \A n \in M : n \in ToSet(found)
    BY <1>4, <1>5, <2>1 DEF ToSet
  <2>3. ToSet(found) \subseteq D
    BY <1>4, <1>5, <2>1 DEF ToSet
  <2>4. M \ ToSet(found) = {}
    BY <2>2
  <2>5. QED  BY <2>3, <2>4 DEF Best, found
<1>8. QED  BY <1>6, <1>7

\* A search answers at most what there is to find.
LEMMA SearchFits ==
  ASSUME NEW tools, IsFiniteSet(Deferred(tools)), Deferred(tools) \subseteq Nat,
         NEW query \in Seq(Terms), NEW most \in Nat
  PROVE  Len(DispatchToolSearch(tools, query, most)) <= Cardinality(Deferred(tools))
<1> DEFINE D == Deferred(tools)
           M == {n \in D : Score(n, query) > 0}
           s == SearchDeferredTools(tools, query)
           found == DispatchToolSearch(tools, query, most)
<1>1. IsFiniteSet(M) /\ M \subseteq Nat /\ Cardinality(M) <= Cardinality(D)
      /\ Cardinality(M) \in Nat /\ Cardinality(D) \in Nat
  BY FS_Subset, FS_CardinalityType
<1>2. s = Sorted(M, query)
  BY DEF SearchDeferredTools, Sorted, Ahead
<1>3. found = IF Len(s) > most THEN SubSeq(s, 1, most) ELSE s
  BY DEF DispatchToolSearch
<1> HIDE DEF s, found
<1>4. s \in Seq(M) /\ Len(s) = Cardinality(M)
  <2> HIDE DEF M
  <2>1. QED  BY <1>1, <1>2, SortedMatches
<1>5. CASE Len(s) > most
  <2> HIDE DEF M
  <2>1. \A i \in 1 .. most : s[i] \in M
    <3>1. \A i \in 1 .. most : i \in 1 .. Len(s)
      BY <1>1, <1>4, <1>5
    <3>2. QED  BY <1>4, <3>1, ElementOfSeq
  <2>2. Len(SubSeq(s, 1, most)) = IF 1 <= most THEN most - 1 + 1 ELSE 0
    <3>1. 1 \in Int /\ most \in Int
      OBVIOUS
    <3>2. QED  BY <2>1, <3>1, SubSeqProperties
  <2>3. Len(found) = most
    BY <1>3, <1>5, <2>2
  <2>4. QED  BY <1>1, <1>4, <1>5, <2>3 DEF found
<1>6. CASE ~(Len(s) > most)
  BY <1>1, <1>3, <1>4, <1>6 DEF found
<1>7. QED  BY <1>5, <1>6

-----------------------------------------------------------------------------
(***************************************************************************)
(* Profile sessions.                                                       *)
(***************************************************************************)
Chosen(p) == {p.handlers[i] : i \in VisibleProfileHandlers(p)}

\* A session works on its snapshot: the capabilities it was made with and the
\* handlers visible to them, none of them called tool_search.
SessionInv ==
  /\ profile \in Profiles
  /\ made \in BOOLEAN
  /\ ~made => router = {} /\ answer = NoAnswer
  /\ made =>
       /\ snapshot \in Profiles /\ granted = snapshot.caps
       /\ ~HandlersFail(snapshot) /\ router = Chosen(snapshot)
       /\ \A h \in router : h.name # ToolSearch

\* What may have let a call through that a session with a reviewer runs.
LetThrough(name, asked, by) ==
  /\ snapshot.policy \notin {"deny_all", "unknown"}
  /\ \/ by = "reviewer"
     \/ by = "hook" /\ snapshot.hook /\ asked = {"hook"}
     \/ by = "grant" /\ snapshot.grants /\ Handler(name).keyed
     \/ snapshot.policy = "require_for_sensitive" /\ Handler(name).guard = "none"

\* Why a call is denied that nobody was to approve.
DeniedForCause(name) ==
  ~snapshot.reviewer /\ snapshot.policy \in {None, "allow_all"} =>
    /\ name \in NamedIn(router)
    /\ ProfileDenies(name) \/ Handler(name).guard = "denied"

\* How a call ended, in terms of the profile.
AnswerInv ==
  /\ answer.end = "ran" =>
       /\ answer.tool \in NamedIn(router)
       /\ ~ProfileDenies(answer.tool)
       /\ snapshot.reviewer => LetThrough(answer.tool, answer.asked, answer.by)
       /\ "reviewer" \in answer.asked => answer.by = "reviewer"
  /\ answer.asked # {} => ~ProfileDenies(answer.tool)
  /\ answer.end = "found" => Best(Deferred(router), answer.query, answer.limit, answer.found)
  /\ answer.end = "unknown" => answer.tool \notin NamedIn(router)
  /\ answer.end = "denied" => DeniedForCause(answer.tool)

\* What a made session's router holds.
LEMMA RouterHolds ==
  ASSUME SessionInv
  PROVE  /\ \A h \in router : /\ h \in Handlers /\ h.name \in ToolNames
                              /\ h.visibility # None /\ Satisfied(granted, h.visibility)
         /\ \A h \in router : /\ made
                              /\ \E i \in DOMAIN snapshot.handlers :
                                   /\ h = snapshot.handlers[i]
                                   /\ Satisfied(snapshot.caps, h.visibility)
         /\ IsFiniteSet(Deferred(router)) /\ Deferred(router) \subseteq Nat
<1>1. CASE ~made
  <2>1. router = {}
    BY <1>1 DEF SessionInv
  <2>2. Deferred(router) = {}
    BY <2>1 DEF Deferred
  <2>3. QED  BY <2>1, <2>2, FS_EmptySet
<1>2. CASE made
  <2> DEFINE hs == snapshot.handlers
             V == VisibleProfileHandlers(snapshot)
  <2>1. /\ snapshot \in Profiles /\ granted = snapshot.caps
        /\ ~HandlersFail(snapshot) /\ router = Chosen(snapshot)
        /\ \A h \in router : h.name # ToolSearch
    BY <1>2 DEF SessionInv
  <2>2. hs \in Seq(Handlers \cup {None})
    BY <2>1 DEF Profiles
  <2>3. /\ V \subseteq DOMAIN hs /\ router = {hs[i] : i \in V}
        /\ \A i \in V : Satisfied(granted, hs[i].visibility)
    BY <2>1 DEF VisibleProfileHandlers, Chosen
  <2>4. \A i \in DOMAIN hs : hs[i] # None /\ hs[i].visibility # None
    BY <2>1 DEF HandlersFail
  <2> HIDE DEF hs, V
  <2>5. \A i \in DOMAIN hs : hs[i] \in Handlers
    BY <2>2, <2>4
  <2>6. ASSUME NEW h \in router
        PROVE  /\ h \in Handlers /\ h.name \in ToolNames
               /\ h.visibility # None /\ Satisfied(granted, h.visibility)
               /\ \E i \in DOMAIN hs : h = hs[i] /\ Satisfied(granted, h.visibility)
    <3>1. PICK i \in V : h = hs[i]
      BY <2>3
    <3>2. h \in Handlers /\ h.visibility # None /\ Satisfied(granted, h.visibility)
      BY <2>3, <2>4, <2>5, <3>1
    <3>3. h.name \in ToolNames \cup {ToolSearch} /\ h.name # ToolSearch
      BY <2>1, <3>2 DEF Handlers
    <3>4. QED  BY <2>3, <3>1, <3>2, <3>3
  <2>7. Deferred(router) \subseteq Nat
    BY <2>6, RouterAssumption DEF Deferred, RouterAssumption
  <2>8. IsFiniteSet(Deferred(router))
    <3> DEFINE D == {i \in V : hs[i].deferred}
               f == [i \in D |-> hs[i].name]
    <3>1. IsFiniteSet(D)
      <4>1. DOMAIN hs = 1 .. Len(hs) /\ Len(hs) \in Nat
        BY <2>2, LenProperties
      <4>2. D \subseteq 1 .. Len(hs) /\ IsFiniteSet(1 .. Len(hs))
        BY <2>3, <4>1, FS_Interval
      <4>3. QED  BY <4>2, FS_Subset
    <3>2. Deferred(router) = {hs[i].name : i \in D}
      BY <2>3, Zenon DEF Deferred
    <3>3. f \in Surjection(D, Deferred(router))
      <4>1. f \in [D -> Deferred(router)]
        BY <3>2
      <4>2. \A t \in Deferred(router) : \E i \in D : f[i] = t
        BY <3>2
      <4> HIDE DEF f, D
      <4>3. QED  BY <4>1, <4>2, Fun_IsSurj
    <3> HIDE DEF f, D
    <3>4. QED  BY <3>1, <3>3, FS_Surjection
  <2>9. QED  BY <1>2, <2>1, <2>6, <2>7, <2>8 DEF hs
<1>3. made \in BOOLEAN
  BY DEF SessionInv
<1>4. QED  BY <1>1, <1>2, <1>3

LEMMA SessionStep == SessionInv /\ [ProfileNext]_profileVars => SessionInv'
<1> SUFFICES ASSUME SessionInv, [ProfileNext]_profileVars PROVE SessionInv'
  OBVIOUS
<1>1. CASE UNCHANGED profileVars
  BY <1>1 DEF profileVars, SessionInv
<1>2. CASE ChangeCapabilities
  <2>1. PICK caps \in SUBSET Capabilities : profile' = [profile EXCEPT !.caps = caps]
    BY <1>2 DEF ChangeCapabilities
  <2>2. profile' \in Profiles
    BY <2>1 DEF SessionInv, Profiles
  <2>3. QED  BY <1>2, <2>2 DEF ChangeCapabilities, SessionInv
<1>3. CASE NewSessionForProfile
  <2>1. /\ ~HandlersFail(profile) /\ snapshot' = profile /\ granted' = profile.caps
        /\ made' = TRUE /\ profile' = profile
        /\ router' = Chosen(profile)
        /\ \A h \in Chosen(profile) : h.name # ToolSearch
    BY <1>3 DEF NewSessionForProfile, ValidationFails, Register, RegisterFails, NewRouter,
                Chosen
  <2>2. profile \in Profiles
    BY DEF SessionInv
  <2>3. QED  BY <2>1, <2>2 DEF SessionInv
<1>4. ASSUME made, UNCHANGED <<profile, made, snapshot, router, granted>> PROVE SessionInv'
  BY <1>4 DEF SessionInv
<1>5. QED  BY <1>1, <1>2, <1>3, <1>4 DEF ProfileNext, CallTool

LEMMA SessionInvariant == ProfileSpec => []SessionInv
<1>1. ProfileInit => SessionInv
  BY ProfileAssumption DEF ProfileInit, SessionInv, ProfileAssumption, NewRouter
<1>2. QED  BY <1>1, SessionStep, PTL DEF ProfileSpec

LEMMA StoppedShape ==
  ASSUME NEW name, NEW how, NEW asked, Stopped(name, how, asked)
  PROVE  answer'.tool = name /\ answer'.end = how /\ answer'.asked = asked
BY DEF Stopped, NoAnswer

LEMMA AnsweredShape ==
  ASSUME NEW name, NEW asked, NEW by, NEW query, NEW most,
         Answered(name, asked, by, query, most)
  PROVE  /\ answer'.tool = name /\ answer'.asked = asked /\ answer'.by = by
         /\ answer'.query = query /\ answer'.limit = most
         /\ answer'.end = "ran" <=> name # ToolSearch /\ name \in NamedIn(router)
         /\ answer'.end = "unknown" => name \notin NamedIn(router)
         /\ answer'.end # "denied"
         /\ answer'.end = "found" =>
              /\ name = ToolSearch /\ ~SearchFails(query, most)
              /\ answer'.found = DispatchToolSearch(router, query, most)
<1> DEFINE d == Dispatched(name, query, most)
<1> HIDE DEF d
<1>1. /\ answer'.end = d.end /\ answer'.found = d.found
      /\ answer'.tool = name /\ answer'.asked = asked /\ answer'.by = by
      /\ answer'.query = query /\ answer'.limit = most
  BY DEF Answered, d
<1>2. /\ d.end = "ran" <=> name # ToolSearch /\ name \in NamedIn(router)
      /\ d.end = "unknown" => name \notin NamedIn(router)
      /\ d.end # "denied"
  BY DEF d, Dispatched
<1>3. d.end = "found" => /\ name = ToolSearch /\ ~SearchFails(query, most)
                         /\ d.found = DispatchToolSearch(router, query, most)
  BY DEF d, Dispatched
<1>4. QED  BY <1>1, <1>2, <1>3

\* The guard of a tool of the router that the profile does not deny is its own.
LEMMA GuardIs ==
  ASSUME SessionInv, NEW name
  PROVE  /\ ProfileDenies(name) => name \in NamedIn(router)
         /\ ~ProfileDenies(name) /\ name \in NamedIn(router) =>
              GuardOf(name) = Handler(name).guard
         /\ name \notin NamedIn(router) => GuardOf(name) = "none"
         /\ GuardOf(name) \in Requirements \cup {"fails"}
<1>1. ASSUME name \in NamedIn(router)
      PROVE  Handler(name).guard \in Requirements \cup {"fails"}
  <2>1. \E h \in router : h.name = name
    BY <1>1 DEF NamedIn
  <2>2. Handler(name) \in router
    BY <2>1 DEF Handler
  <2>3. Handler(name) \in Handlers
    BY <2>2, RouterHolds
  <2>4. QED  BY <2>3 DEF Handlers
<1>2. QED  BY <1>1 DEF GuardOf, ProfileDenies, Requirements

\* What the review lets through, and what it denies.
LEMMA ReviewLets ==
  ASSUME SessionInv, made, NEW name, GuardOf(name) # "fails"
  PROVE  LET policy == ProfileGuardrails(snapshot)
             guard == GuardOf(name) IN
         /\ ~Refused(policy, guard) => ~ProfileDenies(name)
         /\ snapshot.reviewer /\ ~Refused(policy, guard) /\ ~PolicyFails(policy, guard) =>
              snapshot.policy \notin {"deny_all", "unknown"}
         /\ /\ name \in NamedIn(router) /\ snapshot.reviewer
            /\ ~Refused(policy, guard) /\ ~PolicyFails(policy, guard)
            /\ ~NeedsApproval(policy, guard)
            => snapshot.policy = "require_for_sensitive" /\ Handler(name).guard = "none"
         /\ Refused(policy, guard) => DeniedForCause(name)
         /\ NeedsApproval(policy, guard) =>
              snapshot.reviewer \/ snapshot.policy \notin {None, "allow_all"}
<1> DEFINE policy == ProfileGuardrails(snapshot)
           guard == GuardOf(name)
<1>1. ~Refused(policy, guard) => ~ProfileDenies(name)
  BY DEF GuardOf, Refused
<1>2. snapshot.policy \in Policies /\ snapshot.reviewer \in BOOLEAN
  BY DEF SessionInv, Profiles
<1>3. \/ policy = snapshot.policy
      \/ snapshot.reviewer /\ policy = "require_for_all" /\ snapshot.policy \in {None, "allow_all"}
  BY DEF ProfileGuardrails
<1>4. snapshot.reviewer => policy \notin {None, "allow_all"}
  BY <1>2, PolicyAssumption DEF ProfileGuardrails, NamedPolicies
<1>5. guard \in Requirements /\ None \notin {"deny_all", "unknown", "require_for_sensitive", "require_for_all"}
  BY GuardIs, PolicyAssumption DEF NamedPolicies
<1>6. snapshot.reviewer /\ ~Refused(policy, guard) /\ ~PolicyFails(policy, guard) =>
        snapshot.policy \notin {"deny_all", "unknown"}
  BY <1>3, <1>5 DEF Refused, PolicyFails
<1>7. ASSUME name \in NamedIn(router), snapshot.reviewer, ~Refused(policy, guard),
             ~PolicyFails(policy, guard), ~NeedsApproval(policy, guard)
      PROVE  snapshot.policy = "require_for_sensitive" /\ Handler(name).guard = "none"
  <2>1. guard = Handler(name).guard
    BY <1>1, <1>7, GuardIs
  <2>2. policy # "require_for_all" /\ policy # "unknown" /\ policy # "deny_all"
    BY <1>7 DEF NeedsApproval, PolicyFails, Refused
  <2>3. policy = snapshot.policy /\ policy = "require_for_sensitive"
    BY <1>2, <1>3, <1>4, <1>7, <2>2 DEF Policies, NamedPolicies
  <2>4. guard # "required" /\ guard # "denied"
    BY <1>7, <2>3 DEF NeedsApproval, Refused
  <2>5. QED  BY <1>5, <2>1, <2>3, <2>4 DEF Requirements
<1>8. Refused(policy, guard) => DeniedForCause(name)
  <2> SUFFICES ASSUME Refused(policy, guard), ~snapshot.reviewer,
                      snapshot.policy \in {None, "allow_all"}
               PROVE  /\ name \in NamedIn(router)
                      /\ ProfileDenies(name) \/ Handler(name).guard = "denied"
    BY DEF DeniedForCause
  <2>1. policy = snapshot.policy
    BY <1>3
  <2>2. guard = "denied"
    BY <1>5, <2>1 DEF Refused
  <2>3. QED  BY <2>2, GuardIs
<1>9. NeedsApproval(policy, guard) =>
        snapshot.reviewer \/ snapshot.policy \notin {None, "allow_all"}
  BY <1>3, <1>5 DEF NeedsApproval
<1>10. QED  BY <1>1, <1>6, <1>7, <1>8, <1>9

LEMMA CallAnswers ==
  ASSUME SessionInv, NEW name, NEW query \in Seq(Terms), NEW most \in Nat,
         CallTool(name, query, most)
  PROVE  AnswerInv'
<1> DEFINE policy == ProfileGuardrails(snapshot)
           guard == GuardOf(name)
<1>1. made /\ router' = router /\ snapshot' = snapshot
  BY DEF CallTool
<1>2. /\ \A n : ProfileDenies(n)' <=> ProfileDenies(n)
      /\ \A n : Handler(n)' = Handler(n)
      /\ NamedIn(router)' = NamedIn(router) /\ Deferred(router)' = Deferred(router)
  BY <1>1 DEF ProfileDenies, CapabilitiesOfSession, Handler
<1>3. ASSUME NEW how \in {"error", "denied"}, NEW asked,
             Stopped(name, how, asked), asked # {} => ~ProfileDenies(name),
             how = "denied" => DeniedForCause(name)
      PROVE  AnswerInv'
  <2>1. answer'.tool = name /\ answer'.end = how /\ answer'.asked = asked
    BY <1>3, StoppedShape
  <2>2. answer'.end # "ran" /\ answer'.end # "found" /\ answer'.end # "unknown"
    BY <2>1
  <2>3. answer'.asked # {} => ~ProfileDenies(answer.tool)'
    BY <1>2, <1>3, <2>1
  <2>4. answer'.end = "denied" => DeniedForCause(answer.tool)'
    BY <1>1, <1>2, <1>3, <2>1 DEF DeniedForCause
  <2>5. QED  BY <2>2, <2>3, <2>4 DEF AnswerInv
<1>4. ASSUME NEW asked, NEW by,
             Answered(name, asked, by, query, most), ~ProfileDenies(name),
             name \in NamedIn(router) /\ snapshot.reviewer => LetThrough(name, asked, by),
             "reviewer" \in asked => by = "reviewer"
      PROVE  AnswerInv'
  <2>1. /\ answer'.tool = name /\ answer'.asked = asked /\ answer'.by = by
        /\ answer'.query = query /\ answer'.limit = most
        /\ answer'.end = "ran" <=> name # ToolSearch /\ name \in NamedIn(router)
        /\ answer'.end = "unknown" => name \notin NamedIn(router)
        /\ answer'.end # "denied"
        /\ answer'.end = "found" =>
             /\ name = ToolSearch /\ ~SearchFails(query, most)
             /\ answer'.found = DispatchToolSearch(router, query, most)
    BY <1>4, AnsweredShape
  <2>2. ~ProfileDenies(answer.tool)'
    BY <1>2, <1>4, <2>1
  <2>3. ASSUME answer'.end = "ran"
        PROVE  /\ answer'.tool \in NamedIn(router)'
               /\ snapshot'.reviewer => LetThrough(answer.tool, answer.asked, answer.by)'
               /\ "reviewer" \in answer'.asked => answer'.by = "reviewer"
    BY <1>1, <1>2, <1>4, <2>1, <2>3 DEF LetThrough
  <2>4. ASSUME answer'.end = "found"
        PROVE  Best(Deferred(router), answer.query, answer.limit, answer.found)'
    <3>1. answer'.found = DispatchToolSearch(router, query, most)
      BY <2>1, <2>4
    <3>2. Best(Deferred(router), query, most, DispatchToolSearch(router, query, most))
      BY RouterHolds, SearchIsBest
    <3>3. QED  BY <1>2, <2>1, <3>1, <3>2
  <2>5. answer'.end = "unknown" => answer'.tool \notin NamedIn(router)'
    BY <1>2, <2>1
  <2>6. QED  BY <2>1, <2>2, <2>3, <2>4, <2>5 DEF AnswerInv
<1>5. CASE \E how \in {"error"} : Stopped(name, how, {})
  BY <1>3, <1>5
<1>6. CASE guard # "fails" /\ Refused(policy, guard) /\ Stopped(name, "denied", {})
  <2>1. DeniedForCause(name)
    BY <1>1, <1>6, ReviewLets
  <2>2. QED  BY <1>3, <1>6, <2>1
<1>7. CASE /\ guard # "fails"
           /\ ~PolicyFails(policy, guard) /\ ~Refused(policy, guard)
           /\ ~NeedsApproval(policy, guard)
           /\ Answered(name, {}, "policy", query, most)
  <2>1. ~ProfileDenies(name)
    BY <1>1, <1>7, ReviewLets
  <2>2. name \in NamedIn(router) /\ snapshot.reviewer => LetThrough(name, {}, "policy")
    BY <1>1, <1>7, ReviewLets DEF LetThrough
  <2>3. QED  BY <1>4, <1>7, <2>1, <2>2
<1>8. CASE guard # "fails" /\ NeedsApproval(policy, guard) /\ SeekApproval(name, query, most)
  <2> DEFINE heard == IF snapshot.hook THEN {"hook"} ELSE {}
  <2>1. ~Refused(policy, guard) /\ ~PolicyFails(policy, guard)
    BY <1>8 DEF NeedsApproval, PolicyFails
  <2>2. ~ProfileDenies(name) /\ (snapshot.reviewer => snapshot.policy \notin {"deny_all", "unknown"})
    BY <1>1, <1>8, <2>1, ReviewLets
  <2>3. snapshot.reviewer \/ snapshot.policy \notin {None, "allow_all"}
    BY <1>1, <1>8, ReviewLets
  <2>4. DeniedForCause(name)
    BY <2>3 DEF DeniedForCause
  <2>5. CASE MayBePreapproved(name) /\ Answered(name, {}, "grant", query, most)
    BY <1>4, <2>2, <2>5 DEF MayBePreapproved, LetThrough
  <2>6. ASSUME NEW who \in {"hook", "reviewer"}, NEW asked, Asks(who, asked, name, query, most),
               who = "hook" => asked = {} /\ snapshot.hook
        PROVE  AnswerInv'
    <3>1. ASSUME Answered(name, asked \cup {who}, who, query, most) PROVE AnswerInv'
      <4>1. snapshot.reviewer => LetThrough(name, asked \cup {who}, who)
        BY <2>2, <2>6 DEF LetThrough
      <4>2. "reviewer" \in asked \cup {who} => who = "reviewer"
        BY <2>6
      <4>3. QED  BY <1>4, <2>2, <3>1, <4>1, <4>2
    <3>2. ASSUME NEW how \in {"error", "denied"}, Stopped(name, how, asked \cup {who})
          PROVE  AnswerInv'
      BY <1>3, <2>2, <2>4, <3>2
    <3>3. QED  BY <2>6, <3>1, <3>2 DEF Asks
  <2>7. CASE Stopped(name, "denied", heard)
    BY <1>3, <2>2, <2>4, <2>7
  <2>8. QED  BY <1>8, <2>5, <2>6, <2>7 DEF SeekApproval
<1>9. QED  BY <1>5, <1>6, <1>7, <1>8 DEF CallTool

LEMMA AnswerStep == SessionInv /\ AnswerInv /\ [ProfileNext]_profileVars => AnswerInv'
<1> SUFFICES ASSUME SessionInv, AnswerInv, [ProfileNext]_profileVars PROVE AnswerInv'
  OBVIOUS
<1>1. ASSUME UNCHANGED <<snapshot, router, answer>> PROVE AnswerInv'
  BY <1>1 DEF AnswerInv, ProfileDenies, CapabilitiesOfSession, Handler, LetThrough,
              DeniedForCause
<1>2. CASE NewSessionForProfile
  <2>1. answer' = NoAnswer
    BY <1>2 DEF NewSessionForProfile, SessionInv
  <2>2. answer'.end = "none" /\ answer'.asked = {}
    BY <2>1 DEF NoAnswer
  <2>3. QED  BY <2>2 DEF AnswerInv
<1>3. ASSUME NEW name \in ToolNames, CallTool(name, <<>>, 0) PROVE AnswerInv'
  <2>1. <<>> \in Seq(Terms) /\ 0 \in Nat
    BY EmptySeq
  <2>2. QED  BY <1>3, <2>1, CallAnswers
<1>4. ASSUME NEW query \in Queries, NEW most \in SearchLimits \cup {DefaultSearchLimit},
             CallTool(ToolSearch, query, most)
      PROVE  AnswerInv'
  <2>1. query \in Seq(Terms) /\ most \in Nat
    BY ProfileAssumption DEF ProfileAssumption, DefaultSearchLimit
  <2>2. QED  BY <1>4, <2>1, CallAnswers
<1>5. QED  BY <1>1, <1>2, <1>3, <1>4 DEF ProfileNext, profileVars, ChangeCapabilities

LEMMA AnswerInvariant == ProfileSpec => []AnswerInv
<1>1. ProfileInit => AnswerInv
  BY DEF ProfileInit, NoAnswer, AnswerInv
<1>2. QED  BY <1>1, AnswerStep, SessionInvariant, PTL DEF ProfileSpec

\* No handler runs without the capabilities the session was made with, whatever
\* the policy, the reviewer, a search or a later change of the profile says
\* (profileDispatchHandler.Guardrail).
THEOREM RunsGated == ProfileSpec => []RunsOnlyWithCapabilities
<1>1. SessionInv /\ AnswerInv => RunsOnlyWithCapabilities
  <2> SUFFICES ASSUME SessionInv, AnswerInv, answer.end = "ran"
               PROVE  LET h == Handler(answer.tool) IN
                      /\ Satisfied(granted, h.visibility)
                      /\ h.required # None /\ ~Malformed(h.required)
                      /\ Satisfied(granted, h.required)
    BY DEF RunsOnlyWithCapabilities
  <2>1. answer.tool \in NamedIn(router) /\ ~ProfileDenies(answer.tool)
    BY DEF AnswerInv
  <2>2. Handler(answer.tool) \in router
    <3>1. \E h \in router : h.name = answer.tool
      BY <2>1 DEF NamedIn
    <3>2. QED  BY <3>1 DEF Handler
  <2>3. Satisfied(granted, Handler(answer.tool).visibility) /\ made
    BY <2>2, RouterHolds
  <2>4. granted = snapshot.caps
    BY <2>3 DEF SessionInv
  <2>5. QED  BY <2>1, <2>3, <2>4 DEF ProfileDenies, CapabilitiesOfSession
<1>2. QED  BY <1>1, SessionInvariant, AnswerInvariant, PTL

\* With a reviewer a handler runs only if the reviewer approved the call, or the
\* profile's own hook or a grant of the handler's key stands for that, or the
\* policy lets it through; and what the profile denies is put to nobody
\* (profileGuardrails, reviewToolCall).
THEOREM RunsReviewed == ProfileSpec => []NothingRunsUnreviewed
<1>1. AnswerInv => NothingRunsUnreviewed
  BY DEF AnswerInv, NothingRunsUnreviewed, LetThrough
<1>2. QED  BY <1>1, AnswerInvariant, PTL

\* Prompts and searches offer the handlers the principal may see, all of them
\* and nothing else, a search the best of them; what is offered is known when
\* called, and denied for a cause; for every profile, query and limit
\* (visibleProfileHandlers, Router.Specs, searchDeferredTools).
THEOREM OffersExact == ProfileSpec => []OffersAreExact
<1>1. AnswerInv => SearchFindsTheBest
  BY DEF AnswerInv, SearchFindsTheBest, Best
<1>2. ASSUME SessionInv
      PROVE  Offered = NamedIn(router) /\ Specs(router) \cap Deferred(router) = {}
             /\ (ToolSearch \in Specs(router) <=> Deferred(router) # {})
  <2>1. ToolSearch \notin NamedIn(router)
    BY <1>2 DEF SessionInv, NamedIn
  <2>2. Deferred(router) \subseteq NamedIn(router)
    BY DEF Deferred, NamedIn
  <2>3. QED  BY <2>1, <2>2 DEF Specs, Offered
<1>3. ASSUME SessionInv, made
      PROVE  NamedIn(router) =
               {snapshot.handlers[i].name : i \in {j \in DOMAIN snapshot.handlers :
                  Satisfied(granted, snapshot.handlers[j].visibility)}}
  <2>1. granted = snapshot.caps /\ router = Chosen(snapshot)
    BY <1>3 DEF SessionInv
  <2>2. QED  BY <2>1 DEF NamedIn, Chosen, VisibleProfileHandlers
<1>4. ASSUME SessionInv, AnswerInv, answer.end = "denied", ~snapshot.reviewer,
             snapshot.policy \in {None, "allow_all"}
      PROVE  LET h == Handler(answer.tool) IN
             /\ answer.tool \in Offered
             /\ \/ h.guard = "denied"
                \/ h.required = None \/ Malformed(h.required) \/ ~Satisfied(granted, h.required)
  <2>1. /\ answer.tool \in NamedIn(router)
        /\ ProfileDenies(answer.tool) \/ Handler(answer.tool).guard = "denied"
    BY <1>4 DEF AnswerInv, DeniedForCause
  <2>2. granted = snapshot.caps
    <3>1. made
      BY <1>4 DEF SessionInv, NoAnswer
    <3>2. QED  BY <1>4, <3>1 DEF SessionInv
  <2>3. QED  BY <1>2, <1>4, <2>1, <2>2 DEF ProfileDenies, CapabilitiesOfSession
<1>5. SessionInv /\ AnswerInv => OffersAreExact
  <2> SUFFICES ASSUME SessionInv, AnswerInv PROVE OffersAreExact
    OBVIOUS
  <2>1. /\ answer.end = "unknown" => answer.tool \notin Offered
        /\ answer.end = "ran" => answer.tool \in Offered
    BY <1>2 DEF AnswerInv
  <2>2. QED  BY <1>1, <1>2, <1>3, <1>4, <2>1 DEF OffersAreExact
<1>6. QED  BY <1>5, SessionInvariant, AnswerInvariant, PTL

\* No two handlers of the router share a name.
LEMMA RouterNames ==
  ASSUME SessionInv
  PROVE  /\ NamedIn(router) \subseteq ToolNames
         /\ Cardinality(router) = Cardinality(NamedIn(router))
<1>1. NamedIn(router) \subseteq ToolNames
  BY RouterHolds DEF NamedIn
<1>2. CASE ~made
  <2>1. router = {}
    BY <1>2 DEF SessionInv
  <2>2. NamedIn(router) = {}
    BY <2>1 DEF NamedIn
  <2>3. QED  BY <1>1, <2>1, <2>2
<1>3. CASE made
  <2> DEFINE hs == snapshot.handlers
             V == VisibleProfileHandlers(snapshot)
             f == [h \in router |-> h.name]
  <2>1. /\ snapshot \in Profiles /\ granted = snapshot.caps
        /\ ~HandlersFail(snapshot) /\ router = Chosen(snapshot)
    BY <1>3 DEF SessionInv
  <2>2. hs \in Seq(Handlers \cup {None})
    BY <2>1 DEF Profiles
  <2>3. V \subseteq DOMAIN hs /\ router = {hs[i] : i \in V}
    BY <2>1 DEF VisibleProfileHandlers, Chosen
  <2>4. \A i, j \in V : j < i => hs[j].name # hs[i].name
    BY <2>1 DEF HandlersFail
  <2> HIDE DEF hs, V
  <2>5. V \subseteq 1 .. Len(hs) /\ Len(hs) \in Nat
    BY <2>2, <2>3, LenProperties
  <2>6. \A g, h \in router : g.name = h.name => g = h
    <3>1. SUFFICES ASSUME NEW i \in V, NEW j \in V, hs[i].name = hs[j].name
                   PROVE  i = j
      BY <2>3
    <3>2. QED  BY <2>4, <2>5, <3>1
  <2>7. IsFiniteSet(router)
    <3> DEFINE e == [i \in V |-> hs[i]]
    <3>1. IsFiniteSet(V)
      <4>1. IsFiniteSet(1 .. Len(hs))
        BY <2>5, FS_Interval
      <4>2. QED  BY <2>5, <4>1, FS_Subset
    <3>2. e \in Surjection(V, router)
      <4>1. e \in [V -> router] /\ \A h \in router : \E i \in V : e[i] = h
        BY <2>3
      <4> HIDE DEF e
      <4>2. QED  BY <4>1, Fun_IsSurj
    <3> HIDE DEF e
    <3>3. QED  BY <3>1, <3>2, FS_Surjection
  <2>8. f \in Bijection(router, NamedIn(router))
    <3>1. f \in [router -> NamedIn(router)]
      BY DEF NamedIn
    <3>2. \A g, h \in router : f[g] = f[h] => g = h
      BY <2>6
    <3>3. \A n \in NamedIn(router) : \E h \in router : f[h] = n
      BY DEF NamedIn
    <3> HIDE DEF f
    <3>4. QED  BY <3>1, <3>2, <3>3, Fun_IsBij
  <2>9. ExistsBijection(router, NamedIn(router))
    BY <2>8 DEF ExistsBijection
  <2>10. Cardinality(router) = Cardinality(NamedIn(router))
    BY <2>7, <2>9, FS_Bijection
  <2>11. QED  BY <1>1, <2>10
<1>4. made \in BOOLEAN
  BY DEF SessionInv
<1>5. QED  BY <1>2, <1>3, <1>4

\* What the last call has come to, and what it has found.
EndInv ==
  /\ granted \subseteq Capabilities
  /\ answer.end \in {"none", "error", "denied", "failed", "found", "ran", "unknown"}
  /\ Len(answer.found) <= Cardinality(Deferred(router))

LEMMA CallEnds ==
  ASSUME SessionInv, EndInv, NEW name, NEW query \in Seq(Terms), NEW most \in Nat,
         CallTool(name, query, most)
  PROVE  EndInv'
<1> DEFINE D == Deferred(router)
<1>1. router' = router /\ granted' = granted
  BY DEF CallTool
<1>2. /\ IsFiniteSet(D) /\ D \subseteq Nat
  BY RouterHolds
<1>3. Cardinality(D) \in Nat
  BY <1>2, FS_CardinalityType
<1>4. Len(<<>>) <= Cardinality(D)
  BY <1>3
<1>5. ASSUME NEW how \in {"error", "denied"}, NEW asked, Stopped(name, how, asked)
      PROVE  EndInv'
  <2>1. answer'.end = how /\ answer'.found = <<>>
    BY <1>5 DEF Stopped, NoAnswer
  <2>2. QED  BY <1>1, <1>4, <2>1 DEF EndInv
<1>6. ASSUME NEW asked, NEW by, Answered(name, asked, by, query, most)
      PROVE  EndInv'
  <2> DEFINE d == Dispatched(name, query, most)
  <2>1. /\ d.end \in {"failed", "found", "ran", "unknown"}
        /\ d.found = <<>> \/ d.found = DispatchToolSearch(router, query, most)
    BY DEF Dispatched
  <2> HIDE DEF d
  <2>2. answer'.end = d.end /\ answer'.found = d.found
    BY <1>6 DEF Answered, d
  <2>3. Len(DispatchToolSearch(router, query, most)) <= Cardinality(D)
    BY <1>2, SearchFits
  <2>4. Len(d.found) <= Cardinality(D)
    BY <1>4, <2>1, <2>3
  <2>5. QED  BY <1>1, <2>1, <2>2, <2>4 DEF EndInv
<1>7. CASE SeekApproval(name, query, most)
  BY <1>5, <1>6, <1>7 DEF SeekApproval, Asks
<1>8. QED  BY <1>5, <1>6, <1>7 DEF CallTool

LEMMA DeferredFinite == SessionInv => IsFiniteSet(Deferred(router))
BY RouterHolds

LEMMA EndStep == SessionInv /\ EndInv /\ [ProfileNext]_profileVars => EndInv'
<1> SUFFICES ASSUME SessionInv, EndInv, [ProfileNext]_profileVars PROVE EndInv'
  OBVIOUS
<1>1. ASSUME UNCHANGED <<router, answer, granted>> PROVE EndInv'
  BY <1>1 DEF EndInv
<1>2. CASE NewSessionForProfile
  <2>1. /\ answer' = NoAnswer /\ granted' = profile.caps /\ profile \in Profiles
        /\ profile' = profile /\ snapshot' = profile
    BY <1>2 DEF NewSessionForProfile, SessionInv
  <2>2. granted' \subseteq Capabilities
    BY <2>1 DEF Profiles
  <2>3. answer'.end = "none" /\ answer'.found = <<>>
    BY <2>1 DEF NoAnswer
  <2>4. Cardinality(Deferred(router')) \in Nat
    <3>1. IsFiniteSet(Deferred(router))'
      <4>1. SessionInv'
        BY <1>2, SessionStep DEF ProfileNext
      <4>2. QED  BY <4>1, DeferredFinite, PTL
    <3>2. QED  BY <3>1, FS_CardinalityType
  <2>5. QED  BY <2>2, <2>3, <2>4 DEF EndInv
<1>3. ASSUME NEW name \in ToolNames, CallTool(name, <<>>, 0) PROVE EndInv'
  <2>1. <<>> \in Seq(Terms) /\ 0 \in Nat
    BY EmptySeq
  <2>2. QED  BY <1>3, <2>1, CallEnds
<1>4. ASSUME NEW query \in Queries, NEW most \in SearchLimits \cup {DefaultSearchLimit},
             CallTool(ToolSearch, query, most)
      PROVE  EndInv'
  <2>1. query \in Seq(Terms) /\ most \in Nat
    BY ProfileAssumption DEF ProfileAssumption, DefaultSearchLimit
  <2>2. QED  BY <1>4, <2>1, CallEnds
<1>5. QED  BY <1>1, <1>2, <1>3, <1>4 DEF ProfileNext, profileVars, ChangeCapabilities

LEMMA EndInvariant == ProfileSpec => []EndInv
<1>1. ProfileInit => EndInv
  <2> SUFFICES ASSUME ProfileInit PROVE EndInv
    OBVIOUS
  <2>1. granted = {} /\ answer.end = "none" /\ answer.found = <<>> /\ router = {}
    BY DEF ProfileInit, NoAnswer, NewRouter
  <2>2. Deferred(router) = {}
    BY <2>1 DEF Deferred
  <2>3. Len(answer.found) <= Cardinality(Deferred(router))
    <3>1. Len(answer.found) = 0 /\ Cardinality(Deferred(router)) = 0
      BY <2>1, <2>2, FS_EmptySet
    <3>2. QED  BY <3>1
  <2>4. QED  BY <2>1, <2>3 DEF EndInv
<1>2. QED  BY <1>1, EndStep, SessionInvariant, PTL DEF ProfileSpec

\* The session's own state is well typed, for every profile: the router's names
\* are distinct and none of them is tool_search (Router.Register).
THEOREM ProfileWellTyped == ProfileSpec => []ProfileTypeOK
<1>1. SessionInv /\ EndInv => ProfileTypeOK
  <2> SUFFICES ASSUME SessionInv, EndInv PROVE ProfileTypeOK
    OBVIOUS
  <2>1. made \in BOOLEAN /\ profile.caps \subseteq Capabilities
    BY DEF SessionInv, Profiles
  <2>2. QED  BY <2>1, RouterNames DEF EndInv, ProfileTypeOK
<1>2. QED  BY <1>1, SessionInvariant, EndInvariant, PTL

-----------------------------------------------------------------------------
(***************************************************************************)
(* History protection: entries and their lines.                            *)
(***************************************************************************)
\* What a conversation consists of; each item has its position for a line.
Conversation(h) ==
  /\ h \in Seq({e \in Entries : e.kind # "transcript"})
  /\ Len(h) <= MaxItems
  /\ \A i \in DOMAIN h : h[i].lines = <<i>>

\* The lines of s, read one after the other, are in order.
InOrder(s) ==
  \A i, j \in DOMAIN s :
    \A a \in DOMAIN s[i].lines, b \in DOMAIN s[j].lines :
      i < j \/ (i = j /\ a < b) => s[i].lines[a] < s[j].lines[b]

Within(s, lo, hi) ==
  \A i \in DOMAIN s : \A a \in DOMAIN s[i].lines : s[i].lines[a] \in lo .. hi

Names(s, p) == \E i \in DOMAIN s : p \in ToSet(s[i].lines)

CutOff(s) == \E i \in DOMAIN s : s[i].kind = "transcript" /\ s[i].blank

\* Entries behind others.
LEMMA BehindOthers ==
  ASSUME NEW s \in Seq(Entries), NEW t \in Seq(Entries)
  PROVE  /\ \A m, n \in Nat :
              m <= n /\ InOrder(s) /\ InOrder(t) /\ Within(s, 1, m) /\ Within(t, m + 1, n)
                => InOrder(s \o t) /\ Within(s \o t, 1, n)
         /\ \A p : Names(s, p) \/ Names(t, p) => Names(s \o t, p)
         /\ CutOff(s) \/ CutOff(t) => CutOff(s \o t)
<1> DEFINE u == s \o t
<1>0. /\ u \in Seq(Entries) /\ Len(s) \in Nat /\ DOMAIN s = 1 .. Len(s)
      /\ DOMAIN t \subseteq Nat \ {0}
      /\ \A i \in DOMAIN s : i \in DOMAIN u /\ u[i] = s[i]
      /\ \A j \in DOMAIN t : Len(s) + j \in DOMAIN u /\ u[Len(s) + j] = t[j]
      /\ \A k \in DOMAIN u : k \in DOMAIN s \/ \E j \in DOMAIN t : k = Len(s) + j
  BY ConcatIndices
<1> HIDE DEF u
<1>1. ASSUME NEW m \in Nat, NEW n \in Nat, m <= n, InOrder(s), InOrder(t),
             Within(s, 1, m), Within(t, m + 1, n)
      PROVE  InOrder(u) /\ Within(u, 1, n)
  <2>1. ASSUME NEW i \in DOMAIN u, NEW a \in DOMAIN u[i].lines
        PROVE  u[i].lines[a] \in 1 .. n
    <3>1. CASE i \in DOMAIN s
      BY <1>0, <1>1, <2>1, <3>1 DEF Within
    <3>2. ASSUME NEW j \in DOMAIN t, i = Len(s) + j PROVE u[i].lines[a] \in 1 .. n
      BY <1>0, <1>1, <2>1, <3>2 DEF Within
    <3>3. QED  BY <1>0, <3>1, <3>2
  <2>2. ASSUME NEW i \in DOMAIN u, NEW j \in DOMAIN u,
               NEW a \in DOMAIN u[i].lines, NEW b \in DOMAIN u[j].lines,
               i < j \/ (i = j /\ a < b)
        PROVE  u[i].lines[a] < u[j].lines[b]
    <3>1. CASE i \in DOMAIN s /\ j \in DOMAIN s
      BY <1>0, <1>1, <2>2, <3>1 DEF InOrder
    <3>2. ASSUME i \in DOMAIN s, NEW h \in DOMAIN t, j = Len(s) + h
          PROVE  u[i].lines[a] < u[j].lines[b]
      <4>1. u[i].lines[a] \in 1 .. m /\ u[j].lines[b] \in m + 1 .. n
        BY <1>0, <1>1, <2>2, <3>2 DEF Within
      <4>2. QED  BY <4>1
    <3>3. ASSUME NEW g \in DOMAIN t, i = Len(s) + g, j \in DOMAIN s PROVE FALSE
      BY <1>0, <2>2, <3>3
    <3>4. ASSUME NEW g \in DOMAIN t, i = Len(s) + g, NEW h \in DOMAIN t, j = Len(s) + h
          PROVE  u[i].lines[a] < u[j].lines[b]
      <4>1. g < h \/ (g = h /\ a < b)
        BY <1>0, <2>2, <3>4
      <4>2. u[i] = t[g] /\ u[j] = t[h]
        BY <1>0, <3>4
      <4>3. QED  BY <1>1, <2>2, <4>1, <4>2 DEF InOrder
    <3>5. QED  BY <1>0, <3>1, <3>2, <3>3, <3>4
  <2>3. QED  BY <2>1, <2>2 DEF InOrder, Within
<1>2. ASSUME NEW p, Names(s, p) \/ Names(t, p) PROVE Names(u, p)
  BY <1>0, <1>2 DEF Names
<1>3. CutOff(s) \/ CutOff(t) => CutOff(u)
  BY <1>0 DEF CutOff
<1>4. QED  BY <1>1, <1>2, <1>3 DEF u

\* An entry by itself.
LEMMA OneEntry ==
  ASSUME NEW e \in Entries, NEW m \in Nat, NEW n \in Nat,
         \A a \in DOMAIN e.lines : e.lines[a] \in m .. n,
         \A a, b \in DOMAIN e.lines : a < b => e.lines[a] < e.lines[b]
  PROVE  /\ <<e>> \in Seq(Entries) /\ InOrder(<<e>>) /\ Within(<<e>>, m, n)
         /\ \A p \in ToSet(e.lines) : Names(<<e>>, p)
         /\ e.kind = "transcript" /\ e.blank => CutOff(<<e>>)
<1>1. <<e>> \in Seq(Entries) /\ DOMAIN <<e>> = {1} /\ <<e>>[1] = e
  OBVIOUS
<1>2. InOrder(<<e>>)  BY <1>1 DEF InOrder
<1>3. Within(<<e>>, m, n)  BY <1>1 DEF Within
<1>4. QED  BY <1>1, <1>2, <1>3 DEF Names, CutOff

-----------------------------------------------------------------------------
(***************************************************************************)
(* The loop of declassifyHistoryPrefix.                                    *)
(***************************************************************************)
Nothing == [out |-> <<>>, lines |-> <<>>, protected |-> FALSE]

\* The loop has one result after every item.
LEMMA PassesByItem ==
  ASSUME NEW h, NEW last \in Nat
  PROVE  /\ Passes(h, last)[0] = Nothing
         /\ \A n \in 1 .. last :
              Passes(h, last)[n] = Declassify(Passes(h, last)[n - 1], h[n])
<1> DEFINE Step(f, n) == IF n = 0 THEN Nothing ELSE Declassify(f[n - 1], h[n])
           Is(f, k) == f = [n \in 0 .. k |-> Step(f, n)]
           Bad == {k \in Nat : ~ \E f : Is(f, k)}
<1>1. \E f : Is(f, 0)
  <2>1. Is([n \in 0 .. 0 |-> Nothing], 0)
    OBVIOUS
  <2>2. QED  BY <2>1
<1>2. ASSUME NEW k \in Nat, \E f : Is(f, k) PROVE \E f : Is(f, k + 1)
  <2>1. PICK f : Is(f, k)
    BY <1>2
  <2> DEFINE d == Declassify(f[k], h[k + 1])
             g == [n \in 0 .. k + 1 |-> IF n = k + 1 THEN d ELSE f[n]]
  <2> HIDE DEF d
  <2>2. ASSUME NEW n \in 0 .. k + 1 PROVE g[n] = Step(g, n)
    <3>1. CASE n = 0
      BY <2>1, <3>1
    <3>2. CASE n = k + 1
      <4>1. g[k] = f[k] /\ g[k + 1] = d /\ (k + 1) - 1 = k /\ k + 1 # 0
        OBVIOUS
      <4>2. QED  BY <3>2, <4>1 DEF d
    <3>3. CASE n \in 1 .. k
      <4>1. g[n] = f[n] /\ g[n - 1] = f[n - 1] /\ n # 0 /\ n \in 0 .. k
        BY <3>3
      <4>2. f[n] = Step(f, n)
        BY <2>1, <4>1, Zenon
      <4>3. QED  BY <4>1, <4>2
    <3>4. QED  BY <3>1, <3>2, <3>3
  <2>3. Is(g, k + 1)
    BY <2>2
  <2>4. QED  BY <2>3
<1>3. Bad = {}
  <2> SUFFICES ASSUME Bad # {} PROVE FALSE
    OBVIOUS
  <2>1. PICK k \in Bad : \A j \in Bad : k <= j
    BY LeastNatural
  <2>2. k \in Nat /\ k # 0
    BY <1>1
  <2>3. k - 1 \in Nat /\ k - 1 \notin Bad /\ (k - 1) + 1 = k
    BY <2>1, <2>2
  <2>4. \E f : Is(f, k - 1)
    BY <2>3
  <2> DEFINE j == k - 1
  <2>5. \E f : Is(f, j + 1)
    <3> HIDE DEF Is, j
    <3>1. j \in Nat /\ \E f : Is(f, j)
      BY <2>3, <2>4 DEF j
    <3>2. QED  BY <1>2, <3>1
  <2>6. QED  BY <2>3, <2>5
<1>4. \E f : Is(f, last)
  BY <1>3
<1>5. Is(Passes(h, last), last)
  BY <1>4 DEF Passes, Nothing
<1>6. QED  BY <1>5

Accumulators ==
  [out : Seq(Entries), lines : Seq(1 .. MaxItems), protected : BOOLEAN]

\* An item that a transcript tells or leaves out, and one without text for it.
Spoken(item) == (IsLine(item) /\ item.kind # "context") \/ Omitted(item)
Unspoken(item) == item.kind # "context" /\ ~IsLine(item)

\* What the loop has made of the first n items of h.
Rewritten(h, n, acc) ==
  /\ acc \in Accumulators
  /\ \A i \in DOMAIN acc.out :
       /\ acc.out[i].kind \in {"context", "transcript"}
       /\ acc.out[i].lines = <<>> => acc.out[i].blank
  /\ InOrder(acc.out)
  /\ \E m \in 0 .. n :
       /\ Within(acc.out, 1, m)
       /\ \A a \in DOMAIN acc.lines : acc.lines[a] \in m + 1 .. n
  /\ \A a, b \in DOMAIN acc.lines : a < b => acc.lines[a] < acc.lines[b]
  /\ \A p \in 1 .. n : \/ Names(acc.out, p) \/ p \in ToSet(acc.lines)
                       \/ Unspoken(h[p]) \/ CutOff(acc.out)
  /\ (acc.protected \/ acc.lines # <<>>) <=> \E p \in 1 .. n : Spoken(h[p])

\* A transcript of lines is a beginning of them, and marked if it is not all.
LEMMA TranscriptShape ==
  ASSUME limit \in LimitChoices, NEW lines \in Seq(1 .. MaxItems), lines # <<>>
  PROVE  /\ Transcript(lines) \in Entries
         /\ Transcript(lines).kind = "transcript"
         /\ Transcript(lines).lines = <<>> => Transcript(lines).blank
         /\ Transcript(lines).blank \/ Transcript(lines).lines = lines
         /\ \A a \in DOMAIN Transcript(lines).lines :
              a \in DOMAIN lines /\ Transcript(lines).lines[a] = lines[a]
<1>1. CASE limit # NoLimit /\ Len(lines) > limit
  <2>1. limit \in Nat /\ Len(lines) \in Nat
    BY <1>1, ProtectionAssumption, LenProperties DEF ProtectionAssumption
  <2>2. Transcript(lines)
          = [kind |-> "transcript", blank |-> TRUE, lines |-> SubSeq(lines, 1, limit)]
    BY <1>1 DEF Transcript
  <2>3. \A i \in 1 .. limit : lines[i] \in 1 .. MaxItems
    <3>1. lines \in [1 .. Len(lines) -> 1 .. MaxItems]
      BY LenProperties
    <3>2. \A i \in 1 .. limit : i \in 1 .. Len(lines)
      BY <1>1, <2>1
    <3>3. QED  BY <3>1, <3>2
  <2>4. /\ SubSeq(lines, 1, limit) \in Seq(1 .. MaxItems)
        /\ Len(SubSeq(lines, 1, limit)) = limit
        /\ \A a \in 1 .. limit : SubSeq(lines, 1, limit)[a] = lines[a]
    BY <2>1, <2>3, SubSeqProperties
  <2>5. DOMAIN SubSeq(lines, 1, limit) = 1 .. limit /\ 1 .. limit \subseteq DOMAIN lines
    BY <1>1, <2>1, <2>4, LenProperties
  <2>6. QED  BY <2>2, <2>4, <2>5 DEF Entries
<1>2. CASE ~(limit # NoLimit /\ Len(lines) > limit)
  <2>1. Transcript(lines) = [kind |-> "transcript", blank |-> FALSE, lines |-> lines]
    BY <1>2 DEF Transcript
  <2>2. QED  BY <2>1 DEF Entries
<1>3. QED  BY <1>1, <1>2

\* The pending lines become a transcript.
LEMMA FlushRewrites ==
  ASSUME limit \in LimitChoices, NEW h, NEW n \in Nat, NEW acc, Rewritten(h, n, acc)
  PROVE  /\ Rewritten(h, n, Flush(acc))
         /\ Flush(acc).lines = <<>> /\ Within(Flush(acc).out, 1, n)
<1> DEFINE T == Transcript(acc.lines)
           out == acc.out \o <<T>>
<1>0. acc \in Accumulators /\ acc.out \in Seq(Entries) /\ acc.lines \in Seq(1 .. MaxItems)
  BY DEF Rewritten, Accumulators
<1>1. PICK m \in 0 .. n :
        /\ Within(acc.out, 1, m)
        /\ \A a \in DOMAIN acc.lines : acc.lines[a] \in m + 1 .. n
  BY DEF Rewritten
<1>2. CASE acc.lines = <<>>
  <2>1. Flush(acc) = acc
    BY <1>2 DEF Flush
  <2>2. Within(acc.out, 1, n)
    BY <1>1 DEF Within
  <2>3. QED  BY <1>2, <2>1, <2>2
<1>3. CASE acc.lines # <<>>
  <2>1. /\ T \in Entries /\ T.kind = "transcript" /\ (T.lines = <<>> => T.blank)
        /\ T.blank \/ T.lines = acc.lines
        /\ \A a \in DOMAIN T.lines : a \in DOMAIN acc.lines /\ T.lines[a] = acc.lines[a]
    BY <1>0, <1>3, TranscriptShape
  <2> HIDE DEF T
  <2>2. Flush(acc) = [out |-> out, lines |-> <<>>, protected |-> TRUE]
    BY <1>0, <1>3, <2>1, AppendIsConcat DEF Flush, T
  <2>3. /\ <<T>> \in Seq(Entries) /\ InOrder(<<T>>) /\ Within(<<T>>, m + 1, n)
        /\ \A p \in ToSet(T.lines) : Names(<<T>>, p)
        /\ T.blank => CutOff(<<T>>)
    <3>1. \A a \in DOMAIN T.lines : T.lines[a] \in m + 1 .. n
      BY <1>1, <2>1
    <3>2. \A a, b \in DOMAIN T.lines : a < b => T.lines[a] < T.lines[b]
      BY <2>1 DEF Rewritten
    <3>3. m + 1 \in Nat
      OBVIOUS
    <3>4. QED  BY <2>1, <3>1, <3>2, <3>3, OneEntry
  <2>4. InOrder(out) /\ Within(out, 1, n)
    <3>1. m \in Nat /\ m <= n /\ InOrder(acc.out)
      BY <1>1 DEF Rewritten
    <3>2. QED  BY <1>0, <1>1, <2>3, <3>1, BehindOthers
  <2>5. /\ out \in Seq(Entries)
        /\ \A p : Names(acc.out, p) \/ Names(<<T>>, p) => Names(out, p)
        /\ CutOff(acc.out) \/ CutOff(<<T>>) => CutOff(out)
    BY <1>0, <2>3, BehindOthers, ConcatIndices
  <2>6. ASSUME NEW i \in DOMAIN out
        PROVE  /\ out[i].kind \in {"context", "transcript"}
               /\ out[i].lines = <<>> => out[i].blank
    <3>1. (i \in DOMAIN acc.out /\ out[i] = acc.out[i]) \/ out[i] = T
      BY <1>0, <2>3, ConcatIndices
    <3>2. QED  BY <2>1, <3>1 DEF Rewritten
  <2>7. ASSUME NEW p \in 1 .. n
        PROVE  Names(out, p) \/ Unspoken(h[p]) \/ CutOff(out)
    <3>1. CASE p \in ToSet(acc.lines)
      BY <2>1, <2>3, <2>5, <3>1
    <3>2. CASE p \notin ToSet(acc.lines)
      BY <2>5, <3>2 DEF Rewritten
    <3>3. QED  BY <3>1, <3>2
  <2>8. \E p \in 1 .. n : Spoken(h[p])
    BY <1>3 DEF Rewritten
  <2> HIDE DEF out
  <2>9. Within(out, 1, n) /\ n \in 0 .. n
    BY <2>4
  <2>10. Rewritten(h, n, [out |-> out, lines |-> <<>>, protected |-> TRUE])
    BY <2>4, <2>5, <2>6, <2>7, <2>8, <2>9 DEF Rewritten, Accumulators
  <2>11. QED  BY <2>2, <2>4, <2>10
<1>4. QED  BY <1>2, <1>3

\* One more item.
LEMMA DeclassifyRewrites ==
  ASSUME limit \in LimitChoices, NEW h, Conversation(h), NEW n \in Nat, n + 1 \in DOMAIN h,
         NEW acc, Rewritten(h, n, acc)
  PROVE  Rewritten(h, n + 1, Declassify(acc, h[n + 1]))
<1> DEFINE item == h[n + 1]
<1>0. /\ acc \in Accumulators /\ acc.out \in Seq(Entries)
      /\ acc.lines \in Seq(1 .. MaxItems) /\ acc.protected \in BOOLEAN
  BY DEF Rewritten, Accumulators
<1>1. /\ item \in Entries /\ item.kind # "transcript" /\ item.lines = <<n + 1>>
      /\ n + 1 \in 1 .. MaxItems
  <2>1. DOMAIN h = 1 .. Len(h) /\ item \in {e \in Entries : e.kind # "transcript"}
    BY LenProperties DEF Conversation
  <2>2. MaxItems \in Nat /\ Len(h) \in Nat
    BY ProtectionAssumption, LenProperties DEF ProtectionAssumption, Conversation
  <2>3. QED  BY <2>1, <2>2 DEF Conversation
<1> HIDE DEF item
<1>2. PICK m \in 0 .. n :
        /\ Within(acc.out, 1, m)
        /\ \A a \in DOMAIN acc.lines : acc.lines[a] \in m + 1 .. n
  BY DEF Rewritten
<1>3. 1 .. n + 1 = 1 .. n \cup {n + 1}
  OBVIOUS
<1>4. CASE item.kind = "context"
  <2> DEFINE f == Flush(acc)
             out == f.out \o <<item>>
  <2>1. Rewritten(h, n, f) /\ f.lines = <<>> /\ Within(f.out, 1, n)
    BY FlushRewrites
  <2>2. f \in Accumulators /\ f.out \in Seq(Entries) /\ f.protected \in BOOLEAN
    BY <2>1 DEF Rewritten, Accumulators
  <2> HIDE DEF f
  <2>3. Declassify(acc, item) = [out |-> out, lines |-> <<>>, protected |-> f.protected]
    <3>1. Append(f.out, item) = out
      BY <1>1, <2>2, AppendIsConcat
    <3>2. QED  BY <1>4, <2>1, <2>2, <3>1 DEF Declassify, f, Accumulators
  <2>4. /\ <<item>> \in Seq(Entries) /\ InOrder(<<item>>)
        /\ Within(<<item>>, n + 1, n + 1) /\ Names(<<item>>, n + 1)
    <3>1. \A a \in DOMAIN item.lines : item.lines[a] \in n + 1 .. n + 1
      BY <1>1
    <3>2. \A a, b \in DOMAIN item.lines : a < b => item.lines[a] < item.lines[b]
      BY <1>1
    <3>3. n + 1 \in ToSet(item.lines) /\ n + 1 \in Nat
      BY <1>1 DEF ToSet
    <3>4. QED  BY <1>1, <3>1, <3>2, <3>3, OneEntry
  <2>5. InOrder(out) /\ Within(out, 1, n + 1)
    <3>1. InOrder(f.out) /\ n <= n + 1 /\ n + 1 \in Nat
      BY <2>1 DEF Rewritten
    <3>2. QED  BY <2>1, <2>2, <2>4, <3>1, BehindOthers
  <2>6. /\ out \in Seq(Entries)
        /\ \A p : Names(f.out, p) \/ Names(<<item>>, p) => Names(out, p)
        /\ CutOff(f.out) => CutOff(out)
    BY <2>2, <2>4, BehindOthers, ConcatIndices
  <2>7. ASSUME NEW i \in DOMAIN out
        PROVE  /\ out[i].kind \in {"context", "transcript"}
               /\ out[i].lines = <<>> => out[i].blank
    <3>1. (i \in DOMAIN f.out /\ out[i] = f.out[i]) \/ out[i] = item
      BY <2>2, <2>4, ConcatIndices
    <3>2. CASE i \in DOMAIN f.out /\ out[i] = f.out[i]
      BY <2>1, <3>2 DEF Rewritten
    <3>3. CASE out[i] = item
      <4>1. <<n + 1>> # <<>>
        OBVIOUS
      <4>2. QED  BY <1>1, <1>4, <3>3, <4>1
    <3>4. QED  BY <3>1, <3>2, <3>3
  <2>8. ASSUME NEW p \in 1 .. n + 1
        PROVE  Names(out, p) \/ Unspoken(h[p]) \/ CutOff(out)
    <3>1. CASE p \in 1 .. n
      <4>1. p \notin ToSet(f.lines)
        BY <2>1 DEF ToSet
      <4>2. QED  BY <2>1, <2>6, <3>1, <4>1 DEF Rewritten
    <3>2. CASE p = n + 1
      BY <2>4, <2>6, <3>2
    <3>3. QED  BY <1>3, <3>1, <3>2
  <2>9. f.protected <=> \E p \in 1 .. n + 1 : Spoken(h[p])
    <3>1. ~Spoken(item)
      BY <1>4 DEF Spoken, Omitted
    <3>2. f.protected <=> \E p \in 1 .. n : Spoken(h[p])
      BY <2>1 DEF Rewritten
    <3>3. QED  BY <1>3, <3>1, <3>2 DEF item
  <2>10. n + 1 \in 0 .. n + 1
    OBVIOUS
  <2> HIDE DEF out
  <2>11. Rewritten(h, n + 1, [out |-> out, lines |-> <<>>, protected |-> f.protected])
    BY <2>2, <2>5, <2>6, <2>7, <2>8, <2>9, <2>10 DEF Rewritten, Accumulators
  <2>12. QED  BY <2>3, <2>11 DEF item
<1>5. ASSUME NEW l \in Seq(1 .. MaxItems), NEW b \in BOOLEAN,
             \A a \in DOMAIN l : l[a] \in m + 1 .. n + 1,
             \A a, c \in DOMAIN l : a < c => l[a] < l[c],
             \A p \in 1 .. n + 1 : p \in ToSet(acc.lines) => p \in ToSet(l),
             n + 1 \in ToSet(l) \/ Unspoken(item),
             (b \/ l # <<>>) <=> (acc.protected \/ acc.lines # <<>>) \/ Spoken(item)
      PROVE  Rewritten(h, n + 1, [out |-> acc.out, lines |-> l, protected |-> b])
  <2>1. m \in 0 .. n + 1
    OBVIOUS
  <2>2. ASSUME NEW p \in 1 .. n + 1
        PROVE  Names(acc.out, p) \/ p \in ToSet(l) \/ Unspoken(h[p]) \/ CutOff(acc.out)
    <3>1. CASE p \in 1 .. n
      BY <1>5, <3>1 DEF Rewritten
    <3>2. CASE p = n + 1
      BY <1>5, <3>2 DEF item
    <3>3. QED  BY <1>3, <3>1, <3>2
  <2>3. (b \/ l # <<>>) <=> \E p \in 1 .. n + 1 : Spoken(h[p])
    <3>1. (acc.protected \/ acc.lines # <<>>) <=> \E p \in 1 .. n : Spoken(h[p])
      BY DEF Rewritten
    <3>2. QED  BY <1>3, <1>5, <3>1 DEF item
  <2>4. /\ InOrder(acc.out)
        /\ \A i \in DOMAIN acc.out :
             /\ acc.out[i].kind \in {"context", "transcript"}
             /\ acc.out[i].lines = <<>> => acc.out[i].blank
    BY DEF Rewritten
  <2>5. QED  BY <1>0, <1>2, <1>5, <2>1, <2>2, <2>3, <2>4 DEF Rewritten, Accumulators
<1>6. CASE item.kind # "context" /\ IsLine(item)
  <2> DEFINE l == acc.lines \o <<n + 1>>
  <2>1. Declassify(acc, item) = [out |-> acc.out, lines |-> l, protected |-> acc.protected]
    BY <1>0, <1>1, <1>6 DEF Declassify, Accumulators
  <2>2. <<n + 1>> \in Seq(1 .. MaxItems)
    BY <1>1
  <2>3. /\ l \in Seq(1 .. MaxItems) /\ Len(acc.lines) \in Nat
        /\ DOMAIN acc.lines = 1 .. Len(acc.lines)
        /\ \A a \in DOMAIN acc.lines : a \in DOMAIN l /\ l[a] = acc.lines[a]
        /\ Len(acc.lines) + 1 \in DOMAIN l /\ l[Len(acc.lines) + 1] = n + 1
        /\ \A a \in DOMAIN l : a \in DOMAIN acc.lines \/ a = Len(acc.lines) + 1
    BY <1>0, <2>2, ConcatIndices
  <2> HIDE DEF l
  <2>4. \A a \in DOMAIN l : l[a] \in m + 1 .. n + 1
    BY <1>2, <2>3
  <2>5. \A a, c \in DOMAIN l : a < c => l[a] < l[c]
    <3>1. SUFFICES ASSUME NEW a \in DOMAIN l, NEW c \in DOMAIN l, a < c PROVE l[a] < l[c]
      OBVIOUS
    <3>2. CASE c \in DOMAIN acc.lines
      <4>1. a \in DOMAIN acc.lines
        BY <2>3, <3>1, <3>2
      <4>2. acc.lines[a] < acc.lines[c]
        BY <3>1, <3>2, <4>1 DEF Rewritten
      <4>3. QED  BY <2>3, <3>2, <4>1, <4>2
    <3>3. CASE c = Len(acc.lines) + 1
      BY <1>2, <2>3, <3>1, <3>3, SMTT(30)
    <3>4. QED  BY <2>3, <3>2, <3>3
  <2>6. n + 1 \in ToSet(l) /\ l # <<>>
    BY <2>3 DEF ToSet
  <2>7. \A p \in ToSet(acc.lines) : p \in ToSet(l)
    BY <2>3 DEF ToSet
  <2>8. Spoken(item)
    BY <1>6 DEF Spoken
  <2>9. Rewritten(h, n + 1, [out |-> acc.out, lines |-> l, protected |-> acc.protected])
    BY <1>0, <1>5, <2>3, <2>4, <2>5, <2>6, <2>7, <2>8
  <2>10. QED  BY <2>1, <2>9 DEF item
<1>7. CASE item.kind # "context" /\ ~IsLine(item)
  <2> DEFINE b == acc.protected \/ Omitted(item)
  <2>1. Declassify(acc, item) = [out |-> acc.out, lines |-> acc.lines, protected |-> b]
    BY <1>0, <1>7 DEF Declassify, Accumulators
  <2>2. b \in BOOLEAN /\ (Spoken(item) <=> Omitted(item)) /\ Unspoken(item)
    BY <1>7 DEF Spoken, Unspoken
  <2>3. \A a \in DOMAIN acc.lines : acc.lines[a] \in m + 1 .. n + 1
    BY <1>2
  <2>4. \A a, c \in DOMAIN acc.lines : a < c => acc.lines[a] < acc.lines[c]
    BY DEF Rewritten
  <2>5. Rewritten(h, n + 1, [out |-> acc.out, lines |-> acc.lines, protected |-> b])
    <3>1. (b \/ acc.lines # <<>>) <=> (acc.protected \/ acc.lines # <<>>) \/ Spoken(item)
      BY <2>2
    <3> HIDE DEF b
    <3>2. QED  BY <1>0, <1>5, <2>2, <2>3, <2>4, <3>1
  <2>6. QED  BY <2>1, <2>5 DEF item
<1>8. QED  BY <1>4, <1>6, <1>7

\* After any number of items.
LEMMA PassesRewrite ==
  ASSUME limit \in LimitChoices, NEW h, Conversation(h), NEW last \in 0 .. Len(h)
  PROVE  Rewritten(h, last, Passes(h, last)[last])
<1> DEFINE P(n) == Passes(h, last)[n]
           Bad == {n \in 0 .. last : ~Rewritten(h, n, P(n))}
<1>0. Len(h) \in Nat /\ DOMAIN h = 1 .. Len(h) /\ last \in Nat
  BY LenProperties DEF Conversation
<1>1. P(0) = Nothing /\ \A n \in 1 .. last : P(n) = Declassify(P(n - 1), h[n])
  BY <1>0, PassesByItem
<1>2. Rewritten(h, 0, Nothing)
  <2>1. Nothing \in Accumulators /\ Nothing.out = <<>> /\ Nothing.lines = <<>>
        /\ Nothing.protected = FALSE
    BY DEF Nothing, Accumulators
  <2>2. DOMAIN <<>> = {} /\ 1 .. 0 = {} /\ 0 \in 0 .. 0
    OBVIOUS
  <2>3. QED  BY <2>1, <2>2 DEF Rewritten, InOrder, Within
<1> HIDE DEF P
<1>3. Bad = {}
  <2> SUFFICES ASSUME Bad # {} PROVE FALSE
    OBVIOUS
  <2>1. PICK n \in Bad : \A k \in Bad : n <= k
    <3>1. Bad \subseteq Nat
      BY <1>0
    <3> HIDE DEF Bad
    <3>2. QED  BY <3>1, LeastNatural
  <2>2. n \in 1 .. last /\ n - 1 \in 0 .. last /\ n - 1 \notin Bad
    BY <1>0, <1>1, <1>2, <2>1
  <2>3. Rewritten(h, n - 1, P(n - 1))
    BY <2>2
  <2>4. n - 1 \in Nat /\ (n - 1) + 1 = n /\ n \in DOMAIN h
    BY <1>0, <2>2
  <2>5. Rewritten(h, n, Declassify(P(n - 1), h[n]))
    <3> DEFINE k == n - 1
    <3>1. k \in Nat /\ k + 1 \in DOMAIN h /\ Rewritten(h, k, P(k)) /\ n = k + 1
      BY <2>3, <2>4
    <3> HIDE DEF k
    <3>2. Rewritten(h, k + 1, Declassify(P(k), h[k + 1]))
      BY <3>1, DeclassifyRewrites
    <3>3. n - 1 = k
      BY <3>1
    <3>4. QED  BY <3>1, <3>2, <3>3
  <2>6. QED  BY <1>1, <2>2, <2>5
<1>4. last \in 0 .. last
  BY <1>0
<1>5. QED  BY <1>3, <1>4 DEF P

-----------------------------------------------------------------------------
(***************************************************************************)
(* ProtectPromptHistory.                                                   *)
(***************************************************************************)
\* Where the current turn begins if the last item is its input.
LEMMA StartShape ==
  ASSUME NEW h, Conversation(h), Len(h) > 0, h[Len(h)].kind = "user"
  PROVE  /\ CurrentStart(h) \in 1 .. Len(h)
         /\ \A j \in CurrentStart(h) .. Len(h) - 1 : h[j].kind = "context"
         /\ CurrentStart(h) > 1 => h[CurrentStart(h) - 1].kind # "context"
<1> DEFINE n == Len(h)
           Input(i) == /\ i > 0 => h[i].kind = "user"
                      /\ \A j \in i + 1 .. n : h[j].kind # "user"
           Start(last, i) == /\ \A j \in i .. last - 1 : h[j].kind = "context"
                             /\ i > 1 => h[i - 1].kind # "context"
           last == CHOOSE i \in 0 .. n : Input(i)
           start == CHOOSE i \in 1 .. n : Start(n, i)
           Runs == {i \in 1 .. n : \A j \in i .. n - 1 : h[j].kind = "context"}
<1>0. n \in Nat /\ n > 0
  BY LenProperties DEF Conversation
<1>1. last = n
  <2>1. n \in 0 .. n /\ Input(n)
    BY <1>0
  <2>2. \A i \in 0 .. n : Input(i) => i = n
    <3>1. SUFFICES ASSUME NEW i \in 0 .. n, Input(i), i # n PROVE FALSE
      OBVIOUS
    <3>2. n \in i + 1 .. n
      BY <1>0, <3>1
    <3>3. h[n].kind = "user" /\ \A j \in i + 1 .. n : h[j].kind # "user"
      BY <3>1
    <3> HIDE DEF n, Input
    <3>4. QED  BY <3>2, <3>3
  <2> HIDE DEF Input
  <2>3. QED  BY <2>1, <2>2
<1>2. \E i \in 1 .. n : Start(n, i)
  <2>1. n \in Runs /\ Runs \subseteq Nat
    BY <1>0
  <2>2. PICK x \in Runs : \A y \in Runs : x <= y
    <3> HIDE DEF Runs
    <3>1. QED  BY <2>1, LeastNatural
  <2>3. ASSUME x > 1, h[x - 1].kind = "context" PROVE FALSE
    <3>1. x - 1 \in 1 .. n /\ x - 1 < x /\ x \in 1 .. n
      BY <1>0, <2>3
    <3>2. \A j \in x - 1 .. n - 1 : j = x - 1 \/ j \in x .. n - 1
      BY <1>0, <3>1
    <3>3. x - 1 \in Runs
      BY <2>3, <3>1, <3>2
    <3>4. x <= x - 1
      <4> HIDE DEF Runs
      <4>1. QED  BY <2>2, <3>3
    <3>5. QED  BY <3>1, <3>4
  <2>4. QED  BY <2>2, <2>3
<1>3. start \in 1 .. n /\ Start(n, start)
  <2> HIDE DEF Start
  <2>1. QED  BY <1>2
<1>4. CurrentStart(h) = start
  <2>1. CurrentStart(h) = IF last = 0 THEN n + 1 ELSE CHOOSE i \in 1 .. last : Start(last, i)
    BY DEF CurrentStart
  <2> HIDE DEF last, Start
  <2>2. QED  BY <1>0, <1>1, <2>1
<1> HIDE DEF start
<1>5. QED  BY <1>3, <1>4

\* A stretch of a conversation.
LEMMA Stretch ==
  ASSUME NEW h, Conversation(h), NEW i \in Nat \ {0}, NEW j \in 0 .. Len(h), i <= j + 1
  PROVE  LET s == SubSeq(h, i, j) IN
         /\ s \in Seq(Entries) /\ Len(s) = j + 1 - i
         /\ \A k \in 1 .. j + 1 - i : s[k] = h[i + k - 1] /\ s[k].lines = <<i + k - 1>>
         /\ InOrder(s) /\ Within(s, i, j)
         /\ \A p \in i .. j : Names(s, p)
<1> DEFINE s == SubSeq(h, i, j)
           n == j + 1 - i
<1>0. /\ Len(h) \in Nat /\ DOMAIN h = 1 .. Len(h) /\ n \in Nat /\ j \in Nat
      /\ \A k \in 1 .. Len(h) : h[k] \in Entries /\ h[k].lines = <<k>>
  <2>1. h \in [1 .. Len(h) -> {e \in Entries : e.kind # "transcript"}] /\ Len(h) \in Nat
    BY LenProperties DEF Conversation
  <2>2. QED  BY <2>1 DEF Conversation
<1>1. /\ s \in Seq(Entries) /\ Len(s) = n
      /\ \A k \in 1 .. n : s[k] = h[i + k - 1]
  <2>1. \A k \in i .. j : h[k] \in Entries
    BY <1>0
  <2>2. s \in Seq(Entries) /\ Len(s) = IF i <= j THEN j - i + 1 ELSE 0
    BY <1>0, <2>1, SubSeqProperties
  <2>3. \A k \in 1 .. j - i + 1 : s[k] = h[i + k - 1]
    BY <1>0, <2>1, SubSeqProperties
  <2>4. n = j - i + 1 /\ n = IF i <= j THEN j - i + 1 ELSE 0
    BY <1>0
  <2> HIDE DEF s, n
  <2>5. QED  BY <2>2, <2>3, <2>4
<1> HIDE DEF s, n
<1>2. DOMAIN s = 1 .. n
  BY <1>1, LenProperties
<1>3. \A k \in 1 .. n : s[k].lines = <<i + k - 1>> /\ i + k - 1 \in i .. j
  <2>1. ASSUME NEW k \in 1 .. n PROVE i + k - 1 \in i .. j /\ i + k - 1 \in 1 .. Len(h)
    BY <1>0, <2>1 DEF n
  <2>2. QED  BY <1>0, <1>1, <2>1
<1>4. \A k \in 1 .. n : DOMAIN s[k].lines = {1} /\ s[k].lines[1] = i + k - 1
  BY <1>3
<1>5. InOrder(s)
  BY <1>0, <1>2, <1>4 DEF InOrder
<1>6. Within(s, i, j)
  BY <1>2, <1>3, <1>4 DEF Within
<1>7. ASSUME NEW p \in i .. j PROVE Names(s, p)
  <2>1. p - i + 1 \in 1 .. n /\ i + (p - i + 1) - 1 = p
    BY <1>0 DEF n
  <2>2. p \in ToSet(s[p - i + 1].lines)
    BY <1>4, <2>1 DEF ToSet
  <2>3. QED  BY <1>2, <2>1, <2>2 DEF Names
<1>8. QED  BY <1>1, <1>3, <1>5, <1>6, <1>7 DEF s, n

\* b shows the turn's start, w up to l, of which the first n are of earlier turns.
Protects(b, t, w, l, n) ==
  /\ b \in Seq(Entries)
  /\ \A i \in DOMAIN b : b[i].lines = <<>> => b[i].blank
  /\ n \in Nat /\ l \in n + 1 .. Len(w)
  /\ mode # "disabled" =>
       \A i \in DOMAIN b : b[i].kind \notin {"context", "transcript"} =>
         \A a \in DOMAIN b[i].lines : b[i].lines[a] > n
  /\ Len(b) >= l - n
  /\ \A q \in n + 1 .. l : b[Len(b) - l + q] = w[q]
  /\ InOrder(b) /\ Within(b, 1, l)
  /\ \A p \in 1 .. l :
       Names(b, p) \/ (mode # "disabled" /\ Unspoken(w[p])) \/ CutOff(b)
  /\ t \in BOOLEAN
  /\ t <=> mode # "disabled" /\ \E p \in 1 .. n : Spoken(w[p])

\* The history a turn starts with is protected as the turn needs it.
LEMMA ProtectionHolds ==
  ASSUME limit \in LimitChoices, NEW h, Conversation(h), NEW n \in 0 .. Len(h) - 1,
         h[Len(h)].kind = "user", \A p \in n + 1 .. Len(h) - 1 : h[p].kind = "context"
  PROVE  Protects(ProtectPromptHistory(h).items, ProtectPromptHistory(h).told,
                  h, Len(h), n)
<1> DEFINE l == Len(h)
           start == CurrentStart(h)
           F == Flush(Passes(h, start - 1)[start - 1])
           S == SubSeq(h, start, l)
           items == F.out \o S
<1>0. l \in Nat /\ l > 0 /\ n \in Nat /\ n < l /\ DOMAIN h = 1 .. l /\ l = Len(h)
  BY LenProperties DEF Conversation
<1>1. /\ start \in 1 .. l /\ \A j \in start .. l - 1 : h[j].kind = "context"
      /\ start > 1 => h[start - 1].kind # "context"
  BY <1>0, StartShape
<1>2. start <= n + 1
  <2>1. SUFFICES ASSUME start > n + 1 PROVE FALSE
    BY <1>0, <1>1
  <2>2. start - 1 \in n + 1 .. l - 1 /\ start > 1
    BY <1>0, <1>1, <2>1
  <2>3. QED  BY <1>1, <2>2
<1>3. \A p : h[p].kind = "context" => ~Spoken(h[p])
  BY DEF Spoken, Omitted
<1>4. ProtectPromptHistory(h)
        = IF mode = "disabled" \/ start = 1 THEN [items |-> h, told |-> FALSE]
          ELSE [items |-> items, told |-> F.protected]
  BY DEF ProtectPromptHistory
<1> HIDE DEF start
<1>5. CASE mode = "disabled" \/ start = 1
  <2>1. SubSeq(h, 1, l) = h
    BY SubSeqFull DEF Conversation
  <2>2. /\ h \in Seq(Entries) /\ InOrder(h) /\ Within(h, 1, l)
        /\ \A p \in 1 .. l : Names(h, p) /\ h[p].lines = <<p>>
    <3>1. 1 \in Nat \ {0} /\ l \in 0 .. Len(h) /\ 1 <= l + 1 /\ l + 1 - 1 = l
      BY <1>0
    <3>2. \A k \in 1 .. l : 1 + k - 1 = k
      BY <1>0
    <3>3. LET z == SubSeq(h, 1, l) IN
          /\ z \in Seq(Entries) /\ InOrder(z) /\ Within(z, 1, l)
          /\ \A p \in 1 .. l : Names(z, p)
      BY <3>1, Stretch
    <3>4. QED  BY <1>0, <2>1, <3>3 DEF Conversation
  <2>3. ASSUME mode # "disabled", NEW i \in DOMAIN h, h[i].kind \notin {"context", "transcript"}
        PROVE  i = l
    BY <1>0, <1>1, <1>5, <2>3
  <2>4. mode # "disabled" => ~ \E p \in 1 .. n : Spoken(h[p])
    <3>1. SUFFICES ASSUME mode # "disabled", NEW p \in 1 .. n PROVE ~Spoken(h[p])
      OBVIOUS
    <3>2. p \in start .. l - 1
      BY <1>0, <1>5, <3>1
    <3>3. QED  BY <1>1, <1>3, <3>2
  <2>5. \A i \in DOMAIN h : h[i].lines # <<>>
    BY <1>0, <2>2
  <2>6. ASSUME mode # "disabled", NEW i \in DOMAIN h, h[i].kind \notin {"context", "transcript"},
               NEW a \in DOMAIN h[i].lines
        PROVE  h[i].lines[a] > n
    <3>1. i = l /\ h[i].lines = <<l>>
      BY <1>0, <2>2, <2>3, <2>6
    <3>2. QED  BY <1>0, <2>6, <3>1
  <2>7. l \in n + 1 .. l /\ l >= l - n /\ \A q \in n + 1 .. l : l - l + q = q
    BY <1>0
  <2>8. Protects(h, FALSE, h, l, n)
    <3> HIDE DEF l
    <3>1. QED  BY <1>0, <2>2, <2>4, <2>5, <2>6, <2>7 DEF Protects
  <2>9. ProtectPromptHistory(h) = [items |-> h, told |-> FALSE]
    BY <1>4, <1>5
  <2>10. ProtectPromptHistory(h).items = h /\ ProtectPromptHistory(h).told = FALSE
    BY <2>9
  <2>11. QED  BY <2>8, <2>10, Zenon
<1>6. CASE mode # "disabled" /\ start # 1
  <2>0. start - 1 \in 0 .. l /\ start - 1 \in Nat /\ start \in Nat \ {0}
        /\ l \in 0 .. Len(h) /\ start <= l + 1 /\ (start - 1) + 1 = start
    BY <1>0, <1>1
  <2>1. Rewritten(h, start - 1, F) /\ F.lines = <<>> /\ Within(F.out, 1, start - 1)
    BY <2>0, PassesRewrite, FlushRewrites
  <2>2. F.out \in Seq(Entries) /\ F.protected \in BOOLEAN
    BY <2>1 DEF Rewritten, Accumulators
  <2> HIDE DEF F
  <2>3. /\ S \in Seq(Entries) /\ Len(S) = l + 1 - start
        /\ \A k \in 1 .. l + 1 - start : S[k] = h[start + k - 1] /\ S[k].lines = <<start + k - 1>>
        /\ InOrder(S) /\ Within(S, start, l)
        /\ \A p \in start .. l : Names(S, p)
    BY <2>0, Stretch
  <2> HIDE DEF S
  <2>4. InOrder(items) /\ Within(items, 1, l)
    <3>1. InOrder(F.out) /\ start - 1 <= l
      BY <1>0, <1>1, <2>1 DEF Rewritten
    <3>2. QED  BY <1>0, <2>0, <2>1, <2>2, <2>3, <3>1, BehindOthers
  <2>5. /\ \A p : Names(F.out, p) \/ Names(S, p) => Names(items, p)
        /\ CutOff(F.out) => CutOff(items)
    BY <2>2, <2>3, BehindOthers
  <2>6. /\ items \in Seq(Entries) /\ Len(items) = Len(F.out) + Len(S)
        /\ Len(F.out) \in Nat /\ Len(S) \in Nat /\ DOMAIN S = 1 .. Len(S)
        /\ \A j \in DOMAIN S : items[Len(F.out) + j] = S[j]
        /\ \A k \in DOMAIN items :
             \/ k \in DOMAIN F.out /\ items[k] = F.out[k]
             \/ \E j \in DOMAIN S : items[k] = S[j]
    <3>1. Len(items) = Len(F.out) + Len(S)
      BY <2>2, <2>3, ConcatProperties
    <3>2. Len(S) \in Nat /\ DOMAIN S = 1 .. Len(S)
      BY <2>3, LenProperties
    <3>3. /\ items \in Seq(Entries) /\ Len(F.out) \in Nat
          /\ \A j \in DOMAIN F.out : j \in DOMAIN items /\ items[j] = F.out[j]
          /\ \A j \in DOMAIN S : items[Len(F.out) + j] = S[j]
          /\ \A k \in DOMAIN items :
               k \in DOMAIN F.out \/ \E j \in DOMAIN S : k = Len(F.out) + j
      <4>1. F.out \in Seq(Entries) /\ S \in Seq(Entries)
        BY <2>2, <2>3
      <4> DEFINE o == F.out
      <4> HIDE DEF o
      <4>2. o \in Seq(Entries) /\ items = o \o S /\ F.out = o
        BY <4>1 DEF o
      <4> HIDE DEF items
      <4>3. QED  BY <4>1, <4>2, ConcatIndices
    <3> HIDE DEF items
    <3>4. QED  BY <3>1, <3>2, <3>3
  <2> HIDE DEF items
  <2>7. ASSUME NEW k \in DOMAIN items
        PROVE  /\ items[k].lines = <<>> => items[k].blank
               /\ items[k].kind \notin {"context", "transcript"} =>
                    \A a \in DOMAIN items[k].lines : items[k].lines[a] > n
    <3>1. CASE k \in DOMAIN F.out /\ items[k] = F.out[k]
      BY <2>1, <3>1 DEF Rewritten
    <3>2. ASSUME NEW j \in DOMAIN S, items[k] = S[j]
          PROVE  /\ items[k].lines = <<>> => items[k].blank
                 /\ items[k].kind \notin {"context", "transcript"} =>
                      \A a \in DOMAIN items[k].lines : items[k].lines[a] > n
      <4>1. items[k] = h[start + j - 1] /\ items[k].lines = <<start + j - 1>>
            /\ start + j - 1 \in start .. l
        BY <1>0, <1>1, <2>3, <2>6, <3>2, SMTT(30)
      <4>2. items[k].kind \notin {"context", "transcript"} => start + j - 1 = l
        BY <1>0, <1>1, <4>1
      <4>3. QED  BY <1>0, <4>1, <4>2
    <3>3. QED  BY <2>6, <3>1, <3>2
  <2>8. ASSUME NEW q \in n + 1 .. l PROVE items[Len(items) - l + q] = h[q]
    <3>1. q + 1 - start \in 1 .. Len(S) /\ start + (q + 1 - start) - 1 = q
          /\ Len(items) - l + q = Len(F.out) + (q + 1 - start)
      <4> DEFINE u == Len(S)
                 v == Len(F.out)
      <4>1. u \in Nat /\ v \in Nat /\ u = l + 1 - start /\ Len(items) = v + u
        BY <2>3, <2>6
      <4> HIDE DEF u, v, l
      <4>2. q + 1 - start \in 1 .. u /\ v + u - l + q = v + (q + 1 - start)
            /\ start + (q + 1 - start) - 1 = q
        BY <1>0, <1>1, <1>2, <4>1
      <4>3. u = Len(S) /\ v = Len(F.out)
        BY DEF u, v
      <4>4. QED  BY <4>1, <4>2, <4>3 DEF l
    <3>2. items[Len(F.out) + (q + 1 - start)] = S[q + 1 - start]
      BY <2>6, <3>1
    <3>3. S[q + 1 - start] = h[start + (q + 1 - start) - 1]
      BY <2>3, <3>1
    <3>4. QED  BY <3>1, <3>2, <3>3
  <2>9. ASSUME NEW p \in 1 .. l
        PROVE  Names(items, p) \/ Unspoken(h[p]) \/ CutOff(items)
    <3>1. CASE p \in 1 .. start - 1
      <4>1. p \notin ToSet(F.lines)
        BY <2>1 DEF ToSet
      <4>2. QED  BY <2>1, <2>5, <3>1, <4>1 DEF Rewritten
    <3>2. CASE p \in start .. l
      BY <2>3, <2>5, <3>2
    <3>3. QED  BY <1>0, <1>1, <3>1, <3>2
  <2>10. F.protected <=> \E p \in 1 .. n : Spoken(h[p])
    <3>1. F.protected <=> \E p \in 1 .. start - 1 : Spoken(h[p])
      BY <2>1 DEF Rewritten
    <3>2. \A p \in 1 .. n : p \in 1 .. start - 1 \/ p \in start .. l - 1
      BY <1>0, <1>1
    <3>3. \A p \in 1 .. start - 1 : p \in 1 .. n
      BY <1>0, <1>1, <1>2
    <3>4. QED  BY <1>1, <1>3, <3>1, <3>2, <3>3
  <2>11. Len(items) >= l - n /\ l \in n + 1 .. Len(h)
    <3> DEFINE u == Len(S)
               v == Len(F.out)
    <3>1. u \in Nat /\ v \in Nat /\ u = l + 1 - start /\ Len(items) = v + u
      BY <2>3, <2>6
    <3> HIDE DEF u, v, l
    <3>2. QED  BY <1>0, <1>1, <1>2, <3>1
  <2>12. Protects(items, F.protected, h, l, n)
    <3> HIDE DEF l
    <3>1. QED  BY <1>0, <1>6, <2>2, <2>4, <2>6, <2>7, <2>8, <2>9, <2>10, <2>11 DEF Protects
  <2>13. ProtectPromptHistory(h) = [items |-> items, told |-> F.protected]
    BY <1>4, <1>6
  <2>14. ProtectPromptHistory(h).items = items /\ ProtectPromptHistory(h).told = F.protected
    BY <2>13
  <2>15. QED  BY <2>12, <2>14, Zenon
<1>7. QED  BY <1>5, <1>6

\* What a turn adds does not change what was protected.
LEMMA ProtectsMore ==
  ASSUME NEW b, NEW t, NEW w, NEW v, NEW l, NEW n, Protects(b, t, w, l, n),
         Len(w) \in Nat, Len(v) \in Nat, Len(w) <= Len(v),
         \A i \in 1 .. Len(w) : v[i] = w[i]
  PROVE  Protects(b, t, v, l, n)
<1>1. n \in Nat /\ l \in n + 1 .. Len(w) /\ l \in n + 1 .. Len(v)
  BY DEF Protects
<1>2. \A p \in 1 .. l : v[p] = w[p]
  BY <1>1
<1>3. \A p \in 1 .. n : v[p] = w[p]
  BY <1>1, <1>2
<1>4. \A q \in n + 1 .. l : v[q] = w[q]
  BY <1>1, <1>2
<1>5. QED  BY <1>1, <1>2, <1>3, <1>4 DEF Protects

\* What a conversation gets at its end.
Context == [kind |-> "context", blank |-> FALSE]

\* One item more, at its position.
LEMMA ExtendedShape ==
  ASSUME NEW h, Conversation(h), Len(h) < MaxItems,
         NEW choice \in ItemChoices
  PROVE  /\ Conversation(Extended(h, choice))
         /\ Len(h) \in Nat /\ Len(Extended(h, choice)) = Len(h) + 1
         /\ \A i \in 1 .. Len(h) : Extended(h, choice)[i] = h[i]
         /\ Extended(h, choice)[Len(h) + 1].kind = choice.kind
<1> DEFINE S == {e \in Entries : e.kind # "transcript"}
           l == Len(h)
           item == Item(choice, l + 1)
           x == Extended(h, choice)
<1>1. l \in Nat /\ h \in Seq(S) /\ DOMAIN h = 1 .. l /\ MaxItems \in Nat
      /\ l + 1 \in 1 .. MaxItems
  BY ProtectionAssumption, LenProperties DEF Conversation, ProtectionAssumption
<1>2. item \in S /\ item.kind = choice.kind /\ item.lines = <<l + 1>>
  <2>1. choice.kind \in {"context", "user", "assistant", "tool", "hosted"}
        /\ choice.blank \in BOOLEAN
    <3>1. CASE choice \in [kind : {"user", "assistant"}, blank : BOOLEAN]
      <4>1. choice.kind \in {"user", "assistant"} /\ choice.blank \in BOOLEAN
        BY <3>1
      <4>2. QED  BY <4>1
    <3>2. CASE choice \in {Context, [kind |-> "tool", blank |-> FALSE],
                            [kind |-> "hosted", blank |-> TRUE]}
      <4>1. choice.kind \in {"context", "tool", "hosted"} /\ choice.blank \in BOOLEAN
        <5>1. CASE choice = Context
          BY <5>1 DEF Context
        <5>2. CASE choice = [kind |-> "tool", blank |-> FALSE]
          BY <5>2
        <5>3. CASE choice = [kind |-> "hosted", blank |-> TRUE]
          BY <5>3
        <5>4. QED  BY <3>2, <5>1, <5>2, <5>3
      <4>2. QED  BY <4>1
    <3>3. QED  BY <3>1, <3>2 DEF ItemChoices, Context
  <2>2. item = [kind |-> choice.kind, blank |-> choice.blank, lines |-> <<l + 1>>]
    BY DEF Item
  <2>3. <<l + 1>> \in Seq(1 .. MaxItems)
    BY <1>1
  <2> HIDE DEF item, l
  <2>4. QED  BY <2>1, <2>2, <2>3 DEF Entries
<1>3. x = Append(h, item)
  BY DEF Extended
<1> HIDE DEF item, x, S
<1>4. /\ x \in Seq(S) /\ Len(x) = l + 1
      /\ \A i \in 1 .. l : x[i] = h[i]
      /\ x[l + 1] = item
  BY <1>1, <1>2, <1>3, AppendProperties
<1>5. DOMAIN x = 1 .. l + 1
  BY <1>4, LenProperties
<1>6. \A i \in DOMAIN x : x[i].lines = <<i>>
  <2>1. \A i \in 1 .. l : x[i].lines = <<i>>
    BY <1>1, <1>4 DEF Conversation
  <2>2. x[l + 1].lines = <<l + 1>>
    BY <1>2, <1>4
  <2>3. \A i \in 1 .. l + 1 : i \in 1 .. l \/ i = l + 1
    BY <1>1
  <2>4. QED  BY <1>5, <2>1, <2>2, <2>3
<1>7. Conversation(x)
  BY <1>1, <1>4, <1>6 DEF Conversation, S
<1>8. QED  BY <1>1, <1>2, <1>4, <1>7 DEF x

-----------------------------------------------------------------------------
(***************************************************************************)
(* Turns.                                                                  *)
(***************************************************************************)
\* The inductive invariant: a running turn's prompt begins with the protected
\* form of the history it started with and of its own first items, and the
\* session's history does not change under it.
TurnInv ==
  /\ mode \in Modes /\ limit \in LimitChoices /\ running \in BOOLEAN
  /\ told \in BOOLEAN
  /\ Conversation(history)
  /\ running => /\ Conversation(work)
                /\ Protects(base, told, work, baseLen, Len(history))
  /\ ~running => work = <<>> /\ base = <<>> /\ baseLen = 0 /\ ~told

\* It holds at first.
LEMMA ProtectionBegins ==
  HistoryInit => TurnInv
<1>1. <<>> \in Seq({e \in Entries : e.kind # "transcript"}) /\ Len(<<>>) = 0
      /\ DOMAIN <<>> = {}
  OBVIOUS
<1>2. MaxItems \in Nat
  BY ProtectionAssumption DEF ProtectionAssumption
<1>3. Conversation(<<>>)
  BY <1>1, <1>2 DEF Conversation
<1>4. QED  BY <1>3 DEF HistoryInit, TurnInv

\* A turn begins with its history protected.
LEMMA BeginTurnProtects ==
  ASSUME TurnInv, NEW withContext \in BOOLEAN, NEW blank \in BOOLEAN,
         BeginTurn(withContext, blank)
  PROVE  TurnInv'
<1> DEFINE shown == IF withContext THEN Extended(history, Context) ELSE history
           user == [kind |-> "user", blank |-> blank]
           initial == Extended(shown, user)
           protected == ProtectPromptHistory(initial)
           n == Len(history)
<1>1. /\ ~running /\ Len(initial) <= MaxItems
      /\ running' = TRUE /\ work' = initial /\ base' = protected.items
      /\ baseLen' = Len(initial) /\ told' = protected.told
      /\ UNCHANGED <<mode, limit, history>>
  BY DEF BeginTurn, Context
<1>2. Context \in ItemChoices /\ user \in ItemChoices
  BY DEF Context, ItemChoices
<1>3. n \in Nat /\ MaxItems \in Nat /\ Conversation(history)
  BY ProtectionAssumption, LenProperties DEF ProtectionAssumption, TurnInv, Conversation
<1> HIDE DEF protected, user
<1>4. /\ Conversation(initial) /\ n \in 0 .. Len(initial) - 1
      /\ initial[Len(initial)].kind = "user"
      /\ \A p \in n + 1 .. Len(initial) - 1 : initial[p].kind = "context"
  <2>1. CASE ~withContext
    <3>1. initial = Extended(history, user) /\ user.kind = "user"
      BY <2>1 DEF user
    <3> HIDE DEF initial
    <3>2. n < MaxItems
      <4>1. Len(initial) = n + 1
        BY <1>3, <3>1 DEF Extended
      <4>2. QED  BY <1>1, <1>3, <4>1
    <3>3. Conversation(initial) /\ Len(initial) = n + 1 /\ initial[n + 1].kind = "user"
      BY <1>2, <1>3, <3>1, <3>2, ExtendedShape
    <3>4. QED  BY <1>3, <3>3
  <2>2. CASE withContext
    <3> DEFINE x == Extended(history, Context)
    <3>1. initial = Extended(x, user) /\ user.kind = "user" /\ Context.kind = "context"
      BY <2>2 DEF user, Context
    <3> HIDE DEF initial
    <3>2. n + 1 < MaxItems
      <4>1. Len(x) = n + 1 /\ Len(initial) = n + 2
        BY <1>3, <3>1 DEF Extended
      <4>2. QED  BY <1>1, <1>3, <4>1
    <3>3. Conversation(x) /\ Len(x) = n + 1 /\ x[n + 1].kind = "context"
      <4>1. n < MaxItems
        BY <1>3, <3>2
      <4>2. QED  BY <1>2, <1>3, <3>1, <4>1, ExtendedShape
    <3> HIDE DEF x
    <3>4. /\ Conversation(initial) /\ Len(initial) = Len(x) + 1
          /\ initial[Len(x) + 1].kind = "user"
          /\ \A i \in 1 .. Len(x) : initial[i] = x[i]
      BY <1>2, <3>1, <3>2, <3>3, ExtendedShape
    <3>5. Len(initial) = n + 2 /\ initial[n + 2].kind = "user"
          /\ initial[n + 1] = x[n + 1]
      BY <1>3, <3>3, <3>4
    <3>6. QED  BY <1>3, <3>3, <3>4, <3>5
  <2>3. QED  BY <2>1, <2>2
<1> HIDE DEF initial, n
<1>5. Protects(protected.items, protected.told, initial, Len(initial), n)
  BY <1>4, ProtectionHolds DEF protected, TurnInv
<1>6. protected.told \in BOOLEAN
  BY <1>5 DEF Protects
<1>7. Protects(base, told, work, baseLen, Len(history))'
  BY <1>1, <1>5 DEF Protects, Spoken, Unspoken, IsLine, Omitted, n
<1>8. QED  BY <1>1, <1>3, <1>4, <1>6, <1>7 DEF TurnInv, Conversation

\* Every step keeps the invariant.
LEMMA ProtectionKept ==
  TurnInv /\ [HistoryNext]_historyVars => TurnInv'
<1> SUFFICES ASSUME TurnInv, [HistoryNext]_historyVars PROVE TurnInv'
  OBVIOUS
<1>1. CASE RecordContext
  <2>1. Conversation(history) /\ Len(history) < MaxItems /\ Context \in ItemChoices
    BY <1>1 DEF RecordContext, TurnInv, ItemChoices, Context
  <2>2. Conversation(Extended(history, Context))
    BY <2>1, ExtendedShape
  <2>3. Conversation(history)'
    BY <1>1, <2>2 DEF RecordContext, Conversation, Context
  <2>4. QED  BY <1>1, <2>3 DEF RecordContext, TurnInv
<1>2. ASSUME NEW withContext \in BOOLEAN, NEW blank \in BOOLEAN, BeginTurn(withContext, blank)
      PROVE  TurnInv'
  BY <1>2, BeginTurnProtects
<1>3. ASSUME NEW choice \in ItemChoices, AddItem(choice) PROVE TurnInv'
  <2>1. Conversation(work) /\ Len(work) < MaxItems
        /\ Protects(base, told, work, baseLen, Len(history))
    BY <1>3 DEF AddItem, TurnInv
  <2> DEFINE v == Extended(work, choice)
  <2>2. Conversation(v) /\ Len(work) \in Nat /\ Len(v) = Len(work) + 1
        /\ \A i \in 1 .. Len(work) : v[i] = work[i]
    BY <2>1, ExtendedShape
  <2> HIDE DEF v
  <2>3. Protects(base, told, v, baseLen, Len(history))
    BY <2>1, <2>2, ProtectsMore
  <2>4. work' = v /\ UNCHANGED <<mode, limit, history, base, baseLen, told, running>>
    BY <1>3 DEF AddItem, v
  <2>5. Protects(base, told, work, baseLen, Len(history))'
    BY <2>3, <2>4 DEF Protects, Spoken, Unspoken, IsLine, Omitted
  <2>6. running /\ running'
    BY <1>3 DEF AddItem
  <2>7. QED  BY <2>2, <2>4, <2>5, <2>6 DEF TurnInv, Conversation
<1>4. ASSUME NEW kept \in BOOLEAN, EndTurn(kept) PROVE TurnInv'
  <2>1. Conversation(history)'
    BY <1>4 DEF EndTurn, TurnInv, Conversation
  <2>2. QED  BY <1>4, <2>1 DEF EndTurn, TurnInv
<1>5. CASE UNCHANGED historyVars
  BY <1>5 DEF historyVars, TurnInv, Conversation, Protects, Spoken, Unspoken, IsLine, Omitted
<1>6. QED  BY <1>1, <1>2, <1>3, <1>4, <1>5 DEF HistoryNext

\* It holds in every state of the specification.
LEMMA ProtectionAlways == HistorySpec => []TurnInv
<1>1. QED  BY ProtectionBegins, ProtectionKept, PTL DEF HistorySpec

-----------------------------------------------------------------------------
(***************************************************************************)
(* What the model is shown.                                                *)
(***************************************************************************)
\* The entries of a reversed sequence.
LEMMA ReverseShape ==
  ASSUME NEW s \in Seq(Entries)
  PROVE  /\ Reverse(s) \in Seq(Entries) /\ Len(Reverse(s)) = Len(s)
         /\ \A k \in 1 .. Len(s) : Reverse(s)[k] = s[Len(s) - k + 1]
<1> DEFINE n == Len(s)
           R == Reverse(s)
<1>1. n \in Nat /\ s \in [1 .. n -> Entries]
  BY LenProperties
<1>2. R = [i \in 1 .. n |-> s[(n - i) + 1]]
  BY DEF Reverse
<1> HIDE DEF n, R
<1>3. \A i \in 1 .. n : (n - i) + 1 \in 1 .. n
  BY <1>1
<1>4. R \in [1 .. n -> Entries]
  BY <1>1, <1>2, <1>3
<1>5. R \in Seq(Entries)
  BY <1>1, <1>4, SeqDef
<1>6. Len(R) = n
  BY <1>1, <1>4, <1>5, LenProperties
<1>7. QED  BY <1>2, <1>5, <1>6 DEF n, R

\* A suffix, position by position.
LEMMA SuffixByPosition ==
  ASSUME NEW s \in Seq(Entries), NEW t \in Seq(Entries), Len(s) <= Len(t),
         \A k \in 1 .. Len(s) : s[k] = t[Len(t) - Len(s) + k]
  PROVE  IsSuffix(s, t)
<1> DEFINE n == Len(s)
           m == Len(t)
           R == Reverse(s)
           Q == Reverse(t)
<1>1. n \in Nat /\ m \in Nat /\ n <= m
  BY LenProperties
<1>2. /\ R \in Seq(Entries) /\ Len(R) = n /\ \A k \in 1 .. n : R[k] = s[n - k + 1]
      /\ Q \in Seq(Entries) /\ Len(Q) = m /\ \A k \in 1 .. m : Q[k] = t[m - k + 1]
  BY ReverseShape
<1>3. \A k \in 1 .. n : s[k] = t[m - n + k]
  OBVIOUS
<1> HIDE DEF R, Q
<1>4. ASSUME NEW k \in 1 .. n PROVE R[k] = Q[k]
  <2> HIDE DEF n, m
  <2>1. n - k + 1 \in 1 .. n /\ m - n + (n - k + 1) = m - k + 1 /\ k \in 1 .. m
    BY <1>1
  <2>2. s[n - k + 1] = t[m - n + (n - k + 1)]
    BY <1>3, <2>1
  <2>3. QED  BY <1>2, <2>1, <2>2
<1>5. /\ SubSeq(R, 1, n) \in Seq(Entries) /\ Len(SubSeq(R, 1, n)) = n
      /\ \A k \in 1 .. n : SubSeq(R, 1, n)[k] = R[k]
  <2> HIDE DEF n
  <2>1. \A k \in 1 .. n : R[k] \in Entries
    BY <1>2, ElementOfSeq
  <2>2. 1 \in Int /\ n \in Int /\ (n - 1) + 1 = n /\ (1 <= n \/ n = 0)
        /\ \A k \in 1 .. n : (1 + k) - 1 = k
    BY <1>1
  <2>3. QED  BY <2>1, <2>2, SubSeqProperties
<1>6. /\ SubSeq(Q, 1, n) \in Seq(Entries) /\ Len(SubSeq(Q, 1, n)) = n
      /\ \A k \in 1 .. n : SubSeq(Q, 1, n)[k] = Q[k]
  <2> HIDE DEF n, m
  <2>1. \A k \in 1 .. n : Q[k] \in Entries
    <3>1. \A k \in 1 .. n : k \in 1 .. m
      BY <1>1
    <3>2. QED  BY <1>2, <3>1, ElementOfSeq
  <2>2. 1 \in Int /\ n \in Int /\ (n - 1) + 1 = n /\ (1 <= n \/ n = 0)
        /\ \A k \in 1 .. n : (1 + k) - 1 = k
    BY <1>1
  <2>3. QED  BY <2>1, <2>2, SubSeqProperties
<1> HIDE DEF n, m
<1>7. SubSeq(R, 1, n) = SubSeq(Q, 1, n)
  BY <1>4, <1>5, <1>6, SeqEqual
<1>8. QED  BY <1>1, <1>2, <1>7 DEF IsSuffix, IsPrefix, R, Q

\* The prompt is the protected start and what the turn added.
LEMMA PromptShape ==
  ASSUME TurnInv, running
  PROVE  LET n == Len(history)
             added == SubSeq(work, baseLen + 1, Len(work)) IN
         /\ n \in Nat /\ Len(work) \in Nat /\ baseLen \in n + 1 .. Len(work)
         /\ base \in Seq(Entries) /\ added \in Seq(Entries)
         /\ Len(added) = Len(work) - baseLen
         /\ \A k \in 1 .. Len(work) - baseLen :
              added[k] = work[baseLen + k] /\ added[k].lines = <<baseLen + k>>
         /\ InOrder(added) /\ Within(added, baseLen + 1, Len(work))
         /\ \A p \in baseLen + 1 .. Len(work) : Names(added, p)
<1> DEFINE n == Len(history)
           w == Len(work)
           l == baseLen
           added == SubSeq(work, l + 1, w)
<1>1. n \in Nat /\ w \in Nat
  BY LenProperties DEF TurnInv, Conversation
<1>2. base \in Seq(Entries) /\ l \in n + 1 .. w /\ Conversation(work)
  BY DEF TurnInv, Protects
<1>3. l + 1 \in Nat \ {0} /\ w \in 0 .. Len(work) /\ l + 1 <= w + 1
      /\ w + 1 - (l + 1) = w - l
  <2> HIDE DEF n
  <2>1. QED  BY <1>1, <1>2
<1>4. /\ added \in Seq(Entries) /\ Len(added) = w + 1 - (l + 1)
      /\ \A k \in 1 .. w + 1 - (l + 1) :
           added[k] = work[(l + 1) + k - 1] /\ added[k].lines = <<(l + 1) + k - 1>>
      /\ InOrder(added) /\ Within(added, l + 1, w)
      /\ \A p \in l + 1 .. w : Names(added, p)
  BY <1>2, <1>3, Stretch
<1>5. \A k \in 1 .. w - l : (l + 1) + k - 1 = l + k
  <2> HIDE DEF n, w
  <2>1. QED  BY <1>1, <1>2
<1> HIDE DEF added
<1>6. /\ Len(added) = w - l
      /\ \A k \in 1 .. w - l : added[k] = work[l + k] /\ added[k].lines = <<l + k>>
  BY <1>3, <1>4, <1>5
<1>7. l \in n + 1 .. w
  BY <1>2
<1>8. QED  BY <1>1, <1>2, <1>4, <1>6, <1>7, Zenon DEF added

\* Old items reach the model as context or inside transcripts only.
LEMMA PriorTurnsHidden ==
  TurnInv => PriorTurnsAreDeclassified
<1> SUFFICES ASSUME TurnInv, Protecting, NEW i \in DOMAIN PromptHistory,
                    PromptHistory[i].kind \notin {"context", "transcript"},
                    NEW j \in DOMAIN PromptHistory[i].lines
             PROVE  PromptHistory[i].lines[j] >= TurnStart
  BY DEF PriorTurnsAreDeclassified
<1> DEFINE n == Len(history)
           added == SubSeq(work, baseLen + 1, Len(work))
<1>1. running /\ mode # "disabled"
  BY DEF Protecting
<1>2. /\ n \in Nat /\ Len(work) \in Nat /\ baseLen \in n + 1 .. Len(work)
      /\ base \in Seq(Entries) /\ added \in Seq(Entries)
      /\ Within(added, baseLen + 1, Len(work))
  BY <1>1, PromptShape
<1>3. Protects(base, told, work, baseLen, n)
  BY <1>1 DEF TurnInv
<1>4. PromptHistory = base \o added
  BY DEF PromptHistory
<1> HIDE DEF added, n
<1>5. (i \in DOMAIN base /\ PromptHistory[i] = base[i])
      \/ \E k \in DOMAIN added : PromptHistory[i] = added[k]
  BY <1>2, <1>4, ConcatIndices
<1>6. CASE i \in DOMAIN base /\ PromptHistory[i] = base[i]
  <2>1. base[i].lines[j] > n
    BY <1>1, <1>3, <1>6 DEF Protects
  <2>2. base[i].lines[j] \in Nat
    BY <1>2, <1>3, <1>6 DEF Protects, Within
  <2>3. QED  BY <1>2, <1>6, <2>1, <2>2 DEF TurnStart, n
<1>7. ASSUME NEW k \in DOMAIN added, PromptHistory[i] = added[k]
      PROVE  PromptHistory[i].lines[j] >= TurnStart
  <2>1. added[k].lines[j] \in baseLen + 1 .. Len(work)
    BY <1>2, <1>7 DEF Within
  <2>2. QED  BY <1>2, <1>7, <2>1 DEF TurnStart, n
<1>8. QED  BY <1>5, <1>6, <1>7

\* The explanation is there exactly when it is due.
LEMMA RewritingTold ==
  TurnInv => RewritingIsExplained
<1> SUFFICES ASSUME TurnInv, running
             PROVE  told <=> Protecting /\ \E p \in 1 .. TurnStart - 1 : Spoken(work[p])
  BY DEF RewritingIsExplained, Spoken
<1>1. Protects(base, told, work, baseLen, Len(history)) /\ Len(history) \in Nat
  BY DEF TurnInv, Protects
<1>2. TurnStart - 1 = Len(history)
  BY <1>1 DEF TurnStart
<1>3. QED  BY <1>1, <1>2 DEF Protects, Protecting

\* The turn's own items end the prompt as they are.
LEMMA TurnIsVerbatim ==
  TurnInv => CurrentTurnIsVerbatim
<1> SUFFICES ASSUME TurnInv, running
             PROVE  IsSuffix(SubSeq(work, TurnStart, Len(work)), PromptHistory)
  BY DEF CurrentTurnIsVerbatim
<1> DEFINE n == Len(history)
           w == Len(work)
           l == baseLen
           b == Len(base)
           added == SubSeq(work, l + 1, w)
           own == SubSeq(work, n + 1, w)
<1>1. /\ n \in Nat /\ w \in Nat /\ l \in n + 1 .. w
      /\ base \in Seq(Entries) /\ added \in Seq(Entries)
      /\ Len(added) = w - l
      /\ \A k \in 1 .. w - l : added[k] = work[l + k]
  BY PromptShape
<1>2. b >= l - n /\ \A q \in n + 1 .. l : base[b - l + q] = work[q]
  BY DEF TurnInv, Protects
<1>3. PromptHistory = base \o added /\ TurnStart = n + 1
  BY DEF PromptHistory, TurnStart
<1>4. /\ own \in Seq(Entries) /\ Len(own) = w - n
      /\ \A k \in 1 .. w - n : own[k] = work[n + k]
  <2>1. Conversation(work)
    BY DEF TurnInv
  <2>2. n + 1 \in Nat \ {0} /\ w \in 0 .. Len(work) /\ n + 1 <= w + 1
        /\ w + 1 - (n + 1) = w - n
    <3> HIDE DEF n
    <3>1. QED  BY <1>1
  <2>3. /\ own \in Seq(Entries) /\ Len(own) = w + 1 - (n + 1)
        /\ \A k \in 1 .. w + 1 - (n + 1) : own[k] = work[(n + 1) + k - 1]
    BY <2>1, <2>2, Stretch
  <2>4. \A k \in 1 .. w - n : (n + 1) + k - 1 = n + k
    <3> HIDE DEF n, w
    <3>1. QED  BY <1>1
  <2> HIDE DEF own
  <2>5. QED  BY <2>2, <2>3, <2>4
<1> DEFINE P == base \o added
<1>5. /\ P \in Seq(Entries) /\ b \in Nat /\ Len(P) = b + (w - l)
      /\ \A k \in 1 .. b + (w - l) : P[k] = IF k <= b THEN base[k] ELSE added[k - b]
  <2>1. base \in Seq(Entries) /\ added \in Seq(Entries) /\ Len(added) = w - l
    BY <1>1
  <2> HIDE DEF added, w
  <2>2. QED  BY <2>1, ConcatProperties, LenProperties, ZenonT(30)
<1> HIDE DEF P, own, added, n, w, b
<1>6. ASSUME NEW k \in 1 .. w - n PROVE own[k] = P[(b + (w - l)) - (w - n) + k]
  <2>1. CASE n + k <= l
    <3>1. n + k \in n + 1 .. l /\ b - l + (n + k) = (b + (w - l)) - (w - n) + k
          /\ b - l + (n + k) \in 1 .. b + (w - l) /\ b - l + (n + k) <= b
      BY <1>1, <1>2, <1>5, <2>1
    <3>2. base[b - l + (n + k)] = work[n + k]
      BY <1>2, <3>1
    <3>3. QED  BY <1>4, <1>5, <3>1, <3>2
  <2>2. CASE ~(n + k <= l)
    <3> DEFINE g == n + k - l
    <3>1. g \in 1 .. w - l /\ b + g = (b + (w - l)) - (w - n) + k
          /\ b + g \in 1 .. b + (w - l) /\ ~(b + g <= b) /\ (b + g) - b = g
          /\ l + g = n + k
      BY <1>1, <1>2, <1>5, <2>2
    <3> HIDE DEF g
    <3>2. P[b + g] = added[g] /\ added[g] = work[n + k]
      BY <1>1, <1>5, <3>1
    <3>3. QED  BY <1>4, <3>1, <3>2
  <2>3. QED  BY <2>1, <2>2
<1>7. Len(own) <= Len(P)
  <2>1. /\ n \in Nat /\ w \in Nat /\ l \in n + 1 .. w /\ b \in Nat /\ b >= l - n
        /\ Len(own) = w - n /\ Len(P) = b + (w - l)
    BY <1>1, <1>2, <1>4, <1>5
  <2>2. w - n <= b + (w - l)
    BY <2>1
  <2>3. QED  BY <2>1, <2>2
<1>8. IsSuffix(own, P)
  BY <1>4, <1>5, <1>6, <1>7, SuffixByPosition
<1>9. QED  BY <1>3, <1>8 DEF P, own, n, w, added

\* Order and completeness of the prompt.
LEMMA NothingIsLost ==
  TurnInv => ContinuityIsKept
<1> SUFFICES ASSUME TurnInv, running
             PROVE  /\ InOrder(PromptHistory)
                    /\ \A p \in DOMAIN work :
                         \/ Names(PromptHistory, p)
                         \/ Protecting /\ Unspoken(work[p])
                         \/ CutOff(PromptHistory)
  BY DEF ContinuityIsKept, InOrder, Names, CutOff, Unspoken
<1> DEFINE added == SubSeq(work, baseLen + 1, Len(work))
           P == base \o added
<1>1. /\ Len(work) \in Nat /\ baseLen \in Nat /\ baseLen <= Len(work)
      /\ base \in Seq(Entries) /\ added \in Seq(Entries)
      /\ InOrder(added) /\ Within(added, baseLen + 1, Len(work))
      /\ \A p \in baseLen + 1 .. Len(work) : Names(added, p)
  <2> DEFINE n == Len(history)
  <2>1. /\ n \in Nat /\ Len(work) \in Nat /\ baseLen \in n + 1 .. Len(work)
        /\ base \in Seq(Entries) /\ added \in Seq(Entries)
        /\ InOrder(added) /\ Within(added, baseLen + 1, Len(work))
        /\ \A p \in baseLen + 1 .. Len(work) : Names(added, p)
    BY PromptShape
  <2> HIDE DEF n, added
  <2>2. QED  BY <2>1
<1>2. /\ InOrder(base) /\ Within(base, 1, baseLen)
      /\ \A p \in 1 .. baseLen :
           Names(base, p) \/ (mode # "disabled" /\ Unspoken(work[p])) \/ CutOff(base)
  BY DEF TurnInv, Protects
<1>3. DOMAIN work = 1 .. Len(work)
  BY LenProperties DEF TurnInv, Conversation
<1> HIDE DEF added
<1>4. InOrder(P)
  BY <1>1, <1>2, BehindOthers
<1>5. (\A p : Names(base, p) \/ Names(added, p) => Names(P, p))
      /\ (CutOff(base) => CutOff(P))
  BY <1>1, BehindOthers
<1>6. ASSUME NEW p \in 1 .. Len(work)
      PROVE  Names(P, p) \/ (Protecting /\ Unspoken(work[p])) \/ CutOff(P)
  <2>1. p \in 1 .. baseLen \/ p \in baseLen + 1 .. Len(work)
    BY <1>1
  <2>2. QED  BY <1>1, <1>2, <1>5, <2>1 DEF Protecting
<1>7. P = PromptHistory
  BY DEF PromptHistory, added
<1>8. QED  BY <1>3, <1>4, <1>6, <1>7

\* The types follow.
LEMMA TurnsTyped ==
  TurnInv => HistoryTypeOK
<1> SUFFICES ASSUME TurnInv PROVE HistoryTypeOK
  OBVIOUS
<1>1. ASSUME NEW h, Conversation(h) PROVE h \in Seq(Entries)
  BY <1>1, SeqMonotonic DEF Conversation
<1>2. CASE running
  <2>1. /\ base \in Seq(Entries) /\ \A i \in DOMAIN base : base[i].lines = <<>> => base[i].blank
        /\ Len(history) \in Nat /\ baseLen \in Len(history) + 1 .. Len(work)
    BY <1>2 DEF TurnInv, Protects
  <2>2. Len(work) \in Nat
    BY <1>2, LenProperties DEF TurnInv, Conversation
  <2>3. baseLen \in 0 .. Len(work)
    BY <2>1, <2>2
  <2>4. QED  BY <1>1, <1>2, <2>1, <2>3 DEF TurnInv, HistoryTypeOK
<1>3. CASE ~running
  <2>1. <<>> \in Seq(Entries) /\ Len(<<>>) = 0 /\ DOMAIN <<>> = {}
    OBVIOUS
  <2>2. work = <<>> /\ base = <<>> /\ baseLen = 0
    BY <1>3 DEF TurnInv
  <2>3. QED  BY <1>1, <1>3, <2>1, <2>2 DEF TurnInv, HistoryTypeOK
<1>4. QED  BY <1>2, <1>3 DEF TurnInv

\* THEOREM (HistoryTypeOK).  Conversations, prompts and flags have their types,
\* and no entry of a protected history is empty unless the limit leaves it
\* nothing (renderUntrustedHistoryTranscript).
THEOREM HistoryWellTyped == HistorySpec => []HistoryTypeOK
<1>1. QED  BY ProtectionAlways, TurnsTyped, PTL

\* THEOREM (OldTextIsData).  However turns, steering, context items and budget
\* reminders alternate, and wherever splitPromptHistoryForProtection finds the
\* current turn, no item of a turn that is over reaches the model undeclassified,
\* and a rewritten history comes with its explanation and only then.
THEOREM OldTextStaysData == HistorySpec => []OldTextIsData
<1>1. TurnInv => OldTextIsData
  BY PriorTurnsHidden, RewritingTold DEF OldTextIsData
<1>2. QED  BY <1>1, ProtectionAlways, PTL

\* THEOREM (PromptKeepsConversation).  What ProtectPromptHistory and the later
\* slicing of RunTurnWithOptions put together shows the turn's own items as they
\* are, and the earlier ones in order, none twice, and none lost but those without
\* text, of a kind the mode omits, or cut off at the limit.
THEOREM ConversationSurvives == HistorySpec => []PromptKeepsConversation
<1>1. TurnInv => PromptKeepsConversation
  BY TurnIsVerbatim, NothingIsLost DEF PromptKeepsConversation
<1>2. QED  BY <1>1, ProtectionAlways, PTL

-----------------------------------------------------------------------------
(***************************************************************************)
(* Assistant text: where tags begin.                                       *)
(***************************************************************************)
Begins(t, tag, i) ==
  /\ i \in Nat \ {0} /\ i + Len(tag) - 1 <= Len(t)
  /\ \A m \in 1 .. Len(tag) : t[i + m - 1] = tag[m]

\* A part of a text, symbol by symbol.
LEMMA Part ==
  ASSUME NEW t \in Texts, NEW i \in Nat \ {0}, NEW j \in 0 .. Len(t), i <= j + 1
  PROVE  /\ SubSeq(t, i, j) \in Texts /\ Len(SubSeq(t, i, j)) = j + 1 - i
         /\ \A k \in 1 .. j + 1 - i : SubSeq(t, i, j)[k] = t[i + k - 1]
<1>0. Len(t) \in Nat /\ j \in Nat
  BY LenProperties DEF Texts
<1>1. \A k \in i .. j : t[k] \in Symbols
  <2>1. \A k \in i .. j : k \in 1 .. Len(t)
    BY <1>0
  <2>2. QED  BY <2>1, ElementOfSeq DEF Texts
<1>2. /\ SubSeq(t, i, j) \in Texts /\ Len(SubSeq(t, i, j)) = IF i <= j THEN j - i + 1 ELSE 0
      /\ \A k \in 1 .. j - i + 1 : SubSeq(t, i, j)[k] = t[i + k - 1]
  BY <1>0, <1>1, SubSeqProperties DEF Texts
<1>3. j - i + 1 = j + 1 - i /\ (~(i <= j) => 0 = j + 1 - i)
  BY <1>0
<1>4. QED  BY <1>2, <1>3

\* The end of a text, symbol by symbol.
LEMMA Rest ==
  ASSUME NEW t \in Texts, NEW i \in 1 .. Len(t) + 1
  PROVE  /\ From(t, i) \in Texts /\ Len(From(t, i)) = Len(t) + 1 - i
         /\ \A k \in 1 .. Len(t) + 1 - i : From(t, i)[k] = t[i + k - 1]
<1>1. Len(t) \in Nat
  BY LenProperties DEF Texts
<1>2. i \in Nat \ {0} /\ Len(t) \in 0 .. Len(t) /\ i <= Len(t) + 1
  BY <1>1
<1>3. QED  BY <1>2, Part DEF From

\* Two texts with the same symbols are the same.
LEMMA SameText ==
  ASSUME NEW s \in Texts, NEW t \in Texts, Len(s) = Len(t),
         \A i \in 1 .. Len(s) : s[i] = t[i]
  PROVE  s = t
BY SeqEqual DEF Texts

LEMMA PartIsTag ==
  ASSUME NEW t \in Texts, NEW tag \in Texts, NEW i \in Nat \ {0},
         i <= Len(t) - Len(tag) + 1
  PROVE  SubSeq(t, i, i + Len(tag) - 1) = tag <=> Begins(t, tag, i)
<1> DEFINE n == Len(tag)
           j == i + n - 1
           part == SubSeq(t, i, j)
<1>1. n \in Nat /\ Len(t) \in Nat
  BY LenProperties DEF Texts
<1>2. j \in 0 .. Len(t) /\ i <= j + 1 /\ j + 1 - i = n /\ i + n - 1 <= Len(t)
  BY <1>1
<1>3. /\ part \in Texts /\ Len(part) = j + 1 - i
      /\ \A k \in 1 .. j + 1 - i : part[k] = t[i + k - 1]
  BY <1>2, Part
<1>4. part \in Texts /\ Len(part) = n /\ \A k \in 1 .. n : part[k] = t[i + k - 1]
  BY <1>2, <1>3
<1> HIDE DEF part
<1>5. part = tag <=> \A k \in 1 .. n : part[k] = tag[k]
  BY <1>4, SameText
<1>6. QED  BY <1>2, <1>4, <1>5 DEF part, Begins

\* strings.Index finds the first tag.
LEMMA IndexOfFirst ==
  ASSUME NEW s \in Texts, NEW tag \in Texts, tag # <<>>
  PROVE  /\ IndexOf(s, tag) \in Nat
         /\ IndexOf(s, tag) = 0 => \A i : ~Begins(s, tag, i)
         /\ IndexOf(s, tag) > 0 =>
              /\ Begins(s, tag, IndexOf(s, tag))
              /\ \A i : Begins(s, tag, i) => IndexOf(s, tag) <= i
<1> DEFINE at == {i \in 1 .. Len(s) - Len(tag) + 1 : SubSeq(s, i, i + Len(tag) - 1) = tag}
           first == CHOOSE i \in at : \A j \in at : i <= j
<1>1. Len(s) \in Nat /\ Len(tag) \in Nat
  BY LenProperties DEF Texts
<1>2. \A i : i \in at <=> Begins(s, tag, i)
  <2>1. ASSUME NEW i \in Nat \ {0}, i <= Len(s) - Len(tag) + 1
        PROVE  i \in at <=> Begins(s, tag, i)
    BY <1>1, <2>1, PartIsTag
  <2>2. ASSUME NEW i, i \in at \/ Begins(s, tag, i)
        PROVE  i \in Nat \ {0} /\ i <= Len(s) - Len(tag) + 1
    BY <1>1, <2>2 DEF Begins
  <2>3. QED  BY <2>1, <2>2
<1>3. at \subseteq Nat \ {0}
  BY <1>1
<1>4. IndexOf(s, tag) = IF at = {} THEN 0 ELSE first
  BY DEF IndexOf
<1> HIDE DEF at
<1>5. at # {} => first \in at /\ \A j \in at : first <= j
  BY <1>3, LeastNatural
<1> HIDE DEF first
<1>6. \A i : Begins(s, tag, i) => i \in Nat
  BY DEF Begins
<1>7. QED  BY <1>2, <1>3, <1>4, <1>5, <1>6

LEMMA NextTagFirst ==
  ASSUME NEW t \in Texts, NEW tag \in Texts, tag # <<>>, NEW k \in Nat \ {0}
  PROVE  /\ NextTag(t, tag, k) \in Nat
         /\ NextTag(t, tag, k) = 0 => \A i : Begins(t, tag, i) => i < k
         /\ NextTag(t, tag, k) > 0 =>
              /\ Begins(t, tag, NextTag(t, tag, k)) /\ k <= NextTag(t, tag, k)
              /\ \A i : Begins(t, tag, i) /\ k <= i => NextTag(t, tag, k) <= i
<1> DEFINE at == {i \in k .. Len(t) - Len(tag) + 1 : SubSeq(t, i, i + Len(tag) - 1) = tag}
           first == CHOOSE i \in at : \A j \in at : i <= j
<1>1. Len(t) \in Nat /\ Len(tag) \in Nat
  BY LenProperties DEF Texts
<1>2. \A i : i \in at <=> Begins(t, tag, i) /\ k <= i
  <2>1. ASSUME NEW i \in Nat \ {0}, k <= i, i <= Len(t) - Len(tag) + 1
        PROVE  i \in at <=> Begins(t, tag, i)
    BY <1>1, <2>1, PartIsTag
  <2>2. ASSUME NEW i, i \in at \/ (Begins(t, tag, i) /\ k <= i)
        PROVE  i \in Nat \ {0} /\ i <= Len(t) - Len(tag) + 1 /\ k <= i
    BY <1>1, <2>2 DEF Begins
  <2>3. QED  BY <2>1, <2>2
<1>3. at \subseteq Nat \ {0}
  BY <1>1
<1>4. NextTag(t, tag, k) = IF at = {} THEN 0 ELSE first
  BY DEF NextTag
<1> HIDE DEF at
<1>5. at # {} => first \in at /\ \A j \in at : first <= j
  BY <1>3, LeastNatural
<1> HIDE DEF first
<1>6. \A i : Begins(t, tag, i) => i \in Nat
  BY DEF Begins
<1>7. QED  BY <1>2, <1>3, <1>4, <1>5, <1>6

\* The first one is the next.
LEMMA NextTagIs ==
  ASSUME NEW t \in Texts, NEW tag \in Texts, tag # <<>>, NEW k \in Nat \ {0}
  PROVE  /\ \A j \in Nat : Begins(t, tag, j) /\ k <= j
                /\ (\A i : Begins(t, tag, i) /\ k <= i => j <= i)
              => NextTag(t, tag, k) = j
         /\ (\A i : Begins(t, tag, i) => i < k) => NextTag(t, tag, k) = 0
<1> DEFINE next == NextTag(t, tag, k)
<1>1. /\ next \in Nat
      /\ next = 0 => \A i : Begins(t, tag, i) => i < k
      /\ next > 0 => /\ Begins(t, tag, next) /\ k <= next
                     /\ \A i : Begins(t, tag, i) /\ k <= i => next <= i
  BY NextTagFirst
<1> HIDE DEF next
<1>2. ASSUME NEW j \in Nat, Begins(t, tag, j), k <= j,
             \A i : Begins(t, tag, i) /\ k <= i => j <= i
      PROVE  next = j
  <2>1. next > 0
    BY <1>1, <1>2
  <2>2. j <= next /\ next <= j
    BY <1>1, <1>2, <2>1
  <2>3. QED  BY <1>1, <1>2, <2>2
<1>3. ASSUME \A i : Begins(t, tag, i) => i < k PROVE next = 0
  BY <1>1, <1>3
<1>4. QED  BY <1>2, <1>3 DEF next

-----------------------------------------------------------------------------
(***************************************************************************)
(* The reference.                                                          *)
(***************************************************************************)
Marks == [open : Texts \ {<<>>}, close : Texts \ {<<>>}]

\* What is shown and cited from the k-th symbol on if a citation is open, of
\* which body has been read.
Closing(marks, t, body, k) ==
  LET j == NextTag(t, marks.close, k)
      after == Shown(marks, t)[j + Len(marks.close)] IN
  IF j = 0 THEN [visible |-> <<>>, bodies |-> <<body \o From(t, k)>>]
  ELSE [visible |-> after.visible,
        bodies |-> <<body \o SubSeq(t, k, j - 1)>> \o after.bodies]

ShownFrom(marks, t, f, k) ==
  LET i == NextTag(t, marks.open, k)
      body == i + Len(marks.open)
      j == NextTag(t, marks.close, body)
      after == f[j + Len(marks.close)] IN
  CASE i = 0 -> [visible |-> From(t, k), bodies |-> <<>>]
    [] i > 0 /\ j = 0 -> [visible |-> SubSeq(t, k, i - 1), bodies |-> <<From(t, body)>>]
    [] OTHER -> [visible |-> SubSeq(t, k, i - 1) \o after.visible,
                 bodies |-> <<SubSeq(t, body, j - 1)>> \o after.bodies]

\* With no open tag left, the rest is shown.
LEMMA NoTagLeft ==
  ASSUME NEW marks, NEW t, NEW f, NEW k, NextTag(t, marks.open, k) = 0
  PROVE  ShownFrom(marks, t, f, k) = [visible |-> From(t, k), bodies |-> <<>>]
<1> DEFINE i == NextTag(t, marks.open, k)
           body == i + Len(marks.open)
           j == NextTag(t, marks.close, body)
           after == f[j + Len(marks.close)]
<1>1. ShownFrom(marks, t, f, k)
        = CASE i = 0 -> [visible |-> From(t, k), bodies |-> <<>>]
            [] i > 0 /\ j = 0 -> [visible |-> SubSeq(t, k, i - 1), bodies |-> <<From(t, body)>>]
            [] OTHER -> [visible |-> SubSeq(t, k, i - 1) \o after.visible,
                         bodies |-> <<SubSeq(t, body, j - 1)>> \o after.bodies]
  BY DEF ShownFrom
<1>2. i = 0
  OBVIOUS
<1> DEFINE a == [visible |-> SubSeq(t, k, i - 1), bodies |-> <<From(t, body)>>]
           b == [visible |-> SubSeq(t, k, i - 1) \o after.visible,
                 bodies |-> <<SubSeq(t, body, j - 1)>> \o after.bodies]
           c == [visible |-> From(t, k), bodies |-> <<>>]
<1> HIDE DEF a, b, c, i, j
<1>3. (CASE i = 0 -> c [] i > 0 /\ j = 0 -> a [] OTHER -> b) = c
  BY <1>2
<1>4. QED  BY <1>1, <1>3 DEF a, b, c

\* After a tag there is more text, or its end.
LEMMA AfterTag ==
  ASSUME NEW t \in Texts, NEW tag \in Texts \ {<<>>}, NEW i, Begins(t, tag, i)
  PROVE  i \in Nat /\ Len(tag) \in Nat /\ Len(t) \in Nat
         /\ i + Len(tag) \in i + 1 .. Len(t) + 1 /\ i <= Len(t)
<1>1. Len(tag) \in Nat \ {0} /\ Len(t) \in Nat
  BY LenProperties, EmptySeq DEF Texts
<1>2. QED  BY <1>1 DEF Begins

LEMMA ShownStep ==
  ASSUME NEW marks \in Marks, NEW t \in Texts
  PROVE  \A k \in 1 .. Len(t) + 1 :
           Shown(marks, t)[k] = ShownFrom(marks, t, Shown(marks, t), k)
<1> DEFINE n == Len(t) + 1
           Is(f, m) == f = [k \in m .. n |-> ShownFrom(marks, t, f, k)]
           Bad == {d \in 0 .. n - 1 : ~ \E f : Is(f, n - d)}
<1>0. n \in Nat \ {0} /\ marks.open \in Texts \ {<<>>} /\ marks.close \in Texts \ {<<>>}
  BY LenProperties DEF Texts, Marks
<1>1. ASSUME NEW m \in 1 .. n, NEW f, NEW g, NEW k \in m .. n,
             \A h \in k + 1 .. n : f[h] = g[h]
      PROVE  ShownFrom(marks, t, f, k) = ShownFrom(marks, t, g, k)
  <2> DEFINE i == NextTag(t, marks.open, k)
             body == i + Len(marks.open)
             j == NextTag(t, marks.close, body)
             e == j + Len(marks.close)
  <2>1. i \in Nat /\ (i > 0 => Begins(t, marks.open, i) /\ k <= i)
    <3>1. k \in Nat \ {0}
      BY <1>0
    <3>2. QED  BY <1>0, <3>1, NextTagFirst
  <2>2. i > 0 => body \in k + 1 .. n
    <3>1. CASE i > 0
      <4>1. i + Len(marks.open) \in i + 1 .. Len(t) + 1
        BY <1>0, <2>1, <3>1, AfterTag
      <4>2. QED  BY <1>0, <2>1, <3>1, <4>1
    <3>2. QED  BY <3>1
  <2>3. i > 0 /\ j # 0 => e \in k + 1 .. n
    <3>1. CASE i > 0 /\ j # 0
      <4>1. body \in Nat \ {0}
        BY <1>0, <2>2, <3>1
      <4>2. j \in Nat /\ (j > 0 => Begins(t, marks.close, j) /\ body <= j)
        BY <1>0, <4>1, NextTagFirst
      <4>3. j + Len(marks.close) \in j + 1 .. Len(t) + 1
        BY <1>0, <3>1, <4>2, AfterTag
      <4>4. QED  BY <1>0, <2>2, <3>1, <4>2, <4>3
    <3>2. QED  BY <3>1
  <2>4. i > 0 /\ j # 0 => f[e] = g[e]
    BY <1>1, <2>3
  <2>5. i = 0 \/ i > 0
    BY <2>1
  <2>6. CASE i = 0
    BY <2>6 DEF ShownFrom
  <2>7. CASE i > 0 /\ j = 0
    BY <2>1, <2>7 DEF ShownFrom
  <2>8. CASE i > 0 /\ j # 0
    <3> DEFINE S(a) == [visible |-> SubSeq(t, k, i - 1) \o a.visible,
                        bodies |-> <<SubSeq(t, body, j - 1)>> \o a.bodies]
    <3>1. i # 0 /\ ~(i > 0 /\ j = 0)
      BY <2>1, <2>8
    <3>2. ShownFrom(marks, t, f, k) = S(f[e]) /\ ShownFrom(marks, t, g, k) = S(g[e])
      BY <3>1 DEF ShownFrom
    <3>3. f[e] = g[e]
      BY <2>4, <2>8
    <3> HIDE DEF S, e
    <3>4. QED  BY <3>2, <3>3
  <2>9. QED  BY <2>5, <2>6, <2>7, <2>8
<1>2. \E f : Is(f, n)
  <2> DEFINE f == [k \in n .. n |-> ShownFrom(marks, t, <<>>, k)]
  <2>1. ASSUME NEW k \in n .. n
        PROVE  ShownFrom(marks, t, <<>>, k) = ShownFrom(marks, t, f, k)
    <3>1. n \in 1 .. n /\ \A h \in k + 1 .. n : FALSE
      BY <1>0
    <3> HIDE DEF f, n
    <3>2. QED  BY <1>1, <3>1
  <2>2. Is(f, n)
    BY <2>1
  <2>3. QED  BY <2>2
<1>3. ASSUME NEW m \in 1 .. n, m # 1, \E f : Is(f, m) PROVE \E f : Is(f, m - 1)
  <2>1. PICK f : Is(f, m)
    BY <1>3
  <2> DEFINE d == ShownFrom(marks, t, f, m - 1)
             g == [k \in m - 1 .. n |-> IF k = m - 1 THEN d ELSE f[k]]
  <2>2. \A h \in m .. n : f[h] = g[h]
    BY <1>0
  <2>3. ASSUME NEW k \in m - 1 .. n PROVE g[k] = ShownFrom(marks, t, g, k)
    <3>1. ShownFrom(marks, t, f, k) = ShownFrom(marks, t, g, k)
      <4>1. m - 1 \in 1 .. n /\ \A h \in k + 1 .. n : h \in m .. n
        BY <1>0, <1>3
      <4>2. \A h \in k + 1 .. n : f[h] = g[h]
        BY <2>2, <4>1
      <4> HIDE DEF g, n
      <4>3. QED  BY <1>1, <4>1, <4>2
    <3>2. CASE k = m - 1
      <4>1. g[k] = d
        BY <3>2
      <4>2. QED  BY <3>1, <3>2, <4>1
    <3>3. CASE k # m - 1
      <4>1. k \in m .. n /\ g[k] = f[k]
        BY <1>0, <3>3
      <4>2. f[k] = ShownFrom(marks, t, f, k)
        BY <2>1, <4>1, Zenon
      <4>3. QED  BY <3>1, <4>1, <4>2
    <3>4. QED  BY <3>2, <3>3
  <2>4. Is(g, m - 1)
    <3> DEFINE P(k) == ShownFrom(marks, t, g, k)
    <3>1. \A k \in m - 1 .. n : g[k] = P(k)
      BY <2>3
    <3>2. g = [k \in m - 1 .. n |-> g[k]]
      OBVIOUS
    <3> HIDE DEF P
    <3> HIDE DEF g
    <3>3. g = [k \in m - 1 .. n |-> P(k)]
      BY <3>1, <3>2
    <3>4. QED  BY <3>3 DEF P
  <2>5. QED  BY <2>4
<1>4. Bad = {}
  <2> SUFFICES ASSUME Bad # {} PROVE FALSE
    OBVIOUS
  <2>1. PICK d \in Bad : \A c \in Bad : d <= c
    <3>1. Bad \subseteq Nat
      BY <1>0
    <3> HIDE DEF Bad
    <3>2. QED  BY <3>1, LeastNatural
  <2>2. d \in 1 .. n - 1 /\ d - 1 \in 0 .. n - 1 /\ n - 0 = n
    <3>1. d # 0
      <4>1. n - 0 = n
        BY <1>0
      <4>2. QED  BY <1>2, <2>1, <4>1
    <3>2. QED  BY <1>0, <2>1, <3>1
  <2>3. d - 1 \notin Bad
    <3>1. d - 1 \in Bad => d <= d - 1
      BY <2>1
    <3>2. ~(d <= d - 1)
      BY <2>2
    <3>3. QED  BY <3>1, <3>2
  <2>4. \E f : Is(f, n - (d - 1))
    BY <2>2, <2>3
  <2> DEFINE m == n - (d - 1)
  <2>5. m \in 1 .. n /\ m # 1 /\ m - 1 = n - d
    BY <1>0, <2>2
  <2>6. \E f : Is(f, m - 1)
    <3>1. \E f : Is(f, m)
      BY <2>4
    <3> HIDE DEF m, Is
    <3>2. QED  BY <1>3, <2>5, <3>1
  <2>7. QED  BY <2>1, <2>5, <2>6
<1>5. \E f : Is(f, 1)
  <2>1. n - 1 \in 0 .. n - 1 /\ n - (n - 1) = 1
    BY <1>0
  <2>2. \E f : Is(f, n - (n - 1))
    BY <1>4, <2>1
  <2>3. QED  BY <2>1, <2>2
<1>6. Is(Shown(marks, t), 1)
  BY <1>5 DEF Shown, ShownFrom
<1>7. QED  BY <1>6

LEMMA ConcatTexts ==
  ASSUME NEW s \in Texts, NEW t \in Texts
  PROVE  /\ s \o t \in Texts /\ Len(s \o t) = Len(s) + Len(t)
         /\ Len(s) \in Nat /\ Len(t) \in Nat
         /\ \A i \in 1 .. Len(s) + Len(t) :
              (s \o t)[i] = IF i <= Len(s) THEN s[i] ELSE t[i - Len(s)]
         /\ s \o <<>> = s /\ <<>> \o s = s
BY ConcatProperties, LenProperties, ConcatEmptySeq DEF Texts

\* Two parts that follow each other.
LEMMA Joined ==
  ASSUME NEW t \in Texts, NEW k \in Nat \ {0}, NEW d \in Nat, NEW e \in 0 .. Len(t),
         k <= d, d <= e + 1
  PROVE  SubSeq(t, k, d - 1) \o SubSeq(t, d, e) = SubSeq(t, k, e)
<1> DEFINE a == SubSeq(t, k, d - 1)
           b == SubSeq(t, d, e)
           c == SubSeq(t, k, e)
<1>0. Len(t) \in Nat /\ e \in Nat /\ d - 1 \in 0 .. Len(t) /\ d \in Nat \ {0}
      /\ k <= (d - 1) + 1 /\ k <= e + 1 /\ (d - 1) + 1 = d
  BY LenProperties DEF Texts
<1>1. /\ a \in Texts /\ Len(a) = d - k
      /\ \A i \in 1 .. d - k : a[i] = t[k + i - 1]
  BY <1>0, Part
<1>2. /\ b \in Texts /\ Len(b) = e + 1 - d
      /\ \A i \in 1 .. e + 1 - d : b[i] = t[d + i - 1]
  BY <1>0, Part
<1>3. /\ c \in Texts /\ Len(c) = e + 1 - k
      /\ \A i \in 1 .. e + 1 - k : c[i] = t[k + i - 1]
  BY <1>0, Part
<1> HIDE DEF a, b, c
<1>4. /\ a \o b \in Texts /\ Len(a \o b) = e + 1 - k
      /\ \A i \in 1 .. e + 1 - k :
           (a \o b)[i] = IF i <= d - k THEN a[i] ELSE b[i - (d - k)]
  <2>1. (d - k) + (e + 1 - d) = e + 1 - k
    BY <1>0
  <2>2. /\ a \o b \in Texts /\ Len(a \o b) = Len(a) + Len(b)
        /\ \A i \in 1 .. Len(a) + Len(b) :
             (a \o b)[i] = IF i <= Len(a) THEN a[i] ELSE b[i - Len(a)]
    BY <1>1, <1>2, ConcatTexts
  <2>3. Len(a) = d - k /\ Len(a) + Len(b) = e + 1 - k
    BY <1>1, <1>2, <2>1
  <2>4. QED  BY <2>2, <2>3
<1>5. ASSUME NEW i \in 1 .. e + 1 - k PROVE (a \o b)[i] = c[i]
  <2>1. CASE i <= d - k
    <3>1. i \in 1 .. d - k
      BY <1>0, <2>1
    <3>2. QED  BY <1>1, <1>3, <1>4, <2>1, <3>1
  <2>2. CASE ~(i <= d - k)
    <3>1. i - (d - k) \in 1 .. e + 1 - d /\ d + (i - (d - k)) - 1 = k + i - 1
      BY <1>0, <2>2
    <3>2. QED  BY <1>2, <1>3, <1>4, <2>2, <3>1
  <2>3. QED  BY <2>1, <2>2
<1>6. a \o b = c
  BY <1>3, <1>4, <1>5, SameText
<1>7. QED  BY <1>6 DEF a, b, c

Results == [visible : Texts, bodies : Seq(Texts)]

LEMMA OneBody ==
  ASSUME NEW b \in Texts, NEW s \in Seq(Texts)
  PROVE  /\ <<b>> \in Seq(Texts) /\ <<b>> \o s \in Seq(Texts)
<1>1. <<b>> \in Seq(Texts)
  OBVIOUS
<1>2. QED  BY <1>1, ConcatProperties

\* Where the next tag is, and where the text goes on behind it.
LEMMA NextTagShape ==
  ASSUME NEW t \in Texts, NEW tag \in Texts \ {<<>>}, NEW k \in 1 .. Len(t) + 1
  PROVE  LET i == NextTag(t, tag, k) IN
         /\ i \in Nat /\ Len(t) \in Nat /\ Len(tag) \in Nat
         /\ i > 0 => /\ i \in k .. Len(t) /\ i + Len(tag) \in k + 1 .. Len(t) + 1
                     /\ Begins(t, tag, i)
<1> DEFINE i == NextTag(t, tag, k)
<1>1. k \in Nat \ {0} /\ Len(t) \in Nat /\ Len(tag) \in Nat
  BY LenProperties DEF Texts
<1>2. i \in Nat /\ (i > 0 => Begins(t, tag, i) /\ k <= i)
  BY <1>1, NextTagFirst
<1> HIDE DEF i
<1>3. CASE i > 0
  <2>1. i + Len(tag) \in i + 1 .. Len(t) + 1 /\ i <= Len(t)
    BY <1>2, <1>3, AfterTag
  <2>2. i \in k .. Len(t) /\ i + Len(tag) \in k + 1 .. Len(t) + 1
    BY <1>1, <1>2, <1>3, <2>1
  <2>3. QED  BY <1>1, <1>2, <1>3, <2>2 DEF i
<1>4. QED  BY <1>1, <1>2, <1>3 DEF i

\* The reference returns texts.
LEMMA ShownTyped ==
  ASSUME NEW marks \in Marks, NEW t \in Texts
  PROVE  \A k \in 1 .. Len(t) + 1 : Shown(marks, t)[k] \in Results
<1> DEFINE n == Len(t) + 1
           f == Shown(marks, t)
           Bad == {d \in 0 .. n - 1 : f[n - d] \notin Results}
<1>0. n \in Nat \ {0} /\ marks.open \in Texts \ {<<>>} /\ marks.close \in Texts \ {<<>>}
      /\ Len(t) \in Nat /\ n = Len(t) + 1
  BY LenProperties DEF Texts, Marks
<1>1. ASSUME NEW k \in 1 .. n, \A h \in k + 1 .. n : f[h] \in Results
      PROVE  f[k] \in Results
  <2> DEFINE i == NextTag(t, marks.open, k)
             body == i + Len(marks.open)
             j == NextTag(t, marks.close, body)
             e == j + Len(marks.close)
             after == f[e]
  <2>1. f[k] = ShownFrom(marks, t, f, k)
    BY ShownStep
  <2>2. i \in Nat /\ (i > 0 => i \in k .. Len(t) /\ body \in k + 1 .. n)
    BY <1>0, NextTagShape
  <2>3. CASE i = 0
    <3>1. From(t, k) \in Texts
      BY <1>0, Rest
    <3>2. f[k] = [visible |-> From(t, k), bodies |-> <<>>]
      BY <2>1, <2>3 DEF ShownFrom
    <3>3. QED  BY <3>1, <3>2 DEF Results
  <2>4. CASE i > 0
    <3>1. SubSeq(t, k, i - 1) \in Texts
      <4>1. k \in Nat \ {0} /\ i - 1 \in 0 .. Len(t) /\ k <= (i - 1) + 1
        BY <1>0, <2>2, <2>4
      <4>2. QED  BY <4>1, Part
    <3>2. body \in 1 .. n
      BY <1>0, <2>2, <2>4
    <3>3. j \in Nat /\ (j > 0 => j \in body .. Len(t) /\ e \in body + 1 .. n)
      BY <1>0, <3>2, NextTagShape
    <3>4. CASE j = 0
      <4>1. From(t, body) \in Texts /\ <<>> \in Seq(Texts)
        BY <1>0, <3>2, Rest
      <4>2. <<From(t, body)>> \in Seq(Texts)
        BY <4>1
      <4>3. f[k] = [visible |-> SubSeq(t, k, i - 1), bodies |-> <<From(t, body)>>]
        BY <2>1, <2>4, <3>4 DEF ShownFrom
      <4> HIDE DEF i, body
      <4>4. QED  BY <3>1, <4>2, <4>3 DEF Results
    <3>5. CASE j > 0
      <4>1. after \in Results
        <5>1. e \in k + 1 .. n
          BY <1>0, <2>2, <2>4, <3>3, <3>5
        <5>2. QED  BY <1>1, <5>1
      <4>2. SubSeq(t, body, j - 1) \in Texts
        <5>1. body \in Nat \ {0} /\ j - 1 \in 0 .. Len(t) /\ body <= (j - 1) + 1
          BY <1>0, <3>2, <3>3, <3>5
        <5>2. QED  BY <5>1, Part
      <4>3. f[k] = [visible |-> SubSeq(t, k, i - 1) \o after.visible,
                    bodies |-> <<SubSeq(t, body, j - 1)>> \o after.bodies]
        <5>1. i # 0 /\ ~(i > 0 /\ j = 0)
          BY <2>4, <3>5
        <5>2. QED  BY <2>1, <5>1 DEF ShownFrom
      <4>4. after.visible \in Texts /\ after.bodies \in Seq(Texts)
        <5> HIDE DEF after
        <5>1. QED  BY <4>1 DEF Results
      <4> HIDE DEF i, body, j, after
      <4>5. SubSeq(t, k, i - 1) \o after.visible \in Texts
        BY <3>1, <4>4, ConcatTexts
      <4>6. <<SubSeq(t, body, j - 1)>> \o after.bodies \in Seq(Texts)
        BY <4>2, <4>4, OneBody
      <4>7. QED  BY <4>3, <4>5, <4>6 DEF Results
    <3>6. QED  BY <3>3, <3>4, <3>5
  <2>5. QED  BY <2>2, <2>3, <2>4
<1>2. Bad = {}
  <2> SUFFICES ASSUME Bad # {} PROVE FALSE
    OBVIOUS
  <2>1. PICK d \in Bad : \A c \in Bad : d <= c
    <3>1. Bad \subseteq Nat
      BY <1>0
    <3> HIDE DEF Bad
    <3>2. QED  BY <3>1, LeastNatural
  <2>2. n - d \in 1 .. n /\ d \in 0 .. n - 1
    BY <1>0
  <2>3. ASSUME NEW h \in n - d + 1 .. n PROVE f[h] \in Results
    <3>1. n - h \in 0 .. n - 1 /\ n - h < d /\ n - (n - h) = h
      BY <1>0, <2>2, <2>3
    <3>2. n - h \notin Bad
      BY <2>1, <2>2, <3>1
    <3>3. QED  BY <3>1, <3>2
  <2> HIDE DEF n, f
  <2>4. f[n - d] \in Results
    BY <1>1, <2>2, <2>3
  <2>5. QED  BY <2>4
<1>3. ASSUME NEW k \in 1 .. n PROVE f[k] \in Results
  <2>1. n - k \in 0 .. n - 1 /\ n - (n - k) = k
    BY <1>0
  <2>2. QED  BY <1>2, <2>1
<1>4. QED  BY <1>3

LEMMA ConcatMore ==
  ASSUME NEW a \in Texts, NEW b \in Texts, NEW c \in Texts
  PROVE  (a \o b) \o c = a \o (b \o c)
BY ConcatAssociative DEF Texts

\* Symbols in front of the next open tag are shown.
LEMMA ShownSkips ==
  ASSUME NEW marks \in Marks, NEW t \in Texts, NEW k \in 1 .. Len(t) + 1,
         NEW d \in k .. Len(t) + 1, \A i : Begins(t, marks.open, i) => i < k \/ d <= i
  PROVE  /\ Shown(marks, t)[k].visible = SubSeq(t, k, d - 1) \o Shown(marks, t)[d].visible
         /\ Shown(marks, t)[k].bodies = Shown(marks, t)[d].bodies
<1> DEFINE f == Shown(marks, t)
           i == NextTag(t, marks.open, k)
           h == NextTag(t, marks.open, d)
           part == SubSeq(t, k, d - 1)
<1>0. /\ Len(t) \in Nat /\ k \in Nat \ {0} /\ d \in Nat \ {0} /\ d \in 1 .. Len(t) + 1
      /\ d - 1 \in 0 .. Len(t) /\ k <= (d - 1) + 1 /\ k <= d
      /\ marks.open \in Texts \ {<<>>} /\ marks.close \in Texts \ {<<>>}
  BY LenProperties DEF Texts, Marks
<1>1. h \in Nat /\ (h > 0 => h \in d .. Len(t) /\ Begins(t, marks.open, h))
  BY <1>0, NextTagShape
<1>2. i = h
  <2>1. CASE h = 0
    <3>1. \A j : Begins(t, marks.open, j) => j < d
      BY <1>0, <2>1, NextTagFirst
    <3>2. \A j : Begins(t, marks.open, j) => j \in Nat
      BY DEF Begins
    <3>3. \A j : Begins(t, marks.open, j) => j < k
      BY <1>0, <3>1, <3>2
    <3>4. i = 0
      BY <1>0, <3>3, NextTagIs
    <3>5. QED  BY <2>1, <3>4
  <2>2. CASE h > 0
    <3>1. \A j : Begins(t, marks.open, j) /\ d <= j => h <= j
      BY <1>0, <2>2, NextTagFirst
    <3>2. \A j : Begins(t, marks.open, j) => j \in Nat
      BY DEF Begins
    <3>3. \A j : Begins(t, marks.open, j) /\ k <= j => h <= j
      BY <1>0, <3>1, <3>2
    <3>4. h \in Nat /\ Begins(t, marks.open, h) /\ k <= h
      BY <1>0, <1>1, <2>2
    <3> HIDE DEF h, i
    <3>5. NextTag(t, marks.open, k) = h
      BY <1>0, <3>3, <3>4, NextTagIs
    <3>6. QED  BY <3>5 DEF i
  <2>3. QED  BY <1>1, <2>1, <2>2
<1>3. f[k] = ShownFrom(marks, t, f, k) /\ f[d] = ShownFrom(marks, t, f, d)
  BY <1>0, ShownStep
<1>4. part \in Texts
  BY <1>0, Part
<1>5. CASE h = 0
  <2>1. f[k] = [visible |-> From(t, k), bodies |-> <<>>]
        /\ f[d] = [visible |-> From(t, d), bodies |-> <<>>]
    BY <1>2, <1>3, <1>5 DEF ShownFrom
  <2>2. Len(t) \in 0 .. Len(t) /\ d <= Len(t) + 1
    BY <1>0
  <2>3. From(t, k) = part \o From(t, d)
    BY <1>0, <2>2, Joined DEF From
  <2>4. QED  BY <2>1, <2>3
<1>6. CASE h > 0
  <2> DEFINE body == h + Len(marks.open)
             j == NextTag(t, marks.close, body)
             after == f[j + Len(marks.close)]
             own == SubSeq(t, d, h - 1)
             all == SubSeq(t, k, h - 1)
  <2>1. h - 1 \in 0 .. Len(t) /\ d <= (h - 1) + 1 /\ k <= (h - 1) + 1 /\ h # 0
    BY <1>0, <1>1, <1>6
  <2>2. part \o own = all
    BY <1>0, <2>1, Joined
  <2>3. own \in Texts
    BY <1>0, <2>1, Part
  <2>4. CASE j = 0
    <3>1. f[k] = [visible |-> all, bodies |-> <<From(t, body)>>]
          /\ f[d] = [visible |-> own, bodies |-> <<From(t, body)>>]
      BY <1>2, <1>3, <1>6, <2>1, <2>4 DEF ShownFrom
    <3> HIDE DEF f, all, own, part
    <3>2. QED  BY <2>2, <3>1 DEF f, part
  <2>5. CASE j # 0
    <3> DEFINE bodies == <<SubSeq(t, body, j - 1)>> \o after.bodies
    <3>1. f[k] = [visible |-> all \o after.visible, bodies |-> bodies]
          /\ f[d] = [visible |-> own \o after.visible, bodies |-> bodies]
      BY <1>2, <1>3, <1>6, <2>1, <2>5 DEF ShownFrom
    <3>2. after.visible \in Texts
      <4>1. body \in 1 .. Len(t) + 1
        BY <1>0, <1>6, NextTagShape, SMTT(30)
      <4>2. j \in Nat /\ (j > 0 => j + Len(marks.close) \in body + 1 .. Len(t) + 1)
        BY <1>0, <4>1, NextTagShape
      <4>3. j + Len(marks.close) \in 1 .. Len(t) + 1
        <5> HIDE DEF j, body
        <5>1. j + Len(marks.close) \in body + 1 .. Len(t) + 1
          BY <2>5, <4>2
        <5>2. QED  BY <1>0, <4>1, <5>1
      <4>4. after \in Results
        BY <4>3, ShownTyped
      <4> HIDE DEF after
      <4>5. QED  BY <4>4 DEF Results
    <3> HIDE DEF f, all, own, part, after, bodies
    <3>3. (part \o own) \o after.visible = part \o (own \o after.visible)
      BY <1>4, <2>3, <3>2, ConcatMore
    <3>4. /\ f[k].visible = all \o after.visible /\ f[d].visible = own \o after.visible
          /\ f[k].bodies = f[d].bodies
      BY <3>1, SMTT(30)
    <3>5. f[k].visible = part \o f[d].visible
      BY <2>2, <3>3, <3>4
    <3>6. QED  BY <3>4, <3>5 DEF f, part
  <2>6. QED  BY <2>4, <2>5
<1>7. h = 0 \/ h > 0
  BY <1>1
<1>8. QED  BY <1>5, <1>6, <1>7, Zenon

\* The next open tag opens a citation.
LEMMA ShownOpens ==
  ASSUME NEW marks \in Marks, NEW t \in Texts, NEW k \in 1 .. Len(t) + 1,
         NextTag(t, marks.open, k) > 0
  PROVE  LET i == NextTag(t, marks.open, k)
             c == Closing(marks, t, <<>>, i + Len(marks.open)) IN
         /\ Shown(marks, t)[k].visible = SubSeq(t, k, i - 1) \o c.visible
         /\ Shown(marks, t)[k].bodies = c.bodies
<1> DEFINE f == Shown(marks, t)
           i == NextTag(t, marks.open, k)
           body == i + Len(marks.open)
           j == NextTag(t, marks.close, body)
           after == f[j + Len(marks.close)]
           part == SubSeq(t, k, i - 1)
           c == Closing(marks, t, <<>>, body)
<1>0. /\ Len(t) \in Nat /\ k \in Nat \ {0}
      /\ marks.open \in Texts \ {<<>>} /\ marks.close \in Texts \ {<<>>}
  BY LenProperties DEF Texts, Marks
<1>1. i \in k .. Len(t) /\ body \in k + 1 .. Len(t) + 1 /\ i # 0
  BY <1>0, NextTagShape
<1>2. body \in 1 .. Len(t) + 1 /\ i - 1 \in 0 .. Len(t) /\ k <= (i - 1) + 1
  BY <1>0, <1>1
<1>3. part \in Texts
  BY <1>0, <1>2, Part
<1>4. f[k] = ShownFrom(marks, t, f, k)
  BY ShownStep
<1>5. j \in Nat /\ (j > 0 => j \in body .. Len(t))
  BY <1>0, <1>2, NextTagShape
<1>6. CASE j = 0
  <2>1. f[k] = [visible |-> part, bodies |-> <<From(t, body)>>]
    BY <1>1, <1>4, <1>6 DEF ShownFrom
  <2>2. c = [visible |-> <<>>, bodies |-> <<<<>> \o From(t, body)>>]
    BY <1>6 DEF Closing
  <2>3. From(t, body) \in Texts
    BY <1>2, Rest
  <2>4. <<>> \o From(t, body) = From(t, body) /\ part \o <<>> = part
    BY <1>3, <2>3, ConcatTexts
  <2> HIDE DEF f, part, c, body, i
  <2>5. f[k].visible = part /\ c.visible = <<>>
    BY <2>1, <2>2
  <2>6. f[k].bodies = c.bodies
    BY <2>1, <2>2, <2>4
  <2>7. f[k].visible = part \o c.visible
    BY <2>4, <2>5
  <2>8. QED  BY <2>6, <2>7 DEF f, part, c, body, i
<1>7. CASE j # 0
  <2> DEFINE b == SubSeq(t, body, j - 1)
  <2>1. f[k] = [visible |-> part \o after.visible, bodies |-> <<b>> \o after.bodies]
    BY <1>1, <1>4, <1>7 DEF ShownFrom
  <2>2. c = [visible |-> after.visible, bodies |-> <<<<>> \o b>> \o after.bodies]
    BY <1>7 DEF Closing
  <2>3. b \in Texts
    <3>1. body \in Nat \ {0} /\ j - 1 \in 0 .. Len(t) /\ body <= (j - 1) + 1
      BY <1>0, <1>2, <1>5, <1>7
    <3>2. QED  BY <3>1, Part
  <2> HIDE DEF f, part, c, body, i, after, b
  <2>4. <<>> \o b = b
    BY <2>3, ConcatTexts
  <2>5. f[k].visible = part \o c.visible /\ f[k].bodies = c.bodies
    BY <2>1, <2>2, <2>4
  <2>6. QED  BY <2>5 DEF f, part, c, body, i
<1>8. QED  BY <1>6, <1>7

\* Symbols in front of the next close tag belong to the citation.
LEMMA ClosingSkips ==
  ASSUME NEW marks \in Marks, NEW t \in Texts, NEW k \in 1 .. Len(t) + 1,
         NEW d \in k .. Len(t) + 1, NEW body \in Texts,
         \A i : Begins(t, marks.close, i) => i < k \/ d <= i
  PROVE  Closing(marks, t, body, k) = Closing(marks, t, body \o SubSeq(t, k, d - 1), d)
<1> DEFINE f == Shown(marks, t)
           i == NextTag(t, marks.close, k)
           h == NextTag(t, marks.close, d)
           part == SubSeq(t, k, d - 1)
<1>0. /\ Len(t) \in Nat /\ k \in Nat \ {0} /\ d \in Nat \ {0} /\ d \in 1 .. Len(t) + 1
      /\ d - 1 \in 0 .. Len(t) /\ k <= (d - 1) + 1 /\ k <= d
      /\ marks.close \in Texts \ {<<>>}
  BY LenProperties DEF Texts, Marks
<1>1. h \in Nat /\ (h > 0 => h \in d .. Len(t) /\ Begins(t, marks.close, h))
  BY <1>0, NextTagShape
<1>2. i = h
  <2>1. CASE h = 0
    <3>1. \A j : Begins(t, marks.close, j) => j < d
      BY <1>0, <2>1, NextTagFirst
    <3>2. \A j : Begins(t, marks.close, j) => j \in Nat
      BY DEF Begins
    <3>3. \A j : Begins(t, marks.close, j) => j < k
      BY <1>0, <3>1, <3>2
    <3>4. i = 0
      BY <1>0, <3>3, NextTagIs
    <3>5. QED  BY <2>1, <3>4
  <2>2. CASE h > 0
    <3>1. \A j : Begins(t, marks.close, j) /\ d <= j => h <= j
      BY <1>0, <2>2, NextTagFirst
    <3>2. \A j : Begins(t, marks.close, j) => j \in Nat
      BY DEF Begins
    <3>3. \A j : Begins(t, marks.close, j) /\ k <= j => h <= j
      BY <1>0, <3>1, <3>2
    <3>4. h \in Nat /\ Begins(t, marks.close, h) /\ k <= h
      BY <1>0, <1>1, <2>2
    <3> HIDE DEF h, i
    <3>5. NextTag(t, marks.close, k) = h
      BY <1>0, <3>3, <3>4, NextTagIs
    <3>6. QED  BY <3>5 DEF i
  <2>3. QED  BY <1>1, <2>1, <2>2
<1>3. part \in Texts
  BY <1>0, Part
<1>4. CASE h = 0
  <2>1. Closing(marks, t, body, k) = [visible |-> <<>>, bodies |-> <<body \o From(t, k)>>]
        /\ Closing(marks, t, body \o part, d)
              = [visible |-> <<>>, bodies |-> <<(body \o part) \o From(t, d)>>]
    BY <1>2, <1>4 DEF Closing
  <2>2. Len(t) \in 0 .. Len(t) /\ d <= Len(t) + 1
    BY <1>0
  <2>3. part \o From(t, d) = From(t, k) /\ From(t, d) \in Texts
    BY <1>0, <2>2, Joined, Rest DEF From
  <2> HIDE DEF part
  <2>4. (body \o part) \o From(t, d) = body \o (part \o From(t, d))
    BY <1>3, <2>3, ConcatMore
  <2>5. (body \o part) \o From(t, d) = body \o From(t, k)
    BY <2>3, <2>4
  <2>6. QED  BY <2>1, <2>5 DEF part
<1>5. CASE h > 0
  <2> DEFINE after == f[h + Len(marks.close)]
             own == SubSeq(t, d, h - 1)
             all == SubSeq(t, k, h - 1)
  <2>1. h - 1 \in 0 .. Len(t) /\ d <= (h - 1) + 1 /\ k <= (h - 1) + 1 /\ h # 0
    BY <1>0, <1>1, <1>5
  <2>2. part \o own = all
    BY <1>0, <2>1, Joined
  <2>3. own \in Texts
    BY <1>0, <2>1, Part
  <2>4. Closing(marks, t, body, k)
          = [visible |-> after.visible, bodies |-> <<body \o all>> \o after.bodies]
        /\ Closing(marks, t, body \o part, d)
              = [visible |-> after.visible, bodies |-> <<(body \o part) \o own>> \o after.bodies]
    BY <1>2, <2>1 DEF Closing
  <2> HIDE DEF part, own, all, after
  <2>5. (body \o part) \o own = body \o all
    BY <1>3, <2>2, <2>3, ConcatMore
  <2>6. QED  BY <2>4, <2>5 DEF part
<1>6. QED  BY <1>1, <1>4, <1>5

-----------------------------------------------------------------------------
(***************************************************************************)
(* The parser.                                                             *)
(***************************************************************************)
\* longestSuffixPrefix holds back less than a tag, and every beginning of one.
LEMMA KeepHolds ==
  ASSUME NEW s \in Texts, NEW tag \in Texts \ {<<>>}
  PROVE  /\ Keep(s, tag) \in 0 .. Len(s) /\ Keep(s, tag) < Len(tag)
         /\ \A k \in Keep(s, tag) + 1 .. Len(s) : k < Len(tag) =>
              ~ \A m \in 1 .. k : s[Len(s) - k + m] = tag[m]
<1> DEFINE n == Len(s)
           fits(k) == k < Len(tag) /\ IsPrefix(From(s, n - k + 1), tag)
           best(x) == fits(x) /\ \A k \in x + 1 .. n : ~fits(k)
           kept == CHOOSE x \in 0 .. n : best(x)
           Good == {k \in 0 .. n : fits(k)}
           Gap == {g \in 0 .. n : fits(n - g)}
<1>0. n \in Nat /\ Len(tag) \in Nat \ {0}
  BY LenProperties, EmptySeq DEF Texts
<1>1. ASSUME NEW k \in 0 .. n, k < Len(tag)
      PROVE  fits(k) <=> \A m \in 1 .. k : s[n - k + m] = tag[m]
  <2> DEFINE end == From(s, n - k + 1)
             a == SubSeq(end, 1, Len(end))
             b == SubSeq(tag, 1, Len(end))
  <2>1. /\ end \in Texts /\ Len(end) = k
        /\ \A m \in 1 .. k : end[m] = s[n - k + m]
    <3>1. n - k + 1 \in 1 .. n + 1 /\ n + 1 - (n - k + 1) = k
          /\ \A m \in 1 .. k : (n - k + 1) + m - 1 = n - k + m
      BY <1>0
    <3>2. /\ end \in Texts /\ Len(end) = n + 1 - (n - k + 1)
          /\ \A m \in 1 .. n + 1 - (n - k + 1) : end[m] = s[(n - k + 1) + m - 1]
      BY <3>1, Rest
    <3> HIDE DEF end, n
    <3>3. QED  BY <3>1, <3>2
  <2>2. 1 \in Nat \ {0} /\ k \in 0 .. Len(end) /\ k \in 0 .. Len(tag) /\ 1 <= k + 1
        /\ k + 1 - 1 = k
    BY <1>0, <1>1, <2>1
  <2>3. \A m \in 1 .. k : 1 + m - 1 = m
    OBVIOUS
  <2>4. a \in Texts /\ Len(a) = k /\ \A m \in 1 .. k : a[m] = end[m]
    <3> HIDE DEF end
    <3>1. /\ SubSeq(end, 1, k) \in Texts /\ Len(SubSeq(end, 1, k)) = k + 1 - 1
          /\ \A m \in 1 .. k + 1 - 1 : SubSeq(end, 1, k)[m] = end[1 + m - 1]
      BY <2>1, <2>2, Part
    <3>2. a = SubSeq(end, 1, k)
      BY <2>1
    <3>3. QED  BY <2>2, <2>3, <3>1, <3>2
  <2>5. b \in Texts /\ Len(b) = k /\ \A m \in 1 .. k : b[m] = tag[m]
    <3> HIDE DEF end
    <3>1. /\ SubSeq(tag, 1, k) \in Texts /\ Len(SubSeq(tag, 1, k)) = k + 1 - 1
          /\ \A m \in 1 .. k + 1 - 1 : SubSeq(tag, 1, k)[m] = tag[1 + m - 1]
      BY <2>2, Part
    <3>2. b = SubSeq(tag, 1, k)
      BY <2>1
    <3>3. QED  BY <2>2, <2>3, <3>1, <3>2
  <2>6. fits(k) <=> a = b
    <3>1. Len(end) <= Len(tag)
      BY <1>0, <1>1, <2>1
    <3>2. QED  BY <1>1, <3>1 DEF IsPrefix
  <2> HIDE DEF a, b
  <2>7. a = b <=> \A m \in 1 .. k : a[m] = b[m]
    BY <2>4, <2>5, SameText
  <2> HIDE DEF fits
  <2>8. QED  BY <2>1, <2>4, <2>5, <2>6, <2>7
<1>2. \A k : fits(k) => k < Len(tag)
  OBVIOUS
<1>3. fits(0)
  <2>1. 0 \in 0 .. n /\ 0 < Len(tag) /\ 1 .. 0 = {}
    BY <1>0
  <2> HIDE DEF fits
  <2>2. QED  BY <1>1, <2>1
<1> HIDE DEF fits
<1>4. \E x \in 0 .. n : best(x)
  <2>1. n \in Gap /\ Gap \subseteq Nat
    <3>1. n - n = 0
      BY <1>0
    <3>2. QED  BY <1>0, <1>3, <3>1
  <2>2. PICK g \in Gap : \A h \in Gap : g <= h
    <3> HIDE DEF Gap
    <3>1. QED  BY <2>1, LeastNatural
  <2>3. n - g \in 0 .. n /\ fits(n - g) /\ g \in 0 .. n
    BY <1>0, <2>2
  <2>4. ASSUME NEW k \in n - g + 1 .. n, fits(k) PROVE FALSE
    <3>1. n - k \in 0 .. n /\ n - (n - k) = k /\ ~(g <= n - k)
      BY <1>0, <2>3, <2>4
    <3>2. n - k \in Gap
      BY <2>4, <3>1
    <3>3. QED  BY <2>2, <3>1, <3>2
  <2>5. QED  BY <2>3, <2>4
<1>5. kept \in 0 .. n /\ best(kept)
  <2> HIDE DEF best
  <2>1. QED  BY <1>4
<1>6. Keep(s, tag) = kept
  BY DEF Keep, fits
<1> HIDE DEF kept
<1>7. \A k \in kept + 1 .. n : k < Len(tag) => ~ \A m \in 1 .. k : s[n - k + m] = tag[m]
  <2>1. \A k \in kept + 1 .. n : k \in 0 .. n /\ ~fits(k)
    BY <1>0, <1>5
  <2>2. QED  BY <1>1, <2>1
<1>8. kept < Len(tag)
  BY <1>2, <1>5
<1>9. QED  BY <1>5, <1>6, <1>7, <1>8

LEMMA ClosingTyped ==
  ASSUME NEW marks \in Marks, NEW t \in Texts, NEW body \in Texts, NEW k \in 1 .. Len(t) + 1
  PROVE  Closing(marks, t, body, k) \in Results
<1> DEFINE j == NextTag(t, marks.close, k)
           e == j + Len(marks.close)
           after == Shown(marks, t)[e]
<1>0. Len(t) \in Nat /\ k \in Nat \ {0} /\ marks.close \in Texts \ {<<>>}
  BY LenProperties DEF Texts, Marks
<1>1. j \in Nat /\ (j > 0 => j \in k .. Len(t) /\ e \in k + 1 .. Len(t) + 1)
  BY <1>0, NextTagShape
<1>2. CASE j = 0
  <2>1. From(t, k) \in Texts
    BY Rest
  <2>2. body \o From(t, k) \in Texts /\ <<>> \in Texts
    BY <2>1, ConcatTexts DEF Texts
  <2>3. <<body \o From(t, k)>> \in Seq(Texts)
    BY <2>2
  <2>4. Closing(marks, t, body, k) = [visible |-> <<>>, bodies |-> <<body \o From(t, k)>>]
    BY <1>2 DEF Closing
  <2>5. QED  BY <2>2, <2>3, <2>4 DEF Results
<1>3. CASE j > 0
  <2> DEFINE b == body \o SubSeq(t, k, j - 1)
             bodies == <<b>> \o after.bodies
  <2>1. k \in Nat \ {0} /\ j - 1 \in 0 .. Len(t) /\ k <= (j - 1) + 1 /\ j # 0
        /\ e \in 1 .. Len(t) + 1
    BY <1>0, <1>1, <1>3
  <2>2. SubSeq(t, k, j - 1) \in Texts
    BY <2>1, Part
  <2>3. b \in Texts
    BY <2>2, ConcatTexts
  <2>4. after \in Results
    BY <2>1, ShownTyped
  <2> HIDE DEF b, after
  <2>5. bodies \in Seq(Texts) /\ after.visible \in Texts
    BY <2>3, <2>4, OneBody DEF Results
  <2>6. Closing(marks, t, body, k) = [visible |-> after.visible, bodies |-> bodies]
    BY <2>1 DEF Closing, b, after
  <2> HIDE DEF bodies
  <2>7. QED  BY <2>5, <2>6 DEF Results
<1>4. QED  BY <1>1, <1>2, <1>3

\* u goes on where r ends; s is the end of r.
Extends(u, r) == u \in Texts /\ Len(r) <= Len(u) /\ \A i \in 1 .. Len(r) : u[i] = r[i]

Ends(s, r) == Len(s) <= Len(r) /\ \A i \in 1 .. Len(s) : s[i] = r[Len(r) - Len(s) + i]

\* A tag found in what is pending is the next one, whatever follows.
LEMMA FoundAhead ==
  ASSUME NEW r \in Texts, NEW s \in Texts, Ends(s, r), NEW tag \in Texts \ {<<>>},
         IndexOf(s, tag) > 0, NEW u, Extends(u, r)
  PROVE  LET at == IndexOf(s, tag)
             d == Len(r) - Len(s) IN
         /\ at \in 1 .. Len(s) /\ at - 1 + Len(tag) <= Len(s)
         /\ NextTag(u, tag, d + 1) = d + at
<1> DEFINE at == IndexOf(s, tag)
           n == Len(s)
           l == Len(r)
           g == Len(tag)
           d == l - n
<1>0. n \in Nat /\ l \in Nat /\ g \in Nat \ {0} /\ n <= l /\ d \in Nat /\ d + 1 \in Nat \ {0}
  BY LenProperties, EmptySeq DEF Texts, Ends
<1>1. /\ Begins(s, tag, at) /\ \A i : Begins(s, tag, i) => at <= i
      /\ at \in Nat
  BY IndexOfFirst
<1>2. u \in Texts /\ Len(u) \in Nat /\ l <= Len(u) /\ \A i \in 1 .. l : u[i] = r[i]
  BY LenProperties DEF Extends, Texts
<1>3. \A i \in 1 .. n : u[d + i] = s[i]
  <2>1. \A i \in 1 .. n : d + i \in 1 .. l /\ s[i] = r[d + i]
    BY <1>0 DEF Ends
  <2>2. QED  BY <1>2, <2>1
<1> HIDE DEF at
<1>4. at \in 1 .. n /\ at - 1 + g <= n
  BY <1>0, <1>1 DEF Begins
<1>5. Begins(u, tag, d + at)
  <2>1. ASSUME NEW m \in 1 .. g PROVE u[(d + at) + m - 1] = tag[m]
    <3>1. at + m - 1 \in 1 .. n /\ (d + at) + m - 1 = d + (at + m - 1)
      BY <1>0, <1>4
    <3>2. s[at + m - 1] = tag[m]
      BY <1>1 DEF Begins
    <3>3. QED  BY <1>3, <3>1, <3>2
  <2>2. d + at \in Nat \ {0} /\ (d + at) + g - 1 <= Len(u)
    BY <1>0, <1>2, <1>4
  <2>3. QED  BY <2>1, <2>2 DEF Begins
<1>6. ASSUME NEW i, Begins(u, tag, i), d + 1 <= i PROVE d + at <= i
  <2>1. i \in Nat
    BY <1>6 DEF Begins
  <2>2. CASE i < d + at
    <3> DEFINE h == i - d
    <3>1. h \in Nat \ {0} /\ h + g - 1 <= n
      BY <1>0, <1>4, <1>6, <2>1, <2>2
    <3>2. ASSUME NEW m \in 1 .. g PROVE s[h + m - 1] = tag[m]
      <4>1. h + m - 1 \in 1 .. n /\ d + (h + m - 1) = i + m - 1
        BY <1>0, <2>1, <3>1
      <4>2. u[i + m - 1] = tag[m]
        BY <1>6 DEF Begins
      <4>3. QED  BY <1>3, <4>1, <4>2
    <3>3. Begins(s, tag, h)
      BY <3>1, <3>2 DEF Begins
    <3>4. at <= h
      BY <1>1, <3>3
    <3>5. QED  BY <1>0, <1>4, <2>1, <3>4
  <2>3. QED  BY <1>0, <1>4, <2>1, <2>2
<1>7. d + at \in Nat /\ d + 1 <= d + at
  BY <1>0, <1>4
<1> HIDE DEF d
<1>8. NextTag(u, tag, d + 1) = d + at
  BY <1>0, <1>2, <1>5, <1>6, <1>7, NextTagIs
<1>9. QED  BY <1>4, <1>8 DEF d, at

\* With no tag in what is pending, none begins in front of what is held back.
LEMMA NoneAhead ==
  ASSUME NEW r \in Texts, NEW s \in Texts, Ends(s, r), NEW tag \in Texts \ {<<>>},
         IndexOf(s, tag) = 0, NEW u, Extends(u, r), NEW i, Begins(u, tag, i)
  PROVE  i < Len(r) - Len(s) + 1 \/ Len(r) - Len(s) + 1 + (Len(s) - Keep(s, tag)) <= i
<1> DEFINE n == Len(s)
           l == Len(r)
           g == Len(tag)
           d == l - n
           kept == Keep(s, tag)
           h == i - d
<1>0. n \in Nat /\ l \in Nat /\ g \in Nat \ {0} /\ n <= l /\ d \in Nat
  BY LenProperties, EmptySeq DEF Texts, Ends
<1>1. /\ kept \in 0 .. n
      /\ \A k \in kept + 1 .. n : k < g => ~ \A m \in 1 .. k : s[n - k + m] = tag[m]
  BY KeepHolds
<1>2. u \in Texts /\ Len(u) \in Nat /\ l <= Len(u) /\ \A x \in 1 .. l : u[x] = r[x]
  BY LenProperties DEF Extends, Texts
<1>3. \A x \in 1 .. n : u[d + x] = s[x]
  <2>1. \A x \in 1 .. n : d + x \in 1 .. l /\ s[x] = r[d + x]
    BY <1>0 DEF Ends
  <2>2. QED  BY <1>2, <2>1
<1>4. i \in Nat \ {0} /\ \A m \in 1 .. g : u[i + m - 1] = tag[m]
  BY DEF Begins
<1> HIDE DEF kept
<1>5. SUFFICES ASSUME d + 1 <= i, i < d + 1 + (n - kept) PROVE FALSE
  BY <1>0, <1>1, <1>4 DEF kept
<1>6. h \in 1 .. n - kept
  BY <1>0, <1>1, <1>4, <1>5
<1>7. CASE h + g - 1 <= n
  <2>1. ASSUME NEW m \in 1 .. g PROVE s[h + m - 1] = tag[m]
    <3>1. h + m - 1 \in 1 .. n /\ d + (h + m - 1) = i + m - 1
      BY <1>0, <1>1, <1>4, <1>6, <1>7
    <3>2. QED  BY <1>3, <1>4, <3>1
  <2>2. h \in Nat \ {0}
    BY <1>0, <1>1, <1>6
  <2>3. Begins(s, tag, h)
    BY <1>7, <2>1, <2>2 DEF Begins
  <2>4. QED  BY <2>3, IndexOfFirst
<1>8. CASE ~(h + g - 1 <= n)
  <2> DEFINE k == n - h + 1
  <2>1. k \in kept + 1 .. n /\ k < g
    BY <1>0, <1>1, <1>6, <1>8
  <2>2. ASSUME NEW m \in 1 .. k PROVE s[n - k + m] = tag[m]
    <3>1. n - k + m \in 1 .. n /\ d + (n - k + m) = i + m - 1 /\ m \in 1 .. g
      BY <1>0, <1>1, <1>4, <1>6, <2>1
    <3>2. QED  BY <1>3, <1>4, <3>1
  <2> HIDE DEF k, n
  <2>3. QED  BY <1>1, <2>1, <2>2
<1>9. QED  BY <1>7, <1>8

PStates ==
  [pending : Texts, body : Texts, visible : Texts, citations : Seq(Texts),
   inCitation : BOOLEAN]

\* What the reference shows and cites of t from its k-th symbol on, where the
\* parser has read it up to there.
After(p, t, k) == IF p.inCitation THEN Closing(tags, t, p.body, k) ELSE Shown(tags, t)[k]

\* Of a text r the parser has all but the end it still holds: what it has shown
\* and cited goes on, however r does, to what the reference shows and cites.
Reads(p, r, shown, cited) ==
  /\ Ends(p.pending, r)
  /\ ~p.inCitation => p.body = <<>>
  /\ \A u : Extends(u, r) =>
       LET rest == After(p, u, Len(r) - Len(p.pending) + 1) IN
       /\ Shown(tags, u)[1].visible = shown \o rest.visible
       /\ Shown(tags, u)[1].bodies = cited \o rest.bodies

LEMMA ConcatLists ==
  ASSUME NEW s \in Seq(Texts), NEW t \in Seq(Texts)
  PROVE  /\ s \o t \in Seq(Texts) /\ Len(s \o t) = Len(s) + Len(t)
         /\ Len(s) \in Nat /\ Len(t) \in Nat
         /\ \A i \in 1 .. Len(s) + Len(t) :
              (s \o t)[i] = IF i <= Len(s) THEN s[i] ELSE t[i - Len(s)]
         /\ s \o <<>> = s /\ <<>> \o s = s
BY ConcatProperties, LenProperties, ConcatEmptySeq

\* Concatenation by a name, for equations the provers should not take apart.
Cat(a, b) == a \o b

\* Four texts in a row, and four lists of bodies.
LEMMA Regroup ==
  ASSUME NEW S, NEW a \in Seq(S), NEW b \in Seq(S), NEW c \in Seq(S), NEW d \in Seq(S)
  PROVE  Cat(Cat(a, b), Cat(c, d)) = Cat(Cat(a, Cat(b, c)), d)
<1>1. \A x, y \in Seq(S) : Cat(x, y) \in Seq(S)
  BY ConcatProperties DEF Cat
<1>2. ASSUME NEW x \in Seq(S), NEW y \in Seq(S), NEW z \in Seq(S)
      PROVE  Cat(Cat(x, y), z) = Cat(x, Cat(y, z))
  <2>1. (x \o y) \o z = x \o (y \o z)
    BY ConcatAssociative, SMTT(60)
  <2>2. QED  BY <2>1 DEF Cat
<1>3. Cat(a, b) \in Seq(S) /\ Cat(b, c) \in Seq(S)
  BY <1>1
<1>4. Cat(Cat(a, b), Cat(c, d)) = Cat(Cat(Cat(a, b), c), d)
  BY <1>2, <1>3
<1>5. Cat(Cat(a, b), c) = Cat(a, Cat(b, c))
  BY <1>2
<1>6. QED  BY <1>4, <1>5

\* One body more.
LEMMA AppendList ==
  ASSUME NEW s \in Seq(Texts), NEW c \in Seq(Texts), NEW b \in Texts, NEW t \in Seq(Texts)
  PROVE  /\ Append(c, b) \in Seq(Texts)
         /\ Cat(Cat(s, Append(c, b)), t) = Cat(Cat(s, c), Cat(<<b>>, t))
<1>1. <<b>> \in Seq(Texts) /\ <<b>> \o t \in Seq(Texts)
  BY OneBody
<1>2. Append(c, b) \in Seq(Texts) /\ Append(c, b) = Cat(c, <<b>>)
  BY AppendIsConcat DEF Cat
<1>3. Cat(Cat(s, c), Cat(<<b>>, t)) = Cat(Cat(s, Cat(c, <<b>>)), t)
  <2> DEFINE x == <<b>>
  <2>1. x \in Seq(Texts)
    BY <1>1
  <2> HIDE DEF x
  <2>2. Cat(Cat(s, c), Cat(x, t)) = Cat(Cat(s, Cat(c, x)), t)
    BY <2>1, Regroup
  <2>3. QED  BY <2>2 DEF x
<1>4. QED  BY <1>2, <1>3

\* The first m symbols of what is pending are those of the text, and the rest
\* of it is still its end.
LEMMA PartAhead ==
  ASSUME NEW r \in Texts, NEW s \in Texts, Ends(s, r), NEW m \in 0 .. Len(s)
  PROVE  LET d == Len(r) - Len(s) IN
         /\ d \in Nat /\ Len(r) \in Nat /\ Len(s) \in Nat
         /\ SubSeq(s, 1, m) \in Texts /\ Len(SubSeq(s, 1, m)) = m
         /\ From(s, m + 1) \in Texts /\ Len(From(s, m + 1)) = Len(s) - m
         /\ Ends(From(s, m + 1), r)
         /\ \A u : Extends(u, r) => SubSeq(u, d + 1, d + m) = SubSeq(s, 1, m)
<1> DEFINE n == Len(s)
           l == Len(r)
           d == l - n
           part == SubSeq(s, 1, m)
           rest == From(s, m + 1)
<1>0. n \in Nat /\ l \in Nat /\ n <= l /\ d \in Nat
  BY LenProperties DEF Texts, Ends
<1>1. \A i \in 1 .. n : d + i \in 1 .. l /\ s[i] = r[d + i]
  BY <1>0 DEF Ends
<1>2. part \in Texts /\ Len(part) = m /\ \A k \in 1 .. m : part[k] = s[k]
  <2>1. 1 \in Nat \ {0} /\ m \in 0 .. Len(s) /\ 1 <= m + 1 /\ m + 1 - 1 = m
        /\ \A k \in 1 .. m : 1 + k - 1 = k
    BY <1>0
  <2>2. /\ part \in Texts /\ Len(part) = m + 1 - 1
        /\ \A k \in 1 .. m + 1 - 1 : part[k] = s[1 + k - 1]
    BY <2>1, Part
  <2> HIDE DEF part
  <2>3. QED  BY <2>1, <2>2
<1>3. rest \in Texts /\ Len(rest) = n - m /\ \A k \in 1 .. n - m : rest[k] = s[m + k]
  <2>1. m + 1 \in 1 .. n + 1 /\ n + 1 - (m + 1) = n - m
        /\ \A k \in 1 .. n - m : (m + 1) + k - 1 = m + k
    BY <1>0
  <2>2. /\ rest \in Texts /\ Len(rest) = n + 1 - (m + 1)
        /\ \A k \in 1 .. n + 1 - (m + 1) : rest[k] = s[(m + 1) + k - 1]
    BY <2>1, Rest
  <2> HIDE DEF rest, n
  <2>3. QED  BY <2>1, <2>2
<1> HIDE DEF rest, part
<1>4. Ends(rest, r)
  <2>1. ASSUME NEW i \in 1 .. n - m PROVE rest[i] = r[l - (n - m) + i]
    <3>1. m + i \in 1 .. n /\ d + (m + i) = l - (n - m) + i
      BY <1>0
    <3>2. QED  BY <1>1, <1>3, <3>1
  <2>2. n - m <= l
    BY <1>0
  <2>3. QED  BY <1>3, <2>1, <2>2 DEF Ends
<1>5. ASSUME NEW u, Extends(u, r) PROVE SubSeq(u, d + 1, d + m) = part
  <2> DEFINE x == SubSeq(u, d + 1, d + m)
  <2>1. u \in Texts /\ Len(u) \in Nat /\ l <= Len(u) /\ \A i \in 1 .. l : u[i] = r[i]
    BY <1>5, LenProperties DEF Extends, Texts
  <2>2. d + 1 \in Nat \ {0} /\ d + m \in 0 .. Len(u) /\ d + 1 <= (d + m) + 1
        /\ (d + m) + 1 - (d + 1) = m
    BY <1>0, <2>1
  <2>3. /\ x \in Texts /\ Len(x) = (d + m) + 1 - (d + 1)
        /\ \A k \in 1 .. (d + m) + 1 - (d + 1) : x[k] = u[(d + 1) + k - 1]
    BY <2>1, <2>2, Part
  <2> HIDE DEF x
  <2>4. ASSUME NEW k \in 1 .. m PROVE x[k] = part[k]
    <3>1. (d + 1) + k - 1 = d + k /\ k \in 1 .. n /\ d + k \in 1 .. l
      BY <1>0
    <3>2. x[k] = u[d + k] /\ u[d + k] = r[d + k] /\ s[k] = r[d + k]
      BY <1>1, <2>1, <2>2, <2>3, <3>1
    <3>3. QED  BY <1>2, <3>2
  <2>5. x = part
    BY <1>2, <2>2, <2>3, <2>4, SameText
  <2>6. QED  BY <2>5 DEF x
<1>6. QED  BY <1>0, <1>2, <1>3, <1>4, <1>5 DEF part, rest

\* A tag is passed: what is in front of it is taken, the rest is pending.
LEMMA PassShape ==
  ASSUME tags \in Marks, NEW p \in PStates, NEW at \in 1 .. Len(p.pending),
         IndexOf(p.pending, Tag(p)) = at,
         at - 1 + Len(Tag(p)) <= Len(p.pending)
  PROVE  LET s == p.pending
             m == at - 1 + Len(Tag(p))
             part == SubSeq(s, 1, at - 1)
             q == PassTag(p) IN
         /\ q = IF p.inCitation
                THEN [pending |-> From(s, m + 1), body |-> <<>>, visible |-> p.visible,
                      citations |-> Append(p.citations, p.body \o part),
                      inCitation |-> FALSE]
                ELSE [pending |-> From(s, m + 1), body |-> p.body,
                      visible |-> p.visible \o part, citations |-> p.citations,
                      inCitation |-> TRUE]
<1> DEFINE s == p.pending
           g == Len(Tag(p))
           m == at - 1 + g
           part == SubSeq(s, 1, at - 1)
           r1 == From(s, at)
           rest == From(s, m + 1)
<1>0. /\ s \in Texts /\ Len(s) \in Nat /\ g \in Nat \ {0}
      /\ p.body \in Texts /\ p.visible \in Texts /\ p.citations \in Seq(Texts)
      /\ p.inCitation \in BOOLEAN
      /\ at \in 1 .. Len(s) /\ at - 1 + g <= Len(s)
  BY LenProperties, EmptySeq DEF PStates, Marks, Texts, Tag
<1> HIDE DEF s, g
<1>1. From(r1, g + 1) = rest
  <2>1. at \in 1 .. Len(s) + 1 /\ (at - 1) + 1 = at
    BY <1>0
  <2>2. r1 \in Texts /\ Len(r1) = Len(s) + 1 - at
        /\ \A k \in 1 .. Len(s) + 1 - at : r1[k] = s[at + k - 1]
    BY <1>0, <2>1, Rest
  <2>3. m + 1 \in 1 .. Len(s) + 1 /\ g + 1 \in 1 .. (Len(s) + 1 - at) + 1
    BY <1>0
  <2>4. rest \in Texts /\ Len(rest) = Len(s) + 1 - (m + 1)
        /\ \A k \in 1 .. Len(s) + 1 - (m + 1) : rest[k] = s[(m + 1) + k - 1]
    BY <1>0, <2>3, Rest
  <2> DEFINE x == From(r1, g + 1)
  <2> HIDE DEF r1, rest
  <2>10. g + 1 \in 1 .. Len(r1) + 1
    BY <1>0, <2>2, <2>3
  <2>5. x \in Texts /\ Len(x) = Len(r1) + 1 - (g + 1)
        /\ \A k \in 1 .. Len(r1) + 1 - (g + 1) : x[k] = r1[(g + 1) + k - 1]
    BY <2>2, <2>10, Rest
  <2> HIDE DEF x
  <2>6. Len(r1) + 1 - (g + 1) = Len(s) + 1 - (m + 1)
    BY <1>0, <2>2, SMTT(30)
  <2>7. ASSUME NEW k \in 1 .. Len(s) + 1 - (m + 1) PROVE x[k] = rest[k]
    <3>1. (g + 1) + k - 1 \in 1 .. Len(s) + 1 - at
          /\ at + ((g + 1) + k - 1) - 1 = (m + 1) + k - 1
      <4> DEFINE n == Len(s)
                 j == (g + 1) + k - 1
      <4>1. n \in Nat /\ at \in Nat /\ g \in Nat /\ k \in Nat /\ m = at - 1 + g
            /\ 1 <= k /\ k <= n + 1 - (m + 1)
        BY <1>0
      <4> HIDE DEF n, m
      <4>2. j = g + k /\ j \in Nat
        BY <4>1
      <4>3. 1 <= j /\ j <= n + 1 - at /\ at + j - 1 = (m + 1) + k - 1
        BY <4>1, <4>2
      <4> HIDE DEF j
      <4>4. j \in 1 .. n + 1 - at
        BY <4>1, <4>2, <4>3
      <4>5. QED  BY <4>3, <4>4 DEF j, n
    <3>2. x[k] = s[at + ((g + 1) + k - 1) - 1]
      BY <2>2, <2>5, <2>6, <3>1
    <3>3. QED  BY <2>4, <3>1, <3>2
  <2>8. x = rest
    BY <2>4, <2>5, <2>6, <2>7, SameText
  <2>9. QED  BY <2>8 DEF x
<1>2. at # 0 /\ (at - 1) + 1 = at
  OBVIOUS
<1>3. p = [pending |-> s, body |-> p.body, visible |-> p.visible,
           citations |-> p.citations, inCitation |-> p.inCitation]
  BY DEF PStates, s
<1>4. CASE p.inCitation
  <2> DEFINE t == Take(p, at - 1)
  <2>1. t = [pending |-> r1, body |-> p.body \o part, visible |-> p.visible,
             citations |-> p.citations, inCitation |-> p.inCitation]
    BY <1>2, <1>3, <1>4 DEF Take, s
  <2>2. PassTag(p) = [EndCitation(t) EXCEPT !.pending = From(t.pending, g + 1)]
    BY <1>2, <1>4 DEF PassTag, g
  <2> HIDE DEF t, r1, part
  <2>3. EndCitation(t) = [pending |-> r1, body |-> <<>>, visible |-> p.visible,
             citations |-> Append(p.citations, p.body \o part), inCitation |-> FALSE]
    BY <1>4, <2>1 DEF EndCitation
  <2>4. t.pending = r1
    BY <2>1
  <2>5. PassTag(p) = [pending |-> From(r1, g + 1), body |-> <<>>, visible |-> p.visible,
             citations |-> Append(p.citations, p.body \o part), inCitation |-> FALSE]
    <3> DEFINE e == EndCitation(t)
    <3>1. PassTag(p) = [e EXCEPT !.pending = From(r1, g + 1)]
      BY <2>2, <2>4
    <3>2. e = [pending |-> r1, body |-> <<>>, visible |-> p.visible,
               citations |-> Append(p.citations, p.body \o part), inCitation |-> FALSE]
      BY <2>3
    <3> HIDE DEF e
    <3>3. QED  BY <3>1, <3>2
  <2>6. QED  BY <1>1, <1>4, <2>5 DEF part, s, g
<1>5. CASE ~p.inCitation
  <2> DEFINE t == Take(p, at - 1)
  <2>1. t = [pending |-> r1, body |-> p.body, visible |-> p.visible \o part,
             citations |-> p.citations, inCitation |-> p.inCitation]
    BY <1>2, <1>3, <1>5 DEF Take, s
  <2>2. PassTag(p) = [t EXCEPT !.pending = From(t.pending, g + 1), !.inCitation = TRUE]
    BY <1>2, <1>5 DEF PassTag, g
  <2> HIDE DEF t, r1, part
  <2>3. PassTag(p) = [pending |-> From(r1, g + 1), body |-> p.body,
             visible |-> p.visible \o part, citations |-> p.citations, inCitation |-> TRUE]
    BY <2>1, <2>2
  <2>4. QED  BY <1>1, <1>5, <2>3 DEF part, s, g
<1>6. QED  BY <1>4, <1>5

\* One round of the loop keeps what has been read; it uses up some of what is
\* pending unless no tag is in it.
LEMMA PassReads ==
  ASSUME tags \in Marks, NEW p \in PStates, NEW r \in Texts,
         NEW shown \in Texts, NEW cited \in Seq(Texts),
         Reads(p, r, shown \o p.visible, cited \o p.citations)
  PROVE  LET q == PassTag(p) IN
         /\ q \in PStates
         /\ Reads(q, r, shown \o q.visible, cited \o q.citations)
         /\ IndexOf(p.pending, Tag(p)) = 0 => q = p
         /\ IndexOf(p.pending, Tag(p)) # 0 => Len(q.pending) < Len(p.pending)
<1> DEFINE s == p.pending
           tag == Tag(p)
           at == IndexOf(s, tag)
           n == Len(s)
           l == Len(r)
           d == l - n
           g == Len(tag)
           m == at - 1 + g
           q == PassTag(p)
           part == SubSeq(s, 1, at - 1)
           rest == From(s, m + 1)
<1>0. /\ s \in Texts /\ n \in Nat /\ l \in Nat /\ g \in Nat \ {0} /\ n <= l /\ d \in Nat
      /\ p.body \in Texts /\ p.visible \in Texts /\ p.citations \in Seq(Texts)
      /\ p.inCitation \in BOOLEAN /\ tag \in Texts \ {<<>>} /\ Ends(s, r)
      /\ ~p.inCitation => p.body = <<>>
      /\ at \in Nat
  <2>1. s \in Texts /\ tag \in Texts \ {<<>>} /\ p.body \in Texts /\ p.visible \in Texts
        /\ p.citations \in Seq(Texts) /\ p.inCitation \in BOOLEAN
    BY DEF PStates, Marks, Tag
  <2>2. Ends(s, r) /\ (~p.inCitation => p.body = <<>>)
    BY DEF Reads
  <2>3. at \in Nat
    BY <2>1, IndexOfFirst
  <2> HIDE DEF s, tag
  <2>4. n \in Nat /\ l \in Nat /\ g \in Nat \ {0}
    BY <2>1, LenProperties, EmptySeq DEF Texts
  <2>5. n <= l
    BY <2>2 DEF Ends
  <2>6. d \in Nat
    BY <2>4, <2>5
  <2>7. QED  BY <2>1, <2>2, <2>3, <2>4, <2>5, <2>6 DEF s, tag
<1>1. CASE at = 0
  <2>1. q = p
    BY <1>1 DEF PassTag
  <2>2. QED  BY <1>1, <2>1
<1>2. CASE at > 0
  <2>0. Extends(r, r)
    BY <1>0 DEF Extends
  <2>1. at \in 1 .. n /\ m \in 0 .. n /\ m <= n /\ at - 1 \in 0 .. n /\ d + at > 0
        /\ d + (at - 1) = (d + at) - 1 /\ l - (n - m) + 1 = d + at + g
    <3>1. at \in 1 .. n /\ at - 1 + g <= n
      BY <1>0, <1>2, <2>0, FoundAhead
    <3> HIDE DEF at, n, g, l
    <3>2. QED  BY <1>0, <3>1
  <2>2. ASSUME NEW u, Extends(u, r) PROVE NextTag(u, tag, d + 1) = d + at
    <3> HIDE DEF s, tag
    <3>1. QED  BY <1>0, <1>2, <2>2, FoundAhead
  <2>3. /\ part \in Texts
        /\ \A u : Extends(u, r) => SubSeq(u, d + 1, (d + at) - 1) = part
    <3> HIDE DEF s, at, g
    <3>1. /\ part \in Texts
          /\ \A u : Extends(u, r) => SubSeq(u, d + 1, d + (at - 1)) = part
      BY <1>0, <2>1, PartAhead
    <3>2. QED  BY <2>1, <3>1
  <2>4. rest \in Texts /\ Len(rest) = n - m /\ Ends(rest, r)
    BY <1>0, <2>1, PartAhead, ZenonT(30)
  <2>5. /\ p.inCitation => q = [pending |-> rest, body |-> <<>>, visible |-> p.visible,
                               citations |-> Append(p.citations, p.body \o part),
                               inCitation |-> FALSE]
        /\ ~p.inCitation => q = [pending |-> rest, body |-> <<>>,
                                visible |-> p.visible \o part, citations |-> p.citations,
                                inCitation |-> TRUE]
    <3>1. IndexOf(p.pending, Tag(p)) = at /\ at \in 1 .. Len(p.pending)
          /\ at - 1 + Len(Tag(p)) <= Len(p.pending)
      BY <2>1
    <3> HIDE DEF at
    <3>2. QED  BY <1>0, <3>1, PassShape
  <2>6. ASSUME NEW u, Extends(u, r)
        PROVE  /\ u \in Texts /\ Len(u) \in Nat /\ d + 1 \in 1 .. Len(u) + 1
               /\ d + at + g \in 1 .. Len(u) + 1
               /\ Shown(tags, u)[1].visible = (shown \o p.visible) \o After(p, u, d + 1).visible
               /\ Shown(tags, u)[1].bodies = (cited \o p.citations) \o After(p, u, d + 1).bodies
    <3>1. u \in Texts /\ Len(u) \in Nat /\ l <= Len(u)
      BY <2>6, LenProperties DEF Extends, Texts
    <3>2. d + 1 \in 1 .. Len(u) + 1 /\ d + at + g \in 1 .. Len(u) + 1
      <4> DEFINE w == Len(u)
      <4>1. w \in Nat /\ l <= w
        BY <3>1
      <4> HIDE DEF at, n, g, l, w
      <4>2. d + 1 \in 1 .. w + 1 /\ d + at + g \in 1 .. w + 1
        BY <1>0, <2>1, <4>1
      <4>3. QED  BY <4>2 DEF w
    <3>3. QED  BY <2>6, <3>1, <3>2 DEF Reads
  <2>7. Len(rest) < n
    <3> HIDE DEF at, n, g, rest
    <3>1. QED  BY <1>0, <2>1, <2>4
  <2>8. shown \o p.visible \in Texts /\ cited \o p.citations \in Seq(Texts) /\ <<>> \in Texts
    BY <1>0, ConcatTexts, ConcatLists DEF Texts
  <2> DEFINE e == d + at + g
  <2> HIDE DEF at, n, l, g, rest, part, s, tag, q, d, m
  <2>9. CASE ~p.inCitation
    <3>1. p.visible \o part \in Texts
      BY <1>0, <2>3, ConcatTexts
    <3>2. /\ q.pending = rest /\ q.body = <<>> /\ q.visible = p.visible \o part
          /\ q.citations = p.citations /\ q.inCitation = TRUE /\ q \in PStates
      <4> DEFINE v == p.visible \o part
      <4>1. q = [pending |-> rest, body |-> <<>>, visible |-> v, citations |-> p.citations,
                 inCitation |-> TRUE]
        BY <2>5, <2>9
      <4>2. v \in Texts
        BY <3>1
      <4> HIDE DEF v
      <4>3. /\ q.pending = rest /\ q.body = <<>> /\ q.visible = v
            /\ q.citations = p.citations /\ q.inCitation = TRUE /\ q \in PStates
        BY <1>0, <2>4, <2>8, <4>1, <4>2 DEF PStates
      <4>4. QED  BY <4>3 DEF v
    <3>3. ASSUME NEW u, Extends(u, r)
          PROVE  /\ Shown(tags, u)[1].visible = (shown \o q.visible) \o After(q, u, e).visible
                 /\ Shown(tags, u)[1].bodies = (cited \o q.citations) \o After(q, u, e).bodies
      <4> DEFINE c == Closing(tags, u, <<>>, e)
                 f == Shown(tags, u)[d + 1]
      <4>1. After(p, u, d + 1) = f /\ After(q, u, e) = c
        BY <2>9, <3>2 DEF After
      <4>2. f.visible = part \o c.visible /\ f.bodies = c.bodies
        <5>1. tag = tags.open
          BY <2>9 DEF tag, Tag
        <5>2. NextTag(u, tags.open, d + 1) = d + at /\ u \in Texts /\ d + 1 \in 1 .. Len(u) + 1
          BY <2>2, <2>6, <3>3, <5>1
        <5>3. /\ f.visible = SubSeq(u, d + 1, (d + at) - 1) \o Closing(tags, u, <<>>, (d + at) + Len(tags.open)).visible
              /\ f.bodies = Closing(tags, u, <<>>, (d + at) + Len(tags.open)).bodies
          BY <2>1, <5>2, ShownOpens
        <5>4. (d + at) + Len(tags.open) = e
          BY <5>1 DEF g
        <5>5. QED  BY <2>3, <3>3, <5>3, <5>4
      <4>3. c.visible \in Texts
        <5>1. c \in Results
          BY <2>6, <2>8, <3>3, ClosingTyped
        <5> HIDE DEF c
        <5>2. QED  BY <5>1 DEF Results
      <4> HIDE DEF c, f
      <4>4. (shown \o p.visible) \o (part \o c.visible) = (shown \o (p.visible \o part)) \o c.visible
        <5> DEFINE before == p.visible
                   behind == c.visible
        <5>1. before \in Texts /\ behind \in Texts /\ part \in Texts
          BY <1>0, <2>3, <4>3
        <5> HIDE DEF before, behind
        <5>2. Cat(Cat(shown, before), Cat(part, behind))
                = Cat(Cat(shown, Cat(before, part)), behind)
          BY <5>1, Regroup DEF Texts
        <5>3. QED  BY <5>2 DEF before, behind, Cat
      <4>5. Shown(tags, u)[1].visible = (shown \o p.visible) \o f.visible
            /\ Shown(tags, u)[1].bodies = (cited \o p.citations) \o f.bodies
        BY <2>6, <3>3, <4>1
      <4>6. QED  BY <3>2, <4>1, <4>2, <4>4, <4>5
    <3>4. l - Len(q.pending) + 1 = e
      BY <2>1, <2>4, <3>2 DEF e
    <3> HIDE DEF e
    <3>5. Reads(q, r, shown \o q.visible, cited \o q.citations)
      BY <2>4, <3>2, <3>3, <3>4 DEF Reads, l
    <3>6. QED  BY <1>2, <2>7, <3>2, <3>5 DEF q, n, s, at, tag
  <2>10. CASE p.inCitation
    <3> DEFINE b == p.body \o part
    <3>1. b \in Texts /\ Append(p.citations, b) \in Seq(Texts)
      <4>1. b \in Texts
        BY <1>0, <2>3, ConcatTexts
      <4> HIDE DEF b
      <4>2. QED  BY <1>0, <4>1
    <3>2. /\ q.pending = rest /\ q.body = <<>> /\ q.visible = p.visible
          /\ q.citations = Append(p.citations, b) /\ q.inCitation = FALSE /\ q \in PStates
      <4> HIDE DEF b
      <4>1. q = [pending |-> rest, body |-> <<>>, visible |-> p.visible,
                 citations |-> Append(p.citations, b), inCitation |-> FALSE]
        BY <2>5, <2>10 DEF b
      <4>2. QED  BY <1>0, <2>4, <2>8, <3>1, <4>1 DEF PStates
    <3>3. ASSUME NEW u, Extends(u, r)
          PROVE  /\ Shown(tags, u)[1].visible = (shown \o q.visible) \o After(q, u, e).visible
                 /\ Shown(tags, u)[1].bodies = (cited \o q.citations) \o After(q, u, e).bodies
      <4> DEFINE c == Closing(tags, u, p.body, d + 1)
                 f == Shown(tags, u)[e]
      <4>1. After(p, u, d + 1) = c /\ After(q, u, e) = f
        BY <2>10, <3>2 DEF After
      <4>2. c.visible = f.visible /\ c.bodies = <<b>> \o f.bodies
        <5>1. tag = tags.close
          BY <2>10 DEF tag, Tag
        <5>2. NextTag(u, tags.close, d + 1) = d + at /\ (d + at) + Len(tags.close) = e
          BY <2>2, <3>3, <5>1 DEF g
        <5>3. SubSeq(u, d + 1, (d + at) - 1) = part
          BY <2>3, <3>3
        <5>4. d + at # 0
          BY <2>1
        <5> HIDE DEF e
        <5>5. c = [visible |-> f.visible, bodies |-> <<b>> \o f.bodies]
          BY <5>2, <5>3, <5>4 DEF Closing
        <5> HIDE DEF c, f
        <5>6. QED  BY <5>5
      <4>3. f.bodies \in Seq(Texts)
        <5>1. f \in Results
          BY <2>6, <3>3, ShownTyped
        <5> HIDE DEF f
        <5>2. QED  BY <5>1 DEF Results
      <4> HIDE DEF c, f, b
      <4>4. (cited \o Append(p.citations, b)) \o f.bodies
              = (cited \o p.citations) \o (<<b>> \o f.bodies)
        <5> DEFINE before == p.citations
                   behind == f.bodies
        <5>1. before \in Seq(Texts) /\ behind \in Seq(Texts) /\ b \in Texts
          BY <1>0, <3>1, <4>3
        <5> HIDE DEF before, behind
        <5>2. Cat(Cat(cited, Append(before, b)), behind)
                = Cat(Cat(cited, before), Cat(<<b>>, behind))
          BY <5>1, AppendList
        <5>3. QED  BY <5>2 DEF before, behind, Cat
      <4>5. Shown(tags, u)[1].visible = (shown \o p.visible) \o c.visible
            /\ Shown(tags, u)[1].bodies = (cited \o p.citations) \o c.bodies
        BY <2>6, <3>3, <4>1
      <4>6. QED  BY <3>2, <4>1, <4>2, <4>4, <4>5
    <3>4. l - Len(q.pending) + 1 = e
      BY <2>1, <2>4, <3>2 DEF e
    <3> HIDE DEF e, b
    <3>5. Reads(q, r, shown \o q.visible, cited \o q.citations)
      BY <2>4, <3>2, <3>3, <3>4 DEF Reads, l
    <3>6. QED  BY <1>2, <2>7, <3>2, <3>5 DEF q, n, s, at, tag
  <2>11. QED  BY <1>0, <2>9, <2>10
<1>3. QED  BY <1>0, <1>1, <1>2

\* The state of a parser, between chunks or in the loop.
IsParser(p) == p.pending \in Texts /\ p.body \in Texts /\ p.inCitation \in BOOLEAN

LEMMA TagOf ==
  ASSUME tags \in Marks, NEW p, IsParser(p)
  PROVE  /\ Tag(p) \in Texts \ {<<>>} /\ Len(Tag(p)) \in Nat \ {0}
         /\ Len(p.pending) \in Nat
<1>1. Tag(p) \in Texts \ {<<>>}
  BY DEF Marks, Tag
<1> DEFINE tag == Tag(p)
<1>2. tag \in Texts \ {<<>>}
  BY <1>1
<1> HIDE DEF tag
<1>3. Len(tag) \in Nat \ {0}
  BY <1>2, EmptySeq DEF Texts
<1>4. Len(p.pending) \in Nat
  BY LenProperties DEF IsParser, Texts
<1>5. QED  BY <1>2, <1>3, <1>4 DEF tag

LEMMA TakeShape ==
  ASSUME NEW p \in PStates, NEW m \in 0 .. Len(p.pending)
  PROVE  LET part == SubSeq(p.pending, 1, m)
             q == Take(p, m) IN
         /\ part \in Texts /\ q \in PStates
         /\ q.pending = From(p.pending, m + 1) /\ q.inCitation = p.inCitation
         /\ q.citations = p.citations
         /\ p.inCitation => q.body = p.body \o part /\ q.visible = p.visible
         /\ ~p.inCitation => q.body = p.body /\ q.visible = p.visible \o part
<1> DEFINE part == SubSeq(p.pending, 1, m)
           rest == From(p.pending, m + 1)
           q == Take(p, m)
<1>1. /\ p.pending \in Texts /\ p.body \in Texts /\ p.visible \in Texts
      /\ p.citations \in Seq(Texts) /\ p.inCitation \in BOOLEAN
      /\ p = [pending |-> p.pending, body |-> p.body, visible |-> p.visible,
              citations |-> p.citations, inCitation |-> p.inCitation]
  BY DEF PStates
<1>2. part \in Texts /\ rest \in Texts
  <2>1. Len(p.pending) <= Len(p.pending) /\ Len(p.pending) \in Nat
        /\ Len(p.pending) - Len(p.pending) = 0
    BY <1>1, LenProperties DEF Texts
  <2>2. \A i \in 1 .. Len(p.pending) : Len(p.pending) - Len(p.pending) + i = i
    BY <2>1
  <2>3. Ends(p.pending, p.pending)
    BY <2>1, <2>2 DEF Ends
  <2>4. QED  BY <1>1, <2>3, PartAhead
<1>3. p.body \o part \in Texts /\ p.visible \o part \in Texts
  BY <1>1, <1>2, ConcatTexts
<1>4. CASE p.inCitation
  <2> DEFINE b == p.body \o part
  <2>1. q = [pending |-> rest, body |-> b, visible |-> p.visible,
             citations |-> p.citations, inCitation |-> p.inCitation]
    BY <1>1, <1>4 DEF Take
  <2>2. b \in Texts
    BY <1>3
  <2> HIDE DEF b, rest, q
  <2>3. q \in PStates /\ q.pending = rest /\ q.inCitation = p.inCitation
        /\ q.citations = p.citations /\ q.body = b /\ q.visible = p.visible
    BY <1>1, <1>2, <2>1, <2>2 DEF PStates
  <2>4. QED  BY <1>2, <1>4, <2>3 DEF b, rest, q
<1>5. CASE ~p.inCitation
  <2> DEFINE v == p.visible \o part
  <2>1. q = [pending |-> rest, body |-> p.body, visible |-> v,
             citations |-> p.citations, inCitation |-> p.inCitation]
    BY <1>1, <1>5 DEF Take
  <2>2. v \in Texts
    BY <1>3
  <2> HIDE DEF v, rest, q
  <2>3. q \in PStates /\ q.pending = rest /\ q.inCitation = p.inCitation
        /\ q.citations = p.citations /\ q.body = p.body /\ q.visible = v
    BY <1>1, <1>2, <2>1, <2>2 DEF PStates
  <2>4. QED  BY <1>2, <1>5, <2>3 DEF v, rest, q
<1>6. QED  BY <1>4, <1>5

\* With no tag in what is pending, taking all but the beginning of one keeps
\* what has been read.
LEMMA TakeReads ==
  ASSUME tags \in Marks, NEW p \in PStates, NEW r \in Texts,
         NEW shown \in Texts, NEW cited \in Seq(Texts),
         Reads(p, r, shown \o p.visible, cited \o p.citations),
         IndexOf(p.pending, Tag(p)) = 0
  PROVE  LET q == Take(p, Len(p.pending) - Keep(p.pending, Tag(p))) IN
         /\ q \in PStates
         /\ Reads(q, r, shown \o q.visible, cited \o q.citations)
         /\ Len(q.pending) < Len(Tag(q))
<1> DEFINE s == p.pending
           tag == Tag(p)
           n == Len(s)
           l == Len(r)
           d == l - n
           m == n - Keep(s, tag)
           e == d + 1 + m
           q == Take(p, m)
           part == SubSeq(s, 1, m)
           rest == From(s, m + 1)
<1>1. /\ p.body \in Texts /\ p.visible \in Texts /\ p.citations \in Seq(Texts)
      /\ p.inCitation \in BOOLEAN /\ s \in Texts /\ Ends(s, r)
      /\ (~p.inCitation => p.body = <<>>) /\ IndexOf(s, tag) = 0
  BY DEF PStates, Reads
<1>2. tag \in Texts \ {<<>>} /\ Len(tag) \in Nat \ {0}
  BY <1>1, TagOf DEF IsParser
<1>3. n \in Nat /\ l \in Nat /\ d \in Nat
  BY <1>1, LenProperties DEF Texts, Ends
<1>4. Keep(s, tag) \in 0 .. n /\ Keep(s, tag) < Len(tag)
  <2> HIDE DEF s, tag
  <2>1. QED  BY <1>1, <1>2, KeepHolds
<1>5. m \in 0 .. n /\ e = d + m + 1 /\ l - (n - m) + 1 = e /\ n - m < Len(tag)
      /\ e - 1 = d + m
  <2> DEFINE kept == Keep(s, tag)
             g == Len(tag)
  <2>1. kept \in 0 .. n /\ kept < g /\ g \in Nat
    BY <1>2, <1>4
  <2> HIDE DEF kept, n, l, g
  <2>2. n - kept \in 0 .. n /\ d + 1 + (n - kept) = d + (n - kept) + 1
        /\ l - (n - (n - kept)) + 1 = d + 1 + (n - kept) /\ n - (n - kept) < g
        /\ d + 1 + (n - kept) - 1 = d + (n - kept)
    BY <1>3, <2>1
  <2> HIDE DEF s, tag
  <2>3. kept = Keep(s, tag)
    BY DEF kept
  <2>4. QED  BY <1>3, <2>1, <2>2, <2>3 DEF g
<1>6. /\ part \in Texts /\ q \in PStates
      /\ q.pending = rest /\ q.inCitation = p.inCitation /\ q.citations = p.citations
      /\ p.inCitation => q.body = p.body \o part /\ q.visible = p.visible
      /\ ~p.inCitation => q.body = p.body /\ q.visible = p.visible \o part
  <2> HIDE DEF m
  <2>1. QED  BY <1>5, TakeShape
<1>7. /\ Len(rest) = n - m /\ Ends(rest, r)
      /\ \A u : Extends(u, r) => SubSeq(u, d + 1, d + m) = part
  <2> HIDE DEF m, s
  <2>1. QED  BY <1>1, <1>5, PartAhead
<1>8. ASSUME NEW u, Extends(u, r)
      PROVE  /\ u \in Texts /\ d + 1 \in 1 .. Len(u) + 1 /\ e \in d + 1 .. Len(u) + 1
             /\ e \in 1 .. Len(u) + 1
             /\ \A i : Begins(u, tag, i) => i < d + 1 \/ e <= i
             /\ Shown(tags, u)[1].visible = (shown \o p.visible) \o After(p, u, d + 1).visible
             /\ Shown(tags, u)[1].bodies = (cited \o p.citations) \o After(p, u, d + 1).bodies
  <2> DEFINE w == Len(u)
  <2>1. u \in Texts /\ w \in Nat /\ l <= w
    BY <1>8, LenProperties DEF Extends, Texts
  <2>2. \A i : Begins(u, tag, i) => i < d + 1 \/ e <= i
    <3> HIDE DEF s, tag
    <3>1. ASSUME NEW i, Begins(u, tag, i) PROVE i < d + 1 \/ e <= i
      BY <1>1, <1>2, <1>4, <1>8, <3>1, NoneAhead
    <3> HIDE DEF e, d
    <3>2. QED  BY <3>1
  <2>3. d + 1 \in 1 .. w + 1 /\ e \in d + 1 .. w + 1 /\ e \in 1 .. w + 1
    <3> HIDE DEF w, m, n, l, e
    <3>1. d = l - n /\ m <= n /\ m \in Nat /\ e = l - n + m + 1
      BY <1>3, <1>5
    <3>2. QED  BY <1>3, <2>1, <3>1
  <2>4. QED  BY <1>8, <2>1, <2>2, <2>3 DEF Reads
<1> HIDE DEF s, tag, n, l, d, m, e, q, part, rest
<1>9. ASSUME NEW u, Extends(u, r)
      PROVE  /\ Shown(tags, u)[1].visible = (shown \o q.visible) \o After(q, u, e).visible
             /\ Shown(tags, u)[1].bodies = (cited \o q.citations) \o After(q, u, e).bodies
  <2>0. SubSeq(u, d + 1, e - 1) = part /\ u \in Texts /\ d + 1 \in 1 .. Len(u) + 1
        /\ e \in d + 1 .. Len(u) + 1 /\ e \in 1 .. Len(u) + 1
    BY <1>5, <1>7, <1>8, <1>9
  <2>1. CASE ~p.inCitation
    <3> DEFINE f == Shown(tags, u)[d + 1]
               c == Shown(tags, u)[e]
    <3>1. tag = tags.open
      BY <2>1 DEF tag, Tag
    <3>2. f.visible = part \o c.visible /\ f.bodies = c.bodies
      <4>1. \A i : Begins(u, tags.open, i) => i < d + 1 \/ e <= i
        BY <1>8, <1>9, <3>1
      <4>2. /\ f.visible = SubSeq(u, d + 1, e - 1) \o c.visible
            /\ f.bodies = c.bodies
        BY <2>0, <4>1, ShownSkips
      <4>3. QED  BY <2>0, <4>2
    <3>3. c \in Results
      BY <2>0, ShownTyped
    <3>4. After(p, u, d + 1) = f /\ After(q, u, e) = c
      BY <1>6, <2>1 DEF After
    <3> HIDE DEF f, c
    <3>5. Cat(Cat(shown, p.visible), Cat(part, c.visible))
            = Cat(Cat(shown, Cat(p.visible, part)), c.visible)
      <4> DEFINE before == p.visible
                 behind == c.visible
      <4>1. before \in Texts /\ behind \in Texts
        BY <1>1, <3>3 DEF Results
      <4> HIDE DEF before, behind
      <4>2. Cat(Cat(shown, before), Cat(part, behind))
              = Cat(Cat(shown, Cat(before, part)), behind)
        BY <1>6, <4>1, Regroup DEF Texts
      <4>3. QED  BY <4>2 DEF before, behind
    <3>6. Shown(tags, u)[1].visible = Cat(Cat(shown, p.visible), f.visible)
          /\ Shown(tags, u)[1].bodies = (cited \o p.citations) \o f.bodies
      BY <1>8, <1>9, <3>4 DEF Cat
    <3>7. f.visible = Cat(part, c.visible) /\ q.visible = Cat(p.visible, part)
          /\ q.citations = p.citations /\ f.bodies = c.bodies
      BY <1>6, <2>1, <3>2 DEF Cat
    <3>8. Shown(tags, u)[1].visible = Cat(Cat(shown, q.visible), c.visible)
          /\ Shown(tags, u)[1].bodies = (cited \o q.citations) \o c.bodies
      BY <3>5, <3>6, <3>7
    <3>9. QED  BY <3>4, <3>8 DEF Cat
  <2>2. CASE p.inCitation
    <3>1. tag = tags.close
      BY <2>2 DEF tag, Tag
    <3>2. Closing(tags, u, p.body, d + 1) = Closing(tags, u, p.body \o SubSeq(u, d + 1, e - 1), e)
      <4>1. \A i : Begins(u, tags.close, i) => i < d + 1 \/ e <= i
        BY <1>8, <1>9, <3>1
      <4>2. QED  BY <1>1, <2>0, <4>1, ClosingSkips
    <3>3. q.body = p.body \o SubSeq(u, d + 1, e - 1)
      BY <1>6, <2>0, <2>2
    <3>4. After(p, u, d + 1) = After(q, u, e)
      BY <1>6, <2>2, <3>2, <3>3 DEF After
    <3>5. q.visible = p.visible /\ q.citations = p.citations
      BY <1>6, <2>2
    <3>6. QED  BY <1>8, <1>9, <3>4, <3>5
  <2>3. QED  BY <1>1, <2>1, <2>2
<1>10. l - Len(q.pending) + 1 = e /\ Ends(q.pending, r) /\ (~q.inCitation => q.body = <<>>)
       /\ Len(q.pending) < Len(Tag(q))
  <2>1. Tag(q) = tag
    BY <1>6 DEF Tag, tag
  <2>2. QED  BY <1>1, <1>5, <1>6, <1>7, <2>1
<1>11. Reads(q, r, shown \o q.visible, cited \o q.citations)
  BY <1>9, <1>10 DEF Reads, l
<1>12. QED  BY <1>6, <1>10, <1>11 DEF q, m, n, s, tag

\* Where no tag is left the reference shows or cites all that is pending.
LEMMA AtEnd ==
  ASSUME tags \in Marks, NEW p, IsParser(p), NEW r \in Texts, Ends(p.pending, r),
         IndexOf(p.pending, Tag(p)) = 0
  PROVE  LET rest == After(p, r, Len(r) - Len(p.pending) + 1) IN
         /\ ~p.inCitation => rest.visible = p.pending /\ rest.bodies = <<>>
         /\ p.inCitation => rest.visible = <<>> /\ rest.bodies = <<p.body \o p.pending>>
<1> DEFINE s == p.pending
           tag == Tag(p)
           n == Len(s)
           l == Len(r)
           d == l - n
           g == Len(tag)
           rest == After(p, r, d + 1)
<1>1. /\ s \in Texts /\ p.body \in Texts /\ p.inCitation \in BOOLEAN /\ Ends(s, r)
      /\ tag \in Texts \ {<<>>} /\ IndexOf(s, tag) = 0
      /\ n \in Nat /\ l \in Nat /\ g \in Nat \ {0}
  BY TagOf, LenProperties DEF IsParser, Texts
<1> HIDE DEF s, tag
<1>2. n <= l /\ d \in Nat /\ d + 1 \in 1 .. l + 1 /\ d + 1 \in Nat \ {0}
  BY <1>1 DEF Ends
<1>3. From(r, d + 1) = s
  <2> DEFINE x == From(r, d + 1)
  <2>1. x \in Texts /\ Len(x) = l + 1 - (d + 1)
        /\ \A k \in 1 .. l + 1 - (d + 1) : x[k] = r[(d + 1) + k - 1]
    BY <1>1, <1>2, Rest
  <2>2. l + 1 - (d + 1) = n /\ \A k \in 1 .. n : (d + 1) + k - 1 = l - n + k
    BY <1>1, <1>2
  <2> HIDE DEF x, d
  <2>3. \A k \in 1 .. n : x[k] = s[k]
    BY <1>1, <2>1, <2>2 DEF Ends
  <2>4. x = s
    BY <1>1, <2>1, <2>2, <2>3, SameText
  <2>5. QED  BY <2>4 DEF x
<1>4. NextTag(r, tag, d + 1) = 0
  <2>1. Extends(r, r)
    BY <1>1 DEF Extends
  <2>2. ASSUME NEW i, Begins(r, tag, i) PROVE i < d + 1
    <3> DEFINE kept == Keep(s, tag)
    <3>1. i < d + 1 \/ d + 1 + (n - kept) <= i
      BY <1>1, <2>1, <2>2, NoneAhead
    <3>2. kept \in 0 .. n /\ kept < g
      BY <1>1, KeepHolds
    <3>3. i \in Nat /\ i + g - 1 <= l
      BY <2>2 DEF Begins
    <3> HIDE DEF kept, g, n, l
    <3>4. QED  BY <1>1, <1>2, <3>1, <3>2, <3>3
  <2>3. QED  BY <1>1, <1>2, <2>2, NextTagIs
<1> HIDE DEF d
<1>5. CASE ~p.inCitation
  <2>1. tag = tags.open
    BY <1>5 DEF tag, Tag
  <2> DEFINE f == Shown(tags, r)
  <2>2. f[d + 1] = ShownFrom(tags, r, f, d + 1)
    BY <1>2, ShownStep
  <2>3. rest = f[d + 1]
    BY <1>5 DEF After
  <2> HIDE DEF f, rest
  <2>4. rest = [visible |-> s, bodies |-> <<>>]
    <3>1. NextTag(r, tags.open, d + 1) = 0
      BY <1>4, <2>1
    <3>2. ShownFrom(tags, r, f, d + 1) = [visible |-> From(r, d + 1), bodies |-> <<>>]
      BY <3>1, NoTagLeft
    <3>3. QED  BY <1>3, <2>2, <2>3, <3>2
  <2>5. rest.visible = s /\ rest.bodies = <<>>
    BY <2>4
  <2>6. QED  BY <1>5, <2>5 DEF rest, d, n, l, s
<1>6. CASE p.inCitation
  <2>1. tag = tags.close
    BY <1>6 DEF tag, Tag
  <2>2. rest = Closing(tags, r, p.body, d + 1)
    BY <1>6 DEF After
  <2> DEFINE b == p.body \o s
  <2>3. b = p.body \o From(r, d + 1)
    BY <1>3
  <2> HIDE DEF rest, b
  <2>4. rest = [visible |-> <<>>, bodies |-> <<b>>]
    BY <1>4, <2>1, <2>2, <2>3 DEF Closing
  <2>5. rest.visible = <<>> /\ rest.bodies = <<b>>
    BY <2>4
  <2>6. QED  BY <1>6, <2>5 DEF rest, d, n, l, s, b
<1>7. QED  BY <1>1, <1>5, <1>6

LEMMA RoundsByTag ==
  ASSUME NEW p, Len(p.pending) \in Nat
  PROVE  /\ Rounds(p)[0] = p
         /\ \A n \in 1 .. Len(p.pending) : Rounds(p)[n] = PassTag(Rounds(p)[n - 1])
<1> DEFINE Step(f, n) == IF n = 0 THEN p ELSE PassTag(f[n - 1])
           Is(f, k) == f = [n \in 0 .. k |-> Step(f, n)]
           Bad == {k \in Nat : ~ \E f : Is(f, k)}
<1>1. \E f : Is(f, 0)
  <2>1. Is([n \in 0 .. 0 |-> p], 0)
    OBVIOUS
  <2>2. QED  BY <2>1
<1>2. ASSUME NEW k \in Nat, \E f : Is(f, k) PROVE \E f : Is(f, k + 1)
  <2>1. PICK f : Is(f, k)
    BY <1>2
  <2> DEFINE d == PassTag(f[k])
             g == [n \in 0 .. k + 1 |-> IF n = k + 1 THEN d ELSE f[n]]
  <2> HIDE DEF d
  <2>2. ASSUME NEW n \in 0 .. k + 1 PROVE g[n] = Step(g, n)
    <3>1. CASE n = 0
      BY <2>1, <3>1
    <3>2. CASE n = k + 1
      <4>1. g[k] = f[k] /\ g[k + 1] = d /\ (k + 1) - 1 = k /\ k + 1 # 0
        OBVIOUS
      <4>2. QED  BY <3>2, <4>1 DEF d
    <3>3. CASE n \in 1 .. k
      <4>1. g[n] = f[n] /\ g[n - 1] = f[n - 1] /\ n # 0 /\ n \in 0 .. k
        BY <3>3
      <4>2. f[n] = Step(f, n)
        BY <2>1, <4>1, Zenon
      <4>3. QED  BY <4>1, <4>2
    <3>4. QED  BY <3>1, <3>2, <3>3
  <2>3. Is(g, k + 1)
    BY <2>2
  <2>4. QED  BY <2>3
<1>3. Bad = {}
  <2> SUFFICES ASSUME Bad # {} PROVE FALSE
    OBVIOUS
  <2>1. PICK k \in Bad : \A j \in Bad : k <= j
    BY LeastNatural
  <2>2. k \in Nat /\ k # 0
    BY <1>1
  <2>3. k - 1 \in Nat /\ k - 1 \notin Bad /\ (k - 1) + 1 = k
    <3>1. k - 1 \in Nat /\ ~(k <= k - 1) /\ (k - 1) + 1 = k
      BY <2>2
    <3> HIDE DEF Bad
    <3>2. QED  BY <2>1, <3>1
  <2>4. \E f : Is(f, k - 1)
    BY <2>3
  <2> DEFINE j == k - 1
  <2>5. \E f : Is(f, j + 1)
    <3> HIDE DEF Is, j
    <3>1. j \in Nat /\ \E f : Is(f, j)
      BY <2>3, <2>4 DEF j
    <3>2. QED  BY <1>2, <3>1
  <2>6. QED  BY <2>3, <2>5
<1>4. \E f : Is(f, Len(p.pending))
  BY <1>3
<1>5. Is(Rounds(p), Len(p.pending))
  BY <1>4 DEF Rounds
<1>6. QED  BY <1>5

\* After as many rounds as symbols are pending, no tag is left.
LEMMA RoundsRead ==
  ASSUME tags \in Marks, NEW p \in PStates, NEW r \in Texts,
         NEW shown \in Texts, NEW cited \in Seq(Texts),
         Reads(p, r, shown \o p.visible, cited \o p.citations)
  PROVE  LET q == Rounds(p)[Len(p.pending)] IN
         /\ q \in PStates
         /\ Reads(q, r, shown \o q.visible, cited \o q.citations)
         /\ IndexOf(q.pending, Tag(q)) = 0
<1> DEFINE n == Len(p.pending)
           f == Rounds(p)
           Good(k) == /\ f[k] \in PStates
                      /\ Reads(f[k], r, shown \o f[k].visible, cited \o f[k].citations)
                      /\ \/ IndexOf(f[k].pending, Tag(f[k])) = 0
                         \/ Len(f[k].pending) <= n - k
           Bad == {k \in 0 .. n : ~Good(k)}
<1>0. n \in Nat
  BY LenProperties DEF PStates, Texts
<1>1. f[0] = p /\ \A k \in 1 .. n : f[k] = PassTag(f[k - 1])
  BY <1>0, RoundsByTag
<1>2. Good(0)
  <2>1. Len(p.pending) <= n - 0
    BY <1>0
  <2> HIDE DEF n
  <2>2. QED  BY <1>1, <2>1
<1>3. ASSUME NEW k \in 1 .. n, Good(k - 1) PROVE Good(k)
  <2> DEFINE x == f[k - 1]
             y == f[k]
  <2>1. y = PassTag(x) /\ x \in PStates /\ k \in Nat
        /\ Reads(x, r, shown \o x.visible, cited \o x.citations)
        /\ (IndexOf(x.pending, Tag(x)) = 0 \/ Len(x.pending) <= n - (k - 1))
    BY <1>0, <1>1, <1>3
  <2> HIDE DEF x, y, n
  <2>2. /\ y \in PStates /\ Reads(y, r, shown \o y.visible, cited \o y.citations)
        /\ IndexOf(x.pending, Tag(x)) = 0 => y = x
        /\ IndexOf(x.pending, Tag(x)) # 0 => Len(y.pending) < Len(x.pending)
    BY <2>1, PassReads
  <2>3. Len(x.pending) \in Nat /\ Len(y.pending) \in Nat
    BY <2>1, <2>2, LenProperties DEF PStates, Texts
  <2>4. IndexOf(y.pending, Tag(y)) = 0 \/ Len(y.pending) <= n - k
    BY <1>0, <2>1, <2>2, <2>3
  <2>5. QED  BY <2>2, <2>4 DEF y
<1>4. Bad = {}
  <2> SUFFICES ASSUME Bad # {} PROVE FALSE
    OBVIOUS
  <2> HIDE DEF Good, n
  <2>1. PICK k \in Bad : \A j \in Bad : k <= j
    <3>1. Bad \subseteq Nat
      BY <1>0
    <3> HIDE DEF Bad
    <3>2. QED  BY <3>1, LeastNatural
  <2>2. k \in 1 .. n /\ k - 1 \in 0 .. n /\ ~(k <= k - 1)
    BY <1>0, <1>2, <2>1
  <2>3. Good(k - 1)
    BY <2>1, <2>2
  <2>4. QED  BY <1>3, <2>1, <2>2, <2>3
<1>5. Good(n)
  <2> HIDE DEF Good, n
  <2>1. QED  BY <1>0, <1>4
<1> DEFINE q == f[n]
<1>6. q \in PStates /\ Reads(q, r, shown \o q.visible, cited \o q.citations)
      /\ (IndexOf(q.pending, Tag(q)) = 0 \/ Len(q.pending) <= n - n)
  BY <1>5
<1> HIDE DEF q, n
<1>7. IndexOf(q.pending, Tag(q)) = 0
  <2>1. CASE Len(q.pending) <= n - n
    <3> DEFINE s == q.pending
               tag == Tag(q)
               at == IndexOf(s, tag)
    <3>1. s \in Texts /\ tag \in Texts \ {<<>>} /\ Len(tag) \in Nat \ {0}
      BY <1>6, TagOf DEF PStates, IsParser
    <3>2. Len(s) \in Nat /\ Len(s) <= 0
      BY <1>0, <2>1, <3>1, LenProperties DEF Texts
    <3> HIDE DEF s, tag
    <3>3. at \in Nat /\ (at > 0 => Begins(s, tag, at))
      BY <3>1, IndexOfFirst
    <3> HIDE DEF at
    <3>4. at = 0
      BY <3>1, <3>2, <3>3 DEF Begins
    <3>5. QED  BY <3>4 DEF at, s, tag
  <2>2. QED  BY <1>6, <2>1
<1>8. QED  BY <1>6, <1>7 DEF q, n

LEMMA FullText ==
  ASSUME NEW s \in Texts
  PROVE  SubSeq(s, 1, Len(s)) = s
BY SubSeqFull DEF Texts

\* A chunk in the middle of a text.
LEMMA DrainReads ==
  ASSUME tags \in Marks, NEW p \in PStates, NEW r \in Texts,
         NEW shown \in Texts, NEW cited \in Seq(Texts),
         Reads(p, r, shown \o p.visible, cited \o p.citations)
  PROVE  LET q == Drain(p, FALSE) IN
         /\ q \in PStates
         /\ Reads(q, r, shown \o q.visible, cited \o q.citations)
         /\ Len(q.pending) < Len(Tag(q))
<1> DEFINE q == Rounds(p)[Len(p.pending)]
           x == Take(q, Len(q.pending) - Keep(q.pending, Tag(q)))
<1>1. /\ q \in PStates /\ Reads(q, r, shown \o q.visible, cited \o q.citations)
      /\ IndexOf(q.pending, Tag(q)) = 0
  BY RoundsRead
<1>2. Drain(p, FALSE) = x
  BY DEF Drain
<1> HIDE DEF q
<1>3. /\ x \in PStates /\ Reads(x, r, shown \o x.visible, cited \o x.citations)
      /\ Len(x.pending) < Len(Tag(x))
  BY <1>1, TakeReads
<1>4. QED  BY <1>2, <1>3

\* The end of a text.
LEMMA DrainEnds ==
  ASSUME tags \in Marks, NEW p \in PStates, NEW r \in Texts,
         NEW shown \in Texts, NEW cited \in Seq(Texts),
         Reads(p, r, shown \o p.visible, cited \o p.citations)
  PROVE  LET q == Drain(p, TRUE) IN
         /\ q.visible \in Texts /\ q.citations \in Seq(Texts)
         /\ shown \o q.visible = Reference(r).visible
         /\ cited \o q.citations = Reference(r).bodies
<1> DEFINE q == Rounds(p)[Len(p.pending)]
           n == Len(q.pending)
           t == Take(q, n)
           x == EndCitation(t)
           rest == After(q, r, Len(r) - n + 1)
<1>1. /\ q \in PStates /\ Reads(q, r, shown \o q.visible, cited \o q.citations)
      /\ IndexOf(q.pending, Tag(q)) = 0
  BY RoundsRead
<1>2. Drain(p, TRUE) = x
  BY DEF Drain
<1> HIDE DEF q
<1>3. IsParser(q) /\ q.visible \in Texts /\ q.citations \in Seq(Texts) /\ n \in Nat
      /\ q.pending \in Texts /\ q.body \in Texts /\ q.inCitation \in BOOLEAN
  BY <1>1, LenProperties DEF PStates, IsParser, Texts
<1>4. Ends(q.pending, r) /\ (~q.inCitation => q.body = <<>>)
  BY <1>1 DEF Reads
<1>5. /\ ~q.inCitation => rest.visible = q.pending /\ rest.bodies = <<>>
      /\ q.inCitation => rest.visible = <<>> /\ rest.bodies = <<q.body \o q.pending>>
  BY <1>1, <1>3, <1>4, AtEnd
<1>6. /\ Reference(r).visible = (shown \o q.visible) \o rest.visible
      /\ Reference(r).bodies = (cited \o q.citations) \o rest.bodies
  <2>1. Len(r) \in Nat
    BY LenProperties DEF Texts
  <2>2. Extends(r, r)
    BY <2>1 DEF Extends
  <2>3. QED  BY <1>1, <2>2 DEF Reads, Reference
<1>7. SubSeq(q.pending, 1, n) = q.pending
  BY <1>3, FullText
<1>8. /\ t \in PStates /\ t.inCitation = q.inCitation /\ t.citations = q.citations
      /\ q.inCitation => t.body = q.body \o q.pending /\ t.visible = q.visible
      /\ ~q.inCitation => t.body = q.body /\ t.visible = q.visible \o q.pending
  <2>1. n \in 0 .. Len(q.pending)
    BY <1>3
  <2> DEFINE m == n
  <2> HIDE DEF m
  <2>2. /\ Take(q, m) \in PStates /\ Take(q, m).inCitation = q.inCitation
        /\ Take(q, m).citations = q.citations
        /\ q.inCitation => Take(q, m).body = q.body \o SubSeq(q.pending, 1, m)
                           /\ Take(q, m).visible = q.visible
        /\ ~q.inCitation => Take(q, m).body = q.body
                            /\ Take(q, m).visible = q.visible \o SubSeq(q.pending, 1, m)
    BY <1>1, <2>1, TakeShape DEF m
  <2>3. QED  BY <1>7, <2>2 DEF m
<1> HIDE DEF t, n, rest
<1>9. CASE ~q.inCitation
  <2>1. x = t
    BY <1>8, <1>9 DEF EndCitation
  <2>2. x.visible = q.visible \o q.pending /\ x.citations = q.citations /\ x.visible \in Texts
    BY <1>8, <1>9, <2>1 DEF PStates
  <2>3. (shown \o q.visible) \o q.pending = shown \o (q.visible \o q.pending)
    <3> DEFINE a == q.visible
               b == q.pending
    <3>1. a \in Texts /\ b \in Texts
      BY <1>3
    <3> HIDE DEF a, b
    <3>2. (shown \o a) \o b = shown \o (a \o b)
      BY <3>1, ConcatMore
    <3>3. QED  BY <3>2 DEF a, b
  <2>4. Reference(r).visible = shown \o x.visible
    <3>1. Reference(r).visible = Cat(Cat(shown, q.visible), q.pending)
      BY <1>5, <1>6, <1>9 DEF Cat
    <3>2. Cat(Cat(shown, q.visible), q.pending) = Cat(shown, Cat(q.visible, q.pending))
      BY <2>3 DEF Cat
    <3>3. x.visible = Cat(q.visible, q.pending)
      BY <2>2 DEF Cat
    <3>4. Reference(r).visible = Cat(shown, x.visible)
      BY <3>1, <3>2, <3>3
    <3>5. QED  BY <3>4 DEF Cat
  <2>5. Reference(r).bodies = cited \o x.citations
    <3>1. Reference(r).bodies = (cited \o q.citations) \o <<>>
      BY <1>5, <1>6, <1>9
    <3>2. cited \o q.citations \in Seq(Texts)
      BY <1>3, ConcatLists
    <3>3. (cited \o q.citations) \o <<>> = cited \o q.citations
      BY <3>2, ConcatLists
    <3>4. QED  BY <2>2, <3>1, <3>3
  <2>6. QED  BY <1>2, <1>3, <2>2, <2>4, <2>5
<1>10. CASE q.inCitation
  <2> DEFINE b == q.body \o q.pending
             c == Append(q.citations, b)
  <2>1. b \in Texts
    BY <1>3, ConcatTexts
  <2>2. t = [pending |-> t.pending, body |-> t.body, visible |-> t.visible,
             citations |-> t.citations, inCitation |-> t.inCitation]
    BY <1>8 DEF PStates
  <2>3. x.visible = q.visible /\ x.citations = c
    BY <1>8, <1>10, <2>2 DEF EndCitation
  <2> HIDE DEF b
  <2>4. c \in Seq(Texts)
    BY <1>3, <2>1
  <2>5. Reference(r).visible = shown \o x.visible
    <3>1. Reference(r).visible = (shown \o q.visible) \o <<>>
      BY <1>5, <1>6, <1>10
    <3>2. shown \o q.visible \in Texts
      BY <1>3, ConcatTexts
    <3>3. (shown \o q.visible) \o <<>> = shown \o q.visible
      BY <3>2, ConcatTexts
    <3>4. QED  BY <2>3, <3>1, <3>3
  <2>6. Reference(r).bodies = cited \o x.citations
    <3>1. Reference(r).bodies = Cat(Cat(cited, q.citations), <<b>>)
      BY <1>5, <1>6, <1>10 DEF Cat, b
    <3>2. Cat(Cat(cited, c), <<>>) = Cat(Cat(cited, q.citations), Cat(<<b>>, <<>>))
      <4> DEFINE e == <<>>
                 all == q.citations
      <4>1. e \in Seq(Texts) /\ all \in Seq(Texts)
        BY <1>3
      <4> HIDE DEF e, all
      <4>2. Cat(Cat(cited, Append(all, b)), e) = Cat(Cat(cited, all), Cat(<<b>>, e))
        BY <2>1, <4>1, AppendList
      <4>3. QED  BY <4>2 DEF e, all
    <3>3. Cat(Cat(cited, c), <<>>) = Cat(cited, c)
      <4> HIDE DEF c
      <4>1. cited \o c \in Seq(Texts)
        BY <2>4, ConcatLists
      <4>2. (cited \o c) \o <<>> = cited \o c
        BY <4>1, ConcatLists
      <4>3. QED  BY <4>2 DEF Cat
    <3>4. Cat(<<b>>, <<>>) = <<b>>
      <4>1. <<b>> \in Seq(Texts)
        BY <2>1
      <4>2. <<b>> \o <<>> = <<b>>
        BY <4>1, ConcatLists
      <4>3. QED  BY <4>2 DEF Cat
    <3>5. Reference(r).bodies = Cat(cited, x.citations)
      BY <2>3, <3>1, <3>2, <3>3, <3>4
    <3>6. QED  BY <3>5 DEF Cat
  <2>7. QED  BY <1>2, <1>3, <2>3, <2>4, <2>5, <2>6
<1>11. QED  BY <1>3, <1>9, <1>10

Parsers == [pending : Texts, body : Texts, inCitation : BOOLEAN]

\* What a parser holds, with more text behind it.
LEMMA MoreToRead ==
  ASSUME NEW p \in Parsers, NEW r \in Texts, NEW more \in Texts,
         NEW shown \in Texts, NEW cited \in Seq(Texts), Reads(p, r, shown, cited)
  PROVE  LET q == [pending |-> p.pending \o more, body |-> p.body, visible |-> <<>>,
                   citations |-> <<>>, inCitation |-> p.inCitation] IN
         /\ r \o more \in Texts /\ q \in PStates
         /\ Reads(q, r \o more, shown \o q.visible, cited \o q.citations)
<1> DEFINE s == p.pending
           s2 == s \o more
           r2 == r \o more
           q == [pending |-> s2, body |-> p.body, visible |-> <<>>,
                 citations |-> <<>>, inCitation |-> p.inCitation]
           n == Len(s)
           l == Len(r)
           h == Len(more)
<1>1. s \in Texts /\ p.body \in Texts /\ p.inCitation \in BOOLEAN
  BY DEF Parsers
<1>2. /\ n \in Nat /\ l \in Nat /\ h \in Nat
      /\ s2 \in Texts /\ Len(s2) = n + h
      /\ \A i \in 1 .. n + h : s2[i] = IF i <= n THEN s[i] ELSE more[i - n]
      /\ r2 \in Texts /\ Len(r2) = l + h
      /\ \A i \in 1 .. l + h : r2[i] = IF i <= l THEN r[i] ELSE more[i - l]
  BY <1>1, ConcatTexts
<1>3. Ends(s, r) /\ (~p.inCitation => p.body = <<>>)
  BY DEF Reads
<1>4. shown \o <<>> = shown /\ cited \o <<>> = cited
      /\ <<>> \in Texts /\ <<>> \in Seq(Texts)
  BY ConcatTexts, ConcatLists DEF Texts
<1> HIDE DEF s2, r2, s
<1>5. /\ q.pending = s2 /\ q.body = p.body /\ q.visible = <<>> /\ q.citations = <<>>
      /\ q.inCitation = p.inCitation /\ q \in PStates
  BY <1>1, <1>2, <1>4 DEF PStates
<1>6. Ends(s2, r2)
  <2>1. n <= l /\ \A i \in 1 .. n : s[i] = r[l - n + i]
    BY <1>3 DEF Ends
  <2>2. ASSUME NEW i \in 1 .. n + h PROVE s2[i] = r2[(l + h) - (n + h) + i]
    <3> DEFINE j == (l + h) - (n + h) + i
    <3> HIDE DEF n, l, h
    <3>1. j \in 1 .. l + h /\ j = l - n + i /\ (i <= n <=> j <= l) /\ j - l = i - n
          /\ (i <= n => i \in 1 .. n)
      BY <1>2, <2>1
    <3> HIDE DEF j
    <3>2. r2[j] = IF j <= l THEN r[j] ELSE more[j - l]
      BY <1>2, <3>1
    <3>3. s2[i] = IF i <= n THEN s[i] ELSE more[i - n]
      BY <1>2
    <3>4. i <= n => s[i] = r[j]
      BY <2>1, <3>1
    <3>5. s2[i] = r2[j]
      BY <3>1, <3>2, <3>3, <3>4
    <3>6. QED  BY <3>5 DEF j
  <2>3. n + h <= l + h
    BY <1>2, <2>1
  <2>4. QED  BY <1>2, <2>2, <2>3 DEF Ends
<1>7. ASSUME NEW u, Extends(u, r2) PROVE Extends(u, r)
  <2>1. u \in Texts /\ l + h <= Len(u) /\ \A i \in 1 .. l + h : u[i] = r2[i]
    BY <1>2, <1>7 DEF Extends
  <2>2. l <= Len(u)
    <3>1. Len(u) \in Nat
      BY <2>1, LenProperties DEF Texts
    <3>2. QED  BY <1>2, <2>1, <3>1
  <2>3. \A i \in 1 .. l : u[i] = r[i]
    <3> HIDE DEF l, h
    <3>1. \A i \in 1 .. l : i \in 1 .. l + h /\ i <= l
      BY <1>2
    <3>2. QED  BY <1>2, <2>1, <3>1
  <2>4. QED  BY <2>1, <2>2, <2>3 DEF Extends
<1>8. Len(r2) - Len(q.pending) + 1 = l - n + 1
  <2>1. Len(r2) = l + h /\ Len(q.pending) = n + h
    BY <1>2, <1>5
  <2>2. n \in Nat /\ l \in Nat /\ h \in Nat
    BY <1>2
  <2> HIDE DEF q, l, n, h
  <2>3. (l + h) - (n + h) + 1 = l - n + 1
    BY <2>2
  <2>4. QED  BY <2>1, <2>3
<1>9. \A u, k : After(q, u, k) = After(p, u, k)
  BY <1>5 DEF After
<1> HIDE DEF q
<1>10. Reads(q, r2, shown \o q.visible, cited \o q.citations)
  <2>1. ASSUME NEW u, Extends(u, r2)
        PROVE  LET rest == After(q, u, Len(r2) - Len(q.pending) + 1) IN
               /\ Shown(tags, u)[1].visible = shown \o rest.visible
               /\ Shown(tags, u)[1].bodies = cited \o rest.bodies
    BY <1>7, <1>8, <1>9, <2>1 DEF Reads, s
  <2>2. shown \o q.visible = shown /\ cited \o q.citations = cited
    BY <1>4, <1>5
  <2>3. Ends(q.pending, r2) /\ (~q.inCitation => q.body = <<>>)
    BY <1>3, <1>5, <1>6
  <2>4. Reads(q, r2, shown, cited)
    BY <2>1, <2>3 DEF Reads
  <2>5. QED  BY <2>2, <2>4
<1>11. QED  BY <1>2, <1>5, <1>10 DEF q, r2, s2, s

-----------------------------------------------------------------------------
(***************************************************************************)
(* Citations.                                                              *)
(***************************************************************************)
Ids == Seq(IdLines)
Citations == [entries : Seq(EntryLines), ids : Ids]

LEMMA AddIdShape ==
  ASSUME NEW ids \in Ids, NEW id \in IdLines
  PROVE  /\ AddId(ids, id) \in Ids /\ Contains(AddId(ids, id), id)
         /\ \A x : Contains(ids, x) => Contains(AddId(ids, id), x)
         /\ Contains(ids, id) => AddId(ids, id) = ids
         /\ ~Contains(ids, id) => AddId(ids, id) = Append(ids, id)
<1> DEFINE more == Append(ids, id)
           n == Len(ids)
<1>1. n \in Nat /\ DOMAIN ids = 1 .. n
  BY LenProperties DEF Ids
<1>2. more \in Ids /\ Len(more) = n + 1 /\ more[n + 1] = id
      /\ \A i \in 1 .. n : more[i] = ids[i]
  BY AppendProperties DEF Ids
<1>3. DOMAIN more = 1 .. n + 1
  BY <1>2, LenProperties DEF Ids
<1> HIDE DEF more, n
<1>4. Contains(more, id)
  BY <1>1, <1>2, <1>3 DEF Contains
<1>5. ASSUME NEW x, Contains(ids, x) PROVE Contains(more, x)
  BY <1>1, <1>2, <1>3, <1>5 DEF Contains
<1>6. QED  BY <1>2, <1>4, <1>5 DEF AddId, more

\* The ids are added one by one, each once.
LEMMA AddedById ==
  ASSUME NEW ids \in Ids, NEW more \in Ids
  PROVE  /\ Added(ids, more)[0] = ids /\ Len(more) \in Nat
         /\ \A n \in 0 .. Len(more) : Added(ids, more)[n] \in Ids
         /\ \A n \in 1 .. Len(more) :
              more[n] \in IdLines
              /\ Added(ids, more)[n] = AddId(Added(ids, more)[n - 1], more[n])
<1> DEFINE k == Len(more)
           step == [z \in Ids \X (1 .. k) |-> AddId(z[1], more[z[2]])]
           Is(f) == f = [n \in 0 .. k |-> IF n = 0 THEN ids ELSE AddId(f[n - 1], more[n])]
<1>1. k \in Nat /\ \A n \in 1 .. k : more[n] \in IdLines
  BY LenProperties, ElementOfSeq DEF Ids
<1> HIDE DEF k
<1>2. step \in StepsOf(Ids, k)
  <2>1. ASSUME NEW z \in Ids \X (1 .. k) PROVE AddId(z[1], more[z[2]]) \in Ids
    BY <1>1, AddIdShape
  <2>2. QED  BY <2>1 DEF StepsOf
<1>3. \A x \in Ids, n \in 1 .. k : step[<<x, n>>] = AddId(x, more[n])
  OBVIOUS
<1> HIDE DEF step
<1>10. PICK f : IsRun(f, Ids, ids, k, step)
  BY <1>1, <1>2, Loop
<1>4. /\ f \in [0 .. k -> Ids] /\ f[0] = ids
      /\ \A n \in 1 .. k : f[n] = step[<<f[n - 1], n>>]
  BY <1>10 DEF IsRun
<1>5. \A n \in 1 .. k : f[n] = AddId(f[n - 1], more[n])
  <2>1. \A n \in 1 .. k : n - 1 \in 0 .. k
    BY <1>1
  <2>2. QED  BY <1>3, <1>4, <2>1
<1>6. Is(f)
  <2>1. \A n \in 0 .. k : f[n] = IF n = 0 THEN ids ELSE AddId(f[n - 1], more[n])
    <3>1. \A n \in 0 .. k : n # 0 => n \in 1 .. k
      BY <1>1
    <3>2. QED  BY <1>4, <1>5, <3>1
  <2>2. f = [n \in 0 .. k |-> f[n]]
    BY <1>4
  <2> DEFINE P(n) == IF n = 0 THEN ids ELSE AddId(f[n - 1], more[n])
  <2>3. \A n \in 0 .. k : f[n] = P(n)
    BY <2>1
  <2> HIDE DEF P
  <2>4. f = [n \in 0 .. k |-> P(n)]
    BY <2>2, <2>3
  <2>5. QED  BY <2>4 DEF P
<1> DEFINE g == Added(ids, more)
<1>7. Is(g)
  BY <1>6 DEF Added, k
<1>8. g[0] = ids /\ \A n \in 1 .. k : n \in 0 .. k /\ g[n] = AddId(g[n - 1], more[n])
  <2> HIDE DEF g
  <2>1. 0 \in 0 .. k /\ \A n \in 1 .. k : n # 0 /\ n \in 0 .. k
    BY <1>1
  <2>2. QED  BY <1>7, <2>1
<1>9. \A n \in 0 .. k : g[n] \in Ids
  <2> HIDE DEF g
  <2> DEFINE T == {n \in 0 .. k : g[n] \in Ids}
  <2>1. 0 \in T
    BY <1>1, <1>8
  <2>2. ASSUME NEW n \in 1 .. k, n - 1 \in T PROVE n \in T
    BY <1>1, <1>8, <2>2, AddIdShape
  <2> HIDE DEF T
  <2>3. \A n \in 0 .. k : n \in T
    BY <1>1, <2>1, <2>2, Stepwise
  <2>4. QED  BY <2>3 DEF T
<1>11. QED  BY <1>1, <1>8, <1>9 DEF k

\* One id more is one round more.
LEMMA AddIdsShape ==
  ASSUME NEW x \in Ids, NEW y \in Ids
  PROVE  /\ AddIds(x, y) \in Ids /\ AddIds(x, <<>>) = x
         /\ \A i \in 1 .. Len(y) : Contains(AddIds(x, y), y[i])
         /\ \A id \in IdLines : AddIds(x, Append(y, id)) = AddId(AddIds(x, y), id)
<1> DEFINE k == Len(y)
           f == Added(x, y)
<1>1. /\ f[0] = x /\ k \in Nat /\ \A n \in 0 .. k : f[n] \in Ids
      /\ \A n \in 1 .. k : y[n] \in IdLines /\ f[n] = AddId(f[n - 1], y[n])
  BY AddedById
<1> HIDE DEF f
<1>2. AddIds(x, y) = f[k]
  BY DEF AddIds, f
<1>3. AddIds(x, <<>>) = x
  <2>1. <<>> \in Ids /\ Len(<<>>) = 0
    BY DEF Ids
  <2>2. Added(x, <<>>)[0] = x
    BY <2>1, AddedById
  <2>3. QED  BY <2>1, <2>2 DEF AddIds
<1>4. \A n \in 0 .. k : \A i \in 1 .. n : Contains(f[n], y[i])
  <2> DEFINE T == {n \in 0 .. k : \A i \in 1 .. n : Contains(f[n], y[i])}
  <2>1. 0 \in T
    BY <1>1
  <2>2. ASSUME NEW n \in 1 .. k, n - 1 \in T PROVE n \in T
    <3>1. n - 1 \in 0 .. k /\ f[n - 1] \in Ids /\ y[n] \in IdLines
          /\ f[n] = AddId(f[n - 1], y[n])
      BY <1>1
    <3>2. Contains(f[n], y[n]) /\ \A e : Contains(f[n - 1], e) => Contains(f[n], e)
      BY <3>1, AddIdShape
    <3>3. ASSUME NEW i \in 1 .. n PROVE Contains(f[n], y[i])
      <4>1. i = n \/ i \in 1 .. n - 1
        OBVIOUS
      <4>2. QED  BY <2>2, <3>2, <4>1
    <3>4. QED  BY <3>3
  <2> HIDE DEF T
  <2>3. \A n \in 0 .. k : n \in T
    BY <1>1, <2>1, <2>2, Stepwise
  <2>4. QED  BY <2>3 DEF T
<1>5. ASSUME NEW id \in IdLines PROVE AddIds(x, Append(y, id)) = AddId(AddIds(x, y), id)
  <2> DEFINE z == Append(y, id)
             g == Added(x, z)
  <2>1. z \in Ids /\ Len(z) = k + 1 /\ z[k + 1] = id /\ \A i \in 1 .. k : z[i] = y[i]
    BY AppendProperties DEF Ids
  <2> HIDE DEF z
  <2>2. g[0] = x /\ \A n \in 1 .. Len(z) : g[n] = AddId(g[n - 1], z[n])
    BY <2>1, AddedById
  <2> HIDE DEF g
  <2> DEFINE T == {n \in 0 .. k : g[n] = f[n]}
  <2>3. 0 \in T
    BY <1>1, <2>2
  <2>4. ASSUME NEW n \in 1 .. k, n - 1 \in T PROVE n \in T
    <3>1. n \in 1 .. Len(z) /\ z[n] = y[n] /\ g[n - 1] = f[n - 1]
      BY <1>1, <2>1, <2>4
    <3>2. g[n] = AddId(g[n - 1], z[n]) /\ f[n] = AddId(f[n - 1], y[n])
      BY <1>1, <2>2, <3>1
    <3>3. QED  BY <3>1, <3>2
  <2> HIDE DEF T
  <2>5. \A n \in 0 .. k : n \in T
    BY <1>1, <2>3, <2>4, Stepwise
  <2>6. g[k] = f[k]
    BY <1>1, <2>5 DEF T
  <2>7. k + 1 \in 1 .. Len(z) /\ (k + 1) - 1 = k
    BY <1>1, <2>1
  <2>8. g[k + 1] = AddId(g[k], z[k + 1])
    BY <2>2, <2>7
  <2>9. AddIds(x, z) = g[k + 1]
    BY <2>1 DEF AddIds, g
  <2>10. QED  BY <1>2, <2>1, <2>6, <2>8, <2>9 DEF z
<1>6. AddIds(x, y) \in Ids /\ \A i \in 1 .. k : Contains(AddIds(x, y), y[i])
  BY <1>1, <1>2, <1>4
<1>7. QED  BY <1>3, <1>5, <1>6

LEMMA AddIdsMore ==
  ASSUME NEW x \in Ids, NEW y \in Ids, NEW id \in IdLines
  PROVE  AddIds(x, AddId(y, id)) = AddId(AddIds(x, y), id)
<1>1. CASE Contains(y, id)
  <2>1. PICK i \in 1 .. Len(y) : y[i] = id
    BY <1>1 DEF Contains
  <2>2. AddIds(x, y) \in Ids /\ Contains(AddIds(x, y), id)
    BY <2>1, AddIdsShape
  <2>3. AddId(y, id) = y /\ AddId(AddIds(x, y), id) = AddIds(x, y)
    BY <1>1, <2>2, AddIdShape
  <2>4. QED  BY <2>3
<1>2. CASE ~Contains(y, id)
  <2>1. AddId(y, id) = Append(y, id)
    BY <1>2, AddIdShape
  <2>2. QED  BY <2>1, AddIdsShape
<1>3. QED  BY <1>1, <1>2

LEMMA CiteShape ==
  ASSUME NEW c \in Citations, NEW l \in Symbols
  PROVE  /\ Cite(c, l) \in Citations
         /\ Cite(c, l).entries = IF IsEntry(l) THEN Append(c.entries, l) ELSE c.entries
         /\ Cite(c, l).ids = IF IsId(l) THEN AddId(c.ids, l) ELSE c.ids
<1> DEFINE e == IF IsEntry(l) THEN Append(c.entries, l) ELSE c.entries
           d == IF IsId(l) THEN AddId(c.ids, l) ELSE c.ids
<1>1. c.entries \in Seq(EntryLines) /\ c.ids \in Ids
  BY DEF Citations
<1>2. e \in Seq(EntryLines)
  BY <1>1 DEF IsEntry
<1>3. d \in Ids
  BY <1>1, AddIdShape DEF IsId
<1>4. Cite(c, l) = [entries |-> e, ids |-> d]
  BY DEF Cite
<1> HIDE DEF e, d
<1>5. Cite(c, l) \in Citations /\ Cite(c, l).entries = e /\ Cite(c, l).ids = d
  BY <1>2, <1>3, <1>4 DEF Citations
<1>6. QED  BY <1>5 DEF e, d

LEMMA MergeShape ==
  ASSUME NEW c \in Citations, NEW d \in Citations
  PROVE  /\ MergeMemoryCitations(c, d) \in Citations
         /\ MergeMemoryCitations(c, d).entries = c.entries \o d.entries
         /\ MergeMemoryCitations(c, d).ids = AddIds(c.ids, d.ids)
         /\ NoCitation \in Citations /\ MergeMemoryCitations(c, NoCitation) = c
<1> DEFINE e == c.entries \o d.entries
           i == AddIds(c.ids, d.ids)
<1>1. /\ c.entries \in Seq(EntryLines) /\ c.ids \in Ids
      /\ d.entries \in Seq(EntryLines) /\ d.ids \in Ids
      /\ c = [entries |-> c.entries, ids |-> c.ids]
  BY DEF Citations
<1>2. e \in Seq(EntryLines) /\ i \in Ids
  <2> DEFINE ce == c.entries
             de == d.entries
  <2>1. ce \in Seq(EntryLines) /\ de \in Seq(EntryLines)
    BY <1>1
  <2> HIDE DEF ce, de
  <2>2. ce \o de \in Seq(EntryLines)
    BY <2>1, ConcatProperties
  <2>3. i \in Ids
    BY <1>1, AddIdsShape
  <2>4. QED  BY <2>2, <2>3 DEF ce, de
<1>3. MergeMemoryCitations(c, d) = [entries |-> e, ids |-> i]
  BY DEF MergeMemoryCitations
<1>4. NoCitation \in Citations /\ NoCitation.entries = <<>> /\ NoCitation.ids = <<>>
  BY DEF NoCitation, Citations, Ids
<1>5. MergeMemoryCitations(c, NoCitation) = c
  <2>1. c.entries \o <<>> = c.entries /\ AddIds(c.ids, <<>>) = c.ids
    BY <1>1, ConcatEmptySeq, AddIdsShape
  <2>2. MergeMemoryCitations(c, NoCitation)
          = [entries |-> c.entries \o NoCitation.entries, ids |-> AddIds(c.ids, NoCitation.ids)]
    BY DEF MergeMemoryCitations
  <2>3. QED  BY <1>1, <1>4, <2>1, <2>2
<1> HIDE DEF e, i
<1>6. /\ MergeMemoryCitations(c, d) \in Citations
      /\ MergeMemoryCitations(c, d).entries = e /\ MergeMemoryCitations(c, d).ids = i
  BY <1>2, <1>3 DEF Citations
<1>7. QED  BY <1>4, <1>5, <1>6 DEF e, i

LEMMA SameCitation ==
  ASSUME NEW c \in Citations, NEW d \in Citations, c.entries = d.entries, c.ids = d.ids
  PROVE  c = d
<1>1. /\ c = [entries |-> c.entries, ids |-> c.ids]
      /\ d = [entries |-> d.entries, ids |-> d.ids]
  BY DEF Citations
<1>2. QED  BY <1>1

LEMMA MergeCite ==
  ASSUME NEW c \in Citations, NEW d \in Citations, NEW l \in Symbols
  PROVE  MergeMemoryCitations(c, Cite(d, l)) = Cite(MergeMemoryCitations(c, d), l)
<1> DEFINE m == MergeMemoryCitations(c, d)
           p == Cite(d, l)
           lhs == MergeMemoryCitations(c, p)
           rhs == Cite(m, l)
<1>1. /\ p \in Citations
      /\ p.entries = IF IsEntry(l) THEN Append(d.entries, l) ELSE d.entries
      /\ p.ids = IF IsId(l) THEN AddId(d.ids, l) ELSE d.ids
  BY CiteShape
<1>2. m \in Citations /\ m.entries = c.entries \o d.entries /\ m.ids = AddIds(c.ids, d.ids)
  BY MergeShape
<1> HIDE DEF p, m
<1>3. /\ lhs \in Citations
      /\ lhs.entries = c.entries \o p.entries /\ lhs.ids = AddIds(c.ids, p.ids)
  BY <1>1, MergeShape
<1>4. /\ rhs \in Citations
      /\ rhs.entries = IF IsEntry(l) THEN Append(m.entries, l) ELSE m.entries
      /\ rhs.ids = IF IsId(l) THEN AddId(m.ids, l) ELSE m.ids
  BY <1>2, CiteShape
<1>5. /\ c.entries \in Seq(EntryLines) /\ c.ids \in Ids
      /\ d.entries \in Seq(EntryLines) /\ d.ids \in Ids
  BY DEF Citations
<1> HIDE DEF lhs, rhs
<1>6. lhs.entries = rhs.entries
  <2>1. CASE IsEntry(l)
    <3> DEFINE ce == c.entries
               de == d.entries
    <3>1. ce \in Seq(EntryLines) /\ de \in Seq(EntryLines) /\ l \in EntryLines
      BY <1>5, <2>1 DEF IsEntry
    <3> HIDE DEF ce, de
    <3>2. ce \o Append(de, l) = Append(ce \o de, l)
      BY <3>1
    <3>3. QED  BY <1>1, <1>2, <1>3, <1>4, <2>1, <3>2 DEF ce, de
  <2>2. CASE ~IsEntry(l)
    BY <1>1, <1>2, <1>3, <1>4, <2>2
  <2>3. QED  BY <2>1, <2>2
<1>7. lhs.ids = rhs.ids
  <2>1. CASE IsId(l)
    <3>1. AddIds(c.ids, AddId(d.ids, l)) = AddId(AddIds(c.ids, d.ids), l)
      BY <1>5, <2>1, AddIdsMore DEF IsId
    <3>2. QED  BY <1>1, <1>2, <1>3, <1>4, <2>1, <3>1
  <2>2. CASE ~IsId(l)
    BY <1>1, <1>2, <1>3, <1>4, <2>2
  <2>3. QED  BY <2>1, <2>2
<1>8. lhs = rhs
  BY <1>3, <1>4, <1>6, <1>7, SameCitation
<1>9. QED  BY <1>8 DEF lhs, rhs, m, p

\* A body is cited line by line.
LEMMA LinesByLine ==
  ASSUME NEW c \in Citations, NEW b \in Texts
  PROVE  /\ CiteLines(c, b)[0] = c /\ Len(b) \in Nat
         /\ \A n \in 0 .. Len(b) : CiteLines(c, b)[n] \in Citations
         /\ \A n \in 1 .. Len(b) :
              b[n] \in Symbols
              /\ CiteLines(c, b)[n] = Cite(CiteLines(c, b)[n - 1], b[n])
<1> DEFINE k == Len(b)
           step == [z \in Citations \X (1 .. k) |-> Cite(z[1], b[z[2]])]
           Is(f) == f = [n \in 0 .. k |-> IF n = 0 THEN c ELSE Cite(f[n - 1], b[n])]
<1>0. c \in Citations
  OBVIOUS
<1>1. k \in Nat /\ \A n \in 1 .. k : b[n] \in Symbols
  BY LenProperties, ElementOfSeq DEF Texts
<1> HIDE DEF k
<1>2. step \in StepsOf(Citations, k)
  <2>1. ASSUME NEW z \in Citations \X (1 .. k) PROVE Cite(z[1], b[z[2]]) \in Citations
    BY <1>1, CiteShape
  <2>2. QED  BY <2>1 DEF StepsOf
<1>3. \A x \in Citations, n \in 1 .. k : step[<<x, n>>] = Cite(x, b[n])
  OBVIOUS
<1> HIDE DEF step
<1>4. PICK f : IsRun(f, Citations, c, k, step)
  BY <1>0, <1>1, <1>2, Loop
<1>5. /\ f \in [0 .. k -> Citations] /\ f[0] = c
      /\ \A n \in 1 .. k : f[n] = step[<<f[n - 1], n>>]
  BY <1>4 DEF IsRun
<1>6. \A n \in 1 .. k : f[n] = Cite(f[n - 1], b[n])
  <2>1. \A n \in 1 .. k : n - 1 \in 0 .. k
    BY <1>1
  <2>2. QED  BY <1>3, <1>5, <2>1
<1>7. Is(f)
  <2> DEFINE P(n) == IF n = 0 THEN c ELSE Cite(f[n - 1], b[n])
  <2>1. \A n \in 0 .. k : f[n] = P(n)
    <3>1. \A n \in 0 .. k : n # 0 => n \in 1 .. k
      BY <1>1
    <3>2. QED  BY <1>5, <1>6, <3>1
  <2>2. f = [n \in 0 .. k |-> f[n]]
    BY <1>5
  <2> HIDE DEF P
  <2>3. f = [n \in 0 .. k |-> P(n)]
    BY <2>1, <2>2
  <2>4. QED  BY <2>3 DEF P
<1> DEFINE g == CiteLines(c, b)
<1>8. Is(g)
  BY <1>7 DEF CiteLines, k
<1>9. g[0] = c /\ \A n \in 1 .. k : n \in 0 .. k /\ g[n] = Cite(g[n - 1], b[n])
  <2> HIDE DEF g
  <2>1. 0 \in 0 .. k /\ \A n \in 1 .. k : n # 0 /\ n \in 0 .. k
    BY <1>1
  <2>2. QED  BY <1>8, <2>1
<1>10. \A n \in 0 .. k : g[n] \in Citations
  <2> HIDE DEF g
  <2> DEFINE T == {n \in 0 .. k : g[n] \in Citations}
  <2>1. 0 \in T
    BY <1>0, <1>1, <1>9
  <2>2. ASSUME NEW n \in 1 .. k, n - 1 \in T PROVE n \in T
    BY <1>1, <1>9, <2>2, CiteShape
  <2> HIDE DEF T
  <2>3. \A n \in 0 .. k : n \in T
    BY <1>1, <2>1, <2>2, Stepwise
  <2>4. QED  BY <2>3 DEF T
<1>11. QED  BY <1>1, <1>9, <1>10 DEF k

\* A body cited behind c and d is cited behind d alone.
LEMMA MergeBody ==
  ASSUME NEW c \in Citations, NEW b \in Texts
  PROVE  /\ CiteBody(c, b) \in Citations
         /\ \A d \in Citations : MergeMemoryCitations(c, CiteBody(d, b))
                                   = CiteBody(MergeMemoryCitations(c, d), b)
<1> DEFINE k == Len(b)
<1>1. k \in Nat /\ CiteLines(c, b)[k] \in Citations
  <2>1. Len(b) \in Nat /\ \A n \in 0 .. Len(b) : CiteLines(c, b)[n] \in Citations
    BY LinesByLine
  <2>2. QED  BY <2>1
<1>2. ASSUME NEW d \in Citations
      PROVE  MergeMemoryCitations(c, CiteBody(d, b)) = CiteBody(MergeMemoryCitations(c, d), b)
  <2> DEFINE m == MergeMemoryCitations(c, d)
             f == CiteLines(d, b)
             g == CiteLines(m, b)
             T == {n \in 0 .. k : MergeMemoryCitations(c, f[n]) = g[n]}
  <2>1. m \in Citations
    BY MergeShape
  <2> HIDE DEF m
  <2>2. f[0] = d /\ (\A n \in 0 .. k : f[n] \in Citations)
        /\ \A n \in 1 .. k : b[n] \in Symbols /\ f[n] = Cite(f[n - 1], b[n])
    BY LinesByLine
  <2>3. g[0] = m /\ \A n \in 1 .. k : g[n] = Cite(g[n - 1], b[n])
    BY <2>1, LinesByLine
  <2> HIDE DEF f, g, k
  <2>4. 0 \in T
    BY <1>1, <2>2, <2>3 DEF m
  <2>5. ASSUME NEW n \in 1 .. k, n - 1 \in T PROVE n \in T
    <3>1. n - 1 \in 0 .. k /\ n \in 0 .. k
      BY <1>1
    <3>2. f[n - 1] \in Citations /\ b[n] \in Symbols /\ f[n] = Cite(f[n - 1], b[n])
      BY <2>2, <3>1
    <3>3. MergeMemoryCitations(c, f[n]) = Cite(MergeMemoryCitations(c, f[n - 1]), b[n])
      BY <3>2, MergeCite
    <3>4. MergeMemoryCitations(c, f[n - 1]) = g[n - 1]
      BY <2>5
    <3>5. QED  BY <2>3, <3>1, <3>3, <3>4
  <2> HIDE DEF T
  <2>6. k \in T
    <3>1. \A n \in 0 .. k : n \in T
      BY <1>1, <2>4, <2>5, Stepwise
    <3>2. QED  BY <1>1, <3>1
  <2>7. MergeMemoryCitations(c, f[k]) = g[k]
    BY <2>6 DEF T
  <2>8. QED  BY <2>7 DEF CiteBody, f, g, k, m
<1>3. QED  BY <1>1, <1>2 DEF CiteBody

\* Bodies are cited one by one.
LEMMA BodiesByBody ==
  ASSUME NEW s \in Seq(Texts)
  PROVE  /\ CiteBodies(s)[0] = NoCitation /\ Len(s) \in Nat
         /\ \A n \in 0 .. Len(s) : CiteBodies(s)[n] \in Citations
         /\ \A n \in 1 .. Len(s) :
              s[n] \in Texts
              /\ CiteBodies(s)[n] = CiteBody(CiteBodies(s)[n - 1], s[n])
<1> DEFINE k == Len(s)
           step == [z \in Citations \X (1 .. k) |-> CiteBody(z[1], s[z[2]])]
           Is(f) == f = [n \in 0 .. k |-> IF n = 0 THEN NoCitation ELSE CiteBody(f[n - 1], s[n])]
<1>0. NoCitation \in Citations
  BY DEF NoCitation, Citations, Ids
<1>1. k \in Nat /\ \A n \in 1 .. k : s[n] \in Texts
  BY LenProperties, ElementOfSeq
<1> HIDE DEF k
<1>2. step \in StepsOf(Citations, k)
  <2>1. ASSUME NEW z \in Citations \X (1 .. k) PROVE CiteBody(z[1], s[z[2]]) \in Citations
    BY <1>1, MergeBody
  <2>2. QED  BY <2>1 DEF StepsOf
<1>3. \A x \in Citations, n \in 1 .. k : step[<<x, n>>] = CiteBody(x, s[n])
  OBVIOUS
<1> HIDE DEF step
<1>4. PICK f : IsRun(f, Citations, NoCitation, k, step)
  BY <1>0, <1>1, <1>2, Loop
<1>5. /\ f \in [0 .. k -> Citations] /\ f[0] = NoCitation
      /\ \A n \in 1 .. k : f[n] = step[<<f[n - 1], n>>]
  BY <1>4 DEF IsRun
<1>6. \A n \in 1 .. k : f[n] = CiteBody(f[n - 1], s[n])
  <2>1. \A n \in 1 .. k : n - 1 \in 0 .. k
    BY <1>1
  <2>2. QED  BY <1>3, <1>5, <2>1
<1>7. Is(f)
  <2> DEFINE P(n) == IF n = 0 THEN NoCitation ELSE CiteBody(f[n - 1], s[n])
  <2>1. \A n \in 0 .. k : f[n] = P(n)
    <3>1. \A n \in 0 .. k : n # 0 => n \in 1 .. k
      BY <1>1
    <3>2. QED  BY <1>5, <1>6, <3>1
  <2>2. f = [n \in 0 .. k |-> f[n]]
    BY <1>5
  <2> HIDE DEF P
  <2>3. f = [n \in 0 .. k |-> P(n)]
    BY <2>1, <2>2
  <2>4. QED  BY <2>3 DEF P
<1> DEFINE g == CiteBodies(s)
<1>8. Is(g)
  BY <1>7 DEF CiteBodies, k
<1>9. g[0] = NoCitation /\ \A n \in 1 .. k : n \in 0 .. k /\ g[n] = CiteBody(g[n - 1], s[n])
  <2> HIDE DEF g
  <2>1. 0 \in 0 .. k /\ \A n \in 1 .. k : n # 0 /\ n \in 0 .. k
    BY <1>1
  <2>2. QED  BY <1>8, <2>1
<1>10. \A n \in 0 .. k : g[n] \in Citations
  <2> HIDE DEF g
  <2> DEFINE T == {n \in 0 .. k : g[n] \in Citations}
  <2>1. 0 \in T
    BY <1>0, <1>1, <1>9
  <2>2. ASSUME NEW n \in 1 .. k, n - 1 \in T PROVE n \in T
    BY <1>1, <1>9, <2>2, MergeBody
  <2> HIDE DEF T
  <2>3. \A n \in 0 .. k : n \in T
    BY <1>1, <2>1, <2>2, Stepwise
  <2>4. QED  BY <2>3 DEF T
<1>11. QED  BY <1>1, <1>9, <1>10 DEF k

\* Bodies parsed apart and merged are the bodies parsed together.
LEMMA ParseJoined ==
  ASSUME NEW s \in Seq(Texts), NEW t \in Seq(Texts)
  PROVE  /\ ParseMemoryCitation(s) \in Citations /\ s \o t \in Seq(Texts)
         /\ MergeMemoryCitations(ParseMemoryCitation(s), ParseMemoryCitation(t))
              = ParseMemoryCitation(s \o t)
<1> DEFINE st == s \o t
           n == Len(s)
           k == Len(t)
           c == CiteBodies(s)[n]
           f == CiteBodies(s)
           g == CiteBodies(t)
           h == CiteBodies(st)
<1>1. /\ st \in Seq(Texts) /\ n \in Nat /\ k \in Nat /\ Len(st) = n + k
      /\ \A i \in 1 .. n + k : st[i] = IF i <= n THEN s[i] ELSE t[i - n]
  BY ConcatLists
<1> HIDE DEF st
<1>2. f[0] = NoCitation /\ (\A i \in 0 .. n : f[i] \in Citations)
      /\ \A i \in 1 .. n : f[i] = CiteBody(f[i - 1], s[i])
  BY BodiesByBody
<1>3. g[0] = NoCitation /\ (\A i \in 0 .. k : g[i] \in Citations)
      /\ \A i \in 1 .. k : t[i] \in Texts /\ g[i] = CiteBody(g[i - 1], t[i])
  BY BodiesByBody
<1>4. h[0] = NoCitation /\ \A i \in 1 .. Len(st) : h[i] = CiteBody(h[i - 1], st[i])
  BY <1>1, BodiesByBody
<1>5. c = f[n] /\ c \in Citations
  BY <1>1, <1>2
<1>6. ParseMemoryCitation(s) = c /\ ParseMemoryCitation(t) = g[k]
      /\ ParseMemoryCitation(st) = h[n + k]
  BY <1>1 DEF ParseMemoryCitation
<1> HIDE DEF f, g, h, n, k, c
<1>7. h[n] = c
  <2> DEFINE T == {i \in 0 .. n : h[i] = f[i]}
  <2>1. 0 \in T
    BY <1>1, <1>2, <1>4
  <2>2. ASSUME NEW i \in 1 .. n, i - 1 \in T PROVE i \in T
    <3>1. i \in 1 .. Len(st) /\ st[i] = s[i] /\ h[i - 1] = f[i - 1]
      <4>1. i \in 1 .. n + k /\ i <= n
        BY <1>1
      <4>2. QED  BY <1>1, <2>2, <4>1
    <3>2. h[i] = CiteBody(h[i - 1], st[i]) /\ f[i] = CiteBody(f[i - 1], s[i])
      BY <1>2, <1>4, <3>1
    <3>3. QED  BY <3>1, <3>2
  <2> HIDE DEF T
  <2>3. \A i \in 0 .. n : i \in T
    BY <1>1, <2>1, <2>2, Stepwise
  <2>4. n \in T
    BY <1>1, <2>3
  <2>5. QED  BY <1>5, <2>4 DEF T
<1>8. h[n + k] = MergeMemoryCitations(c, g[k])
  <2> DEFINE T == {i \in 0 .. k : h[n + i] = MergeMemoryCitations(c, g[i])}
  <2>1. 0 \in T
    <3>1. n + 0 = n
      BY <1>1
    <3>2. MergeMemoryCitations(c, NoCitation) = c
      BY <1>5, MergeShape
    <3>3. QED  BY <1>1, <1>3, <1>7, <3>1, <3>2
  <2>2. ASSUME NEW i \in 1 .. k, i - 1 \in T PROVE i \in T
    <3>1. n + i \in 1 .. Len(st) /\ st[n + i] = t[i] /\ (n + i) - 1 = n + (i - 1)
      <4> DEFINE j == n + i
      <4>1. j \in 1 .. n + k /\ ~(j <= n) /\ j - n = i /\ j - 1 = n + (i - 1)
        BY <1>1
      <4> HIDE DEF j
      <4>2. j \in 1 .. Len(st) /\ st[j] = t[i] /\ j - 1 = n + (i - 1)
        BY <1>1, <4>1
      <4>3. QED  BY <4>2 DEF j
    <3>2. h[n + i] = CiteBody(h[n + (i - 1)], t[i])
      BY <1>4, <3>1
    <3>3. h[n + (i - 1)] = MergeMemoryCitations(c, g[i - 1])
      BY <2>2
    <3>4. i - 1 \in 0 .. k /\ g[i - 1] \in Citations /\ t[i] \in Texts
          /\ g[i] = CiteBody(g[i - 1], t[i])
      BY <1>1, <1>3
    <3>5. MergeMemoryCitations(c, CiteBody(g[i - 1], t[i]))
            = CiteBody(MergeMemoryCitations(c, g[i - 1]), t[i])
      BY <1>5, <3>4, MergeBody
    <3>6. QED  BY <3>2, <3>3, <3>4, <3>5
  <2> HIDE DEF T
  <2>3. \A i \in 0 .. k : i \in T
    BY <1>1, <2>1, <2>2, Stepwise
  <2>4. k \in T
    BY <1>1, <2>3
  <2>5. QED  BY <2>4 DEF T
<1>9. QED  BY <1>1, <1>5, <1>6, <1>8 DEF st

\* Without the parts of its state that it does not keep between chunks.
LEMMA ReadsAgain ==
  ASSUME NEW q \in PStates, NEW r, NEW shown, NEW cited, Reads(q, r, shown, cited)
  PROVE  LET p == [pending |-> q.pending, body |-> q.body, inCitation |-> q.inCitation] IN
         /\ p \in Parsers /\ Tag(p) = Tag(q) /\ p.pending = q.pending
         /\ Reads(p, r, shown, cited)
<1> DEFINE p == [pending |-> q.pending, body |-> q.body, inCitation |-> q.inCitation]
<1>1. /\ p.pending = q.pending /\ p.body = q.body /\ p.inCitation = q.inCitation
      /\ p \in Parsers
  BY DEF PStates, Parsers
<1> HIDE DEF p
<1>2. Tag(p) = Tag(q) /\ \A u, k : After(p, u, k) = After(q, u, k)
  BY <1>1 DEF Tag, After
<1>3. Reads(p, r, shown, cited)
  BY <1>1, <1>2 DEF Reads
<1>4. QED  BY <1>1, <1>2, <1>3 DEF p

\* A chunk of a text.
LEMMA PushReads ==
  ASSUME tags \in Marks, NEW p \in Parsers, NEW r \in Texts, NEW more \in Texts,
         NEW shown \in Texts, NEW cited \in Seq(Texts), Reads(p, r, shown, cited)
  PROVE  LET chunk == Push(p, more) IN
         /\ chunk.parser \in Parsers /\ Len(chunk.parser.pending) < Len(Tag(chunk.parser))
         /\ r \o more \in Texts /\ chunk.visible \in Texts
         /\ \E bodies \in Seq(Texts) :
              /\ chunk.citation = ParseMemoryCitation(bodies)
              /\ Reads(chunk.parser, r \o more, shown \o chunk.visible, cited \o bodies)
<1> DEFINE start == [pending |-> p.pending \o more, body |-> p.body, visible |-> <<>>,
                     citations |-> <<>>, inCitation |-> p.inCitation]
           text2 == r \o more
           q == Drain(start, FALSE)
           after == [pending |-> q.pending, body |-> q.body, inCitation |-> q.inCitation]
           chunk == Push(p, more)
<1>1. /\ text2 \in Texts /\ start \in PStates
      /\ Reads(start, text2, shown \o start.visible, cited \o start.citations)
  BY MoreToRead
<1>2. chunk = [parser |-> after, visible |-> q.visible,
               citation |-> ParseMemoryCitation(q.citations)]
  BY DEF Push, Chunked
<1> HIDE DEF start, text2
<1>3. /\ q \in PStates /\ Len(q.pending) < Len(Tag(q))
      /\ Reads(q, text2, shown \o q.visible, cited \o q.citations)
  BY <1>1, DrainReads
<1> HIDE DEF q
<1>4. /\ after \in Parsers /\ Tag(after) = Tag(q) /\ after.pending = q.pending
      /\ Reads(after, text2, shown \o q.visible, cited \o q.citations)
  BY <1>3, ReadsAgain
<1>5. q.visible \in Texts /\ q.citations \in Seq(Texts)
  BY <1>3 DEF PStates
<1>6. /\ chunk.parser = after /\ chunk.visible = q.visible
      /\ chunk.citation = ParseMemoryCitation(q.citations)
  BY <1>2
<1> HIDE DEF after, chunk
<1>7. QED  BY <1>1, <1>3, <1>4, <1>5, <1>6 DEF text2, chunk

\* The end of a text.
LEMMA FinishReads ==
  ASSUME tags \in Marks, NEW p \in Parsers, NEW r \in Texts,
         NEW shown \in Texts, NEW cited \in Seq(Texts), Reads(p, r, shown, cited)
  PROVE  LET tail == Finish(p) IN
         /\ tail.visible \in Texts /\ shown \o tail.visible = Reference(r).visible
         /\ \E bodies \in Seq(Texts) :
              /\ tail.citation = ParseMemoryCitation(bodies)
              /\ cited \o bodies = Reference(r).bodies
<1> DEFINE none == <<>>
           start == [pending |-> p.pending \o none, body |-> p.body, visible |-> <<>>,
                     citations |-> <<>>, inCitation |-> p.inCitation]
           q == Drain(start, TRUE)
           tail == Finish(p)
<1>1. none \in Texts /\ r \o none = r
  <2>1. none \in Texts
    BY DEF Texts
  <2>2. QED  BY <2>1, ConcatTexts
<1>2. tail.visible = q.visible /\ tail.citation = ParseMemoryCitation(q.citations)
  BY DEF Finish, Chunked
<1> HIDE DEF none
<1>3. /\ r \o none \in Texts /\ start \in PStates
      /\ Reads(start, r \o none, shown \o start.visible, cited \o start.citations)
  BY <1>1, MoreToRead
<1> HIDE DEF start
<1>4. start \in PStates /\ Reads(start, r, shown \o start.visible, cited \o start.citations)
  BY <1>1, <1>3
<1>5. /\ q.visible \in Texts /\ q.citations \in Seq(Texts)
      /\ shown \o q.visible = Reference(r).visible
      /\ cited \o q.citations = Reference(r).bodies
  BY <1>4, DrainEnds
<1> HIDE DEF q, tail
<1>6. QED  BY <1>2, <1>5 DEF tail

\* Before the first chunk.
LEMMA NewReads ==
  ASSUME tags \in Marks
  PROVE  /\ NewParser \in Parsers /\ <<>> \in Texts /\ <<>> \in Seq(Texts)
         /\ Len(NewParser.pending) < Len(Tag(NewParser))
         /\ Reads(NewParser, <<>>, <<>>, <<>>)
         /\ ParseMemoryCitation(<<>>) = NoCitation
<1> DEFINE e == <<>>
<1>1. e \in Texts /\ e \in Seq(Texts) /\ Len(e) = 0
  BY DEF Texts
<1>2. /\ NewParser.pending = e /\ NewParser.body = e /\ NewParser.inCitation = FALSE
      /\ NewParser \in Parsers
  BY <1>1 DEF NewParser, Parsers
<1>3. Tag(NewParser) = tags.open /\ tags.open \in Texts \ {e}
  BY <1>2 DEF Tag, Marks
<1>4. Len(tags.open) \in Nat \ {0}
  <2> DEFINE o == tags.open
  <2>1. o \in Texts \ {<<>>}
    BY <1>3
  <2> HIDE DEF o
  <2>2. Len(o) \in Nat \ {0}
    BY <2>1, EmptySeq DEF Texts
  <2>3. QED  BY <2>2 DEF o
<1>5. ParseMemoryCitation(e) = NoCitation
  <2> HIDE DEF e
  <2>1. CiteBodies(e)[0] = NoCitation
    BY <1>1, BodiesByBody
  <2>2. QED  BY <1>1, <2>1 DEF ParseMemoryCitation
<1>6. Reads(NewParser, e, e, e)
  <2>1. Ends(e, e)
    BY <1>1 DEF Ends
  <2>2. ASSUME NEW u, Extends(u, e)
        PROVE  /\ Shown(tags, u)[1].visible = e \o Shown(tags, u)[1].visible
               /\ Shown(tags, u)[1].bodies = e \o Shown(tags, u)[1].bodies
    <3>1. u \in Texts
      BY <2>2 DEF Extends
    <3>2. Len(u) \in Nat
      BY <3>1, LenProperties DEF Texts
    <3>3. Shown(tags, u)[1] \in Results
      BY <3>1, <3>2, ShownTyped
    <3> DEFINE v == Shown(tags, u)[1].visible
               b == Shown(tags, u)[1].bodies
    <3>4. v \in Texts /\ b \in Seq(Texts)
      BY <3>3 DEF Results
    <3> HIDE DEF v, b
    <3>5. <<>> \o v = v /\ <<>> \o b = b
      BY <3>4, ConcatTexts, ConcatLists
    <3>6. QED  BY <3>5 DEF v, b
  <2> HIDE DEF e
  <2>3. \A u : After(NewParser, u, Len(e) - Len(NewParser.pending) + 1) = Shown(tags, u)[1]
    <3>1. Len(e) - Len(NewParser.pending) + 1 = 1
      BY <1>1, <1>2
    <3>2. QED  BY <1>2, <3>1 DEF After
  <2>4. NewParser.pending = e /\ (~NewParser.inCitation => NewParser.body = <<>>)
    BY <1>2 DEF e
  <2>5. ASSUME NEW u, Extends(u, e)
        PROVE  LET rest == After(NewParser, u, Len(e) - Len(NewParser.pending) + 1) IN
               /\ Shown(tags, u)[1].visible = e \o rest.visible
               /\ Shown(tags, u)[1].bodies = e \o rest.bodies
    <3> DEFINE rest == After(NewParser, u, Len(e) - Len(NewParser.pending) + 1)
    <3>1. rest = Shown(tags, u)[1]
      BY <2>3
    <3> HIDE DEF rest
    <3>2. QED  BY <2>2, <2>5, <3>1 DEF rest
  <2>6. QED  BY <2>1, <2>4, <2>5 DEF Reads
<1>7. QED  BY <1>1, <1>2, <1>3, <1>4, <1>5, <1>6

\* StripMemoryCitations reads a whole text: the parser of a single chunk.
LEMMA StripReads ==
  ASSUME tags \in Marks, NEW r \in Texts
  PROVE  LET item == StripMemoryCitations(r) IN
         /\ item.visible = Reference(r).visible
         /\ item.citation = ParseMemoryCitation(Reference(r).bodies)
         /\ Reference(r).visible \in Texts /\ Reference(r).bodies \in Seq(Texts)
<1> DEFINE none == <<>>
           chunk == Push(NewParser, r)
           tail == Finish(chunk.parser)
<1>1. /\ none \in Texts /\ none \in Seq(Texts) /\ NewParser \in Parsers
      /\ Reads(NewParser, none, none, none)
  BY NewReads
<1> HIDE DEF none
<1>2. none \o r = r /\ \A s \in Texts : none \o s = s
  BY ConcatTexts DEF none
<1>3. \A s \in Seq(Texts) : none \o s = s
  BY ConcatLists DEF none
<1>4. /\ chunk.parser \in Parsers /\ chunk.visible \in Texts
      /\ \E bodies \in Seq(Texts) :
           /\ chunk.citation = ParseMemoryCitation(bodies)
           /\ Reads(chunk.parser, none \o r, none \o chunk.visible, none \o bodies)
  BY <1>1, PushReads
<1>5. PICK bodies \in Seq(Texts) :
        /\ chunk.citation = ParseMemoryCitation(bodies)
        /\ Reads(chunk.parser, r, chunk.visible, bodies)
  BY <1>2, <1>3, <1>4
<1>6. StripMemoryCitations(r)
        = [visible |-> chunk.visible \o tail.visible,
           citation |-> MergeMemoryCitations(chunk.citation, tail.citation)]
  BY DEF StripMemoryCitations
<1> HIDE DEF chunk
<1>7. /\ tail.visible \in Texts /\ chunk.visible \o tail.visible = Reference(r).visible
      /\ \E more \in Seq(Texts) : /\ tail.citation = ParseMemoryCitation(more)
                                  /\ bodies \o more = Reference(r).bodies
  BY <1>4, <1>5, FinishReads
<1>8. PICK more \in Seq(Texts) : /\ tail.citation = ParseMemoryCitation(more)
                                 /\ bodies \o more = Reference(r).bodies
  BY <1>7
<1> HIDE DEF tail
<1>9. /\ MergeMemoryCitations(ParseMemoryCitation(bodies), ParseMemoryCitation(more))
           = ParseMemoryCitation(bodies \o more)
      /\ bodies \o more \in Seq(Texts)
  BY ParseJoined
<1>10. chunk.visible \o tail.visible \in Texts
  BY <1>4, <1>7, ConcatTexts
<1>11. QED  BY <1>5, <1>6, <1>7, <1>8, <1>9, <1>10

-----------------------------------------------------------------------------
(***************************************************************************)
(* Assistant text: the messages of an attempt.                             *)
(***************************************************************************)
Messages == [content : Texts, seen : Texts, citation : Citations]

\* A message says what the whole text t says.
Tells(m, t) ==
  /\ m.content = Reference(t).visible /\ m.seen = Reference(t).visible
  /\ m.citation = ParseMemoryCitation(Reference(t).bodies)

Streams == \A i \in DOMAIN messages : Tells(messages[i], raws[i])

\* The locals of receiveSamplingAttempt agree with the text sent so far.
ReadSoFar ==
  \E cited \in Seq(Texts) : Reads(parser, raw, text, cited)
                            /\ citation = ParseMemoryCitation(cited)

TextTyped ==
  /\ tags \in TagChoices
  /\ parser \in Parsers /\ Len(parser.pending) < Len(Tag(parser))
  /\ text \in Texts /\ citation \in Citations
  /\ messages \in Seq(Messages)
  /\ phase \in {"receiving", "completed", "failed"}

TextInv ==
  /\ TextTyped
  /\ raw \in Texts /\ raws \in Seq(Texts) /\ Len(raws) = Len(messages)
  /\ phase = "receiving" => ReadSoFar
  /\ Streams

LEMMA TagsAreMarks ==
  ASSUME tags \in TagChoices
  PROVE  tags \in Marks
BY TextAssumption DEF TextAssumption, Marks, Texts

LEMMA ChunksAreTexts == Chunks \subseteq Texts
<1>1. SUFFICES ASSUME NEW n \in 1 .. MaxChunk, NEW c \in [1 .. n -> Symbols]
               PROVE  c \in Seq(Symbols)
  BY DEF Chunks, Texts
<1>2. n \in Nat
  BY TextAssumption DEF TextAssumption
<1>3. QED  BY <1>1, <1>2

\* What is shorter than a tag has none.
LEMMA ShortHasNone ==
  ASSUME NEW s \in Texts, NEW tag \in Texts \ {<<>>}, Len(s) < Len(tag)
  PROVE  IndexOf(s, tag) = 0
<1> DEFINE i == IndexOf(s, tag)
<1>1. i \in Nat /\ (i > 0 => Begins(s, tag, i))
  BY IndexOfFirst
<1>2. Len(s) \in Nat /\ Len(tag) \in Nat
  BY LenProperties DEF Texts
<1> HIDE DEF i
<1>3. i > 0 => FALSE
  BY <1>1, <1>2 DEF Begins
<1>4. i = 0
  BY <1>1, <1>3
<1>5. QED  BY <1>4 DEF i

\* The text that is left out shows nothing.
LEMMA NothingShown ==
  ASSUME tags \in Marks
  PROVE  Reference(<<>>).visible = <<>> /\ Reference(<<>>).bodies = <<>>
<1> DEFINE none == <<>>
           p == NewParser
<1>1. /\ p \in Parsers /\ none \in Texts /\ Len(p.pending) < Len(Tag(p))
      /\ Reads(p, none, none, none)
  BY NewReads
<1>2. p.pending = none /\ p.inCitation = FALSE
  BY DEF NewParser
<1> HIDE DEF p
<1>3. IsParser(p)
  BY <1>1 DEF IsParser, Parsers
<1>4. IndexOf(p.pending, Tag(p)) = 0
  <2>1. Tag(p) \in Texts \ {<<>>} /\ p.pending \in Texts
    BY <1>3, TagOf DEF IsParser
  <2>2. QED  BY <1>1, <2>1, ShortHasNone
<1>5. Ends(p.pending, none)
  BY <1>1 DEF Reads
<1>6. /\ After(p, none, Len(none) - Len(p.pending) + 1).visible = none
      /\ After(p, none, Len(none) - Len(p.pending) + 1).bodies = <<>>
  <2> HIDE DEF none
  <2>1. QED  BY <1>1, <1>2, <1>3, <1>4, <1>5, AtEnd
<1>7. Len(none) - Len(p.pending) + 1 = 1
  <2>1. Len(none) = 0
    OBVIOUS
  <2>2. QED  BY <1>2, <2>1
<1>8. After(p, none, 1) = Reference(none)
  BY <1>2 DEF After, Reference
<1>9. QED  BY <1>6, <1>7, <1>8

\* The message of the text that has been streamed.
LEMMA EndMatches ==
  ASSUME TextInv, phase = "receiving"
  PROVE  LET tail == Finish(parser)
             streamed == text \o tail.visible
             cited == MergeMemoryCitations(citation, tail.citation) IN
         /\ streamed \in Texts /\ streamed = Reference(raw).visible
         /\ cited \in Citations /\ cited = ParseMemoryCitation(Reference(raw).bodies)
<1> DEFINE tail == Finish(parser)
<1>1. /\ tags \in Marks /\ parser \in Parsers /\ raw \in Texts /\ text \in Texts
  BY TagsAreMarks DEF TextInv, TextTyped
<1>2. PICK cited \in Seq(Texts) : Reads(parser, raw, text, cited)
                                  /\ citation = ParseMemoryCitation(cited)
  BY DEF TextInv, ReadSoFar
<1>3. /\ tail.visible \in Texts /\ text \o tail.visible = Reference(raw).visible
      /\ \E bodies \in Seq(Texts) : /\ tail.citation = ParseMemoryCitation(bodies)
                                    /\ cited \o bodies = Reference(raw).bodies
  BY <1>1, <1>2, FinishReads
<1>4. PICK bodies \in Seq(Texts) : /\ tail.citation = ParseMemoryCitation(bodies)
                                   /\ cited \o bodies = Reference(raw).bodies
  BY <1>3
<1> HIDE DEF tail
<1>5. /\ MergeMemoryCitations(ParseMemoryCitation(cited), ParseMemoryCitation(bodies))
           = ParseMemoryCitation(cited \o bodies)
      /\ cited \o bodies \in Seq(Texts)
  BY ParseJoined
<1>6. ParseMemoryCitation(cited \o bodies) \in Citations
  <2> DEFINE all == cited \o bodies
  <2>1. all \in Seq(Texts)
    BY <1>5
  <2> HIDE DEF all
  <2>2. ParseMemoryCitation(all) \in Citations
    BY <2>1, ParseJoined
  <2>3. QED  BY <2>2 DEF all
<1>7. text \o tail.visible \in Texts
  BY <1>1, <1>3, ConcatTexts
<1>8. QED  BY <1>2, <1>3, <1>4, <1>5, <1>6, <1>7 DEF tail

\* One message more that matches its text.
LEMMA MessageAdded ==
  ASSUME TextInv, NEW m \in Messages, Tells(m, raw), tags' = tags,
         messages' = Append(messages, m), raws' = Append(raws, raw)
  PROVE  messages' \in Seq(Messages) /\ raws' \in Seq(Texts) /\ Len(raws') = Len(messages')
         /\ Streams'
<1> DEFINE n == Len(messages)
<1>1. messages \in Seq(Messages) /\ raws \in Seq(Texts) /\ raw \in Texts /\ Len(raws) = n
      /\ \A i \in DOMAIN messages : Tells(messages[i], raws[i])
  BY DEF TextInv, TextTyped, Streams
<1>2. n \in Nat /\ DOMAIN messages = 1 .. n
  BY <1>1, LenProperties
<1>3. /\ messages' \in Seq(Messages) /\ Len(messages') = n + 1 /\ messages'[n + 1] = m
      /\ \A i \in 1 .. n : messages'[i] = messages[i]
  BY <1>1, AppendProperties
<1>4. /\ raws' \in Seq(Texts) /\ Len(raws') = n + 1 /\ raws'[n + 1] = raw
      /\ \A i \in 1 .. n : raws'[i] = raws[i]
  BY <1>1, AppendProperties
<1>5. DOMAIN messages' = 1 .. n + 1
  BY <1>3, LenProperties
<1> HIDE DEF n
<1>6. ASSUME NEW i \in 1 .. n + 1 PROVE Tells(messages'[i], raws'[i])
  <2>1. CASE i = n + 1
    BY <1>3, <1>4, <2>1
  <2>2. CASE i # n + 1
    <3>1. i \in 1 .. n
      BY <1>2, <2>2
    <3>2. QED  BY <1>1, <1>2, <1>3, <1>4, <3>1
  <2>3. QED  BY <2>1, <2>2
<1>7. Streams'
  BY <1>5, <1>6 DEF Streams, Tells, Reference
<1>8. QED  BY <1>3, <1>4, <1>7

\* The locals of a message that has no text yet.
LEMMA NewLocals ==
  ASSUME TextInv, tags' = tags, parser' = NewParser, citation' = NoCitation, text' = <<>>,
         raw' = <<>>
  PROVE  /\ tags' \in TagChoices /\ parser' \in Parsers
         /\ Len(parser'.pending) < Len(Tag(parser)')
         /\ text' \in Texts /\ citation' \in Citations /\ raw' \in Texts /\ ReadSoFar'
<1>1. tags \in TagChoices /\ tags \in Marks
  BY TagsAreMarks DEF TextInv, TextTyped
<1>2. /\ NewParser \in Parsers /\ <<>> \in Texts /\ <<>> \in Seq(Texts)
      /\ Len(NewParser.pending) < Len(Tag(NewParser))
      /\ Reads(NewParser, <<>>, <<>>, <<>>)
      /\ ParseMemoryCitation(<<>>) = NoCitation
  BY <1>1, NewReads
<1>3. NoCitation \in Citations
  BY DEF NoCitation, Citations, Ids
<1>4. Tag(parser)' = Tag(NewParser)
  BY DEF Tag
<1>5. ReadSoFar'
  <2>1. Reads(NewParser, <<>>, <<>>, <<>>)'
    BY <1>2 DEF Reads, After
  <2>2. Reads(parser, raw, text, <<>>)' /\ citation' = ParseMemoryCitation(<<>>)
    BY <1>2, <2>1
  <2>3. QED  BY <1>2, <2>2 DEF ReadSoFar
<1>6. QED  BY <1>1, <1>2, <1>3, <1>4, <1>5

LEMMA TextBegins == TextInit => TextInv
<1> SUFFICES ASSUME TextInit PROVE TextInv
  OBVIOUS
<1>1. tags \in TagChoices /\ tags \in Marks
  BY TagsAreMarks DEF TextInit
<1>2. /\ NewParser \in Parsers /\ <<>> \in Texts /\ <<>> \in Seq(Texts)
      /\ Len(NewParser.pending) < Len(Tag(NewParser))
      /\ Reads(NewParser, <<>>, <<>>, <<>>)
      /\ ParseMemoryCitation(<<>>) = NoCitation
  BY <1>1, NewReads
<1>3. NoCitation \in Citations
  BY DEF NoCitation, Citations, Ids
<1>4. /\ parser = NewParser /\ citation = NoCitation /\ text = <<>> /\ messages = <<>>
      /\ phase = "receiving" /\ raw = <<>> /\ raws = <<>>
  BY DEF TextInit
<1>5. TextTyped
  BY <1>1, <1>2, <1>3, <1>4 DEF TextTyped
<1>6. ReadSoFar
  BY <1>2, <1>4 DEF ReadSoFar
<1>7. Streams
  BY <1>4 DEF Streams
<1>8. QED  BY <1>2, <1>4, <1>5, <1>6, <1>7 DEF TextInv

LEMMA DeltaHolds ==
  ASSUME TextInv, NEW more \in Chunks, Delta(more)
  PROVE  TextInv'
<1> DEFINE chunk == Push(parser, more)
<1>1. /\ tags \in TagChoices /\ tags \in Marks /\ parser \in Parsers /\ raw \in Texts
      /\ text \in Texts /\ citation \in Citations /\ more \in Texts
      /\ messages \in Seq(Messages) /\ raws \in Seq(Texts) /\ Len(raws) = Len(messages)
      /\ phase \in {"receiving", "completed", "failed"}
  BY TagsAreMarks, ChunksAreTexts DEF TextInv, TextTyped
<1>2. /\ phase = "receiving" /\ raw' = raw \o more /\ parser' = chunk.parser
      /\ citation' = MergeMemoryCitations(citation, chunk.citation)
      /\ text' = text \o chunk.visible
      /\ tags' = tags /\ messages' = messages /\ phase' = phase /\ raws' = raws
  BY DEF Delta
<1>3. PICK cited \in Seq(Texts) : Reads(parser, raw, text, cited)
                                  /\ citation = ParseMemoryCitation(cited)
  BY <1>2 DEF TextInv, ReadSoFar
<1>4. /\ chunk.parser \in Parsers /\ Len(chunk.parser.pending) < Len(Tag(chunk.parser))
      /\ raw \o more \in Texts /\ chunk.visible \in Texts
      /\ \E bodies \in Seq(Texts) :
           /\ chunk.citation = ParseMemoryCitation(bodies)
           /\ Reads(chunk.parser, raw \o more, text \o chunk.visible, cited \o bodies)
  BY <1>1, <1>3, PushReads
<1>5. PICK bodies \in Seq(Texts) :
        /\ chunk.citation = ParseMemoryCitation(bodies)
        /\ Reads(chunk.parser, raw \o more, text \o chunk.visible, cited \o bodies)
  BY <1>4
<1> HIDE DEF chunk
<1> DEFINE all == cited \o bodies
<1>6. /\ MergeMemoryCitations(ParseMemoryCitation(cited), ParseMemoryCitation(bodies))
           = ParseMemoryCitation(all)
      /\ all \in Seq(Texts)
  BY ParseJoined
<1>7. Reads(parser', raw', text', all)
  BY <1>2, <1>5
<1>8. citation' = ParseMemoryCitation(all)
  BY <1>2, <1>3, <1>5, <1>6
<1> HIDE DEF all
<1>9. citation' \in Citations
  BY <1>6, <1>8, ParseJoined
<1>10. text' \in Texts /\ raw' \in Texts
  BY <1>1, <1>2, <1>4, ConcatTexts
<1>11. Tag(parser)' = Tag(parser')
  BY <1>2 DEF Tag
<1>12. ReadSoFar'
  <2>1. Reads(parser, raw, text, all)'
    BY <1>2, <1>7 DEF Reads, After
  <2>2. QED  BY <1>6, <1>8, <2>1 DEF ReadSoFar
<1>13. TextTyped'
  <2>1. parser' \in Parsers /\ Len(parser'.pending) < Len(Tag(parser)')
    BY <1>2, <1>4, <1>11
  <2>2. QED  BY <1>1, <1>2, <1>9, <1>10, <2>1 DEF TextTyped
<1>14. Streams'
  <2>1. \A i \in DOMAIN messages : Tells(messages[i], raws[i])
    BY DEF TextInv, Streams
  <2>2. QED  BY <1>2, <2>1 DEF Streams, Tells, Reference
<1>15. QED  BY <1>1, <1>2, <1>10, <1>12, <1>13, <1>14 DEF TextInv

LEMMA EmitFailsHolds ==
  ASSUME TextInv, EmitFails
  PROVE  TextInv'
<1>1. /\ parser' = NewParser /\ citation' = NoCitation /\ text' = <<>> /\ raw' = <<>>
      /\ messages' = <<>> /\ raws' = <<>> /\ phase' = "failed" /\ tags' = tags
  BY DEF EmitFails, Return
<1>2. /\ tags' \in TagChoices /\ parser' \in Parsers
      /\ Len(parser'.pending) < Len(Tag(parser)')
      /\ text' \in Texts /\ citation' \in Citations /\ raw' \in Texts /\ ReadSoFar'
  BY <1>1, NewLocals
<1>3. TextTyped'
  BY <1>1, <1>2 DEF TextTyped
<1>4. Streams'
  BY <1>1 DEF Streams
<1>5. QED  BY <1>1, <1>2, <1>3, <1>4 DEF TextInv

LEMMA MessageDoneHolds ==
  ASSUME TextInv, NEW content \in {<<>>, raw}, MessageDone(content)
  PROVE  TextInv'
<1> DEFINE tail == Finish(parser)
           streamed == text \o tail.visible
           cited == MergeMemoryCitations(citation, tail.citation)
           item == StripMemoryCitations(content)
           m == [content |-> IF item.visible = <<>> THEN streamed ELSE item.visible,
                 citation |-> IF item.citation = NoCitation THEN cited ELSE item.citation,
                 seen |-> streamed]
<1>1. /\ phase = "receiving" /\ messages' = Append(messages, m)
      /\ parser' = NewParser /\ citation' = NoCitation /\ text' = <<>> /\ raw' = <<>>
      /\ raws' = Append(raws, raw) /\ tags' = tags /\ phase' = phase
  BY DEF MessageDone, NextMessage
<1>2. /\ streamed \in Texts /\ streamed = Reference(raw).visible
      /\ cited \in Citations /\ cited = ParseMemoryCitation(Reference(raw).bodies)
  BY <1>1, EndMatches
<1>3. tags \in Marks /\ raw \in Texts /\ <<>> \in Texts
  BY TagsAreMarks, NewReads DEF TextInv, TextTyped
<1>4. \/ item.visible = <<>> /\ item.citation = NoCitation
      \/ item.visible = streamed /\ item.citation = cited
  <2>1. CASE content = <<>>
    <3>1. Reference(content).visible = <<>> /\ Reference(content).bodies = <<>>
      BY <1>3, <2>1, NothingShown
    <3>2. ParseMemoryCitation(<<>>) = NoCitation
      BY <1>3, NewReads
    <3>3. /\ item.visible = Reference(content).visible
          /\ item.citation = ParseMemoryCitation(Reference(content).bodies)
      BY <1>3, <2>1, StripReads
    <3> HIDE DEF item
    <3>4. QED  BY <3>1, <3>2, <3>3
  <2>2. CASE content = raw
    <3>1. /\ item.visible = Reference(content).visible
          /\ item.citation = ParseMemoryCitation(Reference(content).bodies)
      BY <1>3, <2>2, StripReads
    <3> HIDE DEF item, streamed, cited
    <3>2. QED  BY <1>2, <2>2, <3>1
  <2>3. QED  BY <2>1, <2>2
<1> HIDE DEF item, streamed, cited
<1>5. m.content = streamed /\ m.citation = cited /\ m.seen = streamed
  BY <1>4
<1>6. m = [content |-> streamed, citation |-> cited, seen |-> streamed]
  BY <1>5
<1>7. m \in Messages
  BY <1>2, <1>6 DEF Messages
<1>8. Tells(m, raw)
  BY <1>2, <1>5 DEF Tells
<1> HIDE DEF m
<1>9. messages' \in Seq(Messages) /\ raws' \in Seq(Texts) /\ Len(raws') = Len(messages')
      /\ Streams'
  BY <1>1, <1>7, <1>8, MessageAdded
<1>10. /\ tags' \in TagChoices /\ parser' \in Parsers
       /\ Len(parser'.pending) < Len(Tag(parser)')
       /\ text' \in Texts /\ citation' \in Citations /\ raw' \in Texts /\ ReadSoFar'
  BY <1>1, NewLocals
<1>11. TextTyped'
  BY <1>1, <1>9, <1>10 DEF TextTyped
<1>12. QED  BY <1>9, <1>10, <1>11 DEF TextInv

LEMMA CompleteTextHolds ==
  ASSUME TextInv, CompleteText
  PROVE  TextInv'
<1> DEFINE tail == Finish(parser)
           streamed == text \o tail.visible
           cited == MergeMemoryCitations(citation, tail.citation)
           m == [content |-> streamed, citation |-> cited, seen |-> streamed]
<1>1. /\ phase = "receiving" /\ phase' = "completed" /\ tags' = tags
      /\ parser' = NewParser /\ citation' = NoCitation /\ text' = <<>> /\ raw' = <<>>
      /\ \/ messages' = Append(messages, m) /\ raws' = Append(raws, raw)
         \/ messages' = messages /\ raws' = raws
  BY DEF CompleteText, Return
<1>2. /\ streamed \in Texts /\ streamed = Reference(raw).visible
      /\ cited \in Citations /\ cited = ParseMemoryCitation(Reference(raw).bodies)
  BY <1>1, EndMatches
<1> HIDE DEF streamed, cited
<1>3. m \in Messages /\ Tells(m, raw)
  BY <1>2 DEF Messages, Tells
<1> HIDE DEF m
<1>4. messages' \in Seq(Messages) /\ raws' \in Seq(Texts) /\ Len(raws') = Len(messages')
      /\ Streams'
  <2>1. CASE messages' = Append(messages, m) /\ raws' = Append(raws, raw)
    BY <1>1, <1>3, <2>1, MessageAdded
  <2>2. CASE messages' = messages /\ raws' = raws
    <3>1. /\ messages \in Seq(Messages) /\ raws \in Seq(Texts) /\ Len(raws) = Len(messages)
          /\ \A i \in DOMAIN messages : Tells(messages[i], raws[i])
      BY DEF TextInv, TextTyped, Streams
    <3>2. QED  BY <1>1, <2>2, <3>1 DEF Streams, Tells, Reference
  <2>3. QED  BY <1>1, <2>1, <2>2
<1>5. /\ tags' \in TagChoices /\ parser' \in Parsers
      /\ Len(parser'.pending) < Len(Tag(parser)')
      /\ text' \in Texts /\ citation' \in Citations /\ raw' \in Texts /\ ReadSoFar'
  BY <1>1, NewLocals
<1>6. TextTyped'
  BY <1>1, <1>4, <1>5 DEF TextTyped
<1>7. QED  BY <1>1, <1>4, <1>5, <1>6 DEF TextInv

LEMMA TextStep == TextInv /\ [TextNext]_textVars => TextInv'
<1> SUFFICES ASSUME TextInv, [TextNext]_textVars PROVE TextInv'
  OBVIOUS
<1>1. ASSUME NEW more \in Chunks, Delta(more) PROVE TextInv'
  BY <1>1, DeltaHolds
<1>2. CASE EmitFails
  BY <1>2, EmitFailsHolds
<1>3. ASSUME NEW content \in {<<>>, raw}, MessageDone(content) PROVE TextInv'
  BY <1>3, MessageDoneHolds
<1>4. CASE CompleteText
  BY <1>4, CompleteTextHolds
<1>5. CASE UNCHANGED textVars
  <2>1. /\ tags' = tags /\ parser' = parser /\ citation' = citation /\ text' = text
        /\ messages' = messages /\ phase' = phase /\ raw' = raw /\ raws' = raws
    BY <1>5 DEF textVars
  <2>2. TextTyped'
    BY <2>1 DEF TextInv, TextTyped, Tag
  <2>3. phase' = "receiving" => ReadSoFar'
    <3>1. ReadSoFar => ReadSoFar'
      BY <2>1 DEF ReadSoFar, Reads, After
    <3>2. QED  BY <2>1, <3>1 DEF TextInv
  <2>4. Streams'
    BY <2>1 DEF TextInv, Streams, Tells, Reference
  <2>5. raw' \in Texts /\ raws' \in Seq(Texts) /\ Len(raws') = Len(messages')
    BY <2>1 DEF TextInv
  <2>6. QED  BY <2>2, <2>3, <2>4, <2>5 DEF TextInv
<1>6. QED  BY <1>1, <1>2, <1>3, <1>4, <1>5 DEF TextNext

LEMMA TextAlways == TextSpec => []TextInv
<1>1. QED  BY TextBegins, TextStep, PTL DEF TextSpec

\* What the client has been told of the text so far, and what is held back.
LEMMA ToldSoFar ==
  ASSUME TextInv, phase = "receiving"
  PROVE  LET whole == Reference(raw).visible IN
         IsPrefix(text, whole) /\ Len(whole) - Len(text) < Len(tags.open)
<1> DEFINE whole == Reference(raw).visible
           rest == After(parser, raw, Len(raw) - Len(parser.pending) + 1)
<1>1. /\ tags \in Marks /\ parser \in Parsers /\ raw \in Texts /\ text \in Texts
      /\ Len(parser.pending) < Len(Tag(parser))
  BY TagsAreMarks DEF TextInv, TextTyped
<1>2. PICK cited \in Seq(Texts) : Reads(parser, raw, text, cited)
  BY DEF TextInv, ReadSoFar
<1>3. IsParser(parser) /\ Ends(parser.pending, raw) /\ Len(raw) \in Nat
  <2>1. Len(raw) \in Nat
    BY <1>1, LenProperties DEF Texts
  <2>2. QED  BY <1>1, <1>2, <2>1 DEF IsParser, Parsers, Reads
<1>4. whole = text \o rest.visible
  <2>1. Extends(raw, raw)
    BY <1>1, <1>3 DEF Extends
  <2>2. QED  BY <1>2, <2>1 DEF Reads, Reference
<1>5. IndexOf(parser.pending, Tag(parser)) = 0
  <2>1. Tag(parser) \in Texts \ {<<>>} /\ parser.pending \in Texts
    BY <1>1, <1>3, TagOf DEF IsParser
  <2>2. QED  BY <1>1, <2>1, ShortHasNone
<1>6. /\ ~parser.inCitation => rest.visible = parser.pending
      /\ parser.inCitation => rest.visible = <<>>
  BY <1>1, <1>3, <1>5, AtEnd
<1> HIDE DEF rest
<1>7. rest.visible \in Texts /\ Len(rest.visible) < Len(tags.open)
  <2>1. CASE ~parser.inCitation
    BY <1>1, <1>3, <1>6, <2>1 DEF IsParser, Tag
  <2>2. CASE parser.inCitation
    <3>1. Len(tags.open) \in Nat \ {0}
      <4> DEFINE o == tags.open
      <4>1. o \in Texts \ {<<>>}
        BY <1>1 DEF Marks
      <4> HIDE DEF o
      <4>2. Len(o) \in Nat \ {0}
        BY <4>1, EmptySeq DEF Texts
      <4>3. QED  BY <4>2 DEF o
    <3>2. <<>> \in Texts /\ Len(<<>>) = 0
      BY DEF Texts
    <3>3. QED  BY <1>6, <2>2, <3>1, <3>2
  <2>3. QED  BY <2>1, <2>2
<1> DEFINE v == rest.visible
<1>8. v \in Texts /\ Len(v) < Len(tags.open)
  BY <1>7
<1> HIDE DEF v
<1>9. /\ text \o v \in Texts /\ Len(text \o v) = Len(text) + Len(v)
      /\ Len(text) \in Nat /\ Len(v) \in Nat
      /\ \A i \in 1 .. Len(text) + Len(v) :
           (text \o v)[i] = IF i <= Len(text) THEN text[i] ELSE v[i - Len(text)]
  BY <1>1, <1>8, ConcatTexts
<1> DEFINE tv == text \o v
           n == Len(text)
<1>10. /\ tv \in Texts /\ n \in Nat /\ n <= Len(tv) /\ Len(tv) - n < Len(tags.open)
       /\ \A i \in 1 .. n : tv[i] = text[i]
  BY <1>8, <1>9
<1>11. whole = tv
  BY <1>4 DEF v
<1> HIDE DEF tv, whole
<1>12. SubSeq(text, 1, n) = SubSeq(tv, 1, n)
  <2>1. 1 \in Nat \ {0} /\ n \in 0 .. Len(tv) /\ n \in 0 .. Len(text) /\ 1 <= n + 1
    <3>1. Len(tv) \in Nat
      BY <1>10, LenProperties DEF Texts
    <3>2. QED  BY <1>10, <3>1
  <2>2. /\ SubSeq(tv, 1, n) \in Texts /\ Len(SubSeq(tv, 1, n)) = n + 1 - 1
        /\ \A k \in 1 .. n + 1 - 1 : SubSeq(tv, 1, n)[k] = tv[1 + k - 1]
    BY <1>10, <2>1, Part
  <2>3. SubSeq(text, 1, n) = text
    BY <1>1, FullText
  <2> DEFINE part == SubSeq(tv, 1, n)
  <2> HIDE DEF part
  <2>4. part \in Texts /\ Len(part) = n /\ \A k \in 1 .. n : part[k] = text[k]
    <3>1. n + 1 - 1 = n /\ \A k \in 1 .. n : 1 + k - 1 = k
      BY <1>10
    <3>2. QED  BY <1>10, <2>2, <3>1 DEF part
  <2>5. part = text
    BY <1>1, <2>4, SameText
  <2>6. QED  BY <2>3, <2>5 DEF part
<1>13. IsPrefix(text, tv)
  BY <1>10, <1>12 DEF IsPrefix
<1>14. QED  BY <1>10, <1>11, <1>13 DEF whole

\* What is held back is shorter than a tag and the state is well typed, for any
\* two tags, any set of symbols and any cuts.
THEOREM TextWellTyped == TextSpec => []TextTypeOK
<1>1. TextInv => TextTypeOK
  <2>1. TextInv => TextTyped
    BY DEF TextInv
  <2>2. QED  BY <2>1 DEF TextTyped, TextTypeOK, Parsers, Tag, Messages, Citations, Ids
<1>2. QED  BY <1>1, TextAlways, PTL

\* Markup is never shown and no text is lost or delayed, wherever it is cut.
THEOREM VisibleShown == TextSpec => []ShownIsVisible
<1>1. TextInv => ShownIsVisible
  BY ToldSoFar DEF ShownIsVisible
<1>2. QED  BY <1>1, TextAlways, PTL

\* Every message of an attempt says what its text says.
THEOREM MessagesMatch == TextSpec => []MessagesMatchStream
<1>1. TextInv => MessagesMatchStream
  <2>1. TextInv => Streams
    BY DEF TextInv
  <2>2. QED  BY <2>1 DEF Streams, Tells, MessagesMatchStream, MessagesShowText,
                        MessagesCiteText
<1>2. QED  BY <1>1, TextAlways, PTL

-----------------------------------------------------------------------------
(***************************************************************************)
(* The parts together.                                                     *)
(***************************************************************************)
\* What a part does alone it does here, or nothing.
LEMMA OnePart == LibrarySpec => Spec /\ TextSpec /\ HistorySpec /\ ProfileSpec
<1>1. LibraryInit => Init /\ TextInit /\ HistoryInit /\ ProfileInit
  BY DEF LibraryInit
<1>2. [LibraryNext]_libraryVars
        => [Next]_vars /\ [TextNext]_textVars /\ [HistoryNext]_historyVars
           /\ [ProfileNext]_profileVars
  BY DEF LibraryNext, libraryVars
<1>3. QED  BY <1>1, <1>2, PTL DEF LibrarySpec, Spec, TextSpec, HistorySpec, ProfileSpec

\* All parts are well typed, for any constants.
THEOREM LibraryWellTyped == LibrarySpec => []LibraryTypeOK
<1>1. TypeOK /\ TextTypeOK /\ HistoryTypeOK /\ ProfileTypeOK => LibraryTypeOK
  BY DEF LibraryTypeOK
<1>2. QED
  BY <1>1, OnePart, BreakerWellTyped, TextWellTyped, HistoryWellTyped, ProfileWellTyped, PTL

=============================================================================
