-------------------------- MODULE RateLimit_proofs --------------------------
(***************************************************************************)
(* Proofs about RateLimit, for any number of handlers and keys, any limit  *)
(* and window and any lag shorter than the window.  What the limiter's     *)
(* loop keeps is shown by induction over the slice, which the least-number *)
(* principle gives.                                                        *)
(***************************************************************************)
EXTENDS RateLimit, FiniteSetTheorems, WellFoundedInduction, TLAPS

\* A set of numbers that is not empty has a least one.
LEMMA LeastNumber ==
    ASSUME NEW T, T \subseteq Nat, T # {}
    PROVE  \E x \in T : \A y \in T : x <= y
<1>1. \A x, y \in T : ~(y < x) => x <= y
  OBVIOUS
<1>2. \E x \in T : \A y \in T : ~(<<y, x>> \in OpToRel(<, Nat))
  BY WFMin, NatLessThanWellFounded
<1>3. \A x, y \in T : y < x => <<y, x>> \in OpToRel(<, Nat)
  BY DEF OpToRel
<1> QED
  BY <1>1, <1>2, <1>3, Zenon

\* Induction over the rounds of a loop of length m.
LEMMA RoundInduction ==
    ASSUME NEW m \in Nat, NEW T, 0 \in T, \A n \in 0..(m - 1) : n \in T => n + 1 \in T
    PROVE  \A n \in 0..m : n \in T
<1> SUFFICES ASSUME NEW z \in 0..m, z \notin T
             PROVE  FALSE
  OBVIOUS
<1> DEFINE U == {n \in 0..m : n \notin T}
<1>1. U \subseteq Nat /\ U # {}
  OBVIOUS
<1>2. PICK x \in U : \A y \in U : x <= y
  BY <1>1, LeastNumber
<1>3. x \in 0..m /\ x \notin T /\ x # 0
  BY <1>2
<1>4. x - 1 \in 0..(m - 1) /\ x - 1 \in 0..m /\ (x - 1) + 1 = x
  BY <1>3
<1>5. x - 1 \in T
  <2> SUFFICES ASSUME x - 1 \notin T PROVE FALSE
    OBVIOUS
  <2>1. x - 1 \in U
    BY <1>4
  <2>2. x <= x - 1
    BY <1>2, <2>1
  <2> QED
    BY <1>3, <2>2
<1> QED
  BY <1>3, <1>4, <1>5

-----------------------------------------------------------------------------
(* Counting events *)

\* How many events of a list are later than c.
Later(s, c) == {n \in DOMAIN s : s[n] > c}
Count(s, c) == Cardinality(Later(s, c))

\* A count is a number, at most the length.
LEMMA CountType ==
    ASSUME NEW s \in Seq(Int), NEW c
    PROVE  /\ IsFiniteSet(Later(s, c)) /\ Count(s, c) \in Nat /\ Count(s, c) <= Len(s)
<1>1. Len(s) \in Nat /\ DOMAIN s = 1..Len(s)
  OBVIOUS
<1>2. IsFiniteSet(1..Len(s)) /\ Cardinality(1..Len(s)) = Len(s)
  BY <1>1, FS_Interval
<1>3. Later(s, c) \subseteq 1..Len(s)
  BY <1>1 DEF Later
<1>4. IsFiniteSet(Later(s, c)) /\ Cardinality(Later(s, c)) <= Cardinality(1..Len(s))
  BY <1>2, <1>3, FS_Subset
<1> QED
  BY <1>2, <1>4, FS_CardinalityType DEF Count

\* Nothing is counted in an empty list.
LEMMA CountEmpty == \A c : Count(<<>>, c) = 0
<1>1. \A c : Later(<<>>, c) = {}
  BY DEF Later
<1> QED
  BY <1>1, FS_EmptySet DEF Count

\* All events are counted when all are later.
LEMMA CountAll ==
    ASSUME NEW s \in Seq(Int), NEW c, \A n \in DOMAIN s : s[n] > c
    PROVE  Count(s, c) = Len(s)
<1>1. Len(s) \in Nat /\ Later(s, c) = 1..Len(s)
  BY DEF Later
<1> QED
  BY <1>1, FS_Interval DEF Count

\* What is in a list after an append.
LEMMA AppendFacts ==
    ASSUME NEW s \in Seq(Int), NEW e \in Int, NEW m \in DOMAIN Append(s, e)
    PROVE  (m \in DOMAIN s /\ Append(s, e)[m] = s[m]) \/ Append(s, e)[m] = e
<1>1. /\ Len(s) \in Nat /\ DOMAIN s = 1..Len(s) /\ DOMAIN Append(s, e) = 1..(Len(s) + 1)
      /\ Append(s, e)[Len(s) + 1] = e /\ \A n \in 1..Len(s) : Append(s, e)[n] = s[n]
  OBVIOUS
<1>2. m = Len(s) + 1 \/ m \in 1..Len(s)
  BY <1>1
<1> QED
  BY <1>1, <1>2

\* An event appended is counted if it is later.
LEMMA CountAppend ==
    ASSUME NEW s \in Seq(Int), NEW e \in Int, NEW c
    PROVE  Count(Append(s, e), c) = IF e > c THEN Count(s, c) + 1 ELSE Count(s, c)
<1> DEFINE x == Append(s, e)
<1>1. /\ Len(s) \in Nat /\ DOMAIN s = 1..Len(s) /\ DOMAIN x = 1..(Len(s) + 1)
      /\ x[Len(s) + 1] = e /\ \A n \in 1..Len(s) : x[n] = s[n]
  OBVIOUS
<1>2. Len(s) + 1 \notin Later(s, c)
  BY <1>1 DEF Later
<1>3. IsFiniteSet(Later(s, c))
  BY CountType
<1>4. CASE e > c
  <2>1. Later(x, c) = Later(s, c) \cup {Len(s) + 1}
    <3> HIDE DEF x
    <3> QED
      BY <1>1, <1>4 DEF Later
  <2> QED
    BY <1>2, <1>3, <1>4, <2>1, FS_AddElement DEF Count
<1>5. CASE ~(e > c)
  <2>1. Later(x, c) = Later(s, c)
    <3> HIDE DEF x
    <3> QED
      BY <1>1, <1>5 DEF Later
  <2> QED
    BY <1>5, <2>1 DEF Count
<1> QED
  BY <1>4, <1>5

-----------------------------------------------------------------------------
(* What the loop keeps *)

\* One round of the loop.
Round(s, t, kept, n) == IF s[n] > t - Window THEN Append(kept, s[n]) ELSE kept

\* The loop is defined round by round.
LEMMA LoopDef ==
    ASSUME NEW S, NEW s \in Seq(S), NEW t
    PROVE  /\ Loop(s, t) \in [0..Len(s) -> Seq(S)]
           /\ Loop(s, t)[0] = <<>>
           /\ \A n \in 1..Len(s) : Loop(s, t)[n] = Round(s, t, Loop(s, t)[n - 1], n)
<1> DEFINE IsLoop(f, m) == /\ f \in [0..m -> Seq(S)]
                           /\ f[0] = <<>>
                           /\ \A n \in 1..m : f[n] = Round(s, t, f[n - 1], n)
           T == {m \in Nat : \E f : IsLoop(f, m)}
<1>1. Len(s) \in Nat /\ \A n \in 1..Len(s) : s[n] \in S
  OBVIOUS
<1>2. 0 \in T
  <2>1. IsLoop([n \in 0..0 |-> <<>>], 0)
    OBVIOUS
  <2> QED
    BY <2>1
<1>3. ASSUME NEW m \in 0..(Len(s) - 1), m \in T
      PROVE  m + 1 \in T
  <2>1. PICK f : IsLoop(f, m)
    BY <1>3
  <2> DEFINE g == [n \in 0..(m + 1) |-> IF n = m + 1 THEN Round(s, t, f[m], m + 1) ELSE f[n]]
  <2>2. m \in Nat /\ m + 1 \in 1..Len(s) /\ f[m] \in Seq(S)
    BY <1>1, <2>1
  <2>3. Round(s, t, f[m], m + 1) \in Seq(S)
    BY <1>1, <2>2 DEF Round
  <2>4. g \in [0..(m + 1) -> Seq(S)]
    BY <2>1, <2>2, <2>3
  <2>5. g[0] = <<>> /\ \A n \in 0..m : g[n] = f[n]
    BY <2>1, <2>2
  <2>6. g[m + 1] = Round(s, t, g[m], m + 1)
    BY <2>2, <2>5
  <2>7. \A n \in 1..(m + 1) : g[n] = Round(s, t, g[n - 1], n)
    <3> HIDE DEF g
    <3>1. \A n \in 1..(m + 1) : n = m + 1 \/ (n \in 1..m /\ n \in 0..m /\ n - 1 \in 0..m)
      BY <2>2
    <3>2. \A n \in 1..m : g[n] = Round(s, t, g[n - 1], n)
      <4>1. \A n \in 1..m : n \in 0..m /\ n - 1 \in 0..m
        BY <2>2
      <4> QED
        BY <2>1, <2>5, <4>1
    <3>3. (m + 1) - 1 = m
      BY <2>2
    <3> QED
      BY <2>6, <3>1, <3>2, <3>3
  <2> HIDE DEF g
  <2>8. IsLoop(g, m + 1)
    BY <2>4, <2>5, <2>7
  <2>9. m + 1 \in Nat
    BY <2>2
  <2> HIDE DEF IsLoop
  <2> QED
    BY <2>8, <2>9
<1>4. \A n \in 0..(Len(s) - 1) : n \in T => n + 1 \in T
  BY <1>3
<1> HIDE DEF T
<1>5. \A n \in 0..Len(s) : n \in T
  BY <1>1, <1>2, <1>4, RoundInduction
<1>6. PICK f : IsLoop(f, Len(s))
  <2>1. Len(s) \in 0..Len(s)
    BY <1>1
  <2>2. Len(s) \in T
    BY <1>5, <2>1
  <2> HIDE DEF IsLoop
  <2> QED
    BY <2>2 DEF T
<1>7. \A n \in 0..Len(s) :
         f[n] = IF n = 0 THEN <<>>
                ELSE IF s[n] > t - Window THEN Append(f[n - 1], s[n]) ELSE f[n - 1]
  <2>1. \A n \in 0..Len(s) : n = 0 \/ n \in 1..Len(s)
    BY <1>1
  <2> QED
    BY <1>6, <2>1 DEF Round
<1>8. f = [n \in 0..Len(s) |->
             IF n = 0 THEN <<>>
             ELSE IF s[n] > t - Window THEN Append(f[n - 1], s[n]) ELSE f[n - 1]]
  BY <1>6, <1>7
<1>9. Loop(s, t) = [n \in 0..Len(s) |->
             IF n = 0 THEN <<>>
             ELSE IF s[n] > t - Window THEN Append(Loop(s, t)[n - 1], s[n]) ELSE Loop(s, t)[n - 1]]
  BY <1>8 DEF Loop
<1> DEFINE h == Loop(s, t)
<1>10. h = [n \in 0..Len(s) |->
             IF n = 0 THEN <<>>
             ELSE IF s[n] > t - Window THEN Append(h[n - 1], s[n]) ELSE h[n - 1]]
  BY <1>9
<1> HIDE DEF h
<1>11. /\ h[0] = <<>>
       /\ \A n \in 1..Len(s) : h[n] = Round(s, t, h[n - 1], n)
       /\ h = [n \in 0..Len(s) |-> h[n]]
  <2>1. 0 \in 0..Len(s) /\ \A n \in 1..Len(s) : n \in 0..Len(s) /\ n # 0
    BY <1>1
  <2>2. h[0] = <<>>
    BY <1>10, <2>1
  <2>3. \A n \in 1..Len(s) : h[n] = Round(s, t, h[n - 1], n)
    BY <1>10, <2>1 DEF Round
  <2>4. h = [n \in 0..Len(s) |-> h[n]]
    BY <1>10
  <2> QED
    BY <2>2, <2>3, <2>4
<1>12. \A n \in 0..Len(s) : h[n] \in Seq(S)
  <2> DEFINE V == {n \in Nat : h[n] \in Seq(S)}
  <2>1. 0 \in V
    BY <1>11
  <2>2. ASSUME NEW n \in 0..(Len(s) - 1), n \in V
        PROVE  n + 1 \in V
    <3>1. n + 1 \in 1..Len(s) /\ n + 1 \in Nat /\ (n + 1) - 1 = n
      BY <1>1
    <3>2. h[n + 1] = Round(s, t, h[n], n + 1) /\ s[n + 1] \in S /\ h[n] \in Seq(S)
      BY <1>1, <1>11, <2>2, <3>1
    <3>3. h[n + 1] = Append(h[n], s[n + 1]) \/ h[n + 1] = h[n]
      BY <3>2 DEF Round
    <3>4. \A x \in Seq(S), e \in S : Append(x, e) \in Seq(S)
      OBVIOUS
    <3>5. h[n + 1] \in Seq(S)
      BY <3>2, <3>3, <3>4, Zenon
    <3> QED
      BY <3>1, <3>5
  <2>3. \A n \in 0..(Len(s) - 1) : n \in V => n + 1 \in V
    BY <2>2
  <2> HIDE DEF V
  <2>4. \A n \in 0..Len(s) : n \in V
    BY <1>1, <2>1, <2>3, RoundInduction
  <2> QED
    BY <2>4 DEF V
<1>13. h \in [0..Len(s) -> Seq(S)]
  BY <1>11, <1>12
<1> QED
  BY <1>11, <1>13 DEF h

\* How many of the first n events are later than c.
Prefix(s, n, c) == {j \in 1..n : s[j] > c}

\* One more event, one more counted if it is later.
LEMMA PrefixNext ==
    ASSUME NEW s \in Seq(Int), NEW n \in 0..(Len(s) - 1), NEW c
    PROVE  /\ Cardinality(Prefix(s, n, c)) \in Nat
           /\ Cardinality(Prefix(s, n + 1, c)) =
                IF s[n + 1] > c THEN Cardinality(Prefix(s, n, c)) + 1
                ELSE Cardinality(Prefix(s, n, c))
<1>1. n \in Nat /\ \A j \in 1..(n + 1) : j = n + 1 \/ j \in 1..n
  OBVIOUS
<1>2. IsFiniteSet(Prefix(s, n, c))
  <2>1. IsFiniteSet(1..n)
    BY <1>1, FS_Interval
  <2>2. Prefix(s, n, c) \subseteq 1..n
    BY DEF Prefix
  <2> QED
    BY <2>1, <2>2, FS_Subset
<1>3. n + 1 \notin Prefix(s, n, c)
  BY <1>1 DEF Prefix
<1>4. CASE s[n + 1] > c
  <2>1. Prefix(s, n + 1, c) = Prefix(s, n, c) \cup {n + 1}
    BY <1>1, <1>4 DEF Prefix
  <2> QED
    BY <1>2, <1>3, <1>4, <2>1, FS_AddElement, FS_CardinalityType
<1>5. CASE ~(s[n + 1] > c)
  <2>1. Prefix(s, n + 1, c) = Prefix(s, n, c)
    BY <1>1, <1>5 DEF Prefix
  <2> QED
    BY <1>2, <1>5, <2>1, FS_CardinalityType
<1> QED
  BY <1>4, <1>5

\* x holds events of s after the cutoff, and all of those among the first k.
From(s, t, x) ==
    \A m \in DOMAIN x : x[m] > t - Window /\ \E j \in DOMAIN s : x[m] = s[j]
Counted(s, t, x, k) ==
    \A c \in Int : /\ Count(x, c) <= Cardinality(Prefix(s, k, c))
                   /\ c >= t - Window => Count(x, c) = Cardinality(Prefix(s, k, c))

\* A round that keeps its event.
LEMMA RoundKeeps ==
    ASSUME NEW s \in Seq(Int), NEW t \in Int, NEW k \in 0..(Len(s) - 1), NEW x \in Seq(Int),
           From(s, t, x), Counted(s, t, x, k), NEW e \in Int, e = s[k + 1], e > t - Window
    PROVE  From(s, t, Append(x, e)) /\ Counted(s, t, Append(x, e), k + 1)
<1> USE LimitAssumption
<1>1. k + 1 \in DOMAIN s
  OBVIOUS
<1>2. ASSUME NEW m \in DOMAIN Append(x, e)
      PROVE  Append(x, e)[m] > t - Window /\ \E j \in DOMAIN s : Append(x, e)[m] = s[j]
  <2>1. (m \in DOMAIN x /\ Append(x, e)[m] = x[m]) \/ Append(x, e)[m] = e
    BY AppendFacts, Zenon
  <2> QED
    BY <1>1, <2>1, Zenon DEF From
<1>3. ASSUME NEW c \in Int
      PROVE  /\ Count(Append(x, e), c) <= Cardinality(Prefix(s, k + 1, c))
             /\ c >= t - Window => Count(Append(x, e), c) = Cardinality(Prefix(s, k + 1, c))
  <2> DEFINE a == Count(Append(x, e), c)
             p == Cardinality(Prefix(s, k, c))
             q == Cardinality(Prefix(s, k + 1, c))
  <2>1. a = IF e > c THEN Count(x, c) + 1 ELSE Count(x, c)
    BY CountAppend, Zenon
  <2>2. p \in Nat /\ q = IF e > c THEN p + 1 ELSE p
    BY PrefixNext
  <2>3. Count(x, c) \in Nat /\ Count(x, c) <= p /\ (c >= t - Window => Count(x, c) = p)
    BY CountType DEF Counted
  <2> HIDE DEF a, p, q
  <2>4. a <= q /\ (c >= t - Window => a = q)
    BY <2>1, <2>2, <2>3
  <2> QED
    BY <2>4 DEF a, q
<1> QED
  BY <1>2, <1>3, Zenon DEF From, Counted

\* A round that drops its event.
LEMMA RoundDrops ==
    ASSUME NEW s \in Seq(Int), NEW t \in Int, NEW k \in 0..(Len(s) - 1), NEW x \in Seq(Int),
           Counted(s, t, x, k), ~(s[k + 1] > t - Window)
    PROVE  Counted(s, t, x, k + 1)
<1> USE LimitAssumption
<1> SUFFICES ASSUME NEW c \in Int
             PROVE  /\ Count(x, c) <= Cardinality(Prefix(s, k + 1, c))
                    /\ c >= t - Window => Count(x, c) = Cardinality(Prefix(s, k + 1, c))
  BY DEF Counted
<1> DEFINE p == Cardinality(Prefix(s, k, c))
           q == Cardinality(Prefix(s, k + 1, c))
<1>1. p \in Nat /\ q = IF s[k + 1] > c THEN p + 1 ELSE p
  BY PrefixNext
<1>2. Count(x, c) \in Nat /\ Count(x, c) <= p /\ (c >= t - Window => Count(x, c) = p)
  BY CountType DEF Counted
<1>3. s[k + 1] \in Int
  OBVIOUS
<1> HIDE DEF p, q
<1>4. Count(x, c) <= q /\ (c >= t - Window => Count(x, c) = q)
  BY <1>1, <1>2, <1>3
<1> QED
  BY <1>4 DEF q

\* The loop keeps exactly the events after the cutoff: it counts no event
\* twice, loses none that is later than the cutoff, and invents none.
LEMMA LoopKeeps ==
    ASSUME NEW s \in Seq(Int), NEW t \in Int
    PROVE  \A n \in 0..Len(s) : From(s, t, Loop(s, t)[n]) /\ Counted(s, t, Loop(s, t)[n], n)
<1> DEFINE h == Loop(s, t)
           T == {k \in Nat : From(s, t, h[k]) /\ Counted(s, t, h[k], k)}
<1>1. /\ h \in [0..Len(s) -> Seq(Int)] /\ h[0] = <<>>
      /\ \A k \in 1..Len(s) : h[k] = Round(s, t, h[k - 1], k)
  BY LoopDef
<1>2. Len(s) \in Nat /\ DOMAIN s = 1..Len(s) /\ \A k \in 1..Len(s) : s[k] \in Int
  OBVIOUS
<1> HIDE DEF h
<1>3. 0 \in T
  <2>1. From(s, t, h[0])
    BY <1>1 DEF From
  <2>2. \A c : Prefix(s, 0, c) = {}
    BY DEF Prefix
  <2>3. \A c : Count(h[0], c) = 0 /\ Cardinality(Prefix(s, 0, c)) = 0
    BY <1>1, <2>2, CountEmpty, FS_EmptySet
  <2>4. Counted(s, t, h[0], 0)
    BY <2>3 DEF Counted
  <2> QED
    BY <2>1, <2>4
<1>4. ASSUME NEW k \in 0..(Len(s) - 1), k \in T
      PROVE  k + 1 \in T
  <2>1. k \in Nat /\ k + 1 \in 1..Len(s) /\ k \in 0..Len(s) /\ (k + 1) - 1 = k
    BY <1>2
  <2>2. h[k] \in Seq(Int) /\ s[k + 1] \in Int /\ h[k + 1] = Round(s, t, h[k], k + 1)
    BY <1>1, <1>2, <2>1
  <2>3. From(s, t, h[k]) /\ Counted(s, t, h[k], k)
    BY <1>4
  <2>4. CASE s[k + 1] > t - Window
    <3>1. h[k + 1] = Append(h[k], s[k + 1])
      BY <2>2, <2>4 DEF Round
    <3>2. From(s, t, Append(h[k], s[k + 1])) /\ Counted(s, t, Append(h[k], s[k + 1]), k + 1)
      BY <2>2, <2>3, <2>4, RoundKeeps, Zenon
    <3>3. From(s, t, h[k + 1]) /\ Counted(s, t, h[k + 1], k + 1)
      BY <3>1, <3>2, Zenon
    <3> QED
      BY <2>1, <3>3
  <2>5. CASE ~(s[k + 1] > t - Window)
    <3>1. h[k + 1] = h[k]
      BY <2>2, <2>5 DEF Round
    <3>2. Counted(s, t, h[k], k + 1)
      BY <2>2, <2>3, <2>5, RoundDrops, Zenon
    <3> QED
      BY <2>1, <2>3, <3>1, <3>2
  <2> QED
    BY <2>4, <2>5
<1>5. \A k \in 0..(Len(s) - 1) : k \in T => k + 1 \in T
  BY <1>4
<1> HIDE DEF T
<1>6. \A k \in 0..Len(s) : k \in T
  BY <1>2, <1>3, <1>5, RoundInduction
<1>7. \A n \in 0..Len(s) : From(s, t, h[n]) /\ Counted(s, t, h[n], n)
  BY <1>6 DEF T
<1> QED
  BY <1>7 DEF h

\* Every event of x is one of y.
Drawn(x, y) == \A m \in DOMAIN x : \E j \in DOMAIN y : x[m] = y[j]

\* Recent: the events after the cutoff, all of them and nothing else.
LEMMA RecentFacts ==
    ASSUME NEW S, S \subseteq Int, NEW s \in Seq(S), NEW t \in Int
    PROVE  /\ Recent(s, t) \in Seq(S)
           /\ Drawn(Recent(s, t), s)
           /\ \A m \in DOMAIN Recent(s, t) : Recent(s, t)[m] > t - Window
           /\ \A c \in Int :
                 /\ Count(Recent(s, t), c) <= Count(s, c)
                 /\ c >= t - Window => Count(Recent(s, t), c) = Count(s, c)
           /\ Len(Recent(s, t)) = Count(Recent(s, t), t - Window)
<1>1. Len(s) \in Nat /\ DOMAIN s = 1..Len(s) /\ Len(s) \in 0..Len(s)
  OBVIOUS
<1>2. s \in Seq(Int)
  <2>1. s = [n \in 1..Len(s) |-> s[n]] /\ \A n \in 1..Len(s) : s[n] \in Int
    BY <1>1
  <2>2. [n \in 1..Len(s) |-> s[n]] \in Seq(Int)
    BY <1>1, <2>1
  <2> QED
    BY <2>1, <2>2, Zenon
<1>3. Recent(s, t) \in Seq(S) /\ Recent(s, t) \in Seq(Int)
  BY <1>1, <1>2, LoopDef DEF Recent
<1>4. \A c : Prefix(s, Len(s), c) = Later(s, c)
  BY <1>1 DEF Prefix, Later
<1>5. /\ \A m \in DOMAIN Recent(s, t) :
            /\ Recent(s, t)[m] > t - Window
            /\ \E j \in DOMAIN s : Recent(s, t)[m] = s[j]
      /\ \A c \in Int :
            /\ Count(Recent(s, t), c) <= Cardinality(Prefix(s, Len(s), c))
            /\ c >= t - Window => Count(Recent(s, t), c) = Cardinality(Prefix(s, Len(s), c))
  BY <1>1, <1>2, LoopKeeps DEF Recent, From, Counted
<1>6. \A c \in Int :
         /\ Count(Recent(s, t), c) <= Count(s, c)
         /\ c >= t - Window => Count(Recent(s, t), c) = Count(s, c)
  BY <1>4, <1>5 DEF Count
<1>7. Len(Recent(s, t)) = Count(Recent(s, t), t - Window)
  BY <1>3, <1>5, CountAll
<1>8. Drawn(Recent(s, t), s) /\ \A m \in DOMAIN Recent(s, t) : Recent(s, t)[m] > t - Window
  BY <1>5 DEF Drawn
<1> QED
  BY <1>3, <1>6, <1>7, <1>8

-----------------------------------------------------------------------------
(* The limiter under its lock *)

\* A handler knows its keys, and waits for the lock no longer than MaxLag.
HandlersOK ==
    \A l \in Logins :
        /\ login[l].pc # "idle" => login[l].ip \in IPs /\ login[l].user \in Users
        /\ login[l].pc \in {"ip", "user"} =>
              login[l].now <= clock /\ clock <= login[l].now + MaxLag

\* The janitor and the events are not ahead of the clock.
PastOK ==
    /\ lastSweep <= clock
    /\ \A k \in Keys : \A n \in DOMAIN events[k] : events[k][n] <= clock

\* The map against the history: it holds no event that was not let through,
\* and all of those of the last window.
CountsOK ==
    \A k \in Keys, c \in Int :
        /\ Count(events[k], c) <= Count(admitted[k], c)
        /\ c >= clock - Window => Count(admitted[k], c) <= Count(events[k], c)

\* The inductive invariant.
Inv == TypeOK /\ HandlersOK /\ PastOK /\ CountsOK /\ KeptIsRecent /\ WindowCap

\* A list of times is a list of numbers.
LEMMA TimesAreNumbers ==
    ASSUME NEW s \in Seq(Time)
    PROVE  s \in Seq(Int)
<1>1. Len(s) \in Nat /\ s = [n \in 1..Len(s) |-> s[n]] /\ \A n \in 1..Len(s) : s[n] \in Int
  BY TimeAssumption DEF Time
<1>2. [n \in 1..Len(s) |-> s[n]] \in Seq(Int)
  BY <1>1
<1> QED
  BY <1>1, <1>2, Zenon

\* What Recent keeps of the events of a key, in terms of x = Recent(s, t).
Remains(s, x, t) ==
    /\ x \in Seq(Time)
    /\ Drawn(x, s)
    /\ \A c \in Int : /\ Count(x, c) <= Count(s, c)
                      /\ c >= t - Window => Count(x, c) = Count(s, c)

\* The janitor of sweepLocked, whether its time has come or not.
LEMMA SweptFacts ==
    ASSUME TypeOK, NEW t \in Time, NEW k \in Keys
    PROVE  /\ Remains(events[k], Swept(t)[k], t)
           /\ t - lastSweep < Window =>
                 Swept(t)[k] = events[k] /\ SweptAt(t) = lastSweep
           /\ ~(t - lastSweep < Window) =>
                 /\ SweptAt(t) = t
                 /\ \A m \in DOMAIN Swept(t)[k] : Swept(t)[k][m] > t - Window
<1>1. events[k] \in Seq(Time) /\ Time \subseteq Int /\ t \in Int
  BY TimeAssumption DEF TypeOK, Time
<1>2. CASE t - lastSweep < Window
  <2>1. Swept(t)[k] = events[k] /\ SweptAt(t) = lastSweep
    BY <1>2 DEF Swept, SweptAt
  <2>2. \A c \in Int : Count(events[k], c) \in Nat
    BY <1>1, TimesAreNumbers, CountType
  <2>3. Drawn(events[k], events[k])
    BY DEF Drawn
  <2>4. Remains(events[k], events[k], t)
    BY <1>1, <2>2, <2>3 DEF Remains
  <2> QED
    BY <1>2, <2>1, <2>4
<1>3. CASE ~(t - lastSweep < Window)
  <2>1. Swept(t)[k] = Recent(events[k], t) /\ SweptAt(t) = t
    BY <1>3 DEF Swept, SweptAt
  <2>2. /\ Remains(events[k], Recent(events[k], t), t)
        /\ \A m \in DOMAIN Recent(events[k], t) : Recent(events[k], t)[m] > t - Window
    BY <1>1, RecentFacts DEF Remains
  <2> QED
    BY <1>3, <2>1, <2>2
<1> QED
  BY <1>2, <1>3

\* What Allow keeps of the events of the key it is asked for.
LEMMA KeptFacts ==
    ASSUME TypeOK, NEW t \in Time, NEW k \in Keys
    PROVE  /\ Remains(events[k], Kept(k, t), t)
           /\ Drawn(Kept(k, t), Swept(t)[k])
           /\ Len(Kept(k, t)) = Count(Kept(k, t), t - Window)
<1> DEFINE s == events[k]
           y == Swept(t)[k]
           x == Kept(k, t)
<1>1. Time \subseteq Int /\ t \in Int /\ s \in Seq(Time)
  BY TimeAssumption DEF TypeOK, Time
<1>2. Remains(s, y, t)
  BY SweptFacts
<1>3. x = Recent(y, t)
  BY DEF Kept
<1> HIDE DEF x, y, s
<1>4. y \in Seq(Time)
  BY <1>2 DEF Remains
<1>5. /\ Recent(y, t) \in Seq(Time)
      /\ Drawn(Recent(y, t), y)
      /\ \A c \in Int : /\ Count(Recent(y, t), c) <= Count(y, c)
                        /\ c >= t - Window => Count(Recent(y, t), c) = Count(y, c)
      /\ Len(Recent(y, t)) = Count(Recent(y, t), t - Window)
  <2>1. Recent(y, t) \in Seq(Time) /\ Len(Recent(y, t)) = Count(Recent(y, t), t - Window)
    BY <1>1, <1>4, RecentFacts
  <2>2. Drawn(Recent(y, t), y)
    BY <1>1, <1>4, RecentFacts
  <2>3. \A c \in Int : /\ Count(Recent(y, t), c) <= Count(y, c)
                       /\ c >= t - Window => Count(Recent(y, t), c) = Count(y, c)
    BY <1>1, <1>4, RecentFacts
  <2> QED
    BY <2>1, <2>2, <2>3
<1>6. /\ x \in Seq(Time)
      /\ Drawn(x, y)
      /\ \A c \in Int : /\ Count(x, c) <= Count(y, c)
                        /\ c >= t - Window => Count(x, c) = Count(y, c)
      /\ Len(x) = Count(x, t - Window)
  BY <1>3, <1>5, Zenon
<1>7. \A c \in Int : Count(x, c) \in Nat /\ Count(y, c) \in Nat /\ Count(s, c) \in Nat
  BY <1>1, <1>4, <1>6, TimesAreNumbers, CountType
<1>8. Drawn(x, s)
  <2>1. Drawn(y, s)
    BY <1>2 DEF Remains
  <2> QED
    BY <1>6, <2>1 DEF Drawn
<1>9. ASSUME NEW c \in Int
      PROVE  Count(x, c) <= Count(s, c) /\ (c >= t - Window => Count(x, c) = Count(s, c))
  <2>1. Count(y, c) <= Count(s, c) /\ (c >= t - Window => Count(y, c) = Count(s, c))
    BY <1>2, Zenon DEF Remains
  <2>2. Count(x, c) <= Count(y, c) /\ (c >= t - Window => Count(x, c) = Count(y, c))
    BY <1>6, Zenon
  <2> QED
    BY <1>7, <2>1, <2>2
<1>10. Remains(s, x, t)
  BY <1>6, <1>8, <1>9 DEF Remains
<1> QED
  BY <1>6, <1>10 DEF x, y, s

\* Allow at time t, by a handler that waited at most MaxLag for the lock.
Asks(k, t) ==
    /\ k \in Keys /\ t \in Time
    /\ t <= clock /\ clock <= t + MaxLag /\ clock' = clock
    /\ Allow(k, t)

\* What becomes of the events: those of other keys are swept, those of the
\* key kept, with the new one if there is room.
LEMMA AllowEvents ==
    ASSUME TypeOK, NEW k, NEW t, Asks(k, t)
    PROVE  /\ events' \in [Keys -> Seq(Time)]
           /\ \A j \in Keys \ {k} : events'[j] = Swept(t)[j]
           /\ UnderCap(Kept(k, t)) => events'[k] = Append(Kept(k, t), t)
           /\ ~UnderCap(Kept(k, t)) => events'[k] = Kept(k, t)
           /\ lastSweep' = SweptAt(t) /\ lastSweep' \in Time \cup {-Window}
<1>0. k \in Keys /\ t \in Time /\ Allow(k, t)
  BY DEF Asks
<1>1. Swept(t) \in [Keys -> Seq(Time)]
  <2>1. \A j \in Keys : Swept(t)[j] \in Seq(Time)
    BY <1>0, SweptFacts DEF Remains
  <2>2. Swept(t) = [j \in Keys |-> Swept(t)[j]]
    BY DEF Swept, TypeOK
  <2> QED
    BY <2>1, <2>2
<1>2. Kept(k, t) \in Seq(Time)
  BY <1>0, KeptFacts DEF Remains
<1> DEFINE x == Kept(k, t)
           y == Record(x, t)
           z == Swept(t)
<1>3. events' = [z EXCEPT ![k] = y]
  BY <1>0 DEF Allow
<1>4. (UnderCap(x) => y = Append(x, t)) /\ (~UnderCap(x) => y = x)
  BY DEF Record
<1>5. Append(x, t) \in Seq(Time)
  BY <1>0, <1>2
<1>6. lastSweep' = SweptAt(t) /\ lastSweep' \in Time \cup {-Window}
  BY <1>0 DEF Allow, SweptAt, TypeOK
<1> HIDE DEF x, y, z
<1>7. y \in Seq(Time)
  BY <1>2, <1>4, <1>5 DEF x
<1>8. /\ events' \in [Keys -> Seq(Time)] /\ events'[k] = y
      /\ \A j \in Keys \ {k} : events'[j] = z[j]
  BY <1>0, <1>1, <1>3, <1>7 DEF z
<1> QED
  BY <1>4, <1>6, <1>8 DEF x, z

\* What becomes of the history: the new event, if there is room.
LEMMA AllowHistory ==
    ASSUME TypeOK, NEW k, NEW t, Asks(k, t)
    PROVE  /\ admitted' \in [Keys -> Seq(Time)]
           /\ \A j \in Keys \ {k} : admitted'[j] = admitted[j]
           /\ UnderCap(Kept(k, t)) => admitted'[k] = Append(admitted[k], t)
           /\ ~UnderCap(Kept(k, t)) => admitted'[k] = admitted[k]
<1>0. /\ k \in Keys /\ t \in Time
      /\ admitted' = IF UnderCap(Kept(k, t))
                       THEN [admitted EXCEPT ![k] = Append(@, t)] ELSE admitted
      /\ admitted \in [Keys -> Seq(Time)]
  BY DEF Asks, Allow, TypeOK
<1>1. Append(admitted[k], t) \in Seq(Time)
  BY <1>0
<1> QED
  BY <1>0, <1>1

\* The janitor and the map stay within a window of each other. Both cases of
\* sweepLocked matter: an event that is late may be older than the last
\* sweep, and an old sweep may be overtaken by events of other handlers.
LEMMA AllowRecent ==
    ASSUME Inv, NEW k, NEW t, Asks(k, t)
    PROVE  PastOK' /\ KeptIsRecent'
<1> USE TimeAssumption, LimitAssumption
<1>0. /\ TypeOK /\ k \in Keys /\ t \in Int /\ clock \in Int /\ lastSweep \in Int /\ t \in Time
      /\ t <= clock /\ clock <= t + MaxLag /\ clock' = clock /\ lastSweep <= clock
      /\ MaxLag \in Int /\ Window \in Int /\ MaxLag < Window
  BY DEF Inv, TypeOK, Asks, PastOK, Time
<1>1. ASSUME NEW j \in Keys, NEW m \in DOMAIN events'[j]
      PROVE  /\ events'[j][m] = t \/ \E n \in DOMAIN Swept(t)[j] : events'[j][m] = Swept(t)[j][n]
  <2>1. CASE j # k
    BY <1>0, <1>1, <2>1, AllowEvents
  <2>2. CASE j = k
    <3>1. Kept(k, t) \in Seq(Int)
      BY <1>0, KeptFacts, TimesAreNumbers DEF Remains
    <3>2. \A n \in DOMAIN Kept(k, t) : \E i \in DOMAIN Swept(t)[k] : Kept(k, t)[n] = Swept(t)[k][i]
      BY <1>0, KeptFacts DEF Drawn
    <3>3. CASE UnderCap(Kept(k, t))
      <4>1. events'[k] = Append(Kept(k, t), t)
        BY <1>0, <3>3, AllowEvents
      <4>2. m \in DOMAIN Append(Kept(k, t), t)
        BY <1>1, <2>2, <4>1, Zenon
      <4>3. \/ m \in DOMAIN Kept(k, t) /\ Append(Kept(k, t), t)[m] = Kept(k, t)[m]
            \/ Append(Kept(k, t), t)[m] = t
        BY <1>0, <3>1, <4>2, AppendFacts, Zenon
      <4> QED
        BY <2>2, <3>2, <4>1, <4>3, Zenon
    <3>4. CASE ~UnderCap(Kept(k, t))
      BY <1>0, <1>1, <2>2, <3>2, <3>4, AllowEvents
    <3> QED
      BY <3>3, <3>4
  <2> QED
    BY <2>1, <2>2
<1>2. ASSUME NEW j \in Keys, NEW n \in DOMAIN Swept(t)[j]
      PROVE  /\ Swept(t)[j][n] \in Int /\ Swept(t)[j][n] <= clock
             /\ lastSweep' - Window < Swept(t)[j][n] /\ Swept(t)[j][n] < lastSweep' + Window
  <2>1. /\ Remains(events[j], Swept(t)[j], t)
        /\ t - lastSweep < Window => Swept(t)[j] = events[j] /\ SweptAt(t) = lastSweep
        /\ ~(t - lastSweep < Window) =>
              SweptAt(t) = t /\ \A m \in DOMAIN Swept(t)[j] : Swept(t)[j][m] > t - Window
    BY <1>0, SweptFacts
  <2>2. PICK i \in DOMAIN events[j] : Swept(t)[j][n] = events[j][i]
    BY <1>2, <2>1 DEF Remains, Drawn
  <2>3. events[j][i] \in Int /\ events[j][i] <= clock
    BY <1>0, <2>2 DEF Inv, TypeOK, PastOK, Time
  <2>4. lastSweep - Window < events[j][i] /\ events[j][i] < lastSweep + Window
    BY <2>2 DEF Inv, KeptIsRecent
  <2>5. lastSweep' = SweptAt(t)
    BY <1>0, AllowEvents
  <2>6. CASE t - lastSweep < Window
    BY <2>1, <2>2, <2>3, <2>4, <2>5, <2>6
  <2>7. CASE ~(t - lastSweep < Window)
    <3>1. lastSweep' = t /\ Swept(t)[j][n] > t - Window
      BY <1>2, <2>1, <2>5, <2>7
    <3>2. events[j][i] > t - Window
      BY <2>2, <3>1
    <3>3. events[j][i] < t + Window
      BY <1>0, <2>3
    <3> QED
      BY <1>0, <2>2, <2>3, <3>1, <3>2, <3>3
  <2> QED
    BY <2>6, <2>7
<1>3. lastSweep' - Window < t /\ t < lastSweep' + Window /\ lastSweep' <= clock
  BY <1>0, AllowEvents DEF SweptAt
<1>4. ASSUME NEW j \in Keys, NEW m \in DOMAIN events'[j]
      PROVE  /\ events'[j][m] <= clock
             /\ lastSweep' - Window < events'[j][m] /\ events'[j][m] < lastSweep' + Window
  BY <1>0, <1>1, <1>2, <1>3, <1>4
<1> QED
  BY <1>0, <1>3, <1>4 DEF PastOK, KeptIsRecent

\* What Allow knows of a key: the events let through in the last window are
\* all counted, and only events let through are.
LEMMA KeptCounts ==
    ASSUME Inv, NEW k, NEW t, Asks(k, t), NEW c \in Int
    PROVE  /\ Count(Kept(k, t), c) \in Nat /\ Count(admitted[k], c) \in Nat
           /\ Count(Kept(k, t), c) <= Count(admitted[k], c)
           /\ c >= clock - Window => Count(admitted[k], c) <= Count(Kept(k, t), c)
           /\ Len(Kept(k, t)) = Count(Kept(k, t), t - Window)
           /\ Count(Kept(k, t), c) <= Len(Kept(k, t))
<1> USE TimeAssumption, LimitAssumption
<1>0. /\ TypeOK /\ k \in Keys /\ t \in Time /\ t \in Int /\ clock \in Int /\ t <= clock
  BY DEF Inv, TypeOK, Asks, Time
<1>1. Remains(events[k], Kept(k, t), t) /\ Len(Kept(k, t)) = Count(Kept(k, t), t - Window)
  BY <1>0, KeptFacts
<1>2. Kept(k, t) \in Seq(Int) /\ events[k] \in Seq(Int) /\ admitted[k] \in Seq(Int)
  <2>1. Kept(k, t) \in Seq(Time) /\ events[k] \in Seq(Time) /\ admitted[k] \in Seq(Time)
    BY <1>0, <1>1 DEF Remains, TypeOK
  <2> QED
    BY <2>1, TimesAreNumbers
<1>3. /\ Count(Kept(k, t), c) \in Nat /\ Count(events[k], c) \in Nat
      /\ Count(admitted[k], c) \in Nat /\ Count(Kept(k, t), c) <= Len(Kept(k, t))
  BY <1>2, CountType
<1>4. /\ Count(Kept(k, t), c) <= Count(events[k], c)
      /\ c >= t - Window => Count(Kept(k, t), c) = Count(events[k], c)
  BY <1>1 DEF Remains
<1>5. /\ Count(events[k], c) <= Count(admitted[k], c)
      /\ c >= clock - Window => Count(admitted[k], c) <= Count(events[k], c)
  BY <1>0 DEF Inv, CountsOK
<1>6. c >= clock - Window => c >= t - Window
  BY <1>0
<1> QED
  BY <1>1, <1>3, <1>4, <1>5, <1>6

\* Allow keeps the map and the history in step.
LEMMA AllowCounts ==
    ASSUME Inv, NEW k, NEW t, Asks(k, t)
    PROVE  CountsOK'
<1> USE TimeAssumption, LimitAssumption
<1>0. /\ TypeOK /\ k \in Keys /\ t \in Time /\ t \in Int /\ clock \in Int /\ clock' = clock
      /\ t <= clock
  BY DEF Inv, TypeOK, Asks, Time
<1> SUFFICES ASSUME NEW j \in Keys, NEW c \in Int
             PROVE  /\ Count(events'[j], c) <= Count(admitted'[j], c)
                    /\ c >= clock - Window => Count(admitted'[j], c) <= Count(events'[j], c)
  BY <1>0 DEF CountsOK
<1>1. CASE j # k
  <2>1. events'[j] = Swept(t)[j] /\ admitted'[j] = admitted[j]
    BY <1>0, <1>1, AllowEvents, AllowHistory
  <2>2. Remains(events[j], Swept(t)[j], t)
    BY <1>0, SweptFacts
  <2>3. /\ Count(Swept(t)[j], c) <= Count(events[j], c)
        /\ c >= t - Window => Count(Swept(t)[j], c) = Count(events[j], c)
    BY <2>2 DEF Remains
  <2>4. /\ Count(events[j], c) <= Count(admitted[j], c)
        /\ c >= clock - Window => Count(admitted[j], c) <= Count(events[j], c)
    BY <1>0 DEF Inv, CountsOK
  <2>5. Swept(t)[j] \in Seq(Time) /\ events[j] \in Seq(Time) /\ admitted[j] \in Seq(Time)
    BY <1>0, <2>2 DEF Remains, TypeOK
  <2>6. /\ Count(Swept(t)[j], c) \in Nat /\ Count(events[j], c) \in Nat
        /\ Count(admitted[j], c) \in Nat
    BY <2>5, TimesAreNumbers, CountType
  <2>7. c >= clock - Window => c >= t - Window
    BY <1>0
  <2>8. /\ Count(Swept(t)[j], c) <= Count(admitted[j], c)
        /\ c >= clock - Window => Count(admitted[j], c) <= Count(Swept(t)[j], c)
    BY <2>3, <2>4, <2>6, <2>7
  <2> QED
    BY <2>1, <2>8
<1>2. CASE j = k
  <2>1. /\ Count(Kept(k, t), c) \in Nat /\ Count(admitted[k], c) \in Nat
        /\ Count(Kept(k, t), c) <= Count(admitted[k], c)
        /\ c >= clock - Window => Count(admitted[k], c) <= Count(Kept(k, t), c)
    BY KeptCounts
  <2>2. CASE ~UnderCap(Kept(k, t))
    <3>1. events'[k] = Kept(k, t) /\ admitted'[k] = admitted[k]
      BY <1>0, <2>2, AllowEvents, AllowHistory
    <3> QED
      BY <1>2, <2>1, <3>1
  <2>3. CASE UnderCap(Kept(k, t))
    <3>1. events'[k] = Append(Kept(k, t), t) /\ admitted'[k] = Append(admitted[k], t)
      BY <1>0, <2>3, AllowEvents, AllowHistory
    <3>2. Kept(k, t) \in Seq(Int) /\ admitted[k] \in Seq(Int)
      <4>1. Kept(k, t) \in Seq(Time) /\ admitted[k] \in Seq(Time)
        BY <1>0, KeptFacts DEF Remains, TypeOK
      <4> QED
        BY <4>1, TimesAreNumbers
    <3>3. Count(Append(Kept(k, t), t), c) =
            IF t > c THEN Count(Kept(k, t), c) + 1 ELSE Count(Kept(k, t), c)
      BY <1>0, <3>2, CountAppend, Zenon
    <3>4. Count(Append(admitted[k], t), c) =
            IF t > c THEN Count(admitted[k], c) + 1 ELSE Count(admitted[k], c)
      BY <1>0, <3>2, CountAppend, Zenon
    <3>5. Count(events'[k], c) = IF t > c THEN Count(Kept(k, t), c) + 1 ELSE Count(Kept(k, t), c)
      BY <3>1, <3>3, Zenon
    <3>6. Count(admitted'[k], c) = IF t > c THEN Count(admitted[k], c) + 1 ELSE Count(admitted[k], c)
      BY <3>1, <3>4, Zenon
    <3> QED
      BY <1>2, <2>1, <3>5, <3>6
  <2> QED
    BY <2>2, <2>3
<1> QED
  BY <1>1, <1>2

\* The events of a key in the interval of WindowCap that follows x.
Inside(s, x) == {n \in DOMAIN s : x < s[n] /\ s[n] <= x + Window - MaxLag}

\* An event let through leaves every interval with at most Max events: what
\* is in its interval was still in the map and was counted.
LEMMA AllowCap ==
    ASSUME Inv, NEW k, NEW t, Asks(k, t)
    PROVE  WindowCap'
<1> USE TimeAssumption, LimitAssumption
<1>0. /\ TypeOK /\ k \in Keys /\ t \in Time /\ t \in Int /\ clock \in Int /\ clock' = clock
      /\ t <= clock /\ clock <= t + MaxLag /\ MaxLag \in Int /\ Window \in Int /\ Max \in Nat
  BY DEF Inv, TypeOK, Asks, Time
<1> SUFFICES ASSUME NEW j \in Keys, NEW x \in -1..MaxTime
             PROVE  Cardinality(Inside(admitted'[j], x)) <= Max
  BY DEF WindowCap, Inside
<1>1. Cardinality(Inside(admitted[j], x)) <= Max
  BY DEF Inv, WindowCap, Inside
<1>2. CASE admitted'[j] = admitted[j]
  BY <1>1, <1>2
<1>3. CASE admitted'[j] # admitted[j]
  <2>1. j = k /\ UnderCap(Kept(k, t)) /\ admitted'[k] = Append(admitted[k], t)
    BY <1>0, <1>3, AllowHistory
  <2> DEFINE s == admitted[k]
             y == Append(s, t)
  <2>2. s \in Seq(Int)
    BY <1>0, TimesAreNumbers DEF TypeOK
  <2>3. /\ Len(s) \in Nat /\ DOMAIN s = 1..Len(s) /\ DOMAIN y = 1..(Len(s) + 1)
        /\ y[Len(s) + 1] = t /\ \A n \in 1..Len(s) : y[n] = s[n]
    BY <1>0, <2>2
  <2> HIDE DEF y
  <2>4. CASE ~(x < t /\ t <= x + Window - MaxLag)
    <3>1. \A n \in 1..(Len(s) + 1) : n = Len(s) + 1 \/ n \in 1..Len(s)
      BY <2>3
    <3>2. Inside(y, x) \subseteq Inside(s, x)
      BY <2>3, <2>4, <3>1 DEF Inside
    <3>3. Inside(s, x) \subseteq Inside(y, x)
      BY <2>3 DEF Inside
    <3>4. Inside(y, x) = Inside(s, x)
      BY <3>2, <3>3
    <3> QED
      BY <1>1, <2>1, <3>4 DEF y
  <2>5. CASE x < t /\ t <= x + Window - MaxLag
    <3>1. Inside(y, x) = Inside(s, x) \cup {Len(s) + 1} /\ Len(s) + 1 \notin Inside(s, x)
      BY <2>3, <2>5 DEF Inside
    <3>2. IsFiniteSet(Later(s, x)) /\ Inside(s, x) \subseteq Later(s, x)
      BY <2>2, CountType DEF Inside, Later
    <3>3. IsFiniteSet(Inside(s, x)) /\ Cardinality(Inside(s, x)) <= Count(s, x)
      BY <3>2, FS_Subset DEF Count
    <3>4. Cardinality(Inside(s, x)) \in Nat
      BY <3>3, FS_CardinalityType
    <3>5. Cardinality(Inside(y, x)) = Cardinality(Inside(s, x)) + 1
      BY <3>1, <3>3, FS_AddElement
    <3>6. x \in Int /\ x >= clock - Window
      BY <1>0, <2>5
    <3>7. /\ Count(Kept(k, t), x) \in Nat /\ Count(s, x) \in Nat
          /\ Count(s, x) <= Count(Kept(k, t), x)
          /\ Count(Kept(k, t), x) <= Len(Kept(k, t))
      BY <3>6, KeptCounts
    <3>8. Len(Kept(k, t)) \in Nat
      BY <1>0, KeptFacts DEF Remains
    <3>9. Len(Kept(k, t)) < Max
      BY <2>1 DEF UnderCap
    <3>10. Cardinality(Inside(y, x)) <= Max
      BY <1>0, <3>3, <3>4, <3>5, <3>7, <3>8, <3>9
    <3> QED
      BY <2>1, <3>10 DEF y
  <2> QED
    BY <2>4, <2>5
<1> QED
  BY <1>2, <1>3

-----------------------------------------------------------------------------
(* The inductive invariant *)

LoginState == [pc : LoginPC, ip : IPs \cup {None}, user : Users \cup {None}, now : Time]

\* A handler at the lock asks for a key, with a time that lags at most MaxLag.
LEMMA Locked ==
    ASSUME Inv, NEW l \in Logins, AllowIP(l) \/ AllowUser(l)
    PROVE  /\ login[l].pc \in {"ip", "user"}
           /\ Asks(Asked(l), login[l].now)
<1>1. login[l].now \in Time /\ clock' = clock
  BY DEF Inv, TypeOK, AllowIP, AllowUser
<1>2. CASE AllowIP(l)
  BY <1>1, <1>2 DEF AllowIP, Asks, Inv, HandlersOK, Asked, Keys
<1>3. CASE AllowUser(l)
  BY <1>1, <1>3 DEF AllowUser, Asks, Inv, HandlersOK, Asked, Keys
<1> QED
  BY <1>2, <1>3

\* Every action but Tick and the two calls of Allow only moves a handler.
LEMMA Quiet ==
    ASSUME Inv, UNCHANGED <<clock, events, lastSweep, admitted>>
    PROVE  PastOK' /\ CountsOK' /\ KeptIsRecent' /\ WindowCap'
  BY DEF Inv, PastOK, CountsOK, KeptIsRecent, WindowCap

\* The empty map of New.
LEMMA InitInv == Init => Inv
<1> USE TimeAssumption, LimitAssumption
<1> SUFFICES ASSUME Init
             PROVE  Inv
  OBVIOUS
<1>1. TypeOK
  <2>1. Idle \in LoginState
    BY DEF Idle, LoginState, LoginPC, Time
  <2>2. <<>> \in Seq(Time)
    OBVIOUS
  <2> QED
    BY <2>1, <2>2 DEF Init, TypeOK, LoginState, Time
<1>2. HandlersOK
  BY DEF Init, HandlersOK, Idle
<1>3. \A k \in Keys : events[k] = <<>> /\ admitted[k] = <<>>
  BY DEF Init
<1>4. PastOK /\ KeptIsRecent
  BY <1>3 DEF Init, PastOK, KeptIsRecent
<1>5. CountsOK
  BY <1>3, CountEmpty DEF CountsOK
<1>6. WindowCap
  <2>1. \A k \in Keys, x \in -1..MaxTime : Inside(admitted[k], x) = {}
    BY <1>3 DEF Inside
  <2>2. \A k \in Keys, x \in -1..MaxTime : Cardinality(Inside(admitted[k], x)) <= Max
    BY <2>1, FS_EmptySet
  <2> QED
    BY <2>2 DEF WindowCap, Inside
<1> QED
  BY <1>1, <1>2, <1>4, <1>5, <1>6 DEF Inv

\* A call of Allow keeps the invariant.
LEMMA AllowStep ==
    ASSUME Inv, NEW l \in Logins, AllowIP(l) \/ AllowUser(l)
    PROVE  Inv'
<1> DEFINE k == Asked(l)
           t == login[l].now
<1>1. Asks(k, t)
  BY Locked
<1> HIDE DEF k, t
<1>2. PastOK' /\ KeptIsRecent' /\ CountsOK' /\ WindowCap'
  BY <1>1, AllowRecent, AllowCounts, AllowCap
<1>3. /\ events' \in [Keys -> Seq(Time)] /\ admitted' \in [Keys -> Seq(Time)]
      /\ lastSweep' \in Time \cup {-Window}
  BY <1>1, AllowEvents, AllowHistory DEF Inv
<1>4. clock' = clock /\ clock \in Time /\ login \in [Logins -> LoginState]
  BY DEF Inv, TypeOK, AllowIP, AllowUser, LoginState
<1>5. \/ login' = [login EXCEPT ![l] = Idle]
      \/ login[l].pc = "ip" /\ login' = [login EXCEPT ![l] = [@ EXCEPT !.pc = "next"]]
  BY DEF AllowIP, AllowUser
<1>6. Idle \in LoginState /\ Idle.pc = "idle"
  BY TimeAssumption DEF Idle, LoginState, LoginPC, Time
<1>7. login' \in [Logins -> LoginState]
  BY <1>4, <1>5, <1>6 DEF LoginState, LoginPC
<1>8. \A m \in Logins : \/ login'[m] = login[m]
                        \/ login'[m].pc = "idle"
                        \/ /\ login'[m].pc = "next" /\ login[m].pc # "idle"
                           /\ login'[m].ip = login[m].ip /\ login'[m].user = login[m].user
  BY <1>4, <1>5, <1>6 DEF LoginState
<1>9. HandlersOK'
  BY <1>4, <1>8 DEF HandlersOK, Inv
<1>10. TypeOK'
  BY <1>3, <1>4, <1>7 DEF TypeOK, LoginState
<1> QED
  BY <1>2, <1>9, <1>10 DEF Inv

\* Every step keeps the invariant.
LEMMA InvStep == Inv /\ [Next]_vars => Inv'
<1> USE TimeAssumption, LimitAssumption
<1> SUFFICES ASSUME Inv, [Next]_vars
             PROVE  Inv'
  OBVIOUS
<1>0. TypeOK /\ HandlersOK /\ login \in [Logins -> LoginState] /\ clock \in Time
  BY DEF Inv, TypeOK, LoginState
<1>1. ASSUME NEW l \in Logins, NEW i \in IPs, NEW u \in Users, Begin(l, i, u)
      PROVE  Inv'
  <2>1. UNCHANGED <<clock, events, lastSweep, admitted>>
    BY <1>1 DEF Begin
  <2> DEFINE q == [pc |-> "ip", ip |-> i, user |-> u, now |-> clock]
  <2>2. login' = [login EXCEPT ![l] = q]
    BY <1>1 DEF Begin
  <2>3. q \in LoginState
    BY <1>0 DEF LoginState, LoginPC
  <2>4. login'[l] = q /\ login' \in [Logins -> LoginState]
        /\ \A m \in Logins \ {l} : login'[m] = login[m]
    BY <1>0, <2>2, <2>3
  <2>5. TypeOK'
    BY <1>0, <2>1, <2>4 DEF TypeOK, LoginState
  <2>6. HandlersOK'
    BY <1>0, <2>1, <2>4 DEF HandlersOK, Time
  <2> QED
    BY <2>1, <2>5, <2>6, Quiet DEF Inv
<1>2. ASSUME NEW l \in Logins, ReadClock(l)
      PROVE  Inv'
  <2>1. UNCHANGED <<clock, events, lastSweep, admitted>> /\ login[l].pc = "next"
    BY <1>2 DEF ReadClock
  <2> DEFINE q == [pc |-> "user", ip |-> login[l].ip, user |-> login[l].user, now |-> clock]
  <2>2. login' = [login EXCEPT ![l] = q]
    BY <1>2 DEF ReadClock
  <2>3. q \in LoginState
    BY <1>0 DEF LoginState, LoginPC
  <2>4. login'[l] = q /\ login' \in [Logins -> LoginState]
        /\ \A m \in Logins \ {l} : login'[m] = login[m]
    BY <1>0, <2>2, <2>3
  <2>5. TypeOK'
    BY <1>0, <2>1, <2>4 DEF TypeOK, LoginState
  <2>6. HandlersOK'
    BY <1>0, <2>1, <2>4 DEF HandlersOK, Time
  <2> QED
    BY <2>1, <2>5, <2>6, Quiet DEF Inv
<1>3. ASSUME NEW l \in Logins, AllowIP(l) \/ AllowUser(l)
      PROVE  Inv'
  BY <1>3, AllowStep
<1>4. CASE Tick
  <2>1. /\ clock' = clock + 1 /\ clock' \in Time /\ UNCHANGED <<events, lastSweep, login, admitted>>
        /\ \A l \in Logins : login[l].pc \in {"ip", "user"} => clock < login[l].now + MaxLag
    BY <1>0, <1>4 DEF Tick, Time
  <2>2. TypeOK'
    BY <1>0, <2>1 DEF TypeOK
  <2>3. HandlersOK'
    BY <1>0, <2>1 DEF HandlersOK, TypeOK, Time
  <2>4. PastOK'
    BY <1>0, <2>1 DEF Inv, PastOK, TypeOK, Time
  <2>5. CountsOK'
    BY <1>0, <2>1 DEF Inv, CountsOK, Time
  <2>6. KeptIsRecent' /\ WindowCap'
    BY <2>1 DEF Inv, KeptIsRecent, WindowCap
  <2> QED
    BY <2>2, <2>3, <2>4, <2>5, <2>6 DEF Inv
<1>5. CASE UNCHANGED vars
  <2>1. TypeOK' /\ HandlersOK'
    BY <1>0, <1>5 DEF vars, TypeOK, HandlersOK
  <2> QED
    BY <1>5, <2>1, Quiet DEF vars, Inv
<1> QED
  BY <1>1, <1>2, <1>3, <1>4, <1>5 DEF Next

\* In every reachable state the map and the history agree on the last window.
THEOREM InvCorrect == Spec => []Inv
  BY InitInv, InvStep, PTL DEF Spec

\* Clock, map, handlers and history keep their types.
THEOREM TypeCorrect == Spec => []TypeOK
<1>1. Inv => TypeOK
  BY DEF Inv
<1> QED
  BY <1>1, InvCorrect, PTL

\* The cap of GFS_LOGIN_RATE_LIMIT holds for any limit, window and number of
\* handlers, however late each of them gets the lock (up to MaxLag).
THEOREM WindowCapCorrect == Spec => []WindowCap
<1>1. Inv => WindowCap
  BY DEF Inv
<1> QED
  BY <1>1, InvCorrect, PTL

\* Without a background goroutine the events in the map never span more than
\* two windows around the last inline sweep, whichever keys are asked for.
THEOREM KeptIsRecentCorrect == Spec => []KeptIsRecent
<1>1. Inv => KeptIsRecent
  BY DEF Inv
<1> QED
  BY <1>1, InvCorrect, PTL

\* Only its own call of Allow ends an attempt that stands at the lock.
LEMMA OnlyAllowEnds ==
    ASSUME Inv, [Next]_vars, NEW l \in Logins, login[l].pc \in {"ip", "user"}, login'[l].pc = "idle"
    PROVE  AllowIP(l) \/ AllowUser(l)
<1>0. login \in [Logins -> LoginState] /\ login'[l] # login[l]
  BY DEF Inv, TypeOK, LoginState
<1>1. ASSUME NEW m \in Logins, NEW i \in IPs, NEW u \in Users, Begin(m, i, u)
      PROVE  FALSE
  BY <1>0, <1>1 DEF Begin
<1>2. ASSUME NEW m \in Logins, ReadClock(m)
      PROVE  FALSE
  BY <1>0, <1>2 DEF ReadClock
<1>3. ASSUME NEW m \in Logins, AllowIP(m) \/ AllowUser(m)
      PROVE  m = l
  BY <1>0, <1>3 DEF AllowIP, AllowUser
<1>4. ~Tick /\ ~UNCHANGED vars
  BY <1>0 DEF Tick, vars
<1> QED
  BY <1>1, <1>2, <1>3, <1>4 DEF Next

\* 429 is only answered when Max events of the key that were let through lie
\* within the window: refused attempts, other keys and the janitor never
\* prolong a lockout, in any interleaving of any number of handlers.
THEOREM RefusalIsEarnedCorrect == Spec => RefusalIsEarned
<1> USE TimeAssumption, LimitAssumption
<1>1. ASSUME Inv, [Next]_vars
      PROVE  [\A l \in Logins :
                /\ login[l].pc \in {"ip", "user"}
                /\ login'[l].pc = "idle"
                /\ admitted'[Asked(l)] = admitted[Asked(l)]
                => Cardinality({n \in DOMAIN admitted[Asked(l)] :
                       admitted[Asked(l)][n] > login[l].now - Window}) >= Max]_vars
  <2> SUFFICES ASSUME NEW l \in Logins, login[l].pc \in {"ip", "user"}, login'[l].pc = "idle",
                      admitted'[Asked(l)] = admitted[Asked(l)]
               PROVE  Cardinality({n \in DOMAIN admitted[Asked(l)] :
                                      admitted[Asked(l)][n] > login[l].now - Window}) >= Max
    OBVIOUS
  <2> DEFINE k == Asked(l)
             t == login[l].now
  <2>1. Asks(k, t)
    BY <1>1, OnlyAllowEnds, Locked
  <2>2. admitted'[k] = admitted[k]
    OBVIOUS
  <2> SUFFICES Count(admitted[k], t - Window) >= Max
    BY DEF Count, Later
  <2> HIDE DEF k, t
  <2>3. k \in Keys /\ t \in Time /\ t \in Int /\ TypeOK
    BY <1>1, <2>1 DEF Asks, Time, Inv
  <2>4. ~UnderCap(Kept(k, t))
    <3> SUFFICES ASSUME UnderCap(Kept(k, t))
                 PROVE  FALSE
      OBVIOUS
    <3>1. admitted'[k] = Append(admitted[k], t)
      BY <2>1, <2>3, AllowHistory
    <3>2. admitted[k] \in Seq(Time)
      BY <2>3 DEF TypeOK
    <3>3. Len(Append(admitted[k], t)) = Len(admitted[k]) + 1 /\ Len(admitted[k]) \in Nat
      BY <2>3, <3>2
    <3>4. Append(admitted[k], t) # admitted[k]
      BY <3>3
    <3> QED
      BY <2>2, <3>1, <3>4
  <2>5. /\ Count(Kept(k, t), t - Window) <= Count(admitted[k], t - Window)
        /\ Len(Kept(k, t)) = Count(Kept(k, t), t - Window)
        /\ Count(admitted[k], t - Window) \in Nat /\ Count(Kept(k, t), t - Window) \in Nat
    <3>1. t - Window \in Int
      BY <2>3
    <3> QED
      BY <1>1, <2>1, <3>1, KeptCounts
  <2>6. ~(Len(Kept(k, t)) < Max)
    BY <2>4 DEF UnderCap
  <2> QED
    BY <2>5, <2>6
<1> QED
  BY <1>1, InvCorrect, PTL DEF Spec, RefusalIsEarned
=============================================================================
