---------------------------- MODULE Pages_proofs ----------------------------
(***************************************************************************)
(* Proofs about Pages, for any archives, logs, page sizes and readers.     *)
(***************************************************************************)
EXTENDS Pages, FiniteSetTheorems, SequenceTheorems, TLAPS

-----------------------------------------------------------------------------
(* Sorted lists *)

Ahead(S, R, i) == {j \in S : <<j, i>> \in R}

StrictOrder(S, R) ==
    /\ \A i \in S : <<i, i>> \notin R
    /\ \A i, j \in S : i # j => <<i, j>> \in R \/ <<j, i>> \in R
    /\ \A i, j, k \in S : <<i, j>> \in R /\ <<j, k>> \in R => <<i, k>> \in R

\* What stands ahead of an element is finite, and not the whole set.
LEMMA AheadFinite ==
    ASSUME NEW S, IsFiniteSet(S), NEW R, StrictOrder(S, R), NEW i \in S
    PROVE  /\ IsFiniteSet(Ahead(S, R, i)) /\ Cardinality(Ahead(S, R, i)) \in Nat
           /\ Cardinality(Ahead(S, R, i)) < Cardinality(S)
<1>1. Ahead(S, R, i) \in SUBSET S /\ i \notin Ahead(S, R, i)
  BY DEF Ahead, StrictOrder
<1>2. /\ IsFiniteSet(Ahead(S, R, i)) /\ Cardinality(Ahead(S, R, i)) <= Cardinality(S)
      /\ Cardinality(S) # Cardinality(Ahead(S, R, i))
  BY <1>1, FS_Subset
<1> QED
  BY <1>2, FS_CardinalityType

\* Whoever stands ahead has fewer ahead.
LEMMA AheadGrows ==
    ASSUME NEW S, IsFiniteSet(S), NEW R, StrictOrder(S, R), NEW i \in S, NEW j \in S,
           <<i, j>> \in R
    PROVE  Cardinality(Ahead(S, R, i)) < Cardinality(Ahead(S, R, j))
<1>1. Ahead(S, R, i) \in SUBSET Ahead(S, R, j) /\ i \in Ahead(S, R, j) /\ i \notin Ahead(S, R, i)
  BY DEF Ahead, StrictOrder
<1>2. IsFiniteSet(Ahead(S, R, j)) /\ Cardinality(Ahead(S, R, j)) \in Nat
      /\ Cardinality(Ahead(S, R, i)) \in Nat
  BY AheadFinite
<1>3. Cardinality(Ahead(S, R, i)) <= Cardinality(Ahead(S, R, j))
      /\ Cardinality(Ahead(S, R, j)) # Cardinality(Ahead(S, R, i))
  BY <1>1, <1>2, FS_Subset
<1> QED
  BY <1>2, <1>3

\* A sorted list holds every element once, at the place its rank says.
LEMMA SortedList ==
    ASSUME NEW S, IsFiniteSet(S), NEW R, StrictOrder(S, R)
    PROVE  /\ Cardinality(S) \in Nat
           /\ InOrder(S, R) \in [1..Cardinality(S) -> S]
           /\ \A k \in 1..Cardinality(S) : Cardinality(Ahead(S, R, InOrder(S, R)[k])) = k - 1
           /\ \A i \in S : /\ Cardinality(Ahead(S, R, i)) + 1 \in 1..Cardinality(S)
                           /\ InOrder(S, R)[Cardinality(Ahead(S, R, i)) + 1] = i
<1> DEFINE n == Cardinality(S)
           f == [i \in S |-> Cardinality(Ahead(S, R, i)) + 1]
<1>1. n \in Nat
  BY FS_CardinalityType
<1>2. \A i \in S : f[i] \in 1..n /\ f[i] = Cardinality(Ahead(S, R, i)) + 1
                   /\ Cardinality(Ahead(S, R, i)) \in Nat
  BY <1>1, AheadFinite
<1>3. \A i, j \in S : f[i] = f[j] => i = j
  <2> SUFFICES ASSUME NEW i \in S, NEW j \in S, i # j PROVE f[i] # f[j]
    OBVIOUS
  <2>1. <<i, j>> \in R \/ <<j, i>> \in R
    BY DEF StrictOrder
  <2>2. Cardinality(Ahead(S, R, i)) # Cardinality(Ahead(S, R, j))
    BY <1>2, <2>1, AheadGrows
  <2> QED
    BY <1>2, <2>2
<1>4. f \in Injection(S, 1..n)
  <2>1. f \in [S -> 1..n] /\ DOMAIN f = S
    BY <1>2
  <2> HIDE DEF f
  <2> QED
    BY <1>3, <2>1 DEF Injection, IsInjective
<1>5. IsFiniteSet(1..n) /\ Cardinality(1..n) = n
  BY <1>1, FS_Interval
<1>6. f \in Surjection(S, 1..n)
  BY <1>4, <1>5, FS_Injection
<1>7. \A k \in 1..n : \E i \in S : f[i] = k
  BY <1>6 DEF Surjection
<1>8. \A k \in 1..n : \E i \in S : Cardinality(Ahead(S, R, i)) = k - 1
  <2> SUFFICES ASSUME NEW k \in 1..n PROVE \E i \in S : Cardinality(Ahead(S, R, i)) = k - 1
    OBVIOUS
  <2>1. PICK i \in S : f[i] = k
    BY <1>7
  <2>2. Cardinality(Ahead(S, R, i)) + 1 = k /\ Cardinality(Ahead(S, R, i)) \in Nat
    BY <1>2, <2>1
  <2> QED
    BY <1>1, <2>2
<1> DEFINE s == InOrder(S, R)
<1>9. s = [k \in 1..n |-> CHOOSE i \in S : Cardinality(Ahead(S, R, i)) = k - 1]
  BY DEF InOrder, Ahead
<1>10. ASSUME NEW k \in 1..n
       PROVE  s[k] \in S /\ Cardinality(Ahead(S, R, s[k])) = k - 1
  <2>1. s[k] = CHOOSE i \in S : Cardinality(Ahead(S, R, i)) = k - 1
    BY <1>9
  <2>2. \E i \in S : Cardinality(Ahead(S, R, i)) = k - 1
    BY <1>8
  <2> HIDE DEF s, n
  <2> QED
    BY <2>1, <2>2
<1>11. s \in [1..n -> S]
  <2>1. \A k \in 1..n : s[k] \in S
    BY <1>10
  <2>2. s = [k \in 1..n |-> s[k]]
    BY <1>9
  <2> HIDE DEF s, n
  <2> QED
    BY <2>1, <2>2
<1>12. ASSUME NEW i \in S
       PROVE  /\ Cardinality(Ahead(S, R, i)) + 1 \in 1..n
              /\ s[Cardinality(Ahead(S, R, i)) + 1] = i
  <2> DEFINE k == Cardinality(Ahead(S, R, i)) + 1
  <2>1. k \in 1..n /\ Cardinality(Ahead(S, R, i)) \in Nat
    BY <1>2
  <2>2. s[k] \in S /\ Cardinality(Ahead(S, R, s[k])) = k - 1
    BY <1>10, <2>1
  <2>3. k - 1 = Cardinality(Ahead(S, R, i))
    BY <2>1
  <2>4. f[s[k]] = f[i]
    BY <1>2, <2>2, <2>3
  <2> QED
    BY <1>3, <2>1, <2>2, <2>4
<1> HIDE DEF s, n
<1> QED
  BY <1>1, <1>10, <1>11, <1>12 DEF s, n

-----------------------------------------------------------------------------
(* Cutting pages *)

\* What dividing by a page size gives.
LEMMA Division ==
    ASSUME NEW a \in Nat, NEW s \in Nat \ {0}
    PROVE  /\ a \div s \in Nat
           /\ (a \div s) * s <= a /\ a < (a \div s) * s + s
  OBVIOUS

\* Products of page indexes and page sizes.
LEMMA ProductMonotone ==
    ASSUME NEW a \in Int, NEW b \in Int, NEW s \in Nat, a <= b
    PROVE  a * s \in Int /\ b * s \in Int /\ a * s <= b * s
  OBVIOUS

\* A multiple of the page size and its predecessor.
LEMMA ProductStep ==
    ASSUME NEW a \in Int, NEW s \in Nat
    PROVE  a * s \in Int /\ (a - 1) * s = a * s - s /\ (a + 1) * s = a * s + s
  OBVIOUS

\* The last page begins before the end and reaches it.
LEMMA LastPage ==
    ASSUME NEW n \in Nat, NEW s \in Nat \ {0}
    PROVE  /\ TotalPages(n, s) \in Nat \ {0}
           /\ n <= TotalPages(n, s) * s
           /\ n > 0 => (TotalPages(n, s) - 1) * s < n
<1>1. CASE n = 0
  BY <1>1 DEF TotalPages
<1>2. CASE n # 0
  <2> DEFINE q == (n + s - 1) \div s
  <2>1. n + s - 1 \in Nat /\ TotalPages(n, s) = q
    BY <1>2 DEF TotalPages
  <2>2. q \in Nat /\ q * s <= n + s - 1 /\ n + s - 1 < q * s + s
    BY <2>1, Division
  <2> HIDE DEF q
  <2>3. q * s \in Int /\ (q - 1) * s = q * s - s
    BY <2>2, ProductStep
  <2>4. n <= q * s /\ (q - 1) * s < n
    BY <2>2, <2>3
  <2>5. q # 0
    BY <1>2, <2>4
  <2> QED
    BY <2>1, <2>2, <2>4, <2>5
<1> QED
  BY <1>1, <1>2

\* The page that is answered exists; it is the one asked for, or the last.
LEMMA PageView ==
    ASSUME NEW n \in Nat, NEW s \in Nat \ {0}, NEW p \in Nat \ {0}
    PROVE  LET v == pageViewFor(n, p, s) IN
           /\ v = [page |-> v.page, total |-> n, totalPages |-> TotalPages(n, s),
                   hasPrev |-> v.page > 1, hasNext |-> v.page < TotalPages(n, s)]
           /\ v.page \in 1..TotalPages(n, s)
           /\ v.page = p \/ (v.page = TotalPages(n, s) /\ TotalPages(n, s) < p)
           /\ v.total = n /\ v.totalPages = TotalPages(n, s)
           /\ v.hasNext <=> v.page < TotalPages(n, s)
           /\ (v.page - 1) * s \in Nat /\ v.page * s \in Nat
           /\ v.page * s = (v.page - 1) * s + s
           /\ n > 0 => (v.page - 1) * s < n
<1> DEFINE v == pageViewFor(n, p, s)
           tp == TotalPages(n, s)
<1>1. tp \in Nat \ {0} /\ n <= tp * s /\ (n > 0 => (tp - 1) * s < n)
  BY LastPage
<1> HIDE DEF tp
<1>2. /\ v.page = Clamp(p, tp) /\ v.total = n /\ v.totalPages = tp
      /\ v.hasNext <=> v.page < tp
      /\ v = [page |-> v.page, total |-> n, totalPages |-> tp,
              hasPrev |-> v.page > 1, hasNext |-> v.page < tp]
  BY DEF pageViewFor, tp
<1>3. v.page \in 1..tp /\ (v.page = p \/ (v.page = tp /\ tp < p))
  BY <1>1, <1>2 DEF Clamp
<1> HIDE DEF v
<1>4. v.page \in Int /\ v.page - 1 \in Nat /\ v.page - 1 <= tp - 1 /\ tp - 1 \in Int
  BY <1>1, <1>3
<1>5. (v.page - 1) * s \in Int /\ (v.page - 1) * s <= (tp - 1) * s /\ (tp - 1) * s \in Int
  BY <1>4, ProductMonotone
<1>6. 0 * s <= (v.page - 1) * s
  BY <1>4, ProductMonotone
<1>7. (v.page - 1) * s \in Nat /\ v.page * s = (v.page - 1) * s + s /\ v.page * s \in Nat
  BY <1>4, <1>5, <1>6, ProductStep
<1>8. n > 0 => (v.page - 1) * s < n
  BY <1>1, <1>5
<1> QED
  BY <1>2, <1>3, <1>7, <1>8 DEF v, tp

\* q holds the items of a list of n at the places it is cut from, and is
\* empty only beyond the end.
IsCut(q, s, n, skip, size) ==
    /\ {q[k] : k \in DOMAIN q} = {s[k] : k \in {m \in 1..n : skip < m /\ m <= skip + size}}
    /\ q = <<>> => n <= skip

\* What Slice cuts out of a list: LIMIT and OFFSET, and paginateSlice.
LEMMA SliceFacts ==
    ASSUME NEW S, NEW n \in Nat, NEW s \in [1..n -> S], NEW skip \in Nat, NEW size \in Nat \ {0}
    PROVE  IsCut(Slice(s, skip, size), s, n, skip, size)
<1> DEFINE q == Slice(s, skip, size)
           hi == IF skip + size > n THEN n ELSE skip + size
<1>1. Len(s) = n
  OBVIOUS
<1>2. q = SubSeq(s, skip + 1, hi) /\ hi \in Nat
  BY <1>1 DEF Slice
<1>3. \A k \in (skip + 1)..hi : s[k] \in S
  OBVIOUS
<1>4. /\ q \in Seq(S) /\ Len(q) = (IF skip + 1 <= hi THEN hi - (skip + 1) + 1 ELSE 0)
      /\ \A k \in 1..(hi - (skip + 1) + 1) : q[k] = s[(skip + 1) + k - 1]
  <2> DEFINE m == skip + 1
  <2>1. m \in Int /\ hi \in Int /\ \A k \in m..hi : s[k] \in S
    BY <1>2, <1>3
  <2>2. q = SubSeq(s, m, hi)
    BY <1>2
  <2> HIDE DEF m, hi, q
  <2>3. /\ SubSeq(s, m, hi) \in Seq(S)
        /\ Len(SubSeq(s, m, hi)) = (IF m <= hi THEN hi - m + 1 ELSE 0)
        /\ \A k \in 1..(hi - m + 1) : SubSeq(s, m, hi)[k] = s[m + k - 1]
    BY <2>1, SubSeqProperties
  <2> QED
    BY <2>2, <2>3 DEF m
<1> HIDE DEF q
<1>5. DOMAIN q = 1..Len(q) /\ Len(q) \in Nat
  BY <1>4
<1>6. q = <<>> => n <= skip
  <2>1. q = <<>> => Len(q) = 0
    OBVIOUS
  <2> QED
    BY <1>4, <2>1
<1>7. \A k \in DOMAIN q : skip + k \in 1..n /\ k >= 1 /\ k <= size /\ q[k] = s[skip + k]
  BY <1>4, <1>5
<1>8. \A m \in 1..n : skip < m /\ m <= skip + size => m - skip \in DOMAIN q /\ q[m - skip] = s[m]
  BY <1>4, <1>5
<1>9. {q[k] : k \in DOMAIN q} \subseteq {s[k] : k \in {m \in 1..n : skip < m /\ m <= skip + size}}
  <2> SUFFICES ASSUME NEW k \in DOMAIN q
               PROVE  \E m \in 1..n : skip < m /\ m <= skip + size /\ q[k] = s[m]
    OBVIOUS
  <2>1. k \in Nat /\ skip + k \in 1..n /\ k >= 1 /\ k <= size /\ q[k] = s[skip + k]
    BY <1>5, <1>7
  <2>2. skip < skip + k /\ skip + k <= skip + size
    BY <2>1
  <2> QED
    BY <2>1, <2>2
<1>10. {s[k] : k \in {m \in 1..n : skip < m /\ m <= skip + size}} \subseteq {q[k] : k \in DOMAIN q}
  BY <1>8
<1> QED
  BY <1>6, <1>9, <1>10 DEF q, IsCut

-----------------------------------------------------------------------------
(* The order of the archives *)

Order(S, field, asc, b) == {p \in S \X S : Before(p[1], p[2], field, asc, b)}

\* Every column has a number to sort by.
LEMMA SortValueType ==
    ASSUME NEW field \in SortFields, NEW b, NEW i \in Ids, b[i] \in Nat
    PROVE  SortValue(i, field, b) \in Int
<1>1. i \in Nat /\ Archive[i].source \in allowedSources /\ Archive[i].size \in Nat
      /\ Storage(i) \in allowedStorages
  BY ArchiveAssumption DEF Ids, Storage, allowedStorages
<1>2. Rank[Archive[i].source] \in Int /\ Rank[Storage(i)] \in Int
  BY <1>1 DEF Rank, allowedSources, allowedStorages
<1>3. CASE field = "key"
  BY <1>1, <1>3 DEF SortValue
<1>4. CASE field = "uploaded"
  BY <1>4 DEF SortValue
<1>5. CASE field = "size"
  BY <1>1, <1>5 DEF SortValue
<1>6. CASE field = "source"
  BY <1>2, <1>6 DEF SortValue
<1>7. CASE field = "storage"
  BY <1>2, <1>7 DEF SortValue
<1> QED
  BY <1>3, <1>4, <1>5, <1>6, <1>7 DEF SortFields

\* archiveLess is a strict order: equal values are told apart by key.
LEMMA ArchiveOrder ==
    ASSUME NEW S, S \subseteq Ids, NEW field \in SortFields, NEW asc, NEW b, \A i \in S : b[i] \in Nat
    PROVE  StrictOrder(S, Order(S, field, asc, b))
<1> DEFINE V == [i \in S |-> SortValue(i, field, b)]
<1>1. \A i \in S : V[i] \in Int /\ i \in Nat /\ V[i] = SortValue(i, field, b)
  BY SortValueType, ArchiveAssumption DEF Ids
<1>2. \A i, j \in S : archiveLess(i, j, field, b) <=> V[i] < V[j] \/ (V[i] = V[j] /\ i < j)
  BY DEF archiveLess
<1>3. \A i, j \in S : <<i, j>> \in Order(S, field, asc, b) <=>
          IF asc THEN archiveLess(i, j, field, b) ELSE archiveLess(j, i, field, b)
  BY DEF Order, Before
<1> HIDE DEF V
<1>4. \A i \in S : ~archiveLess(i, i, field, b)
  BY <1>1, <1>2
<1>5. \A i, j \in S : i # j => archiveLess(i, j, field, b) \/ archiveLess(j, i, field, b)
  BY <1>1, <1>2
<1>6. \A i, j, k \in S : archiveLess(i, j, field, b) /\ archiveLess(j, k, field, b)
                            => archiveLess(i, k, field, b)
  BY <1>1, <1>2
<1> QED
  BY <1>3, <1>4, <1>5, <1>6 DEF StrictOrder

\* The order of two archives depends on nothing but their own values.
LEMMA OrderIsLocal ==
    ASSUME NEW i, NEW j, NEW field \in SortFields, NEW asc, NEW b, NEW c, b[i] = c[i], b[j] = c[j]
    PROVE  Before(i, j, field, asc, b) <=> Before(i, j, field, asc, c)
<1>1. SortValue(i, field, b) = SortValue(i, field, c) /\ SortValue(j, field, b) = SortValue(j, field, c)
  BY DEF SortValue, SortFields
<1> QED
  BY <1>1 DEF Before, archiveLess

-----------------------------------------------------------------------------
(* Links *)

\* An absent parameter is no page size.
LEMMA NoneIsNoSize == None \notin HTMLPageSizes
<1>1. None \notin Int
  BY NoneAssumption
<1>2. \A n \in HTMLPageSizes : n \in Int
  BY PageSizeAssumption
<1> QED
  BY <1>1, <1>2, Zenon

\* A parsed page size, page, column and order is a valid one.
LEMMA ParsedTypes ==
    /\ \A n : parsePageSize(n) \in Nat \ {0} /\ parsePageSize(n) \in HTMLPageSizes
    /\ \A p \in Nat \cup {None} : parsePage(p) \in Nat \ {0}
    /\ \A f : parseSortField(f) \in SortFields
    /\ \A f, o : parseSortAsc(f, o) \in BOOLEAN
<1>1. \A n : parsePageSize(n) \in Nat \ {0} /\ parsePageSize(n) \in HTMLPageSizes
  BY PageSizeAssumption DEF parsePageSize
<1>2. \A p \in Nat \cup {None} : parsePage(p) \in Nat \ {0}
  BY NoneAssumption DEF parsePage
<1>3. \A f : parseSortField(f) \in SortFields
  BY DEF parseSortField, SortFields, defaultSortField
<1>4. \A f, o : parseSortAsc(f, o) \in BOOLEAN
  BY DEF parseSortAsc, firstSortAsc
<1> QED
  BY <1>1, <1>2, <1>3, <1>4

\* The link to another page keeps page size, column and order: what listURL
\* leaves out is what the parser puts in.
LEMMA LinkKeepsOrder ==
    ASSUME NEW u, NEW p \in Nat \ {0}
    PROVE  LET v == pagerURL(p, u) IN
           /\ parsePageSize(v.per_page) = parsePageSize(u.per_page)
           /\ parseSortField(v.sort) = parseSortField(u.sort)
           /\ parseSortAsc(v.sort, v.order) = parseSortAsc(u.sort, u.order)
           /\ parsePage(v.page) = p
           /\ v.facets = None
<1> DEFINE v == pagerURL(p, u)
           size == parsePageSize(u.per_page)
           field == parseSortField(u.sort)
           asc == parseSortAsc(u.sort, u.order)
<1>1. size \in HTMLPageSizes /\ field \in SortFields /\ asc \in BOOLEAN
  BY ParsedTypes
<1> HIDE DEF size, field, asc
<1>2. v = listURL(p, size, field, asc)
  BY DEF pagerURL, size, field, asc
<1>3. /\ v.page = (IF p > 1 THEN p ELSE None)
      /\ v.per_page = (IF size # htmlPageSize THEN size ELSE None)
      /\ v.sort = (IF field # defaultSortField THEN field ELSE None)
      /\ v.order = OrderParam(field, asc)
      /\ v.facets = None
  BY <1>2 DEF listURL
<1> HIDE DEF v
<1>4. parsePageSize(v.per_page) = size
  BY <1>1, <1>3, NoneIsNoSize DEF parsePageSize
<1>5. parseSortField(v.sort) = field
  BY <1>1, <1>3, NoneAssumption DEF parseSortField, SortFields, defaultSortField
<1>6. parsePage(v.page) = p
  BY <1>3, NoneAssumption DEF parsePage
<1>7. firstSortAsc(field) \in BOOLEAN
  BY DEF firstSortAsc
<1>8. parseSortAsc(v.sort, v.order) = asc
  <2>1. CASE asc = firstSortAsc(field)
    <3>1. v.order = None
      BY <1>3, <2>1 DEF OrderParam
    <3> QED
      BY <1>5, <2>1, <3>1 DEF parseSortAsc
  <2>2. CASE asc # firstSortAsc(field) /\ asc = TRUE
    <3>1. v.order = "asc"
      BY <1>3, <2>2 DEF OrderParam
    <3> QED
      BY <2>2, <3>1, NoneAssumption DEF parseSortAsc
  <2>3. CASE asc # firstSortAsc(field) /\ asc = FALSE
    <3>1. v.order = "desc"
      BY <1>3, <2>3 DEF OrderParam
    <3> QED
      BY <2>3, <3>1, NoneAssumption DEF parseSortAsc
  <2> QED
    BY <1>1, <2>1, <2>2, <2>3
<1> QED
  BY <1>3, <1>4, <1>5, <1>6, <1>8 DEF v, size, field, asc

-----------------------------------------------------------------------------
(* The numbers of the pager *)

\* The places of a list that is put together from two parts.
Joined(w, s, m, t, n) ==
    /\ w \in Seq(Int) /\ Len(w) = m + n
    /\ \A k \in 1..m : w[k] = s[k]
    /\ \A k \in 1..n : w[m + k] = t[k]

\* Appending a list moves no element of the first and all of the second.
LEMMA TwoParts ==
    ASSUME NEW s \in Seq(Int), NEW t \in Seq(Int)
    PROVE  Joined(s \o t, s, Len(s), t, Len(t))
<1> DEFINE w == s \o t
           m == Len(s)
           n == Len(t)
<1>1. m \in Nat /\ n \in Nat
  OBVIOUS
<1>2. w \in Seq(Int) /\ Len(w) = m + n
  BY ConcatProperties
<1>3. \A k \in 1..(m + n) : w[k] = IF k <= m THEN s[k] ELSE t[k - m]
  BY ConcatProperties
<1> HIDE DEF w, m, n
<1>4. \A k \in 1..m : w[k] = s[k]
  BY <1>1, <1>3
<1>5. ASSUME NEW k \in 1..n
      PROVE  w[m + k] = t[k]
  <2>1. m + k \in 1..(m + n) /\ ~(m + k <= m) /\ (m + k) - m = k
    BY <1>1
  <2> QED
    BY <1>3, <2>1
<1> QED
  BY <1>2, <1>4, <1>5 DEF Joined, w, m, n

\* The places of a list that is put together from five parts.
FiveJoined(w, x, a, b, c, y, A, B, C) ==
    /\ w \in Seq(Int) /\ Len(w) = 2 + A + B + C
    /\ w[1] = x /\ w[2 + A + B + C] = y
    /\ \A k \in 1..A : w[1 + k] = a[k]
    /\ \A k \in 1..B : w[1 + A + k] = b[k]
    /\ \A k \in 1..C : w[1 + A + B + k] = c[k]

\* The parts of the numbers stand one after the other.
LEMMA FiveParts ==
    ASSUME NEW x \in Int, NEW a \in Seq(Int), NEW b \in Seq(Int), NEW c \in Seq(Int), NEW y \in Int,
           NEW A \in Nat, NEW B \in Nat, NEW C \in Nat, Len(a) = A, Len(b) = B, Len(c) = C
    PROVE  FiveJoined(<<x>> \o a \o b \o c \o <<y>>, x, a, b, c, y, A, B, C)
<1> DEFINE p == <<x>> \o a
           q == p \o b
           r == q \o c
           w == r \o <<y>>
<1>0. /\ <<x>> \in Seq(Int) /\ Len(<<x>>) = 1 /\ <<x>>[1] = x
      /\ <<y>> \in Seq(Int) /\ Len(<<y>>) = 1 /\ <<y>>[1] = y
  OBVIOUS
<1>1. Joined(p, <<x>>, 1, a, A)
  BY <1>0, TwoParts
<1>2. p \in Seq(Int) /\ Len(p) = 1 + A
  BY <1>1 DEF Joined
<1> HIDE DEF p
<1>3. Joined(q, p, 1 + A, b, B)
  BY <1>2, TwoParts
<1>4. q \in Seq(Int) /\ Len(q) = 1 + A + B
  BY <1>3 DEF Joined
<1> HIDE DEF q
<1>5. Joined(r, q, 1 + A + B, c, C)
  BY <1>4, TwoParts
<1>6. r \in Seq(Int) /\ Len(r) = 1 + A + B + C
  BY <1>5 DEF Joined
<1> HIDE DEF r
<1>7. Joined(w, r, 1 + A + B + C, <<y>>, 1)
  BY <1>0, <1>6, TwoParts
<1> HIDE DEF w
<1>8. w \in Seq(Int) /\ Len(w) = 2 + A + B + C
  BY <1>7 DEF Joined
<1>9. w[2 + A + B + C] = y
  <2>1. w[(1 + A + B + C) + 1] = <<y>>[1]
    BY <1>7 DEF Joined
  <2>2. (1 + A + B + C) + 1 = 2 + A + B + C
    OBVIOUS
  <2> QED
    BY <1>0, <2>1, <2>2
<1>10. /\ \A k \in 1..(1 + A) : p[k] = q[k]
       /\ \A k \in 1..(1 + A + B) : q[k] = r[k]
       /\ \A k \in 1..(1 + A + B + C) : r[k] = w[k]
  BY <1>3, <1>5, <1>7 DEF Joined
<1>11. \A k \in 1..(1 + A) : p[k] = w[k]
  BY <1>10
<1>12. w[1] = x
  <2>1. p[1] = <<x>>[1]
    BY <1>1 DEF Joined
  <2> QED
    BY <1>0, <1>11, <2>1
<1>13. \A k \in 1..A : w[1 + k] = a[k]
  BY <1>1, <1>11 DEF Joined
<1>14. ASSUME NEW k \in 1..B PROVE w[1 + A + k] = b[k]
  <2>1. q[1 + A + k] = b[k]
    BY <1>3 DEF Joined
  <2>2. 1 + A + k \in 1..(1 + A + B) /\ 1 + A + k \in 1..(1 + A + B + C)
    OBVIOUS
  <2> QED
    BY <1>10, <2>1, <2>2
<1>15. ASSUME NEW k \in 1..C PROVE w[1 + A + B + k] = c[k]
  <2>1. r[1 + A + B + k] = c[k]
    BY <1>5 DEF Joined
  <2>2. 1 + A + B + k \in 1..(1 + A + B + C)
    OBVIOUS
  <2> QED
    BY <1>10, <2>1, <2>2
<1> QED
  BY <1>8, <1>9, <1>12, <1>13, <1>14, <1>15 DEF FiveJoined, w, r, q, p

\* What NumbersLeadEverywhere asks of the numbers, on page cur of tp.
Leads(w, cur, tp) ==
    /\ {1, tp} \cup (((cur - 1)..(cur + 1)) \cap (1..tp)) \subseteq {w[k] : k \in DOMAIN w}
    /\ w[1] # GapMark /\ w[Len(w)] # GapMark
    /\ \A k \in 1..(Len(w) - 1) :
          w[k] # GapMark =>
              \/ w[k + 1] = w[k] + 1
              \/ w[k + 1] = GapMark /\ w[k + 2] > w[k] + 1

\* pageWindow, for every page of every list, with gaps on no side, on the
\* left, on the right and on both.
LEMMA NumbersLead ==
    ASSUME NEW tp \in Nat \ {0}, NEW cur \in 1..tp
    PROVE  Leads(pageWindow(cur, tp), cur, tp)
<1>1. CASE tp <= 7
  <2> DEFINE w == [k \in 1..tp |-> k]
  <2>1. pageWindow(cur, tp) = w
    BY <1>1 DEF pageWindow, Pages
  <2>2. DOMAIN w = 1..tp /\ Len(w) = tp /\ \A k \in 1..tp : w[k] = k
    OBVIOUS
  <2> HIDE DEF w
  <2>3. \A x \in 1..tp : x \in {w[k] : k \in DOMAIN w}
    BY <2>2
  <2>4. Leads(w, cur, tp)
    BY <2>2, <2>3 DEF Leads, GapMark
  <2> QED
    BY <2>1, <2>4
<1>2. CASE ~(tp <= 7)
  <2> DEFINE lo == IF cur - 1 < 2 THEN 2 ELSE cur - 1
             hi == IF cur + 1 > tp - 1 THEN tp - 1 ELSE cur + 1
             a == GapIf(cur - 1 > 2)
             b == Pages(lo, hi)
             c == GapIf(RightGap(cur, tp))
             w == <<1>> \o a \o b \o c \o <<tp>>
             A == IF cur - 1 > 2 THEN 1 ELSE 0
             B == hi - lo + 1
             C == IF cur + 1 < tp - 1 THEN 1 ELSE 0
  <2>1. pageWindow(cur, tp) = w
    BY <1>2 DEF pageWindow
  <2>2. /\ lo \in Int /\ hi \in Int /\ lo >= 2 /\ hi <= tp - 1 /\ lo <= hi /\ B \in Nat \ {0}
        /\ A = 0 => lo = 2
        /\ A = 1 => lo > 2
        /\ C = 0 => hi = tp - 1
        /\ C = 1 => hi < tp - 1
        /\ \A x \in (cur - 1)..(cur + 1) : x \in 2..(tp - 1) => x \in lo..hi
    BY <1>2
  <2>3. A \in {0, 1} /\ C \in {0, 1}
    OBVIOUS
  <2>4. a \in Seq(Int) /\ Len(a) = A /\ (A = 1 => a[1] = 0)
    BY DEF GapIf, GapMark
  <2>5. c \in Seq(Int) /\ Len(c) = C /\ (C = 1 => c[1] = 0)
    BY DEF GapIf, GapMark, RightGap
  <2> HIDE DEF A, C, lo, hi
  <2>6. b \in Seq(Int) /\ Len(b) = B /\ \A k \in 1..B : b[k] = lo + k - 1
    BY <2>2 DEF Pages
  <2> HIDE DEF a, b, c, B
  <2>7. FiveJoined(w, 1, a, b, c, tp, A, B, C)
    <3>1. 1 \in Int /\ tp \in Int /\ A \in Nat /\ B \in Nat /\ C \in Nat
      BY <2>2, <2>3
    <3> QED
      BY <2>4, <2>5, <2>6, <3>1, FiveParts
  <2> HIDE DEF w
  <2>8. /\ DOMAIN w = 1..(2 + A + B + C) /\ Len(w) = 2 + A + B + C
        /\ w[1] = 1 /\ w[2 + A + B + C] = tp
        /\ A = 1 => w[2] = 0
        /\ \A k \in 1..B : w[1 + A + k] = lo + k - 1
        /\ C = 1 => w[2 + A + B] = 0
    <3>1. /\ DOMAIN w = 1..(2 + A + B + C) /\ Len(w) = 2 + A + B + C
          /\ w[1] = 1 /\ w[2 + A + B + C] = tp
      BY <2>7 DEF FiveJoined
    <3>2. A = 1 => w[1 + 1] = a[1]
      BY <2>7 DEF FiveJoined
    <3>3. \A k \in 1..B : w[1 + A + k] = lo + k - 1
      BY <2>6, <2>7 DEF FiveJoined
    <3>4. C = 1 => w[1 + A + B + 1] = c[1]
      BY <2>7 DEF FiveJoined
    <3>5. 1 + A + B + 1 = 2 + A + B /\ 1 + 1 = 2
      BY <2>2, <2>3
    <3> QED
      BY <2>4, <2>5, <3>1, <3>2, <3>3, <3>4, <3>5
  <2>9. B = hi - lo + 1
    BY DEF B
  <2>10. ASSUME NEW x \in {1, tp} \cup (((cur - 1)..(cur + 1)) \cap (1..tp))
         PROVE  \E k \in DOMAIN w : x = w[k]
    <3>0. 1 \in 1..(2 + A + B + C) /\ 2 + A + B + C \in 1..(2 + A + B + C)
      BY <2>2, <2>3
    <3>1. CASE x = 1
      BY <2>8, <3>0, <3>1
    <3>2. CASE x = tp
      BY <2>8, <3>0, <3>2
    <3>3. CASE x # 1 /\ x # tp
      <4>1. x \in lo..hi
        BY <2>2, <3>3
      <4>2. x - lo + 1 \in 1..B /\ lo + (x - lo + 1) - 1 = x
        BY <2>2, <2>9, <4>1
      <4>3. w[1 + A + (x - lo + 1)] = x
        BY <2>8, <4>2
      <4>4. 1 + A + (x - lo + 1) \in 1..(2 + A + B + C)
        BY <2>2, <2>3, <2>9, <4>1
      <4> QED
        BY <2>8, <4>3, <4>4
    <3> QED
      BY <3>1, <3>2, <3>3
  <2>11. ASSUME NEW k \in 1..(1 + A + B + C), w[k] # 0
         PROVE  w[k + 1] = w[k] + 1 \/ (w[k + 1] = 0 /\ w[k + 2] > w[k] + 1)
    <3>1. k = 1 \/ (k = 2 /\ A = 1) \/ (k - 1 - A \in 1..B) \/ (k = 2 + A + B /\ C = 1)
      BY <2>2, <2>3, <2>11
    <3>2. CASE k = 1
      <4>1. w[1 + A + 1] = lo
        BY <2>2, <2>8
      <4> QED
        BY <2>2, <2>3, <2>8, <3>2, <4>1
    <3>3. CASE k - 1 - A \in 1..B
      <4> DEFINE x == k - 1 - A
      <4>1. x \in 1..B /\ k = 1 + A + x
        BY <2>3, <3>3
      <4>2. w[k] = lo + x - 1
        BY <2>8, <4>1
      <4>3. CASE x < B
        <5>1. x + 1 \in 1..B /\ k + 1 = 1 + A + (x + 1)
          BY <2>2, <2>3, <4>1, <4>3
        <5>2. w[k + 1] = lo + (x + 1) - 1
          BY <2>8, <5>1
        <5> QED
          BY <2>2, <4>1, <4>2, <5>2
      <4>4. CASE x = B
        <5>1. w[k] = hi /\ k + 1 = 2 + A + B /\ k + 2 = 3 + A + B
          BY <2>2, <2>3, <2>9, <4>1, <4>2, <4>4
        <5>2. CASE C = 0
          BY <2>2, <2>3, <2>8, <5>1, <5>2
        <5>3. CASE C = 1
          <6>1. w[k + 1] = 0
            BY <2>8, <5>1, <5>3
          <6>2. w[k + 2] = tp
            BY <2>2, <2>3, <2>8, <5>1, <5>3
          <6> QED
            BY <2>2, <5>1, <5>3, <6>1, <6>2
        <5> QED
          BY <2>3, <5>2, <5>3
      <4> QED
        BY <2>2, <4>1, <4>3, <4>4
    <3>4. CASE k = 2 /\ A = 1
      BY <2>8, <2>11, <3>4
    <3>5. CASE k = 2 + A + B /\ C = 1
      BY <2>8, <2>11, <3>5
    <3> QED
      BY <3>1, <3>2, <3>3, <3>4, <3>5
  <2>12. Len(w) - 1 = 1 + A + B + C /\ w[1] # 0 /\ w[Len(w)] # 0
    BY <2>2, <2>3, <2>8
  <2>13. {1, tp} \cup (((cur - 1)..(cur + 1)) \cap (1..tp)) \subseteq {w[k] : k \in DOMAIN w}
    BY <2>10
  <2>14. Leads(w, cur, tp)
    BY <2>11, <2>12, <2>13 DEF Leads, GapMark
  <2> QED
    BY <2>1, <2>14
<1> QED
  BY <1>1, <1>2

-----------------------------------------------------------------------------
(* The inductive invariant *)

AllFacets == {None} \cup UNION {Links[l] : l \in Lists}

Url == [page : Nat \cup {None}, per_page : Nat \cup {None}, sort : SortFields \cup {None},
        order : {None, "asc", "desc"}, facets : AllFacets]
View == [page : Nat \ {0}, total : Nat, totalPages : Nat \ {0}, hasPrev : BOOLEAN, hasNext : BOOLEAN]
Walk == [whole : BOOLEAN, start : SUBSET Nat, seen : SUBSET Nat, deletes : Nat, late : Nat,
         torn : Nat]

Typed ==
    /\ now \in Nat
    /\ IsFiniteSet(present) /\ present \subseteq Ids /\ \A i \in present : born[i] \in Nat
    /\ audit \in Seq(Row) /\ pending \in Seq(Row)
    /\ pc \in {"idle", "rows", "shown"} /\ list \in Lists
    /\ url \in Url /\ view \in View /\ walk \in Walk
    /\ list = "captures" => pc # "rows"
    /\ pc = "idle" => ~walk.whole

PageSize == parsePageSize(url.per_page)

\* The pager shows a page that the list had when it was counted.
ViewOK ==
    /\ view.totalPages = TotalPages(view.total, PageSize)
    /\ view.page <= view.totalPages
    /\ view.hasNext <=> view.page < view.totalPages

\* How many archives of S stand before i in the order of u.
Place(S, u, b, i) ==
    Cardinality(Ahead(S, Order(S, parseSortField(u.sort), parseSortAsc(u.sort, u.order), b), i))

\* The missed archives that have slipped to a page that was already read.
Slipped == {i \in Missed : Place(present, url, born, i) < view.page * PageSize}

\* At most one archive per delete has slipped; on the last page no other can
\* be missed.
CaptureWalk ==
    list = "captures" /\ walk.whole =>
        /\ walk.start \subseteq present
        /\ ~view.hasNext => Cardinality(Missed) <= walk.deletes
        /\ url.facets = None => Cardinality(Slipped) <= walk.deletes

\* The matching rows of a log, and those inserted after and before row k.
Hits(a, f) == {k \in DOMAIN a : Matches(a[k], f)}
Newer(a, f, k) == {j \in Hits(a, f) : j > k}
Older(a, f, k) == {j \in Hits(a, f) : j < k}

\* Rows are not deleted: the SELECT finds what was counted.
CountOK == pc = "rows" => view.total <= Cardinality(Hits(audit, filter))

\* The rows of M that match and have fewer than n matching rows above them.
SlippedRows(a, f, M, n) == {k \in M : k \in Hits(a, f) /\ Cardinality(Newer(a, f, k)) < n}

\* The rows of M that are not among the n oldest that match.
NotOldest(a, f, M, n) == {k \in M : ~(Cardinality(Older(a, f, k)) < n)}

\* At most one row per row that left the window above it has slipped to a
\* page that was already read; on the last page the others that are missed
\* are among the oldest.
LogWalk ==
    list # "captures" /\ walk.whole =>
        /\ walk.start \subseteq DOMAIN audit
        /\ pc = "rows" =>
             /\ Cardinality(Hits(audit, filter)) <= view.total + walk.late
             /\ Cardinality(SlippedRows(audit, filter, Missed, (view.page - 1) * PageSize)) <= walk.torn
        /\ pc = "shown" =>
             /\ Missed \subseteq Hits(audit, filter)
             /\ Cardinality(SlippedRows(audit, filter, Missed, view.page * PageSize)) <= walk.torn
             /\ ~view.hasNext => Cardinality(NotOldest(audit, filter, Missed, walk.late)) <= walk.torn

Inv ==
    /\ Typed /\ ViewOK
    /\ CaptureWalk /\ CountOK /\ LogWalk /\ EmptyPageIsEmptyList

-----------------------------------------------------------------------------
(* Steps *)

\* A link that goes on with a walk leads to the next page in the same order.
GoesOn(u) ==
    /\ pc = "shown" /\ view.hasNext
    /\ u.facets = url.facets /\ (list = "captures" => u.facets = None)
    /\ parsePage(u.page) = view.page + 1
    /\ parsePageSize(u.per_page) = PageSize
    /\ parseSortField(u.sort) = parseSortField(url.sort)
    /\ parseSortAsc(u.sort, u.order) = parseSortAsc(url.sort, url.order)

\* The addresses that listURL makes.
LEMMA ListURLType ==
    ASSUME NEW p \in Nat, NEW size \in Nat, NEW field \in SortFields, NEW asc
    PROVE  listURL(p, size, field, asc) \in Url
<1> DEFINE a == IF p > 1 THEN p ELSE None
           b == IF size # htmlPageSize THEN size ELSE None
           c == IF field # defaultSortField THEN field ELSE None
           d == OrderParam(field, asc)
<1>1. a \in Nat \cup {None} /\ b \in Nat \cup {None} /\ c \in SortFields \cup {None}
  OBVIOUS
<1>2. d \in {None, "asc", "desc"}
  BY DEF OrderParam
<1>3. None \in AllFacets
  BY DEF AllFacets
<1>4. listURL(p, size, field, asc) =
         [page |-> a, per_page |-> b, sort |-> c, order |-> d, facets |-> None]
  BY DEF listURL
<1> HIDE DEF a, b, c, d
<1> QED
  BY <1>1, <1>2, <1>3, <1>4 DEF Url

\* The address of a link of the pager.
LEMMA LinkType ==
    ASSUME NEW u, NEW p \in Nat
    PROVE  pagerURL(p, u) \in Url
  BY ParsedTypes, ListURLType DEF pagerURL

\* The address of a column header.
LEMMA HeaderType ==
    ASSUME NEW u, NEW field \in SortFields
    PROVE  sortURL(field, u) \in Url
  BY ParsedTypes, ListURLType DEF sortURL

\* Every request is for a well-formed address, and one that goes on with a
\* walk is for the next page.
LEMMA Requests ==
    ASSUME Inv, Next
    PROVE  \/ \E i \in Moving[list] : Upload(i) \/ Delete(i)
           \/ \E k \in DOMAIN pending : InsertAudit(k)
           \/ Tick
           \/ ListAuditFiltered
           \/ \E u \in Url, next \in BOOLEAN : Ask(u, next) /\ (next => GoesOn(u))
<1> DEFINE Goal == \E u \in Url, next \in BOOLEAN : Ask(u, next) /\ (next => GoesOn(u))
<1>0. /\ url \in Url /\ view \in View /\ list \in Lists /\ view.page \in Nat \ {0}
      /\ \A f \in Links[list] : f \in AllFacets
  BY DEF Inv, Typed, View, AllFacets
<1>1. ASSUME NEW f \in Links[list], Open(f) PROVE Goal
  <2>1. With(Home, f) \in Url
    BY <1>0 DEF With, Home, Url, AllFacets
  <2> QED
    BY <1>1, <2>1 DEF Open
<1>2. ASSUME FollowNext PROVE Goal
  <2> DEFINE p == view.page + 1
  <2>1. p \in Nat \ {0}
    BY <1>0
  <2>2. CASE list = "api"
    <3> DEFINE u == [url EXCEPT !.page = p]
    <3>1. /\ u \in Url /\ u.page = p /\ u.per_page = url.per_page /\ u.sort = url.sort
          /\ u.order = url.order /\ u.facets = url.facets
      BY <1>0, <2>1 DEF Url
    <3>2. Ask(u, u.facets = url.facets) /\ pc = "shown" /\ view.hasNext
      BY <1>2, <2>2 DEF FollowNext
    <3> HIDE DEF u
    <3>3. Ask(u, TRUE)
      BY <3>1, <3>2
    <3>4. parsePage(u.page) = p
      BY <2>1, <3>1, NoneAssumption DEF parsePage
    <3>5. GoesOn(u)
      BY <2>2, <3>1, <3>2, <3>4 DEF GoesOn, PageSize
    <3> QED
      BY <3>1, <3>3, <3>5
  <2>3. CASE list # "api"
    <3> DEFINE u == pagerURL(p, url)
    <3>1. u \in Url
      BY <2>1, LinkType
    <3>2. /\ parsePageSize(u.per_page) = PageSize
          /\ parseSortField(u.sort) = parseSortField(url.sort)
          /\ parseSortAsc(u.sort, u.order) = parseSortAsc(url.sort, url.order)
          /\ parsePage(u.page) = p /\ u.facets = None
      BY <2>1, LinkKeepsOrder DEF PageSize
    <3>3. Ask(u, u.facets = url.facets) /\ pc = "shown" /\ view.hasNext
      BY <1>2, <2>3 DEF FollowNext
    <3> HIDE DEF u
    <3>4. (u.facets = url.facets) \in BOOLEAN
      OBVIOUS
    <3>5. (u.facets = url.facets) => GoesOn(u)
      BY <3>2, <3>3 DEF GoesOn
    <3> QED
      BY <3>1, <3>3, <3>4, <3>5
  <2> QED
    BY <2>2, <2>3
<1>3. ASSUME NEW p \in 1..(view.totalPages + 1), JumpTo(p) PROVE Goal
  <2>1. p \in Nat
    OBVIOUS
  <2> QED
    BY <1>3, <2>1, LinkType DEF JumpTo
<1>4. ASSUME NEW n \in HTMLPageSizes, SetPageSize(n) PROVE Goal
  <2>1. pagerURL(1, url) \in Url /\ n \in Nat
    BY LinkType, PageSizeAssumption
  <2>2. [pagerURL(1, url) EXCEPT !.per_page = n] \in Url
    BY <2>1 DEF Url
  <2> QED
    BY <1>4, <2>2 DEF SetPageSize
<1>5. ASSUME NEW c \in Fields, SortBy(c) PROVE Goal
  <2>1. c \in SortFields
    BY FieldsAssumption
  <2> QED
    BY <1>5, <2>1, HeaderType DEF SortBy
<1>6. ASSUME NEW f \in Links[list], PickFacet(f) PROVE Goal
  <2>1. With(url, f) \in Url
    BY <1>0 DEF With, Url
  <2> QED
    BY <1>6, <2>1 DEF PickFacet
<1> QED
  BY <1>1, <1>2, <1>3, <1>4, <1>5, <1>6 DEF Next

-----------------------------------------------------------------------------
(* Pages *)

\* A page of a sorted list holds the elements whose rank lies on it.
LEMMA CutFacts ==
    ASSUME NEW S, IsFiniteSet(S), NEW R, StrictOrder(S, R), NEW skip \in Nat, NEW size \in Nat \ {0}
    PROVE  LET q == Slice(InOrder(S, R), skip, size) IN
           /\ {q[k] : k \in DOMAIN q} = {i \in S : /\ skip <= Cardinality(Ahead(S, R, i))
                                                   /\ Cardinality(Ahead(S, R, i)) < skip + size}
           /\ q = <<>> => Cardinality(S) <= skip
<1> DEFINE s == InOrder(S, R)
           n == Cardinality(S)
           q == Slice(s, skip, size)
           c == [i \in S |-> Cardinality(Ahead(S, R, i))]
           M == {m \in 1..n : skip < m /\ m <= skip + size}
           T == {i \in S : skip <= c[i] /\ c[i] < skip + size}
<1>1. /\ n \in Nat /\ s \in [1..n -> S]
      /\ \A k \in 1..n : c[s[k]] = k - 1
      /\ \A i \in S : c[i] + 1 \in 1..n /\ s[c[i] + 1] = i
  <2>1. \A k \in 1..n : s[k] \in S /\ Cardinality(Ahead(S, R, s[k])) = k - 1
    BY SortedList
  <2>2. \A i \in S : Cardinality(Ahead(S, R, i)) + 1 \in 1..n /\ s[Cardinality(Ahead(S, R, i)) + 1] = i
    BY SortedList
  <2>3. n \in Nat /\ s \in [1..n -> S]
    BY SortedList
  <2> HIDE DEF s, n
  <2> QED
    BY <2>1, <2>2, <2>3
<1>2. \A i \in S : c[i] \in Nat
  BY AheadFinite
<1> HIDE DEF s, n
<1>3. {q[k] : k \in DOMAIN q} = {s[k] : k \in M} /\ (q = <<>> => n <= skip)
  <2>1. n \in Nat /\ s \in [1..n -> S]
    BY <1>1
  <2>2. IsCut(q, s, n, skip, size)
    BY <2>1, SliceFacts
  <2> QED
    BY <2>2 DEF IsCut
<1>4. \A i \in S : c[i] = Cardinality(Ahead(S, R, i))
  OBVIOUS
<1> HIDE DEF q, c
<1>5. \A k \in M : s[k] \in T
  <2> SUFFICES ASSUME NEW k \in M PROVE s[k] \in T
    OBVIOUS
  <2>1. k \in Nat /\ k \in 1..n /\ skip < k /\ k <= skip + size
    BY <1>1
  <2>2. s[k] \in S /\ c[s[k]] = k - 1
    BY <1>1, <2>1
  <2> QED
    BY <2>1, <2>2
<1>6. \A i \in T : c[i] + 1 \in M /\ s[c[i] + 1] = i
  <2> SUFFICES ASSUME NEW i \in T PROVE c[i] + 1 \in M /\ s[c[i] + 1] = i
    OBVIOUS
  <2>1. i \in S /\ c[i] \in Nat /\ skip <= c[i] /\ c[i] < skip + size
    BY <1>2
  <2>2. skip < c[i] + 1 /\ c[i] + 1 <= skip + size
    BY <2>1
  <2> QED
    BY <1>1, <2>1, <2>2
<1>7. {s[k] : k \in M} = T
  BY <1>5, <1>6
<1>8. T = {i \in S : /\ skip <= Cardinality(Ahead(S, R, i))
                     /\ Cardinality(Ahead(S, R, i)) < skip + size}
  BY <1>4
<1> QED
  BY <1>3, <1>7, <1>8 DEF q, s, n

\* Newest first is a strict order of the rows.
LEMMA NewestFirst ==
    ASSUME NEW S, S \subseteq Nat
    PROVE  StrictOrder(S, {p \in S \X S : p[1] > p[2]})
  BY DEF StrictOrder

\* What the Captures page shows, and the numbers of its pager.
LEMMA HomePage ==
    ASSUME NEW S, IsFiniteSet(S), NEW R, StrictOrder(S, R), NEW p \in Nat \ {0}, NEW s \in Nat \ {0}
    PROVE  LET q == paginateSlice(InOrder(S, R), p, s).items
               v == pageViewFor(Cardinality(S), p, s)
           IN  /\ paginateSlice(InOrder(S, R), p, s).pager = v
               /\ {q[k] : k \in DOMAIN q} = {i \in S :
                        /\ (v.page - 1) * s <= Cardinality(Ahead(S, R, i))
                        /\ Cardinality(Ahead(S, R, i)) < v.page * s}
               /\ q = <<>> => Cardinality(S) = 0
<1> DEFINE n == Cardinality(S)
           t == InOrder(S, R)
           v == pageViewFor(n, p, s)
           skip == (v.page - 1) * s
           q == Slice(t, skip, s)
<1>1. n \in Nat /\ Len(t) = n
  <2>1. n \in Nat /\ t \in [1..n -> S]
    BY SortedList
  <2> QED
    BY <2>1
<1>2. skip \in Nat /\ v.page * s = skip + s /\ (n > 0 => skip < n)
  <2> HIDE DEF n
  <2> QED
    BY <1>1, PageView
<1>3. q = paginateSlice(t, p, s).items /\ v = paginateSlice(t, p, s).pager
  BY <1>1 DEF paginateSlice
<1> HIDE DEF skip
<1>4. /\ {q[k] : k \in DOMAIN q} = {i \in S : /\ skip <= Cardinality(Ahead(S, R, i))
                                              /\ Cardinality(Ahead(S, R, i)) < skip + s}
      /\ q = <<>> => n <= skip
  BY <1>2, CutFacts
<1> HIDE DEF n, t, v, q
<1>5. q = <<>> => n = 0
  BY <1>1, <1>2, <1>4
<1>6. {q[k] : k \in DOMAIN q} = {i \in S : /\ skip <= Cardinality(Ahead(S, R, i))
                                           /\ Cardinality(Ahead(S, R, i)) < v.page * s}
  BY <1>2, <1>4
<1> QED
  BY <1>3, <1>5, <1>6 DEF n, t, v, skip

-----------------------------------------------------------------------------
(* The audit log *)

\* The matching rows are finitely many: those after row k, those before it,
\* and k.
LEMMA HitsFacts ==
    ASSUME NEW a \in Seq(Row), NEW f
    PROVE  /\ IsFiniteSet(Hits(a, f)) /\ Cardinality(Hits(a, f)) \in Nat
           /\ Hits(a, f) \subseteq Nat /\ Hits(a, f) \subseteq DOMAIN a
           /\ \A k \in DOMAIN a :
                 /\ IsFiniteSet(Newer(a, f, k)) /\ Cardinality(Newer(a, f, k)) \in Nat
                 /\ IsFiniteSet(Older(a, f, k)) /\ Cardinality(Older(a, f, k)) \in Nat
                 /\ k \in Hits(a, f) =>
                      Cardinality(Hits(a, f)) = Cardinality(Newer(a, f, k)) + Cardinality(Older(a, f, k)) + 1
<1>1. Len(a) \in Nat /\ DOMAIN a = 1..Len(a)
  OBVIOUS
<1>2. IsFiniteSet(1..Len(a))
  BY <1>1, FS_Interval
<1>3. Hits(a, f) \in SUBSET (1..Len(a)) /\ Hits(a, f) \subseteq Nat
  BY <1>1 DEF Hits
<1>4. IsFiniteSet(Hits(a, f)) /\ Cardinality(Hits(a, f)) \in Nat
  BY <1>2, <1>3, FS_Subset, FS_CardinalityType
<1>5. ASSUME NEW k \in DOMAIN a
      PROVE  /\ IsFiniteSet(Newer(a, f, k)) /\ Cardinality(Newer(a, f, k)) \in Nat
             /\ IsFiniteSet(Older(a, f, k)) /\ Cardinality(Older(a, f, k)) \in Nat
             /\ k \in Hits(a, f) =>
                  Cardinality(Hits(a, f)) = Cardinality(Newer(a, f, k)) + Cardinality(Older(a, f, k)) + 1
  <2> DEFINE H == Hits(a, f)
             N == Newer(a, f, k)
             O == Older(a, f, k)
  <2>1. N \in SUBSET H /\ O \in SUBSET H
    BY DEF Newer, Older
  <2>2. IsFiniteSet(N) /\ Cardinality(N) \in Nat /\ IsFiniteSet(O) /\ Cardinality(O) \in Nat
    BY <1>4, <2>1, FS_Subset, FS_CardinalityType
  <2>3. ASSUME k \in H PROVE Cardinality(H) = Cardinality(N) + Cardinality(O) + 1
    <3>1. H = (N \cup O) \cup {k} /\ k \notin N \cup O /\ N \cap O = {}
      BY <1>3, <2>3 DEF Newer, Older
    <3> HIDE DEF H, N, O
    <3>2. /\ IsFiniteSet(N \cup O)
          /\ Cardinality(N \cup O) = Cardinality(N) + Cardinality(O) - Cardinality(N \cap O)
      BY <2>2, FS_Union
    <3>3. Cardinality(N \cap O) = 0
      BY <3>1, FS_EmptySet
    <3>4. Cardinality((N \cup O) \cup {k}) = Cardinality(N \cup O) + 1
      BY <3>1, <3>2, FS_AddElement
    <3> QED
      BY <2>2, <3>1, <3>2, <3>3, <3>4
  <2> QED
    BY <2>2, <2>3
<1> QED
  BY <1>1, <1>3, <1>4, <1>5

\* An inserted row comes after all others.
LEMMA HitsGrow ==
    ASSUME NEW a \in Seq(Row), NEW row \in Row, NEW f
    PROVE  LET b == Append(a, row) IN
           /\ b \in Seq(Row) /\ DOMAIN b = DOMAIN a \cup {Len(a) + 1}
           /\ Len(a) + 1 \notin DOMAIN a /\ b[Len(a) + 1] = row
           /\ \A k \in DOMAIN a : b[k] = a[k]
           /\ Cardinality(Hits(b, f)) = Cardinality(Hits(a, f)) + (IF Matches(row, f) THEN 1 ELSE 0)
           /\ \A k \in DOMAIN a : /\ Older(b, f, k) = Older(a, f, k)
                                  /\ Cardinality(Newer(a, f, k)) <= Cardinality(Newer(b, f, k))
<1> DEFINE b == Append(a, row)
           n == Len(a) + 1
<1>1. /\ b \in Seq(Row) /\ DOMAIN a = 1..Len(a) /\ DOMAIN b = 1..n /\ Len(a) \in Nat
      /\ b[n] = row /\ \A k \in DOMAIN a : b[k] = a[k]
  OBVIOUS
<1> HIDE DEF b
<1>2. DOMAIN b = DOMAIN a \cup {n} /\ n \notin DOMAIN a /\ \A k \in DOMAIN a : k < n /\ k \in Nat
  BY <1>1
<1> HIDE DEF n
<1>3. Hits(b, f) = IF Matches(row, f) THEN Hits(a, f) \cup {n} ELSE Hits(a, f)
  BY <1>1, <1>2 DEF Hits
<1>4. IsFiniteSet(Hits(a, f)) /\ Cardinality(Hits(a, f)) \in Nat /\ n \notin Hits(a, f)
  <2>1. n \notin Hits(a, f)
    BY <1>2 DEF Hits
  <2> QED
    BY <2>1, HitsFacts
<1>5. Cardinality(Hits(b, f)) = Cardinality(Hits(a, f)) + (IF Matches(row, f) THEN 1 ELSE 0)
  <2>1. CASE Matches(row, f)
    BY <1>3, <1>4, <2>1, FS_AddElement
  <2>2. CASE ~Matches(row, f)
    BY <1>3, <1>4, <2>2
  <2> QED
    BY <2>1, <2>2
<1>6. ASSUME NEW k \in DOMAIN a
      PROVE  /\ Older(b, f, k) = Older(a, f, k)
             /\ Cardinality(Newer(a, f, k)) <= Cardinality(Newer(b, f, k))
  <2>0. k < n /\ k \in Nat /\ n \in Nat /\ k \in DOMAIN b
    BY <1>1, <1>2 DEF n
  <2>1. ~(n < k)
    BY <2>0
  <2>2. Older(b, f, k) = Older(a, f, k)
    BY <1>3, <2>1 DEF Older
  <2>3. Newer(a, f, k) \in SUBSET Newer(b, f, k)
    BY <1>3 DEF Newer
  <2>4. IsFiniteSet(Newer(b, f, k))
    BY <1>1, <2>0, HitsFacts
  <2> QED
    BY <2>2, <2>3, <2>4, FS_Subset
<1> QED
  BY <1>1, <1>2, <1>5, <1>6 DEF b, n

\* The rows of a log stand at different places.
LEMMA NewerDiffer ==
    ASSUME NEW a \in Seq(Row), NEW f, NEW j \in Hits(a, f), NEW k \in Hits(a, f),
           Cardinality(Newer(a, f, j)) = Cardinality(Newer(a, f, k))
    PROVE  j = k
<1> DEFINE H == Hits(a, f)
           R == {p \in H \X H : p[1] > p[2]}
<1>1. IsFiniteSet(H) /\ H \subseteq Nat /\ H \subseteq DOMAIN a
  BY HitsFacts
<1>2. StrictOrder(H, R)
  BY <1>1, NewestFirst
<1>3. \A i \in H : Newer(a, f, i) = Ahead(H, R, i)
  BY DEF Newer, Ahead
<1>4. \A i \in H : Cardinality(Ahead(H, R, i)) \in Nat
  <2>1. \A i \in H : Cardinality(Newer(a, f, i)) \in Nat
    BY <1>1, HitsFacts
  <2> QED
    BY <1>3, <2>1
<1>5. j # k => <<j, k>> \in R \/ <<k, j>> \in R
  BY <1>2 DEF StrictOrder
<1> HIDE DEF R, H
<1>6. j \in H /\ k \in H
  BY DEF H
<1>7. j # k => \/ Cardinality(Ahead(H, R, j)) < Cardinality(Ahead(H, R, k))
               \/ Cardinality(Ahead(H, R, k)) < Cardinality(Ahead(H, R, j))
  BY <1>1, <1>2, <1>5, <1>6, AheadGrows
<1> QED
  BY <1>3, <1>4, <1>6, <1>7

\* Rows of the log are finitely many.
LEMMA RowsFinite ==
    ASSUME NEW a \in Seq(Row), NEW S \in SUBSET DOMAIN a
    PROVE  IsFiniteSet(S) /\ Cardinality(S) \in Nat
<1>1. DOMAIN a = 1..Len(a) /\ Len(a) \in Nat
  OBVIOUS
<1>2. IsFiniteSet(DOMAIN a)
  BY <1>1, FS_Interval
<1> QED
  BY <1>2, FS_Subset, FS_CardinalityType

\* recordAudit reads the clock for a row that waits for its INSERT.
LEMMA RecordTyped ==
    ASSUME Typed, NEW action \in {"upload", "delete"}, recordAudit(action)
    PROVE  pending' \in Seq(Row)
<1>1. \A a \in Actors : [actor |-> a, action |-> action, at |-> now] \in Row
  BY DEF Row, Typed
<1>2. pending \in Seq(Row)
  BY DEF Typed
<1>3. CASE UNCHANGED pending
  BY <1>2, <1>3
<1>4. ASSUME NEW a \in Actors,
             pending' = Append(pending, [actor |-> a, action |-> action, at |-> now])
      PROVE  pending' \in Seq(Row)
  <2> DEFINE row == [actor |-> a, action |-> action, at |-> now]
  <2>1. row \in Row /\ pending' = Append(pending, row)
    BY <1>1, <1>4
  <2> HIDE DEF row
  <2> QED
    BY <1>2, <2>1
<1> QED
  BY <1>3, <1>4 DEF recordAudit

\* An INSERT takes one of the waiting rows.
LEMMA WithoutType ==
    ASSUME NEW q \in Seq(Row), NEW k \in DOMAIN q
    PROVE  q[k] \in Row /\ Without(q, k) \in Seq(Row)
<1>1. DOMAIN q = 1..Len(q) /\ Len(q) \in Nat /\ \A j \in 1..Len(q) : q[j] \in Row
  OBVIOUS
<1>2. Len(q) - 1 \in Nat /\ k \in 1..Len(q)
  BY <1>1
<1>3. \A j \in 1..(Len(q) - 1) : (IF j < k THEN j ELSE j + 1) \in 1..Len(q)
  BY <1>1, <1>2
<1>4. \A j \in 1..(Len(q) - 1) : q[IF j < k THEN j ELSE j + 1] \in Row
  BY <1>1, <1>3
<1>5. Without(q, k) \in [1..(Len(q) - 1) -> Row]
  BY <1>4 DEF Without
<1> QED
  BY <1>1, <1>2, <1>5

\* A step that leaves log and reader alone does not disturb a walk on the log.
LEMMA LogFrame ==
    ASSUME Inv, UNCHANGED <<audit, reader>>, walk'.whole = walk.whole,
           list # "captures" => walk' = walk
    PROVE  CountOK' /\ LogWalk'
<1>0. /\ audit' = audit /\ pc' = pc /\ list' = list /\ url' = url /\ view' = view /\ filter' = filter
      /\ CountOK /\ LogWalk
  BY DEF Inv, reader
<1>1. CountOK' /\ PageSize' = PageSize
  BY <1>0 DEF CountOK, PageSize
<1>2. CASE list = "captures"
  BY <1>0, <1>1, <1>2 DEF LogWalk
<1>3. CASE list # "captures"
  <2>1. walk' = walk /\ Missed' = Missed
    BY <1>3 DEF Missed
  <2> QED
    BY <1>0, <1>1, <2>1 DEF LogWalk
<1> QED
  BY <1>2, <1>3

\* A row that is inserted, of whatever time, comes above all others: it
\* costs a reader at most a place at the end.
LEMMA InsertKeeps ==
    ASSUME Inv, NEW q \in DOMAIN pending, InsertAudit(q)
    PROVE  Inv'
<1> DEFINE row == pending[q]
           n == Len(audit) + 1
           hit == IF Matches(row, filter) THEN 1 ELSE 0
<1>0. /\ Typed /\ CountOK /\ LogWalk
      /\ now' = now /\ born' = born /\ pc' = pc /\ list' = list /\ url' = url /\ view' = view
      /\ filter' = filter /\ shown' = shown
      /\ audit' = Append(audit, row) /\ pending' = Without(pending, q)
      /\ walk' = IF pc = "rows" /\ walk.whole /\ Matches(row, filter)
                   THEN [walk EXCEPT !.late = @ + 1] ELSE walk
  BY DEF Inv, InsertAudit, reader
<1>1. /\ audit \in Seq(Row) /\ view \in View /\ (list = "captures" => pc # "rows")
      /\ walk \in Walk /\ pending \in Seq(Row)
  BY <1>0 DEF Typed
<1>2. row \in Row /\ pending' \in Seq(Row)
  BY <1>0, <1>1, WithoutType
<1> HIDE DEF row
<1>3. /\ audit' \in Seq(Row) /\ DOMAIN audit' = DOMAIN audit \cup {n}
      /\ \A k \in DOMAIN audit : audit'[k] = audit[k]
      /\ Cardinality(Hits(audit', filter)) = Cardinality(Hits(audit, filter)) + hit
      /\ \A k \in DOMAIN audit :
            /\ Older(audit', filter, k) = Older(audit, filter, k)
            /\ Cardinality(Newer(audit, filter, k)) <= Cardinality(Newer(audit', filter, k))
  BY <1>0, <1>1, <1>2, HitsGrow
<1> HIDE DEF n
<1>4. /\ walk' \in Walk /\ walk'.whole = walk.whole /\ walk'.start = walk.start
      /\ walk'.seen = walk.seen /\ walk'.deletes = walk.deletes /\ walk'.torn = walk.torn
      /\ pc = "rows" /\ walk.whole => walk'.late = walk.late + hit
      /\ pc # "rows" => walk' = walk
  <2>1. CASE pc = "rows" /\ walk.whole /\ Matches(row, filter)
    <3>1. walk' = [walk EXCEPT !.late = @ + 1] /\ hit = 1
      BY <1>0, <2>1
    <3>2. walk.late + 1 \in Nat
      BY <1>1 DEF Walk
    <3> QED
      BY <1>1, <2>1, <3>1, <3>2 DEF Walk
  <2>2. CASE ~(pc = "rows" /\ walk.whole /\ Matches(row, filter))
    <3>1. walk' = walk /\ (pc = "rows" /\ walk.whole => hit = 0)
      BY <1>0, <2>2
    <3>2. walk.late \in Nat
      BY <1>1 DEF Walk
    <3> QED
      BY <1>1, <3>1, <3>2
  <2> QED
    BY <2>1, <2>2
<1>5. Missed' = Missed /\ PageSize' = PageSize /\ present' = present /\ Slipped' = Slipped
  BY <1>0, <1>4 DEF Missed, PageSize, present, Slipped
<1>6. Typed'
  BY <1>0, <1>2, <1>3, <1>4, <1>5 DEF Typed
<1>7. ViewOK' /\ EmptyPageIsEmptyList'
  BY <1>0, <1>5 DEF Inv, ViewOK, EmptyPageIsEmptyList
<1>8. CaptureWalk'
  BY <1>0, <1>1, <1>4, <1>5 DEF Inv, CaptureWalk
<1>9. Cardinality(Hits(audit, filter)) \in Nat /\ view.total \in Nat /\ hit \in {0, 1}
  BY <1>1, HitsFacts DEF View
<1> HIDE DEF hit
<1>10. CountOK'
  BY <1>0, <1>3, <1>9 DEF CountOK
<1>11. LogWalk'
  <2> SUFFICES ASSUME list # "captures", walk.whole PROVE LogWalk'
    BY <1>0, <1>4 DEF LogWalk
  <2>1. walk.start \subseteq DOMAIN audit /\ Missed \subseteq DOMAIN audit /\ walk.torn \in Nat
        /\ walk.late \in Nat
    BY <1>0, <1>1 DEF LogWalk, Missed, Walk
  <2>2. ASSUME NEW m \in Int,
               Cardinality(SlippedRows(audit, filter, Missed, m)) <= walk.torn
        PROVE  Cardinality(SlippedRows(audit', filter, Missed, m)) <= walk.torn
    <3> DEFINE A == SlippedRows(audit, filter, Missed, m)
               B == SlippedRows(audit', filter, Missed, m)
    <3>1. B \in SUBSET A
      <4> SUFFICES ASSUME NEW k \in Missed, k \in Hits(audit', filter),
                          Cardinality(Newer(audit', filter, k)) < m
                   PROVE  k \in Hits(audit, filter) /\ Cardinality(Newer(audit, filter, k)) < m
        BY DEF SlippedRows
      <4>1. k \in DOMAIN audit /\ k \in DOMAIN audit'
        BY <1>3, <2>1
      <4>2. k \in Hits(audit, filter)
        BY <1>3, <4>1 DEF Hits
      <4>3. /\ Cardinality(Newer(audit, filter, k)) \in Nat
            /\ Cardinality(Newer(audit', filter, k)) \in Nat
        BY <1>1, <1>3, <4>1, HitsFacts
      <4> QED
        BY <1>3, <4>1, <4>2, <4>3
    <3>2. A \in SUBSET DOMAIN audit
      BY <2>1 DEF SlippedRows
    <3> HIDE DEF A, B
    <3>3. IsFiniteSet(A) /\ Cardinality(A) \in Nat
      BY <1>1, <3>2, RowsFinite
    <3>4. Cardinality(B) <= Cardinality(A) /\ Cardinality(B) \in Nat
      BY <3>1, <3>3, FS_Subset, FS_CardinalityType
    <3>5. Cardinality(A) <= walk.torn
      BY <2>2 DEF A
    <3>6. Cardinality(B) <= walk.torn
      BY <2>1, <3>3, <3>4, <3>5
    <3> QED
      BY <3>6 DEF B
  <2>3. NotOldest(audit', filter, Missed, walk.late) = NotOldest(audit, filter, Missed, walk.late)
    BY <1>3, <2>1 DEF NotOldest
  <2>4. (view.page - 1) * PageSize \in Int /\ view.page * PageSize \in Int
    <3>1. view.page \in Int /\ PageSize \in Int
      BY <1>1, ParsedTypes DEF View, PageSize
    <3> QED
      BY <3>1
  <2>5. pc = "rows" => Cardinality(Hits(audit', filter)) <= view.total + walk'.late
    BY <1>0, <1>3, <1>4, <1>9, <2>1 DEF LogWalk
  <2>6. Missed \subseteq Hits(audit, filter) => Missed \subseteq Hits(audit', filter)
    BY <1>3 DEF Hits
  <2>7. walk'.start \subseteq DOMAIN audit'
    BY <1>3, <1>4, <2>1
  <2>8. CASE pc = "rows"
    <3>1. Cardinality(SlippedRows(audit, filter, Missed, (view.page - 1) * PageSize)) <= walk.torn
      BY <1>0, <2>8 DEF LogWalk
    <3>2. Cardinality(SlippedRows(audit', filter, Missed, (view.page - 1) * PageSize)) <= walk.torn
      BY <2>2, <2>4, <3>1
    <3> QED
      BY <1>0, <1>4, <1>5, <2>5, <2>7, <2>8, <3>2 DEF LogWalk
  <2>9. CASE pc = "shown"
    <3>1. /\ Missed \subseteq Hits(audit, filter)
          /\ Cardinality(SlippedRows(audit, filter, Missed, view.page * PageSize)) <= walk.torn
          /\ ~view.hasNext => Cardinality(NotOldest(audit, filter, Missed, walk.late)) <= walk.torn
      BY <1>0, <2>9 DEF LogWalk
    <3>2. Cardinality(SlippedRows(audit', filter, Missed, view.page * PageSize)) <= walk.torn
      BY <2>2, <2>4, <3>1
    <3>3. walk' = walk
      BY <1>4, <2>9
    <3> QED
      BY <1>0, <1>5, <2>3, <2>6, <2>7, <2>9, <3>1, <3>2, <3>3 DEF LogWalk
  <2> QED
    BY <1>0, <2>7, <2>8, <2>9 DEF LogWalk
<1> QED
  BY <1>6, <1>7, <1>8, <1>10, <1>11 DEF Inv

-----------------------------------------------------------------------------
(* The places of the archives *)

Archives(S, b) == IsFiniteSet(S) /\ S \subseteq Ids /\ \A i \in S : b[i] \in Nat

\* No two archives have the same place, and all places are below the number
\* of archives.
LEMMA PlaceFacts ==
    ASSUME NEW S, NEW b, Archives(S, b), NEW u
    PROVE  LET R == Order(S, parseSortField(u.sort), parseSortAsc(u.sort, u.order), b) IN
           /\ StrictOrder(S, R) /\ Cardinality(S) \in Nat
           /\ \A i \in S : /\ Place(S, u, b, i) \in Nat /\ Place(S, u, b, i) < Cardinality(S)
                           /\ Place(S, u, b, i) = Cardinality(Ahead(S, R, i))
                           /\ IsFiniteSet(Ahead(S, R, i))
           /\ \A i, j \in S : Place(S, u, b, i) = Place(S, u, b, j) => i = j
<1> DEFINE R == Order(S, parseSortField(u.sort), parseSortAsc(u.sort, u.order), b)
<1>1. StrictOrder(S, R) /\ IsFiniteSet(S)
  BY ArchiveOrder, ParsedTypes DEF Archives
<1>2. \A i \in S : Place(S, u, b, i) = Cardinality(Ahead(S, R, i))
  BY DEF Place
<1> HIDE DEF R
<1>3. \A i \in S : /\ IsFiniteSet(Ahead(S, R, i)) /\ Cardinality(Ahead(S, R, i)) \in Nat
                   /\ Cardinality(Ahead(S, R, i)) < Cardinality(S)
  BY <1>1, AheadFinite
<1>4. \A i, j \in S : i # j => Cardinality(Ahead(S, R, i)) # Cardinality(Ahead(S, R, j))
  <2> SUFFICES ASSUME NEW i \in S, NEW j \in S, i # j
               PROVE  Cardinality(Ahead(S, R, i)) # Cardinality(Ahead(S, R, j))
    OBVIOUS
  <2>1. <<i, j>> \in R \/ <<j, i>> \in R
    BY <1>1 DEF StrictOrder
  <2>2. Cardinality(Ahead(S, R, i)) < Cardinality(Ahead(S, R, j))
        \/ Cardinality(Ahead(S, R, j)) < Cardinality(Ahead(S, R, i))
    BY <1>1, <2>1, AheadGrows
  <2> QED
    BY <1>3, <2>2
<1>5. Cardinality(S) \in Nat
  BY <1>1, FS_CardinalityType
<1> QED
  BY <1>1, <1>2, <1>3, <1>4, <1>5 DEF R

\* One archive more or less moves the others by at most one place: an upload
\* only forward, a delete only back.
LEMMA PlaceMoves ==
    ASSUME NEW S, NEW b, Archives(S, b), NEW T, NEW c, Archives(T, c),
           NEW x, T = S \cup {x}, \A i \in S : b[i] = c[i], NEW u, NEW i \in S
    PROVE  /\ Place(S, u, b, i) <= Place(T, u, c, i)
           /\ Place(T, u, c, i) <= Place(S, u, b, i) + 1
<1> DEFINE field == parseSortField(u.sort)
           asc == parseSortAsc(u.sort, u.order)
           A == Ahead(S, Order(S, field, asc, b), i)
           B == Ahead(T, Order(T, field, asc, c), i)
<1>1. field \in SortFields /\ i \in T
  BY ParsedTypes
<1>2. IsFiniteSet(A) /\ IsFiniteSet(B) /\ Place(S, u, b, i) = Cardinality(A)
      /\ Place(T, u, c, i) = Cardinality(B)
  BY <1>1, PlaceFacts
<1> HIDE DEF field, asc
<1>3. \A j \in S : Before(j, i, field, asc, b) <=> Before(j, i, field, asc, c)
  BY <1>1, OrderIsLocal
<1>4. A = {j \in S : Before(j, i, field, asc, b)} /\ B = {j \in T : Before(j, i, field, asc, c)}
  BY <1>1 DEF Ahead, Order
<1> HIDE DEF A, B
<1>5. A \in SUBSET B /\ B \in SUBSET (A \cup {x})
  BY <1>3, <1>4
<1>6. Cardinality(A) \in Nat /\ Cardinality(B) \in Nat /\ IsFiniteSet(A \cup {x})
      /\ Cardinality(A \cup {x}) <= Cardinality(A) + 1 /\ Cardinality(A \cup {x}) \in Nat
  <2>1. IsFiniteSet(A \cup {x})
        /\ Cardinality(A \cup {x}) = IF x \in A THEN Cardinality(A) ELSE Cardinality(A) + 1
    BY <1>2, FS_AddElement
  <2>2. Cardinality(A) \in Nat /\ Cardinality(B) \in Nat
    BY <1>2, FS_CardinalityType
  <2> QED
    BY <2>1, <2>2
<1>7. Cardinality(A) <= Cardinality(B)
  BY <1>2, <1>5, FS_Subset
<1>8. Cardinality(B) <= Cardinality(A \cup {x})
  BY <1>5, <1>6, FS_Subset
<1> QED
  BY <1>2, <1>6, <1>7, <1>8

PlacedAt(S, u, b, k) == {i \in S : Place(S, u, b, i) = k}

\* At most one archive has a given place.
LEMMA OnePlace ==
    ASSUME NEW S, NEW b, Archives(S, b), NEW u, NEW k
    PROVE  IsFiniteSet(PlacedAt(S, u, b, k)) /\ Cardinality(PlacedAt(S, u, b, k)) <= 1
<1> DEFINE E == PlacedAt(S, u, b, k)
<1>1. \A i, j \in E : i = j
  BY PlaceFacts DEF PlacedAt
<1>2. CASE E = {}
  BY <1>2, FS_EmptySet
<1>3. CASE E # {}
  <2>1. PICK i \in E : TRUE
    BY <1>3
  <2>2. E = {i}
    BY <1>1, <2>1
  <2>3. IsFiniteSet({i}) /\ Cardinality({i}) = 1
    BY FS_Singleton
  <2> QED
    BY <2>2, <2>3
<1> QED
  BY <1>2, <1>3

-----------------------------------------------------------------------------
(* Uploads, deletes and the clock *)

\* The missed archives are finitely many.
LEMMA MissedFinite ==
    ASSUME Inv, list = "captures", walk.whole
    PROVE  /\ Archives(present, born) /\ walk.deletes \in Nat
           /\ Missed \subseteq present /\ IsFiniteSet(Missed) /\ IsFiniteSet(Slipped)
           /\ Cardinality(Missed) \in Nat /\ Cardinality(Slipped) \in Nat
           /\ view.page * PageSize \in Nat
<1>1. Archives(present, born) /\ walk.deletes \in Nat /\ view.page \in Nat
  BY DEF Inv, Typed, Archives, Walk, View
<1>2. Missed \in SUBSET present
  BY DEF Inv, CaptureWalk, Missed
<1>3. Slipped \in SUBSET Missed
  BY DEF Slipped
<1>4. IsFiniteSet(Missed)
  BY <1>1, <1>2, FS_Subset DEF Archives
<1>5. IsFiniteSet(Slipped)
  BY <1>3, <1>4, FS_Subset
<1>6. PageSize \in Nat
  BY ParsedTypes DEF PageSize
<1>7. view.page * PageSize \in Nat
  <2>1. \A m, n \in Nat : m * n \in Nat
    OBVIOUS
  <2> QED
    BY <1>1, <1>6, <2>1
<1> QED
  BY <1>1, <1>2, <1>4, <1>5, <1>7, FS_CardinalityType

\* A capture that is stored takes no page from a reader: it pushes others
\* forward only.
LEMMA UploadKeeps ==
    ASSUME Inv, NEW x \in Moving[list], Upload(x)
    PROVE  Inv'
<1>0. /\ Typed /\ list \in Lists /\ walk \in Walk /\ now \in Nat /\ x \in Ids /\ x \notin present
      /\ Archives(present, born)
      /\ born' = [j \in present \cup {x} |-> IF j = x THEN now ELSE born[j]]
      /\ recordAudit("upload") /\ UNCHANGED <<now, audit, reader, walk>>
  BY CatalogAssumption DEF Inv, Typed, Upload, Archives
<1>1. /\ now' = now /\ pc' = pc /\ list' = list /\ url' = url /\ view' = view /\ shown' = shown
  BY <1>0 DEF reader
<1>2. /\ audit' \in Seq(Row) /\ pending' \in Seq(Row) /\ walk' = walk
      /\ CountOK' /\ LogWalk'
  BY <1>0, RecordTyped, LogFrame DEF Typed
<1>3. /\ present' = present \cup {x}
      /\ \A i \in present : born'[i] = born[i]
      /\ \A i \in present' : born'[i] \in Nat
  BY <1>0 DEF present, Archives
<1>4. Archives(present', born')
  <2>1. IsFiniteSet(present \cup {x})
    BY <1>0, FS_AddElement DEF Archives
  <2> QED
    BY <1>0, <1>3, <2>1 DEF Archives
<1>5. Typed'
  BY <1>0, <1>1, <1>2, <1>4 DEF Typed, Archives
<1>6. ViewOK' /\ EmptyPageIsEmptyList'
  BY <1>1 DEF Inv, ViewOK, EmptyPageIsEmptyList, PageSize
<1>7. CaptureWalk'
  <2> SUFFICES ASSUME list = "captures", walk.whole PROVE CaptureWalk'
    BY <1>1, <1>2 DEF CaptureWalk
  <2>1. walk' = walk /\ Missed' = Missed /\ PageSize' = PageSize
    BY <1>1, <1>2 DEF Missed, PageSize
  <2>2. /\ Missed \subseteq present /\ IsFiniteSet(Slipped) /\ walk.deletes \in Nat
        /\ view.page * PageSize \in Nat /\ Cardinality(Slipped) \in Nat
    BY MissedFinite
  <2>3. walk.start \subseteq present'
    BY <1>3 DEF Inv, CaptureWalk
  <2>4. Slipped' \in SUBSET Slipped
    <3> SUFFICES ASSUME NEW i \in Missed, Place(present', url, born', i) < view.page * PageSize
                 PROVE  Place(present, url, born, i) < view.page * PageSize
      BY <1>1, <2>1 DEF Slipped
    <3>1. i \in present /\ i \in present'
      BY <1>3, <2>2
    <3>2. Place(present, url, born, i) <= Place(present', url, born', i)
      BY <1>0, <1>3, <1>4, <3>1, PlaceMoves
    <3>3. Place(present, url, born, i) \in Nat /\ Place(present', url, born', i) \in Nat
      BY <1>0, <1>4, <3>1, PlaceFacts
    <3> QED
      BY <2>2, <3>2, <3>3
  <2>5. Cardinality(Slipped') <= Cardinality(Slipped) /\ Cardinality(Slipped') \in Nat
    BY <2>2, <2>4, FS_Subset, FS_CardinalityType
  <2>6. /\ ~view.hasNext => Cardinality(Missed) <= walk.deletes
        /\ url.facets = None => Cardinality(Slipped) <= walk.deletes
    BY DEF Inv, CaptureWalk
  <2>7. url.facets = None => Cardinality(Slipped') <= walk.deletes
    BY <2>2, <2>5, <2>6
  <2> QED
    BY <1>1, <2>1, <2>3, <2>6, <2>7 DEF CaptureWalk
<1> QED
  BY <1>2, <1>5, <1>6, <1>7 DEF Inv

\* A capture that is deleted lets at most one other slip to a page that was
\* already read, and is counted.
LEMMA DeleteKeeps ==
    ASSUME Inv, NEW x \in Moving[list], Delete(x)
    PROVE  Inv'
<1> DEFINE w == IF list = "captures" /\ walk.whole
                  THEN [walk EXCEPT !.start = @ \ {x}, !.deletes = @ + 1] ELSE walk
<1>0. /\ Typed /\ list \in Lists /\ walk \in Walk /\ now \in Nat /\ x \in present
      /\ Archives(present, born)
      /\ born' = [j \in present \ {x} |-> born[j]]
      /\ recordAudit("delete") /\ walk' = w /\ UNCHANGED <<now, audit, reader>>
  BY DEF Inv, Typed, Delete, Archives
<1>1. /\ now' = now /\ pc' = pc /\ list' = list /\ url' = url /\ view' = view /\ shown' = shown
  BY <1>0 DEF reader
<1>2. /\ w \in Walk /\ w.whole = walk.whole /\ w.seen = walk.seen
      /\ list # "captures" => w = walk
      /\ list = "captures" /\ walk.whole => w.start = walk.start \ {x} /\ w.deletes = walk.deletes + 1
  <2>1. CASE list = "captures" /\ walk.whole
    <3>1. walk.start \ {x} \in SUBSET Nat /\ walk.deletes + 1 \in Nat
      BY <1>0 DEF Walk
    <3> QED
      BY <1>0, <2>1, <3>1 DEF Walk
  <2>2. CASE ~(list = "captures" /\ walk.whole)
    BY <1>0, <2>2
  <2> QED
    BY <2>1, <2>2
<1> HIDE DEF w
<1>3. /\ audit' \in Seq(Row) /\ pending' \in Seq(Row) /\ walk' \in Walk
      /\ walk'.whole = walk.whole /\ walk' = w
      /\ CountOK' /\ LogWalk'
  BY <1>0, <1>2, RecordTyped, LogFrame DEF Typed
<1>4. /\ present' = present \ {x} /\ present = present' \cup {x}
      /\ \A i \in present' : born'[i] = born[i]
  BY <1>0 DEF present
<1>5. Archives(present', born')
  <2>1. IsFiniteSet(present \ {x})
    BY <1>0, FS_RemoveElement DEF Archives
  <2> QED
    BY <1>0, <1>4, <2>1 DEF Archives
<1>6. Typed'
  BY <1>0, <1>1, <1>3, <1>5 DEF Typed, Archives
<1>7. ViewOK' /\ EmptyPageIsEmptyList'
  BY <1>1 DEF Inv, ViewOK, EmptyPageIsEmptyList, PageSize
<1>8. CaptureWalk'
  <2> SUFFICES ASSUME list = "captures", walk.whole PROVE CaptureWalk'
    BY <1>1, <1>3 DEF CaptureWalk
  <2> DEFINE k == view.page * PageSize
             E == PlacedAt(present, url, born, k)
  <2>1. /\ walk' = w /\ PageSize' = PageSize /\ walk'.deletes = walk.deletes + 1
        /\ walk'.start = walk.start \ {x} /\ Missed' \in SUBSET Missed /\ x \notin Missed'
    BY <1>1, <1>2, <1>3 DEF Missed, PageSize
  <2>2. /\ Missed \subseteq present /\ IsFiniteSet(Slipped) /\ IsFiniteSet(Missed)
        /\ walk.deletes \in Nat /\ k \in Nat
        /\ Cardinality(Missed) \in Nat /\ Cardinality(Slipped) \in Nat
    BY MissedFinite
  <2>3. walk'.start \subseteq present'
    BY <1>4, <2>1 DEF Inv, CaptureWalk
  <2> HIDE DEF k
  <2>4. Slipped' \in SUBSET (Slipped \cup E)
    <3> SUFFICES ASSUME NEW i \in Missed', Place(present', url, born', i) < k
                 PROVE  /\ i \in Missed /\ i \in present
                        /\ Place(present, url, born, i) < k \/ Place(present, url, born, i) = k
      BY <1>1, <2>1 DEF Slipped, k, PlacedAt
    <3>1. i \in Missed /\ i \in present /\ i \in present'
      BY <1>4, <2>1, <2>2
    <3>2. Place(present, url, born, i) <= Place(present', url, born', i) + 1
      BY <1>0, <1>4, <1>5, <3>1, PlaceMoves
    <3>3. Place(present, url, born, i) \in Nat /\ Place(present', url, born', i) \in Nat
      BY <1>0, <1>5, <3>1, PlaceFacts
    <3> QED
      BY <2>2, <3>1, <3>2, <3>3
  <2>5. IsFiniteSet(E) /\ Cardinality(E) <= 1 /\ Cardinality(E) \in Nat
    <3>1. IsFiniteSet(E) /\ Cardinality(E) <= 1
      BY <1>0, OnePlace
    <3> QED
      BY <3>1, FS_CardinalityType
  <2> HIDE DEF E
  <2>6. /\ IsFiniteSet(Slipped \cup E)
        /\ Cardinality(Slipped \cup E) = Cardinality(Slipped) + Cardinality(E) - Cardinality(Slipped \cap E)
        /\ Cardinality(Slipped \cap E) \in Nat
    <3>1. IsFiniteSet(Slipped \cap E)
      BY <2>2, FS_Intersection
    <3> QED
      BY <2>2, <2>5, <3>1, FS_Union, FS_CardinalityType
  <2>7. Cardinality(Slipped') <= Cardinality(Slipped \cup E) /\ Cardinality(Slipped') \in Nat
    BY <2>4, <2>6, FS_Subset, FS_CardinalityType
  <2>8. Cardinality(Missed') <= Cardinality(Missed) /\ Cardinality(Missed') \in Nat
    BY <2>1, <2>2, FS_Subset, FS_CardinalityType
  <2>9. /\ ~view.hasNext => Cardinality(Missed) <= walk.deletes
        /\ url.facets = None => Cardinality(Slipped) <= walk.deletes
    BY DEF Inv, CaptureWalk
  <2>10. ~view.hasNext => Cardinality(Missed') <= walk'.deletes
    BY <2>1, <2>2, <2>8, <2>9
  <2>11. url.facets = None => Cardinality(Slipped') <= walk'.deletes
    BY <2>1, <2>2, <2>5, <2>6, <2>7, <2>9
  <2> QED
    BY <1>1, <2>3, <2>10, <2>11 DEF CaptureWalk
<1> QED
  BY <1>3, <1>6, <1>7, <1>8 DEF Inv

\* The passing of time changes no page: a filter keeps the time it was made.
LEMMA TickKeeps ==
    ASSUME Inv, Tick
    PROVE  Inv'
<1>0. /\ now' = now + 1 /\ now \in Nat /\ born' = born /\ pending' = pending
      /\ audit' = audit /\ pc' = pc /\ list' = list
      /\ url' = url /\ view' = view /\ filter' = filter /\ shown' = shown /\ walk' = walk
  BY DEF Inv, Typed, Tick, reader
<1>1. Typed' /\ ViewOK' /\ EmptyPageIsEmptyList' /\ CountOK'
  BY <1>0 DEF Inv, Typed, ViewOK, EmptyPageIsEmptyList, CountOK, PageSize, present
<1>4. CaptureWalk' /\ LogWalk'
  <2>1. Missed' = Missed /\ PageSize' = PageSize /\ present' = present /\ Slipped' = Slipped
    BY <1>0 DEF Missed, PageSize, present, Slipped
  <2>2. CaptureWalk /\ LogWalk
    BY DEF Inv
  <2>3. CaptureWalk'
    BY <1>0, <2>1, <2>2 DEF CaptureWalk
  <2>4. LogWalk'
    BY <1>0, <2>1, <2>2 DEF LogWalk
  <2> QED
    BY <2>3, <2>4
<1> QED
  BY <1>1, <1>4 DEF Inv

-----------------------------------------------------------------------------
(* The Captures page *)

\* Without facets every archive is listed.
LEMMA NoFacets ==
    ASSUME NEW i, NEW at, NEW t
    PROVE  archivePasses(i, ParseFilter(None), at, t)
<1> DEFINE f == ParseFilter(None)
<1>1. f = [x \in {"cluster", "query", "window", "source", "storage"} |-> None]
  BY DEF ParseFilter
<1>2. f.cluster = None /\ f.query = None /\ f.window = None /\ f.source = None /\ f.storage = None
  BY <1>1
<1> HIDE DEF f
<1>3. windowSince(f.window, t) = None
  BY <1>2 DEF windowSince
<1>4. archivePasses(i, f, at, t)
  BY <1>2, <1>3 DEF archivePasses
<1> QED
  BY <1>4 DEF f

\* A pager is well-formed, and shows an existing page.
LEMMA ViewType ==
    ASSUME NEW n \in Nat, NEW s \in Nat \ {0}, NEW p \in Nat \ {0}
    PROVE  pageViewFor(n, p, s) \in View
<1> DEFINE v == pageViewFor(n, p, s)
           tp == TotalPages(n, s)
           a == v.page > 1
           b == v.page < tp
<1>1. v.page \in 1..tp /\ v = [page |-> v.page, total |-> n, totalPages |-> tp, hasPrev |-> a, hasNext |-> b]
  BY PageView
<1>2. tp \in Nat \ {0}
  BY LastPage
<1>3. a \in BOOLEAN /\ b \in BOOLEAN
  OBVIOUS
<1> HIDE DEF v, tp
<1>4. v.page \in Nat \ {0}
  BY <1>1, <1>2
<1> HIDE DEF a, b
<1>5. v \in View
  BY <1>1, <1>2, <1>3, <1>4 DEF View
<1> QED
  BY <1>5 DEF v

\* What handleHome makes of the state: the page, the pager and the walk, in
\* terms of the places of the archives that pass the filter.
Shows(hits, u, next) ==
    LET s == parsePageSize(u.per_page)
        n == Cardinality(hits)
        cut == {i \in hits : /\ (view'.page - 1) * s <= Place(hits, u, born, i)
                             /\ Place(hits, u, born, i) < view'.page * s}
    IN  /\ view' = pageViewFor(n, parsePage(u.page), s)
        /\ shown' = <<>> => n = 0
        /\ walk' = Walked(walk, u, next, hits, cut)

\* handleHome lists, filters, sorts and cuts.
LEMMA HomeEffect ==
    ASSUME Inv, NEW u \in Url, NEW next \in BOOLEAN, handleHome(u, next)
    PROVE  \E hits \in SUBSET present :
              /\ u.facets = None => hits = present
              /\ Archives(hits, born) /\ Shows(hits, u, next)
              /\ pc' = "shown" /\ filter' = None
<1> DEFINE f == ParseFilter(u.facets)
           hits == {i \in present : archivePasses(i, f, born[i], now)}
           field == parseSortField(u.sort)
           asc == parseSortAsc(u.sort, u.order)
           items == sortArchives(hits, field, asc, born)
           s == parsePageSize(u.per_page)
           p == parsePage(u.page)
           q == paginateSlice(items, p, s).items
           R == Order(hits, field, asc, born)
           v == pageViewFor(Cardinality(hits), p, s)
           cut == {i \in hits : /\ (view'.page - 1) * s <= Place(hits, u, born, i)
                                /\ Place(hits, u, born, i) < view'.page * s}
<1>0. /\ shown' = q /\ view' = paginateSlice(items, p, s).pager /\ pc' = "shown" /\ filter' = None
      /\ walk' = Walked(walk, u, next, hits, {q[k] : k \in DOMAIN q})
  BY DEF handleHome
<1>1. u.facets = None => hits = present
  BY NoFacets
<1> HIDE DEF f
<1>2. Archives(hits, born) /\ hits \in SUBSET present
  <2>1. Archives(present, born) /\ hits \in SUBSET present
    BY DEF Inv, Typed, Archives
  <2> HIDE DEF hits
  <2> QED
    BY <2>1, FS_Subset DEF Archives
<1> HIDE DEF hits
<1>3. /\ StrictOrder(hits, R) /\ IsFiniteSet(hits)
      /\ \A i \in hits : Place(hits, u, born, i) = Cardinality(Ahead(hits, R, i))
  BY <1>2, PlaceFacts DEF Archives
<1>4. items = InOrder(hits, R)
  BY DEF sortArchives, Order
<1>5. s \in Nat \ {0} /\ p \in Nat \ {0}
  BY ParsedTypes DEF Url
<1> HIDE DEF s, p, R
<1>6. /\ paginateSlice(items, p, s).pager = v
      /\ {q[k] : k \in DOMAIN q} = {i \in hits :
               /\ (v.page - 1) * s <= Cardinality(Ahead(hits, R, i))
               /\ Cardinality(Ahead(hits, R, i)) < v.page * s}
      /\ q = <<>> => Cardinality(hits) = 0
  BY <1>3, <1>4, <1>5, HomePage
<1> HIDE DEF items, q, v
<1>7. view' = v
  BY <1>0, <1>6
<1>8. {q[k] : k \in DOMAIN q} = cut
  BY <1>3, <1>6, <1>7
<1>9. Shows(hits, u, next)
  BY <1>0, <1>6, <1>7, <1>8 DEF Shows, s, p, v
<1> QED
  BY <1>0, <1>1, <1>2, <1>9

\* What a reader may rely on in the pager of a page of s items out of n.
GoodView(v, n, s, p) ==
    /\ v \in View /\ v.total = n /\ v.totalPages = TotalPages(n, s)
    /\ v.page <= v.totalPages /\ v.page <= p
    /\ v.hasNext <=> v.page < v.totalPages
    /\ ~v.hasNext => n <= v.page * s
    /\ (v.page - 1) * s \in Nat /\ v.page * s = (v.page - 1) * s + s
    /\ \A q \in Nat : p = q + 1 => (v.page - 1) * s <= q * s
    /\ n > 0 => (v.page - 1) * s < n

\* pageViewFor makes such a pager: page 1 is never clamped, the last page
\* reaches the end.
LEMMA ViewGood ==
    ASSUME NEW n \in Nat, NEW s \in Nat \ {0}, NEW p \in Nat \ {0}
    PROVE  GoodView(pageViewFor(n, p, s), n, s, p)
<1> DEFINE v == pageViewFor(n, p, s)
           tp == TotalPages(n, s)
<1>1. v \in View
  BY ViewType
<1>2. /\ v.page \in 1..tp /\ (v.page = p \/ (v.page = tp /\ tp < p)) /\ v.total = n /\ v.totalPages = tp
      /\ v.hasNext <=> v.page < tp
      /\ (v.page - 1) * s \in Nat /\ v.page * s \in Nat
      /\ v.page * s = (v.page - 1) * s + s
      /\ n > 0 => (v.page - 1) * s < n
  BY PageView
<1>3. tp \in Nat \ {0} /\ n <= tp * s
  BY LastPage
<1> HIDE DEF v, tp
<1>4. v.page \in Nat /\ v.page - 1 \in Int /\ v.page <= tp /\ v.page <= p
  BY <1>2, <1>3
<1>5. ~v.hasNext => n <= v.page * s
  BY <1>2, <1>3, <1>4
<1>6. ASSUME NEW q \in Nat, p = q + 1 PROVE (v.page - 1) * s <= q * s
  <2>1. v.page - 1 <= q /\ q \in Int /\ s \in Nat
    BY <1>4, <1>6
  <2> QED
    BY <1>4, <2>1, ProductMonotone
<1>7. GoodView(v, n, s, p)
  BY <1>1, <1>2, <1>3, <1>4, <1>5, <1>6 DEF GoodView, tp
<1> QED
  BY <1>7 DEF v

\* A walk after its first page.
Begun(b, c) == [whole |-> TRUE, start |-> b, seen |-> c, deletes |-> 0, late |-> 0, torn |-> 0]

\* A walk that begins, and none.
LEMMA WalkType ==
    /\ \A b, c \in SUBSET Nat :
          Begun(b, c) \in Walk
    /\ NoWalk \in Walk /\ ~NoWalk.whole
<1>1. \A a \in BOOLEAN, b, c \in SUBSET Nat, d, e, g \in Nat :
          [whole |-> a, start |-> b, seen |-> c, deletes |-> d, late |-> e, torn |-> g] \in Walk
  BY DEF Walk
<1>2. TRUE \in BOOLEAN /\ FALSE \in BOOLEAN /\ 0 \in Nat /\ {} \in SUBSET Nat
  OBVIOUS
<1>3. NoWalk \in Walk
  BY <1>1, <1>2, Zenon DEF NoWalk
<1>4. \A b, c \in SUBSET Nat :
          Begun(b, c) \in Walk
  BY <1>1, <1>2, Zenon DEF Begun
<1>5. ~NoWalk.whole
  BY DEF NoWalk
<1> QED
  BY <1>3, <1>4, <1>5

\* The Captures page: a walk begins with nothing missed but what comes on
\* later pages, and goes on without letting anything slip.
LEMMA HomeKeeps ==
    ASSUME Inv, list = "captures", NEW u \in Url, NEW next \in BOOLEAN, Ask(u, next),
           next => GoesOn(u)
    PROVE  Inv'
<1>0. /\ handleHome(u, next) /\ url' = u
      /\ now' = now /\ born' = born /\ pending' = pending /\ audit' = audit /\ list' = list
  BY DEF Ask
<1>1. PICK hits \in SUBSET present :
              /\ u.facets = None => hits = present
              /\ Archives(hits, born) /\ Shows(hits, u, next)
              /\ pc' = "shown" /\ filter' = None
  BY <1>0, HomeEffect
<1> DEFINE s == parsePageSize(u.per_page)
           p == parsePage(u.page)
           n == Cardinality(hits)
           P == [i \in hits |-> Place(hits, u, born, i)]
           v == view'
           cut == {i \in hits : (v.page - 1) * s <= P[i] /\ P[i] < v.page * s}
<1>2. s \in Nat \ {0} /\ p \in Nat \ {0}
  BY ParsedTypes DEF Url
<1>3. n \in Nat /\ \A i \in hits : P[i] \in Nat /\ P[i] < n /\ P[i] = Place(hits, u, born, i)
  BY <1>1, PlaceFacts
<1>4. /\ v = pageViewFor(n, p, s) /\ (shown' = <<>> => n = 0)
      /\ walk' = Walked(walk, u, next, hits, cut)
  BY <1>1 DEF Shows
<1>5. PageSize' = s /\ present' = present
  BY <1>0 DEF PageSize, present
<1> HIDE DEF s, p, n, P
<1>6. GoodView(v, n, s, p)
  BY <1>2, <1>3, <1>4, ViewGood
<1>7. /\ Typed /\ Archives(present, born) /\ present \subseteq Nat /\ hits \subseteq present
      /\ walk \in Walk
  BY <1>1, ArchiveAssumption DEF Inv, Typed, Archives, Ids
<1>8. /\ p = 1 => walk' = Begun(hits, cut)
      /\ p # 1 /\ next /\ walk.whole => walk' = [walk EXCEPT !.seen = @ \cup cut]
      /\ p # 1 /\ ~(next /\ walk.whole) => walk' = NoWalk
  BY <1>4 DEF Walked, NoWalk, Begun, p
<1>9. cut \subseteq hits
  OBVIOUS
<1> HIDE DEF cut, v
<1>10. walk' \in Walk
  <2>1. CASE p = 1
    <3>1. hits \in SUBSET Nat /\ cut \in SUBSET Nat
      BY <1>7, <1>9
    <3> QED
      BY <1>8, <2>1, <3>1, WalkType
  <2>2. CASE p # 1 /\ next /\ walk.whole
    <3>1. walk.seen \cup cut \in SUBSET Nat
      BY <1>7, <1>9 DEF Walk
    <3> QED
      BY <1>7, <1>8, <2>2, <3>1 DEF Walk
  <2>3. CASE p # 1 /\ ~(next /\ walk.whole)
    BY <1>8, <2>3, WalkType
  <2> QED
    BY <2>1, <2>2, <2>3
<1>11. Typed'
  <2>1. view' \in View
    BY <1>6 DEF GoodView, v
  <2> QED
    BY <1>0, <1>1, <1>5, <1>7, <1>10, <2>1 DEF Typed
<1>12. ViewOK'
  BY <1>5, <1>6 DEF ViewOK, GoodView, v
<1>13. EmptyPageIsEmptyList'
  BY <1>4, <1>6 DEF EmptyPageIsEmptyList, GoodView, v
<1>14. CountOK' /\ LogWalk'
  BY <1>0, <1>1 DEF Inv, CountOK, LogWalk
<1>15. CaptureWalk'
  <2>0. /\ (v.page - 1) * s \in Nat /\ v.page * s \in Nat /\ (~v.hasNext => n <= v.page * s)
        /\ v.page \in Nat \ {0}
    <3>1. (v.page - 1) * s \in Nat /\ v.page * s = (v.page - 1) * s + s
      BY <1>6 DEF GoodView
    <3> QED
      BY <1>2, <1>6, <3>1 DEF GoodView, View
  <2>1. CASE p = 1
    <3>1. /\ walk'.start = hits /\ walk'.deletes = 0 /\ Missed' = hits \ cut
      BY <1>8, <2>1 DEF Missed, Begun
    <3>2. (v.page - 1) * s <= 0
      <4>1. p = 0 + 1 /\ 0 \in Nat
        BY <2>1
      <4>2. (v.page - 1) * s <= 0 * s
        BY <1>6, <4>1 DEF GoodView
      <4> QED
        BY <1>2, <4>2
    <3>3. \A i \in Missed' : i \in hits /\ P[i] \in Nat /\ v.page * s <= P[i]
      BY <1>3, <2>0, <3>1, <3>2 DEF cut
    <3>4. ~v.hasNext => Missed' = {}
      BY <1>3, <2>0, <3>3
    <3>5. u.facets = None => Slipped' = {}
      <4>1. Slipped' = {i \in Missed' : Place(present, u, born, i) < v.page * s}
        BY <1>0, <1>5 DEF Slipped, v
      <4> QED
        BY <1>1, <1>3, <2>0, <3>3, <4>1
    <3>6. Cardinality({}) = 0
      BY FS_EmptySet
    <3> QED
      BY <1>0, <1>1, <1>5, <3>1, <3>4, <3>5, <3>6 DEF CaptureWalk, v
  <2>2. CASE p # 1 /\ next /\ walk.whole
    <3>1. /\ walk'.start = walk.start /\ walk'.deletes = walk.deletes /\ walk'.whole
          /\ Missed' = Missed \ cut
      BY <1>7, <1>8, <2>2 DEF Missed, Walk
    <3>2. /\ GoesOn(u) /\ u.facets = None /\ url.facets = None /\ hits = present
          /\ p = view.page + 1 /\ s = PageSize
      BY <1>1, <2>2 DEF GoesOn, p, s
    <3>3. /\ Missed \subseteq present /\ IsFiniteSet(Slipped) /\ walk.deletes \in Nat
          /\ view.page * s \in Nat /\ Cardinality(Slipped) \in Nat
      BY <2>2, <3>2, MissedFinite
    <3>4. \A i \in present : P[i] = Place(present, url, born, i)
      <4>1. \A i \in present : Place(present, u, born, i) = Place(present, url, born, i)
        BY <3>2 DEF Place, GoesOn
      <4> QED
        BY <1>3, <3>2, <4>1
    <3>5. (v.page - 1) * s <= view.page * s
      <4>1. view.page \in Nat
        BY <1>7 DEF Typed, View
      <4> QED
        BY <1>6, <3>2, <4>1 DEF GoodView
    <3>6. Slipped' = {i \in Missed' : P[i] < v.page * s}
      <4>1. Slipped' = {i \in Missed' : Place(present, u, born, i) < v.page * s}
        BY <1>0, <1>5 DEF Slipped, v
      <4>2. Missed' \subseteq present
        BY <3>1, <3>3
      <4> QED
        BY <1>3, <3>2, <4>1, <4>2
    <3>7. Slipped' \in SUBSET Slipped
      <4> SUFFICES ASSUME NEW i \in Missed', P[i] < v.page * s PROVE i \in Slipped
        BY <3>6
      <4>1. i \in Missed /\ i \notin cut /\ i \in hits /\ P[i] \in Nat
        BY <1>3, <3>1, <3>2, <3>3
      <4>2. ~((v.page - 1) * s <= P[i])
        BY <4>1 DEF cut
      <4>3. P[i] < view.page * s
        BY <2>0, <3>3, <3>5, <4>1, <4>2
      <4> QED
        BY <3>2, <3>3, <3>4, <4>1, <4>3 DEF Slipped
    <3>8. Cardinality(Slipped') <= Cardinality(Slipped) /\ Cardinality(Slipped') \in Nat
      BY <3>3, <3>7, FS_Subset, FS_CardinalityType
    <3>9. Cardinality(Slipped) <= walk.deletes
      BY <2>2, <3>2 DEF Inv, CaptureWalk
    <3>10. Cardinality(Slipped') <= walk.deletes
      BY <3>3, <3>8, <3>9
    <3>11. ~v.hasNext => Missed' = Slipped'
      <4> SUFFICES ASSUME ~v.hasNext, NEW i \in Missed' PROVE P[i] < v.page * s
        BY <3>6
      <4>1. i \in hits /\ n <= v.page * s
        BY <2>0, <3>1, <3>2, <3>3
      <4> QED
        BY <1>3, <2>0, <4>1
    <3>12. walk.start \subseteq present
      BY <2>2 DEF Inv, CaptureWalk
    <3> QED
      BY <1>0, <1>5, <3>1, <3>10, <3>11, <3>12 DEF CaptureWalk, v
  <2>3. CASE p # 1 /\ ~(next /\ walk.whole)
    BY <1>8, <2>3 DEF NoWalk, CaptureWalk
  <2> QED
    BY <2>1, <2>2, <2>3
<1> QED
  BY <1>11, <1>12, <1>13, <1>14, <1>15 DEF Inv

-----------------------------------------------------------------------------
(* The Activity page and the audit API *)

\* When the window has moved from f to g, a row that is in both has lost at
\* most the torn rows above it: at most that many rows slip.
LEMMA WindowMoves ==
    ASSUME NEW f, NEW g, audit \in Seq(Row), NEW M \in SUBSET Hits(audit, f), NEW m \in Nat
    PROVE  /\ Cardinality(Torn(f, g)) \in Nat
           /\ Cardinality(SlippedRows(audit, g, M, m)) <=
                 Cardinality(SlippedRows(audit, f, M, m)) + Cardinality(Torn(f, g))
<1> DEFINE T == Torn(f, g)
           d == Cardinality(T)
           N == [k \in Hits(audit, f) |-> Cardinality(Newer(audit, f, k))]
           A == SlippedRows(audit, f, M, m)
           B == SlippedRows(audit, g, M, m)
           E == {k \in M : m <= N[k] /\ N[k] < m + d}
<1>1. /\ Hits(audit, f) \subseteq DOMAIN audit /\ Hits(audit, g) \subseteq DOMAIN audit
      /\ \A k \in Hits(audit, f) : N[k] \in Nat /\ N[k] = Cardinality(Newer(audit, f, k))
  BY HitsFacts
<1>2. T \in SUBSET DOMAIN audit /\ A \in SUBSET DOMAIN audit /\ B \in SUBSET DOMAIN audit
      /\ E \in SUBSET DOMAIN audit
  BY <1>1 DEF Torn, Matching, SlippedRows
<1>3. /\ IsFiniteSet(T) /\ d \in Nat /\ IsFiniteSet(A) /\ Cardinality(A) \in Nat
      /\ IsFiniteSet(B) /\ Cardinality(B) \in Nat /\ IsFiniteSet(E) /\ Cardinality(E) \in Nat
  <2> HIDE DEF T, A, B, E
  <2> QED
    BY <1>2, RowsFinite
<1>4. ASSUME NEW k \in M, k \in Hits(audit, g), Cardinality(Newer(audit, g, k)) < m
      PROVE  N[k] < m + d
  <2> DEFINE X == Newer(audit, f, k)
             Y == Newer(audit, g, k)
  <2>1. X \in SUBSET (Y \cup T)
    BY <1>4 DEF Newer, Hits, Torn, Matching
  <2>2. /\ IsFiniteSet(X) /\ Cardinality(X) \in Nat /\ IsFiniteSet(Y) /\ Cardinality(Y) \in Nat
    BY <1>1, <1>4, HitsFacts
  <2>3. Cardinality(X) = N[k]
    BY <1>1
  <2>4. Cardinality(Y) < m
    BY <1>4
  <2> HIDE DEF X, Y, T, N
  <2>5. /\ IsFiniteSet(Y \cup T)
        /\ Cardinality(Y \cup T) = Cardinality(Y) + d - Cardinality(Y \cap T)
    BY <1>3, <2>2, FS_Union
  <2>6. Cardinality(Y \cap T) \in Nat
    BY <2>2, FS_Intersection, FS_CardinalityType
  <2>7. Cardinality(X) <= Cardinality(Y \cup T)
    BY <2>1, <2>5, FS_Subset
  <2> HIDE DEF d
  <2> QED
    BY <1>3, <2>2, <2>3, <2>4, <2>5, <2>6, <2>7
<1>5. B \in SUBSET (A \cup E)
  <2> SUFFICES ASSUME NEW k \in M, k \in Hits(audit, g), Cardinality(Newer(audit, g, k)) < m,
                      ~(N[k] < m)
               PROVE  k \in E
    BY <1>1 DEF SlippedRows
  <2>1. N[k] < m + d
    BY <1>4
  <2>2. N[k] \in Nat
    BY <1>1
  <2> HIDE DEF N, d
  <2> QED
    BY <2>1, <2>2
<1>6. Cardinality(E) <= d
  <2> DEFINE F == [k \in E |-> N[k] - m + 1]
  <2>1. \A k \in E : k \in Hits(audit, f) /\ N[k] \in Nat /\ m <= N[k] /\ N[k] < m + d
    BY <1>1
  <2>2. \A j, k \in E : N[j] = N[k] => j = k
    BY <1>1, <2>1, NewerDiffer
  <2> HIDE DEF E, N, d
  <2>3. \A k \in E : N[k] - m + 1 \in 1..d
    BY <1>3, <2>1
  <2>4. F \in [E -> 1..d] /\ \A k \in E : F[k] = N[k] - m + 1
    BY <2>3
  <2>5. \A j, k \in E : F[j] = F[k] => j = k
    BY <2>1, <2>2, <2>4
  <2> HIDE DEF F
  <2>6. F \in Injection(E, 1..d)
    BY <2>4, <2>5 DEF Injection, IsInjective
  <2>7. d \in Nat
    BY <1>3
  <2>8. IsFiniteSet(1..d) /\ Cardinality(1..d) = d
    BY <2>7, FS_Interval
  <2> QED
    BY <2>6, <2>8, FS_Injection
<1> HIDE DEF A, B, E, T
<1>7. /\ IsFiniteSet(A \cup E)
      /\ Cardinality(A \cup E) = Cardinality(A) + Cardinality(E) - Cardinality(A \cap E)
      /\ Cardinality(A \cap E) \in Nat
  BY <1>3, FS_Union, FS_Intersection, FS_CardinalityType
<1>8. Cardinality(B) <= Cardinality(A \cup E)
  BY <1>5, <1>7, FS_Subset
<1>9. Cardinality(B) <= Cardinality(A) + d
  BY <1>3, <1>6, <1>7, <1>8
<1> QED
  BY <1>3, <1>9 DEF A, B, T

\* The numbers of the pager in terms of the list it was made from.
LEMMA PagerReaches ==
    ASSUME Inv
    PROVE  /\ view.page \in Nat \ {0} /\ view.total \in Nat /\ PageSize \in Nat \ {0}
           /\ (view.page - 1) * PageSize \in Nat
           /\ view.page * PageSize = (view.page - 1) * PageSize + PageSize
           /\ view.total > 0 => (view.page - 1) * PageSize < view.total
           /\ ~view.hasNext => view.total <= view.page * PageSize
<1> DEFINE s == PageSize
           n == view.total
           tp == TotalPages(n, s)
           q == view.page
<1>1. s \in Nat \ {0} /\ n \in Nat /\ q \in Nat \ {0}
  BY ParsedTypes DEF Inv, Typed, View, PageSize
<1>2. view.totalPages = tp /\ q <= view.totalPages /\ (view.hasNext <=> q < view.totalPages)
  BY DEF Inv, ViewOK
<1> HIDE DEF s, n, q
<1>3. tp \in Nat \ {0} /\ n <= tp * s /\ (n > 0 => (tp - 1) * s < n)
  BY <1>1, LastPage
<1> HIDE DEF tp
<1>4. q - 1 \in Int /\ tp - 1 \in Int /\ q - 1 <= tp - 1 /\ 0 <= q - 1 /\ s \in Nat /\ q \in Int
  BY <1>1, <1>2, <1>3
<1>5. (q - 1) * s \in Int /\ (tp - 1) * s \in Int /\ (q - 1) * s <= (tp - 1) * s /\ 0 * s <= (q - 1) * s
  BY <1>4, ProductMonotone
<1>6. q * s \in Int /\ (q - 1) * s = q * s - s
  BY <1>4, ProductStep
<1>7. (q - 1) * s \in Nat /\ q * s = (q - 1) * s + s /\ (n > 0 => (q - 1) * s < n)
  BY <1>1, <1>3, <1>5, <1>6
<1>8. ~view.hasNext => n <= q * s
  BY <1>1, <1>2, <1>3
<1> QED
  BY <1>1, <1>7, <1>8 DEF s, n, q

\* COUNT: the pager is made from the rows there are; as many rows slip as
\* the moved window has torn.
LEMMA CountKeeps ==
    ASSUME Inv, list # "captures", NEW u \in Url, NEW next \in BOOLEAN, Ask(u, next),
           next => GoesOn(u)
    PROVE  Inv'
<1> DEFINE f == auditFilterFrom(u)
           s == parsePageSize(u.per_page)
           p == parsePage(u.page)
           H == Hits(audit, f)
           n == Cardinality(H)
           v == view'
           W == Walked(walk, u, next, H, {})
           d == IF p # 1 /\ W.whole THEN W.torn + Cardinality(Torn(filter, f)) ELSE 0
<1>0. /\ url' = u /\ now' = now /\ born' = born /\ pending' = pending /\ audit' = audit /\ list' = list
      /\ filter' = f /\ v = pageViewFor(n, p, s) /\ pc' = "rows" /\ shown' = <<>>
      /\ walk' = [W EXCEPT !.late = 0, !.torn = d]
  <2>1. Matching(f) = H
    BY DEF Matching, Hits
  <2> QED
    BY <2>1 DEF Ask, CountAuditFiltered
<1>1. s \in Nat \ {0} /\ p \in Nat \ {0}
  BY ParsedTypes DEF Url
<1>2. /\ audit \in Seq(Row) /\ walk \in Walk
      /\ IsFiniteSet(H) /\ n \in Nat /\ H \subseteq Nat /\ H \subseteq DOMAIN audit
      /\ \A k \in DOMAIN audit : IsFiniteSet(Newer(audit, f, k)) /\ Cardinality(Newer(audit, f, k)) \in Nat
  BY HitsFacts DEF Inv, Typed
<1>4. PageSize' = s /\ present' = present
  BY <1>0 DEF PageSize, present
<1>5. /\ p = 1 => W = Begun(H, {})
      /\ p # 1 /\ next /\ walk.whole => W = walk
      /\ p # 1 /\ ~(next /\ walk.whole) => W = NoWalk
  <2>1. p # 1 /\ next /\ walk.whole => W = [walk EXCEPT !.seen = @ \cup {}]
    BY DEF Walked
  <2>2. [walk EXCEPT !.seen = @ \cup {}] = walk
    BY <1>2 DEF Walk
  <2> QED
    BY <2>1, <2>2 DEF Walked, NoWalk, Begun
<1> HIDE DEF s, p, n, v, W, f, H
<1>6. GoodView(v, n, s, p)
  BY <1>0, <1>1, <1>2, ViewGood
<1>7. W \in Walk
  <2>1. H \in SUBSET Nat /\ {} \in SUBSET Nat
    BY <1>2
  <2> QED
    BY <1>2, <1>5, <2>1, WalkType
<1>8. d \in Nat
  <2>1. Torn(filter, f) \in SUBSET DOMAIN audit
    BY DEF Torn, Matching
  <2>2. Cardinality(Torn(filter, f)) \in Nat
    BY <1>2, <2>1, RowsFinite
  <2> QED
    BY <1>7, <2>2 DEF Walk
<1>9. /\ walk' \in Walk /\ walk'.late = 0 /\ walk'.torn = d /\ walk'.whole = W.whole
      /\ walk'.start = W.start /\ walk'.seen = W.seen
  <2> HIDE DEF d
  <2> QED
    BY <1>0, <1>7, <1>8 DEF Walk
<1>10. Typed'
  <2>1. view' \in View
    BY <1>6 DEF GoodView, v
  <2> QED
    BY <1>0, <1>4, <1>9, <2>1 DEF Inv, Typed
<1>11. ViewOK' /\ EmptyPageIsEmptyList'
  BY <1>0, <1>4, <1>6 DEF ViewOK, GoodView, EmptyPageIsEmptyList, v
<1>12. CountOK'
  BY <1>0, <1>2, <1>6 DEF CountOK, GoodView, H, n, v
<1>13. CaptureWalk'
  BY <1>0 DEF CaptureWalk
<1>14. LogWalk'
  <2>0. (v.page - 1) * s \in Nat /\ v.total = n
    BY <1>6 DEF GoodView
  <2> DEFINE m == (v.page - 1) * s
             S == SlippedRows(audit, f, W.start \ W.seen, m)
  <2> SUFFICES ASSUME W.whole
               PROVE  W.start \subseteq DOMAIN audit /\ Cardinality(S) <= d
    <3>1. Cardinality(Hits(audit, f)) <= v.total + walk'.late
      BY <1>2, <1>9, <2>0 DEF n, H
    <3>2. Missed' = W.start \ W.seen
      BY <1>9 DEF Missed
    <3> QED
      BY <1>0, <1>4, <1>9, <3>1, <3>2 DEF LogWalk, v
  <2>1. CASE p = 1
    <3>1. W.start = H /\ d = 0
      BY <1>5, <2>1 DEF Begun
    <3>2. m <= 0
      <4>1. p = 0 + 1 /\ 0 \in Nat
        BY <2>1
      <4>2. (v.page - 1) * s <= 0 * s
        BY <1>6, <4>1 DEF GoodView
      <4> QED
        BY <1>1, <4>2
    <3>3. \A k \in DOMAIN audit : ~(Cardinality(Newer(audit, f, k)) < m)
      <4> HIDE DEF m
      <4>1. m \in Nat
        BY <2>0 DEF m
      <4> QED
        BY <1>2, <3>2, <4>1
    <3>4. S = {}
      BY <1>2, <3>1, <3>3 DEF SlippedRows
    <3>5. Cardinality(S) = 0
      BY <3>4, FS_EmptySet
    <3> QED
      BY <1>2, <3>1, <3>5
  <2>2. CASE p # 1 /\ next /\ walk.whole
    <3> DEFINE q == view.page * s
               T == Cardinality(Torn(filter, f))
    <3>1. W = walk /\ pc = "shown" /\ p = view.page + 1 /\ s = PageSize /\ d = walk.torn + T
      BY <1>5, <2>2 DEF GoesOn, p, s
    <3>2. /\ walk.start \subseteq DOMAIN audit /\ Missed \subseteq Hits(audit, filter)
          /\ Cardinality(SlippedRows(audit, filter, Missed, q)) <= walk.torn
      BY <2>2, <3>1 DEF Inv, LogWalk
    <3>3. q \in Nat /\ m <= q
      <4>1. view.page \in Nat
        BY DEF Inv, Typed, View
      <4>2. q \in Nat
        BY <3>1, PagerReaches
      <4> QED
        BY <1>6, <3>1, <4>1, <4>2 DEF GoodView
    <3>4. /\ T \in Nat
          /\ Cardinality(SlippedRows(audit, f, Missed, q)) <=
                Cardinality(SlippedRows(audit, filter, Missed, q)) + T
      BY <1>2, <3>2, <3>3, WindowMoves
    <3>5. S \in SUBSET SlippedRows(audit, f, Missed, q)
      <4> HIDE DEF m, q
      <4>1. m \in Nat
        BY <2>0 DEF m
      <4>2. \A k \in Missed : k \in DOMAIN audit
        BY <3>2 DEF Missed
      <4> QED
        BY <1>2, <3>1, <3>3, <4>1, <4>2 DEF SlippedRows, Missed
    <3>6. /\ SlippedRows(audit, f, Missed, q) \in SUBSET DOMAIN audit
          /\ SlippedRows(audit, filter, Missed, q) \in SUBSET DOMAIN audit
      BY <3>2 DEF SlippedRows, Missed
    <3> DEFINE A == SlippedRows(audit, f, Missed, q)
               B == SlippedRows(audit, filter, Missed, q)
    <3> HIDE DEF A, B, S, T, d
    <3>7. IsFiniteSet(A) /\ Cardinality(A) \in Nat /\ Cardinality(B) \in Nat
      BY <1>2, <3>6, RowsFinite DEF A, B
    <3>8. Cardinality(S) <= Cardinality(A) /\ Cardinality(S) \in Nat
      BY <3>5, <3>7, FS_Subset, FS_CardinalityType DEF A
    <3>9. walk.torn \in Nat
      BY <1>2 DEF Walk
    <3>10. Cardinality(A) <= Cardinality(B) + T /\ Cardinality(B) <= walk.torn /\ T \in Nat
      BY <3>2, <3>4 DEF A, B
    <3>11. Cardinality(S) <= d
      BY <3>1, <3>7, <3>8, <3>9, <3>10
    <3> QED
      BY <3>1, <3>2, <3>11
  <2>3. CASE p # 1 /\ ~(next /\ walk.whole)
    BY <1>5, <2>3, WalkType
  <2> QED
    BY <2>1, <2>2, <2>3
<1> QED
  BY <1>10, <1>11, <1>12, <1>13, <1>14 DEF Inv

\* SELECT: the page holds the rows its number says; on the last page only
\* the oldest can be missing, one per row that came after the COUNT.
LEMMA SelectKeeps ==
    ASSUME Inv, ListAuditFiltered
    PROVE  Inv'
<1> DEFINE s == PageSize
           H == Hits(audit, filter)
           R == {p \in H \X H : p[1] > p[2]}
           skip == (view.page - 1) * s
           page == Slice(InOrder(H, R), skip, s)
           N == [k \in H |-> Cardinality(Newer(audit, filter, k))]
           onPage == {k \in H : skip <= N[k] /\ N[k] < skip + s}
<1>0. /\ view.page \in Nat \ {0} /\ view.total \in Nat /\ s \in Nat \ {0}
      /\ skip \in Nat /\ view.page * s = skip + s
      /\ view.total > 0 => skip < view.total
      /\ ~view.hasNext => view.total <= view.page * s
  BY PagerReaches
<1>1. /\ pc = "rows" /\ list # "captures" /\ audit \in Seq(Row) /\ walk \in Walk
  BY DEF ListAuditFiltered, Inv, Typed
<1>2. /\ IsFiniteSet(H) /\ Cardinality(H) \in Nat /\ H \subseteq Nat /\ H \subseteq DOMAIN audit
      /\ \A k \in H : /\ N[k] \in Nat /\ Cardinality(Older(audit, filter, k)) \in Nat
                      /\ Cardinality(H) = N[k] + Cardinality(Older(audit, filter, k)) + 1
  BY <1>1, HitsFacts
<1>3. /\ pc' = "shown" /\ now' = now /\ born' = born /\ pending' = pending /\ audit' = audit /\ list' = list /\ url' = url
      /\ view' = view /\ filter' = filter /\ shown' = page
      /\ walk' = [walk EXCEPT !.start = {k \in @ : Matches(audit[k], filter)},
                              !.seen = IF walk.whole THEN @ \cup {page[k] : k \in DOMAIN page} ELSE {}]
  <2>1. Matching(filter) = H
    BY DEF Matching, Hits
  <2>2. auditLimit(s) = s
    BY <1>0 DEF auditLimit
  <2>3. parsePageSize(url.per_page) = s
    BY DEF PageSize
  <2> QED
    BY <2>1, <2>2, <2>3 DEF ListAuditFiltered
<1>4. {page[k] : k \in DOMAIN page} = onPage /\ (page = <<>> => Cardinality(H) <= skip)
  <2>1. StrictOrder(H, R)
    BY <1>2, NewestFirst
  <2>2. \A k \in H : N[k] = Cardinality(Ahead(H, R, k))
    <3>1. \A k \in H : Newer(audit, filter, k) = Ahead(H, R, k)
      BY DEF Newer, Ahead
    <3> QED
      BY <3>1
  <2> HIDE DEF R, H, s, skip, N
  <2>3. /\ {page[k] : k \in DOMAIN page} = {k \in H : /\ skip <= Cardinality(Ahead(H, R, k))
                                                      /\ Cardinality(Ahead(H, R, k)) < skip + s}
        /\ page = <<>> => Cardinality(H) <= skip
    BY <1>0, <1>2, <2>1, CutFacts
  <2> QED
    BY <2>2, <2>3
<1> HIDE DEF s, H, skip, page
<1>5. /\ walk' \in Walk /\ walk'.whole = walk.whole /\ walk'.late = walk.late
      /\ walk'.start = {k \in walk.start : Matches(audit[k], filter)}
      /\ walk'.torn = walk.torn /\ (walk.whole => walk'.seen = walk.seen \cup onPage)
  <2> DEFINE a == {k \in walk.start : Matches(audit[k], filter)}
             b == IF walk.whole THEN walk.seen \cup onPage ELSE {}
  <2>1. walk' = [walk EXCEPT !.start = a, !.seen = b]
    BY <1>3, <1>4
  <2>2. a \in SUBSET Nat /\ b \in SUBSET Nat
    BY <1>1, <1>2 DEF Walk
  <2>3. walk.whole => b = walk.seen \cup onPage
    OBVIOUS
  <2> HIDE DEF a, b, onPage
  <2> QED
    BY <1>1, <2>1, <2>2, <2>3 DEF Walk, a
<1>6. PageSize' = s /\ present' = present
  BY <1>3 DEF PageSize, present, s
<1>7. Typed' /\ ViewOK' /\ CountOK' /\ CaptureWalk'
  <2>1. Typed'
    BY <1>1, <1>3, <1>5, <1>6 DEF Inv, Typed
  <2>2. ViewOK' /\ CountOK' /\ CaptureWalk'
    BY <1>1, <1>3, <1>6 DEF Inv, ViewOK, CountOK, CaptureWalk, s
  <2> QED
    BY <2>1, <2>2
<1>8. EmptyPageIsEmptyList'
  <2>1. view.total <= Cardinality(H)
    BY <1>1 DEF Inv, CountOK, H
  <2>2. page = <<>> => view.total = 0
    BY <1>0, <1>2, <1>4, <2>1
  <2> QED
    BY <1>3, <2>2 DEF EmptyPageIsEmptyList
<1>9. LogWalk'
  <2> SUFFICES ASSUME walk.whole PROVE LogWalk'
    BY <1>5 DEF LogWalk
  <2> DEFINE A == SlippedRows(audit, filter, Missed, skip)
             B == SlippedRows(audit, filter, Missed', view.page * s)
             C == NotOldest(audit, filter, Missed', walk.late)
  <2>1. /\ walk.start \subseteq DOMAIN audit /\ Cardinality(H) <= view.total + walk.late
        /\ Cardinality(A) <= walk.torn
    BY <1>1 DEF Inv, LogWalk, H, skip, s
  <2>2. walk'.start \subseteq DOMAIN audit
    BY <1>5, <2>1
  <2>3. walk.late \in Nat /\ walk.torn \in Nat
    BY <1>1 DEF Walk
  <2>4. ASSUME NEW k \in Missed'
        PROVE  k \in Missed /\ k \in H /\ k \notin onPage
    BY <1>5, <2>1 DEF Missed, H, Hits
  <2>5. \A k \in H : N[k] = Cardinality(Newer(audit, filter, k))
    OBVIOUS
  <2>6. B \in SUBSET A
    <3> SUFFICES ASSUME NEW k \in Missed', k \in H, N[k] < view.page * s
                 PROVE  k \in Missed /\ N[k] < skip
      BY <2>4, <2>5 DEF SlippedRows, H
    <3>1. k \in Missed /\ N[k] \in Nat /\ ~(skip <= N[k] /\ N[k] < skip + s)
      BY <1>2, <2>4
    <3> HIDE DEF N
    <3> QED
      BY <1>0, <3>1
  <2>7. ~view.hasNext => C \in SUBSET B
    <3> SUFFICES ASSUME ~view.hasNext, NEW k \in Missed', ~(Cardinality(Older(audit, filter, k)) < walk.late)
                 PROVE  k \in H /\ N[k] < view.page * s
      BY <2>5 DEF SlippedRows, NotOldest, H
    <3>1. /\ k \in H /\ N[k] \in Nat /\ Cardinality(Older(audit, filter, k)) \in Nat
          /\ Cardinality(H) = N[k] + Cardinality(Older(audit, filter, k)) + 1
      BY <1>2, <2>4
    <3> HIDE DEF N
    <3> QED
      BY <1>0, <1>2, <2>1, <2>3, <3>1
  <2>8. A \in SUBSET DOMAIN audit
    BY <2>1 DEF SlippedRows, Missed
  <2> HIDE DEF A, B, C
  <2>9. IsFiniteSet(A) /\ Cardinality(A) \in Nat
    BY <1>1, <2>8, RowsFinite
  <2>10. IsFiniteSet(B) /\ Cardinality(B) \in Nat /\ Cardinality(B) <= Cardinality(A)
    BY <2>6, <2>9, FS_Subset, FS_CardinalityType
  <2>11. ~view.hasNext => Cardinality(C) \in Nat /\ Cardinality(C) <= Cardinality(B)
    BY <2>7, <2>10, FS_Subset, FS_CardinalityType
  <2>12. Cardinality(B) <= walk.torn /\ (~view.hasNext => Cardinality(C) <= walk.torn)
    BY <2>1, <2>3, <2>9, <2>10, <2>11
  <2>13. Missed' \subseteq Hits(audit, filter)
    BY <2>4 DEF H
  <2> QED
    BY <1>3, <1>5, <1>6, <2>2, <2>12, <2>13 DEF LogWalk, B, C
<1> QED
  BY <1>7, <1>8, <1>9 DEF Inv

-----------------------------------------------------------------------------
(* Every page, whoever reads *)

\* The first page that nobody has asked for yet.
LEMMA InitInv == Init => Inv
<1> SUFFICES ASSUME Init PROVE Inv
  OBVIOUS
<1>0. /\ now = Start /\ list \in Lists /\ born \in Catalogs[list] /\ audit \in OldLogs[list]
      /\ pending = <<>> /\ pc = "idle" /\ url = Home /\ view = pageViewFor(0, 1, htmlPageSize)
      /\ shown = <<>> /\ walk = NoWalk
  BY DEF Init
<1>1. htmlPageSize \in Nat \ {0} /\ 0 \in Nat /\ 1 \in Nat \ {0}
  BY PageSizeAssumption
<1>2. GoodView(view, 0, htmlPageSize, 1)
  BY <1>0, <1>1, ViewGood
<1>3. PageSize = htmlPageSize
  BY <1>0, NoneIsNoSize DEF PageSize, Home, parsePageSize
<1>4. url \in Url
  <2>1. None \in AllFacets
    BY DEF AllFacets
  <2> QED
    BY <1>0, <2>1 DEF Home, Url
<1>5. walk \in Walk /\ ~walk.whole
  BY <1>0, WalkType
<1>6. audit \in Seq(Row) /\ pending \in Seq(Row)
  BY <1>0, LogAssumption
<1>7. IsFiniteSet(present) /\ present \subseteq Ids /\ \A i \in present : born[i] \in Nat
  BY <1>0, CatalogAssumption DEF present
<1>8. Typed
  <2>1. view \in View /\ now \in Nat
    BY <1>0, <1>2, TimeAssumption DEF GoodView
  <2> QED
    BY <1>0, <1>4, <1>5, <1>6, <1>7, <2>1 DEF Typed
<1>9. ViewOK
  BY <1>2, <1>3 DEF ViewOK, GoodView
<1>11. CountOK /\ EmptyPageIsEmptyList
  BY <1>0 DEF CountOK, EmptyPageIsEmptyList
<1>12. CaptureWalk /\ LogWalk
  BY <1>5 DEF CaptureWalk, LogWalk
<1> QED
  BY <1>8, <1>9, <1>11, <1>12 DEF Inv

\* A step that changes nothing.
LEMMA StutterKeeps ==
    ASSUME Inv, UNCHANGED vars
    PROVE  Inv'
<1>0. /\ now' = now /\ born' = born /\ pending' = pending /\ audit' = audit /\ pc' = pc /\ list' = list
      /\ url' = url /\ view' = view /\ filter' = filter /\ shown' = shown /\ walk' = walk
  BY DEF vars
<1>1. Typed' /\ ViewOK' /\ EmptyPageIsEmptyList'
  BY <1>0 DEF Inv, Typed, ViewOK, EmptyPageIsEmptyList, PageSize, present
<1>2. CountOK' /\ LogWalk'
  BY <1>0, LogFrame DEF reader
<1>3. Missed' = Missed /\ PageSize' = PageSize /\ present' = present /\ Slipped' = Slipped
  BY <1>0 DEF Missed, PageSize, present, Slipped
<1>4. CaptureWalk'
  BY <1>0, <1>3 DEF Inv, CaptureWalk
<1> QED
  BY <1>1, <1>2, <1>4 DEF Inv

\* The inductive invariant holds on every page of every reader.
THEOREM InvCorrect == Spec => []Inv
<1>1. Init => Inv
  BY InitInv
<1>2. Inv /\ [Next]_vars => Inv'
  <2> SUFFICES ASSUME Inv, [Next]_vars PROVE Inv'
    OBVIOUS
  <2>1. CASE UNCHANGED vars
    BY <2>1, StutterKeeps
  <2>2. ASSUME NEW i \in Moving[list], Upload(i) PROVE Inv'
    BY <2>2, UploadKeeps
  <2>3. ASSUME NEW i \in Moving[list], Delete(i) PROVE Inv'
    BY <2>3, DeleteKeeps
  <2>4. CASE Tick
    BY <2>4, TickKeeps
  <2>8. ASSUME NEW k \in DOMAIN pending, InsertAudit(k) PROVE Inv'
    BY <2>8, InsertKeeps
  <2>5. CASE ListAuditFiltered
    BY <2>5, SelectKeeps
  <2>6. ASSUME NEW u \in Url, NEW next \in BOOLEAN, Ask(u, next), next => GoesOn(u) PROVE Inv'
    <3>1. CASE list = "captures"
      BY <2>6, <3>1, HomeKeeps
    <3>2. CASE list # "captures"
      BY <2>6, <3>2, CountKeeps
    <3> QED
      BY <3>1, <3>2
  <2>7. CASE Next
    BY <2>2, <2>3, <2>4, <2>5, <2>6, <2>7, <2>8, Requests
  <2> QED
    BY <2>1, <2>7
<1> QED
  BY <1>1, <1>2, PTL DEF Spec

\* Whoever reads the Captures table to its last page misses at most one
\* archive per delete, however long the table and however it is sorted.
THEOREM DeleteCostsOneCorrect == Spec => []DeleteCostsOne
<1>1. Inv => DeleteCostsOne
  BY DEF Inv, CaptureWalk, DeleteCostsOne, AtTheEnd
<1> QED
  BY <1>1, InvCorrect, PTL

\* Whoever reads the audit log to its last page misses at most as many rows
\* as came between the last COUNT and its SELECT, and only the oldest, and
\* one more per row that left the window before an older one: whatever times
\* the waiting INSERTs bring.
THEOREM LogMissesAreBoundedCorrect == Spec => []LogMissesAreBounded
<1>1. Inv => LogMissesAreBounded
  <2> SUFFICES ASSUME Inv, AtTheEnd, list # "captures"
               PROVE  /\ Missed \subseteq Matching(filter)
                      /\ Cardinality({k \in Missed :
                            ~(Cardinality({j \in Matching(filter) : j < k}) < walk.late)}) <= walk.torn
    BY DEF LogMissesAreBounded
  <2>1. /\ Missed \subseteq Hits(audit, filter)
        /\ Cardinality(NotOldest(audit, filter, Missed, walk.late)) <= walk.torn
    BY DEF Inv, LogWalk, AtTheEnd
  <2>2. Matching(filter) = Hits(audit, filter)
    BY DEF Matching, Hits
  <2> QED
    BY <2>1, <2>2 DEF NotOldest, Older
<1> QED
  BY <1>1, InvCorrect, PTL

\* No page of a list that has entries is empty, although the count, the rows
\* and the archives behind a bookmark are of different times.
THEOREM EmptyPageIsEmptyListCorrect == Spec => []EmptyPageIsEmptyList
<1>1. Inv => EmptyPageIsEmptyList
  BY DEF Inv
<1> QED
  BY <1>1, InvCorrect, PTL

\* pageWindow leads to every page, for lists of any length.
THEOREM NumbersLeadEverywhereCorrect == Spec => []NumbersLeadEverywhere
<1>1. Inv => NumbersLeadEverywhere
  <2> SUFFICES ASSUME Inv PROVE NumbersLeadEverywhere
    OBVIOUS
  <2>1. view.totalPages \in Nat \ {0} /\ view.page \in 1..view.totalPages
    BY DEF Inv, Typed, ViewOK, View
  <2>2. Leads(pageWindow(view.page, view.totalPages), view.page, view.totalPages)
    BY <2>1, NumbersLead
  <2> QED
    BY <2>2 DEF Leads, NumbersLeadEverywhere
<1> QED
  BY <1>1, InvCorrect, PTL

-----------------------------------------------------------------------------
(* The retention policy *)

\* The policy without indexes, for archives S with creation times b at time
\* t and for any two limits: the body of PickMeetsPolicy.
MeetsPolicy(S, b, t, keepLast, maxAge, Picked) ==
    LET Old(i) == maxAge > 0 /\ b[i] > 0 /\ t - b[i] > maxAge
    IN  /\ \A i \in S \ Picked : ~Old(i)
        /\ keepLast > 0 => Cardinality(S \ Picked) <= keepLast
        /\ \A i \in Picked :
              \/ Old(i)
              \/ /\ keepLast > 0
                 /\ Cardinality({j \in S \ {i} : b[j] >= b[i]}) >= keepLast

\* retain.Pick goes by the index in a list that is newest first, and meets
\* the policy for any archives, times and limits.
LEMMA PickPolicy ==
    ASSUME NEW S, NEW b, Archives(S, b), NEW t \in Nat, NEW keepLast \in Nat, NEW maxAge \in Nat
    PROVE  MeetsPolicy(S, b, t, keepLast, maxAge,
               Pick(sortArchives(S, "uploaded", FALSE, b), b, keepLast, maxAge, t))
<1> DEFINE R == Order(S, "uploaded", FALSE, b)
           items == InOrder(S, R)
           n == Cardinality(S)
           c == [i \in S |-> Cardinality(Ahead(S, R, i))]
           Gone(i) == (keepLast > 0 /\ c[i] >= keepLast) \/ TooOld(b[i], maxAge, t)
           Picked == Pick(items, b, keepLast, maxAge, t)
           Old(i) == maxAge > 0 /\ b[i] > 0 /\ t - b[i] > maxAge
<1>1. StrictOrder(S, R) /\ IsFiniteSet(S)
  BY ArchiveOrder DEF Archives, SortFields
<1>2. sortArchives(S, "uploaded", FALSE, b) = items
  BY DEF sortArchives, Order
<1>3. \A i, j \in S : <<j, i>> \in R => i # j /\ b[j] >= b[i]
  <2>1. \A i, j \in S : <<j, i>> \in R => archiveLess(i, j, "uploaded", b)
    BY DEF Order, Before
  <2>2. \A i \in S : SortValue(i, "uploaded", b) = b[i] /\ b[i] \in Nat /\ i \in Nat
    BY ArchiveAssumption DEF SortValue, Archives, Ids
  <2>3. \A i, j \in S : archiveLess(i, j, "uploaded", b) => i # j /\ b[j] >= b[i]
    BY <2>2 DEF archiveLess
  <2> QED
    BY <2>1, <2>3
<1> HIDE DEF R
<1>4. /\ n \in Nat /\ items \in [1..n -> S]
      /\ \A k \in 1..n : items[k] \in S /\ c[items[k]] = k - 1
      /\ \A i \in S : c[i] + 1 \in 1..n /\ items[c[i] + 1] = i /\ c[i] \in Nat
  <2>1. n \in Nat /\ items \in [1..n -> S]
    BY <1>1, SortedList
  <2>2. \A k \in 1..n : Cardinality(Ahead(S, R, items[k])) = k - 1
    BY <1>1, SortedList
  <2>3. \A i \in S : /\ Cardinality(Ahead(S, R, i)) + 1 \in 1..n
                     /\ items[Cardinality(Ahead(S, R, i)) + 1] = i
    BY <1>1, SortedList
  <2>4. \A i \in S : Cardinality(Ahead(S, R, i)) \in Nat
    BY <1>1, AheadFinite
  <2> HIDE DEF items, n
  <2> QED
    BY <2>1, <2>2, <2>3, <2>4
<1>5. \A i \in S : c[i] = Cardinality(Ahead(S, R, i))
  OBVIOUS
<1> HIDE DEF items, n, c
<1>6. Picked = {i \in S : Gone(i)}
  <2>1. Limit(keepLast, DefaultKeepLast) = keepLast /\ Limit(maxAge, DefaultMaxAge) = maxAge
    BY DEF Limit
  <2>2. Picked = {items[k] : k \in {m \in 1..n : BeyondRank(m, keepLast) \/ TooOld(b[items[m]], maxAge, t)}}
    BY <1>4, <2>1 DEF Pick
  <2>3. ASSUME NEW k \in 1..n
        PROVE  BeyondRank(k, keepLast) <=> keepLast > 0 /\ c[items[k]] >= keepLast
    <3>1. k \in Int /\ c[items[k]] = k - 1
      BY <1>4
    <3> QED
      BY <3>1 DEF BeyondRank
  <2> HIDE DEF Picked
  <2>4. \A i \in Picked : i \in S /\ Gone(i)
    BY <1>4, <2>2, <2>3
  <2>5. ASSUME NEW i \in S, Gone(i) PROVE i \in Picked
    <3>1. c[i] + 1 \in 1..n /\ items[c[i] + 1] = i
      BY <1>4
    <3>2. BeyondRank(c[i] + 1, keepLast) \/ TooOld(b[items[c[i] + 1]], maxAge, t)
      BY <2>3, <2>5, <3>1
    <3> QED
      BY <2>2, <3>1, <3>2
  <2> QED
    BY <2>4, <2>5
<1>7. \A i \in S : TooOld(b[i], maxAge, t) <=> Old(i)
  <2>1. \A i \in S : b[i] \in Nat
    BY DEF Archives
  <2> QED
    BY <2>1 DEF TooOld
<1> HIDE DEF Picked
<1>8. \A i \in S \ Picked : ~Old(i)
  BY <1>6, <1>7
<1>9. ASSUME keepLast > 0 PROVE Cardinality(S \ Picked) <= keepLast
  <2> DEFINE K == S \ Picked
             f == [i \in K |-> c[i] + 1]
  <2>1. \A i \in K : i \in S /\ c[i] \in Nat /\ c[i] < keepLast
    BY <1>4, <1>6, <1>9
  <2>2. \A i, j \in K : c[i] + 1 = c[j] + 1 => i = j
    BY <1>4, <2>1
  <2> HIDE DEF K
  <2>3. f \in [K -> 1..keepLast] /\ \A i \in K : f[i] = c[i] + 1
    BY <2>1
  <2> HIDE DEF f
  <2>4. f \in Injection(K, 1..keepLast)
    BY <2>2, <2>3 DEF Injection, IsInjective
  <2>5. IsFiniteSet(1..keepLast) /\ Cardinality(1..keepLast) = keepLast
    BY FS_Interval
  <2> QED
    BY <2>4, <2>5, FS_Injection DEF K
<1>10. ASSUME NEW i \in Picked, ~Old(i)
       PROVE  /\ keepLast > 0
              /\ Cardinality({j \in S \ {i} : b[j] >= b[i]}) >= keepLast
  <2> DEFINE A == Ahead(S, R, i)
             B == {j \in S \ {i} : b[j] >= b[i]}
  <2>1. i \in S /\ keepLast > 0 /\ c[i] >= keepLast /\ c[i] = Cardinality(A)
    BY <1>5, <1>6, <1>7, <1>10
  <2>2. A \in SUBSET B /\ B \in SUBSET S
    BY <1>3, <2>1 DEF Ahead
  <2> HIDE DEF A, B
  <2>3. IsFiniteSet(B) /\ IsFiniteSet(A) /\ Cardinality(A) <= Cardinality(B)
    BY <1>1, <2>2, FS_Subset
  <2>4. Cardinality(A) \in Nat /\ Cardinality(B) \in Nat
    BY <2>3, FS_CardinalityType
  <2> QED
    BY <2>1, <2>3, <2>4 DEF B
<1> QED
  BY <1>2, <1>8, <1>9, <1>10 DEF MeetsPolicy, Picked

\* What retain.Pick chooses from the archives that uploads and deletes leave
\* is what the policy says.
THEOREM PickMeetsPolicyCorrect == Spec => []PickMeetsPolicy
<1>1. Inv => PickMeetsPolicy
  <2> SUFFICES ASSUME Inv, NEW keepLast \in 0..3, NEW maxAge \in 0..3
               PROVE  MeetsPolicy(present, born, now, keepLast, maxAge,
                                  Pick(Listing, born, keepLast, maxAge, now))
    BY DEF PickMeetsPolicy, MeetsPolicy
  <2>1. Archives(present, born) /\ now \in Nat /\ keepLast \in Nat /\ maxAge \in Nat
    BY DEF Inv, Typed, Archives
  <2> QED
    BY <2>1, PickPolicy DEF Listing
<1> QED
  BY <1>1, InvCorrect, PTL
====
