-------------------------- MODULE Retention_proofs --------------------------
(***************************************************************************)
(* Proofs about Retention, for any number of archives, pages and ticks and *)
(* any policy: what the sweep never deletes, and under which condition on  *)
(* topology and sort orders keep_last is kept.                             *)
(***************************************************************************)
EXTENDS Retention, FiniteSetTheorems, TLAPS

\* The archives ever uploaded.
Born == {i \in Ids : born[i] # None}

ShareState == [at : Nat, until : Nat]
CacheState == [items : Seq(Ids), filled : Maybe(Nat)]
PageState == [pc : {"idle", "set", "done"}, now : Nat, items : Seq(Ids)]
SweepState == [pc : {"idle", "set", "protect", "remove"}, now : Nat, items : Seq(Ids),
               todo : SUBSET Ids, alias : BOOLEAN]

Typed ==
    /\ now \in Nat
    /\ born \in [Ids -> Maybe(Nat)]
    /\ present \subseteq Ids
    /\ died \in [Ids -> Maybe(Nat)]
    /\ pinned \in [Ids -> Maybe(Nat)]
    /\ shared \in [Ids -> Maybe(ShareState)]
    /\ cache \in Maybe(CacheState)
    /\ page \in [Pages -> PageState]
    /\ sweep \in SweepState
    /\ swept \subseteq Ids

\* Only what was uploaded is listed, picked and deleted.
BornOK ==
    /\ IsFiniteSet(Born)
    /\ present \subseteq Born /\ swept \subseteq Born /\ sweep.todo \subseteq Born
    /\ UseBucket => Elems(cache.items) \subseteq Born
    /\ \A p \in Pages : Elems(page[p].items) \subseteq Born
    /\ Elems(sweep.items) \subseteq Born

\* What is to be deleted was not protected when the sweep began.
TodoOK ==
    /\ sweep.now <= now
    /\ \A i \in sweep.todo :
          /\ pinned[i] # None => pinned[i] >= sweep.now
          /\ shared[i] # None => shared[i].at >= sweep.now \/ shared[i].until <= sweep.now

\* What a list names existed at time t.
Current(s, t) == \A j \in Elems(s) : Lasts(j, t)

\* No listing is older than the time it carries, and the sweep's not older
\* than Oldest; the sweep shares an array with the cache only while the cache
\* holds that array.
FreshOK ==
    /\ UseBucket /\ cache.filled # None =>
          cache.filled <= now /\ Current(cache.items, cache.filled)
    /\ \A p \in Pages :
          /\ page[p].now <= now /\ Current(page[p].items, page[p].now)
          /\ page[p].pc = "set" => UseBucket
    /\ Current(sweep.items, Oldest)
    /\ sweep.pc = "set" => UseBucket /\ Current(sweep.items, sweep.now)
    /\ sweep.alias => UseBucket /\ cache.items = sweep.items

\* The inductive invariant, for every topology and sort order.
Inv == Typed /\ BornOK /\ TodoOK /\ FreshOK

-----------------------------------------------------------------------------
(* The listing is newest first *)

\* A list without repetition, newest first.
NewestFirst(s) ==
    \A j, k \in DOMAIN s : j < k => s[j] # s[k] /\ born[s[j]] >= born[s[k]]

\* The sweep's list may share its array with pages only if they sort it
\* newest first, or if there is no cache at all.
NoReorder == Orders \subseteq {"newest"} \/ Topologies \subseteq {"vps"}

\* In topology vps nothing is ever cached.
Uncached ==
    Topologies \subseteq {"vps"} =>
        ~UseBucket /\ sweep.pc # "set" /\ \A p \in Pages : page[p].pc # "set"

\* The inductive invariant behind keep_last.
OrderInv ==
    /\ Uncached
    /\ UseBucket => NewestFirst(cache.items)
    /\ NewestFirst(sweep.items)
    /\ \A i \in sweep.todo : Justified(i)

-----------------------------------------------------------------------------
(* Lists *)

\* The elements of a sequence are finitely many.
LEMMA ElemsFinite ==
    ASSUME NEW S, NEW s \in Seq(S)
    PROVE  IsFiniteSet(Elems(s)) /\ Elems(s) \subseteq S
<1>1. Len(s) \in Nat /\ DOMAIN s = 1..Len(s) /\ s \in [1..Len(s) -> S]
  OBVIOUS
<1>2. s \in Surjection(1..Len(s), Elems(s))
  BY <1>1 DEF Surjection, Elems
<1>3. IsFiniteSet(1..Len(s))
  BY <1>1, FS_Interval
<1> QED
  BY <1>1, <1>2, <1>3, FS_Surjection DEF Elems

\* What a sort of a finite set of archives leaves.
LEMMA SortedFacts ==
    ASSUME NEW S \in SUBSET Ids, IsFiniteSet(S), NEW o, NEW s \in Sorted(S, o)
    PROVE  /\ s \in Seq(Ids) /\ Elems(s) \subseteq S
           /\ o = "newest" => NewestFirst(s)
<1>1. Cardinality(S) \in Nat
  BY FS_CardinalityType
<1>2. s \in [1..Cardinality(S) -> S]
  BY DEF Sorted
<1>3. s \in [1..Cardinality(S) -> Ids]
  BY <1>2
<1>4. s \in Seq(Ids)
  BY <1>1, <1>3, SMT
<1>5. Elems(s) \subseteq S
  BY <1>2 DEF Elems
<1> QED
  BY <1>4, <1>5 DEF Sorted, Before, NewestFirst

\* The empty list is sorted.
LEMMA EmptyList == <<>> \in Seq(Ids) /\ Elems(<<>>) = {} /\ NewestFirst(<<>>)
  BY DEF Elems, NewestFirst

\* An archive beyond rank n of a list that is newest first leaves n archives
\* that are as new: the index retain.Pick goes by is a number of archives.
LEMMA RankCount ==
    ASSUME IsFiniteSet(Born), NEW s \in Seq(Ids), Elems(s) \subseteq Born, NewestFirst(s),
           Current(s, Oldest), NEW k \in DOMAIN s, NEW n \in Nat, k > n
    PROVE  Cardinality(Newer(s[k])) >= n
<1> DEFINE T == Newer(s[k])
           f == [x \in 1..(k - 1) |-> s[x]]
<1>1. Len(s) \in Nat /\ k \in 1..Len(s) /\ DOMAIN s = 1..Len(s)
  OBVIOUS
<1>2. IsFiniteSet(T)
  BY FS_Subset DEF Born, Newer
<1>3. f \in [1..(k - 1) -> T]
  <2> SUFFICES ASSUME NEW x \in 1..(k - 1)
               PROVE  s[x] \in T
    OBVIOUS
  <2>1. x \in DOMAIN s /\ x < k
    BY <1>1
  <2>2. s[x] \in Ids /\ s[x] \in Born /\ Lasts(s[x], Oldest)
    BY <2>1 DEF Elems, Current
  <2> QED
    BY <2>1, <2>2 DEF NewestFirst, Born, Newer
<1>4. f \in Injection(1..(k - 1), T)
  <2>1. ASSUME NEW a \in 1..(k - 1), NEW b \in 1..(k - 1), f[a] = f[b]
        PROVE  a = b
    <3>1. a \in DOMAIN s /\ b \in DOMAIN s /\ s[a] = s[b] /\ a \in Nat /\ b \in Nat
      BY <1>1, <2>1
    <3>2. ~(a < b) /\ ~(b < a)
      BY <3>1 DEF NewestFirst
    <3> QED
      BY <3>1, <3>2
  <2>2. DOMAIN f = 1..(k - 1)
    OBVIOUS
  <2> HIDE DEF f
  <2> QED
    BY <1>3, <2>1, <2>2 DEF Injection, IsInjective
<1>5. Cardinality(1..(k - 1)) <= Cardinality(T)
  BY <1>2, <1>4, FS_Injection
<1>6. Cardinality(1..(k - 1)) = k - 1
  BY <1>1, FS_Interval
<1>7. Cardinality(T) \in Nat
  BY <1>2, FS_CardinalityType
<1> QED
  BY <1>1, <1>5, <1>6, <1>7

-----------------------------------------------------------------------------
(* What a step does to each variable *)

\* Uploads only add to what was born, and time goes on.
LEMMA BornGrows ==
    ASSUME Inv, [Next]_vars
    PROVE  /\ born' \in [Ids -> Maybe(Nat)]
           /\ \A i \in Born : born'[i] = born[i] /\ i \in Born'
           /\ IsFiniteSet(Born')
           /\ now' \in Nat /\ now <= now'
<1> USE TimeAssumption
<1>0. /\ now \in Nat /\ born \in [Ids -> Maybe(Nat)] /\ IsFiniteSet(Born)
  BY DEF Inv, Typed, BornOK
<1>1. ASSUME NEW i \in Ids, Upload(i)
      PROVE  /\ born' \in [Ids -> Maybe(Nat)]
             /\ \A j \in Born : born'[j] = born[j] /\ j \in Born'
             /\ IsFiniteSet(Born')
             /\ now' = now
  <2>1. born[i] = None /\ born' = [born EXCEPT ![i] = now] /\ now' = now
    BY <1>1 DEF Upload
  <2>2. born' \in [Ids -> Maybe(Nat)]
    BY <1>0, <2>1 DEF Maybe
  <2>3. Born' = Born \cup {i}
    BY <1>0, <2>1 DEF Born
  <2>4. IsFiniteSet(Born')
    BY <1>0, <2>3, FS_AddElement
  <2> QED
    BY <1>0, <2>1, <2>2, <2>3, <2>4 DEF Born
<1>2. CASE Tick
  BY <1>0, <1>2 DEF Tick, Born
<1>3. CASE UNCHANGED <<now, born>>
  BY <1>0, <1>3 DEF Born
<1>4. SweepStep => UNCHANGED <<now, born>>
  BY DEF SweepStep, SweepList, SweepSet, SweepPick, FailProtect, SweepEnd, SweepRemove, SkipRemove
<1>5. \A p \in Pages, o \in Orders : PageHit(p, o) \/ PageSet(p, o) => UNCHANGED <<now, born>>
  BY DEF PageHit, PageSet
<1>6. \A p \in Pages : PageList(p) => UNCHANGED <<now, born>>
  BY DEF PageList
<1>7. \A i \in Ids : Delete(i) \/ AddPin(i) \/ RemovePin(i) \/ Unshare(i) => UNCHANGED <<now, born>>
  BY DEF Delete, AddPin, RemovePin, Unshare
<1>8. (\E i \in Ids, t \in 2..(LastTick + 1) : CreateShare(i, t)) => UNCHANGED <<now, born>>
  BY DEF CreateShare
<1>9. (\E i \in Ids : Upload(i)) \/ Tick \/ UNCHANGED <<now, born>>
  BY <1>4, <1>5, <1>6, <1>7, <1>8 DEF Next, vars
<1> QED
  BY <1>0, <1>1, <1>2, <1>3, <1>9

\* A list stays a list of born archives.
LEMMA ListStays ==
    ASSUME Inv, [Next]_vars, NEW s, Elems(s) \subseteq Born
    PROVE  Elems(s) \subseteq Born'
  BY BornGrows

\* And keeps its order.
LEMMA OrderStays ==
    ASSUME Inv, [Next]_vars, NEW s, Elems(s) \subseteq Born, NewestFirst(s)
    PROVE  NewestFirst(s)'
<1> SUFFICES ASSUME NEW j \in DOMAIN s, NEW k \in DOMAIN s, j < k
             PROVE  s[j] # s[k] /\ born'[s[j]] >= born'[s[k]]
  BY DEF NewestFirst
<1>1. s[j] \in Born /\ s[k] \in Born
  BY DEF Elems
<1> QED
  BY <1>1, BornGrows DEF NewestFirst

\* Sorting what is present: the listing listItems makes.
LEMMA SortPresent ==
    ASSUME Inv, NEW s \in Sorted(present, "newest")
    PROVE  s \in Seq(Ids) /\ Elems(s) \subseteq Born /\ NewestFirst(s)
<1>1. present \in SUBSET Ids /\ IsFiniteSet(present) /\ present \subseteq Born
  BY FS_Subset DEF Inv, Typed, BornOK
<1> QED
  BY <1>1, SortedFacts

\* Sorting what a list holds, as handleHome does with the cached listing.
LEMMA SortList ==
    ASSUME NEW x \in Seq(Ids), Elems(x) \subseteq Born, NEW o, NEW s \in Sorted(Elems(x), o)
    PROVE  /\ s \in Seq(Ids) /\ Elems(s) \subseteq Born
           /\ o = "newest" => NewestFirst(s)
<1>1. Elems(x) \in SUBSET Ids /\ IsFiniteSet(Elems(x))
  BY ElemsFinite
<1> QED
  BY <1>1, SortedFacts

\* The list in a step's hands: sorted if NoReorder, of born archives anyway.
Listed(s) == s \in Seq(Ids) /\ Elems(s) \subseteq Born

\* What becomes of the cached listing.
LEMMA CacheEffect ==
    ASSUME Inv, [Next]_vars
    PROVE  \/ cache' = cache
           \/ UseBucket /\ cache' = Cold
           \/ /\ UseBucket
              /\ \E o \in Orders : \E s \in Sorted(Elems(cache.items), o) :
                    cache' = [cache EXCEPT !.items = s]
           \/ \E p \in Pages, o \in Orders : \E s \in Sorted(Elems(page[p].items), o) :
                 page[p].pc = "set" /\ cache' = [items |-> s, filled |-> page[p].now]
           \/ sweep.pc = "set" /\ cache' = [items |-> sweep.items, filled |-> sweep.now]
<1>1. ASSUME NEW p \in Pages, NEW o \in Orders, PageHit(p, o)
      PROVE  /\ UseBucket
             /\ \E s \in Sorted(Elems(cache.items), o) : cache' = [cache EXCEPT !.items = s]
  BY <1>1 DEF PageHit, Hit
<1>2. ASSUME NEW p \in Pages, NEW o \in Orders, PageSet(p, o)
      PROVE  \E s \in Sorted(Elems(page[p].items), o) :
                page[p].pc = "set" /\ cache' = [items |-> s, filled |-> page[p].now]
  BY <1>2 DEF PageSet
<1>3. CASE SweepSet
  BY <1>3 DEF SweepSet
<1>4. ASSUME NEW i \in Ids, SweepRemove(i) \/ Upload(i) \/ Delete(i)
      PROVE  cache' = cache \/ (UseBucket /\ cache' = Cold)
  BY <1>4 DEF SweepRemove, Upload, Delete, Invalidate
<1>5. CASE UNCHANGED cache
  BY <1>5
<1> QED
  BY <1>1, <1>2, <1>3, <1>4, <1>5 DEF Next, vars, SweepStep, SweepList, SweepPick,
     FailProtect, SweepEnd, SkipRemove, PageList,
     AddPin, RemovePin, Unshare, CreateShare, Tick

\* What becomes of the sweep's listing: it is left alone, dropped, taken from
\* the cache, from a new listing, or reordered by a page that shares it.
LEMMA SweepEffect ==
    ASSUME Inv, [Next]_vars
    PROVE  /\ sweep' \in SweepState
           /\ \/ sweep'.items = sweep.items /\ sweep'.now = sweep.now
              \/ sweep'.items = <<>>
              \/ Hit /\ sweep'.items = cache.items /\ sweep'.now = now
              \/ sweep'.items \in Sorted(present, "newest") /\ sweep'.now = now
              \/ /\ UseBucket /\ sweep.alias /\ sweep'.now = sweep.now
                 /\ \E o \in Orders : sweep'.items \in Sorted(Elems(cache.items), o)
           /\ \/ SweepPick
              \/ sweep'.now = sweep.now /\ sweep'.todo \subseteq sweep.todo
              \/ sweep'.now \in {0, now} /\ sweep'.todo = {}
           /\ sweep'.pc = "set" =>
                 \/ sweep.pc = "set" /\ sweep'.now = sweep.now
                    /\ Elems(sweep'.items) \subseteq Elems(sweep.items)
                 \/ UseBucket /\ sweep'.items \in Sorted(present, "newest") /\ sweep'.now = now
<1>0. /\ sweep.alias => cache.items = sweep.items
      /\ sweep \in SweepState /\ cache \in Maybe(CacheState) /\ now \in Nat
      /\ UseBucket => Listed(cache.items)
  BY DEF Inv, Typed, BornOK, FreshOK, UseBucket, Maybe, CacheState, Listed
<1> DEFINE Goal ==
      /\ sweep' \in SweepState
      /\ \/ sweep'.items = sweep.items /\ sweep'.now = sweep.now
         \/ sweep'.items = <<>>
         \/ Hit /\ sweep'.items = cache.items /\ sweep'.now = now
         \/ sweep'.items \in Sorted(present, "newest") /\ sweep'.now = now
         \/ /\ UseBucket /\ sweep.alias /\ sweep'.now = sweep.now
            /\ \E o \in Orders : sweep'.items \in Sorted(Elems(cache.items), o)
      /\ \/ SweepPick
         \/ sweep'.now = sweep.now /\ sweep'.todo \subseteq sweep.todo
         \/ sweep'.now \in {0, now} /\ sweep'.todo = {}
      /\ sweep'.pc = "set" =>
            \/ sweep.pc = "set" /\ sweep'.now = sweep.now
               /\ Elems(sweep'.items) \subseteq Elems(sweep.items)
            \/ UseBucket /\ sweep'.items \in Sorted(present, "newest") /\ sweep'.now = now
<1>1. ASSUME NEW p \in Pages, NEW o \in Orders, PageHit(p, o)
      PROVE  Goal
  <2>1. UseBucket
    BY <1>1 DEF PageHit, Hit
  <2>2. PICK s \in Sorted(Elems(cache.items), o) :
           sweep' = IF sweep.alias THEN [sweep EXCEPT !.items = s] ELSE sweep
    BY <1>1 DEF PageHit
  <2>3. s \in Seq(Ids) /\ Elems(s) \subseteq Elems(cache.items)
    <3>1. cache.items \in Seq(Ids) /\ Elems(cache.items) \subseteq Born
      BY <1>0, <2>1 DEF Listed
    <3>2. Elems(cache.items) \in SUBSET Ids /\ IsFiniteSet(Elems(cache.items))
      BY <3>1, ElemsFinite
    <3> QED
      BY <2>2, <3>2, SortedFacts
  <2>4. CASE sweep.alias
    <3>1. sweep' = [sweep EXCEPT !.items = s]
      BY <2>2, <2>4
    <3>2. /\ sweep' \in SweepState /\ sweep'.items = s /\ sweep'.now = sweep.now
          /\ sweep'.todo = sweep.todo /\ sweep'.pc = sweep.pc
      BY <1>0, <2>3, <3>1 DEF SweepState
    <3>3. Elems(sweep'.items) \subseteq Elems(sweep.items)
      BY <1>0, <2>3, <2>4, <3>2
    <3> QED
      BY <2>1, <2>4, <3>2, <3>3
  <2>5. CASE ~sweep.alias
    <3>1. sweep' = sweep
      BY <2>2, <2>5
    <3> QED
      BY <1>0, <3>1
  <2> QED
    BY <2>4, <2>5
<1>2. CASE UNCHANGED sweep
  BY <1>0, <1>2
<1>3. CASE Unalias
  BY <1>0, <1>3 DEF Unalias, SweepState
<1>4. CASE SweepList
  <2>1. CASE Hit
    <3>1. UseBucket /\ cache.items \in Seq(Ids)
      BY <1>0, <2>1 DEF Hit, Listed
    <3>2. sweep' = [pc |-> "protect", now |-> now, items |-> cache.items,
                    todo |-> {}, alias |-> TRUE]
      BY <1>4, <2>1 DEF SweepList
    <3>3. sweep' \in SweepState
      BY <1>0, <3>1, <3>2 DEF SweepState
    <3>4. /\ sweep'.items = cache.items /\ sweep'.now = now /\ sweep'.todo = {}
          /\ sweep'.pc = "protect"
      BY <3>2
    <3> QED
      BY <2>1, <3>3, <3>4
  <2>2. CASE ~Hit
    <3>1. PICK s \in Sorted(present, "newest") :
             sweep' = [pc |-> IF UseBucket THEN "set" ELSE "protect", now |-> now,
                       items |-> s, todo |-> {}, alias |-> FALSE]
      BY <1>4, <2>2 DEF SweepList
    <3>2. s \in Seq(Ids)
      BY SortPresent
    <3>3. sweep' \in SweepState
      BY <1>0, <3>1, <3>2 DEF SweepState
    <3>4. /\ sweep'.items = s /\ sweep'.now = now /\ sweep'.todo = {}
          /\ ~UseBucket => sweep'.pc = "protect"
      BY <3>1
    <3> QED
      BY <3>3, <3>4
  <2> QED
    BY <2>1, <2>2
<1>5. CASE SweepSet
  BY <1>0, <1>5 DEF SweepSet, SweepState
<1>6. CASE SweepPick
  <2>1. /\ sweep' = [sweep EXCEPT !.pc = "remove",
                        !.todo = Pick(sweep.items, born, KeepLast, MaxAge, sweep.now)
                                   \ Protected(sweep.now)]
    BY <1>6 DEF SweepPick
  <2>2. Pick(sweep.items, born, KeepLast, MaxAge, sweep.now) \subseteq Ids
    <3>1. sweep.items \in Seq(Ids)
      BY <1>0 DEF SweepState
    <3> QED
      BY <3>1 DEF Pick
  <2>3. /\ sweep' \in SweepState /\ sweep'.items = sweep.items /\ sweep'.pc = "remove"
        /\ sweep'.now = sweep.now
    BY <1>0, <2>1, <2>2 DEF SweepState
  <2> QED
    BY <1>6, <2>3
<1>7. CASE FailProtect \/ SweepEnd
  <2>1. sweep' = SweepIdle
    BY <1>7 DEF FailProtect, SweepEnd
  <2>2. SweepIdle \in SweepState
    BY DEF SweepIdle, SweepState
  <2> QED
    BY <2>1, <2>2 DEF SweepIdle
<1>8. ASSUME NEW i \in Ids, SweepRemove(i) \/ SkipRemove(i)
      PROVE  Goal
  BY <1>0, <1>8 DEF SweepRemove, SkipRemove, SweepState
<1> QED
  BY <1>1, <1>2, <1>3, <1>4, <1>5, <1>6, <1>7, <1>8 DEF Next, vars, SweepStep,
     PageList, PageSet, Upload, Delete, Invalidate,
     AddPin, RemovePin, Unshare, CreateShare, Tick

\* What becomes of the pages: one starts with a new listing, or keeps its own.
LEMMA PageEffect ==
    ASSUME Inv, [Next]_vars
    PROVE  /\ page' \in [Pages -> PageState]
           /\ \A p \in Pages :
                 /\ \/ page'[p].items = page[p].items /\ page'[p].now = page[p].now
                    \/ page'[p].items \in Sorted(present, "newest") /\ page'[p].now = now
                 /\ ~UseBucket /\ page[p].pc # "set" => page'[p].pc # "set"
<1>0. page \in [Pages -> PageState] /\ now \in Nat
  BY DEF Inv, Typed
<1> DEFINE Goal ==
      /\ page' \in [Pages -> PageState]
      /\ \A p \in Pages :
            /\ \/ page'[p].items = page[p].items /\ page'[p].now = page[p].now
               \/ page'[p].items \in Sorted(present, "newest") /\ page'[p].now = now
            /\ ~UseBucket /\ page[p].pc # "set" => page'[p].pc # "set"
<1>1. ASSUME NEW p \in Pages, PageList(p)
      PROVE  Goal
  <2>1. PICK s \in Sorted(present, "newest") :
           UseBucket /\ page' = [page EXCEPT ![p] = [pc |-> "set", now |-> now, items |-> s]]
    BY <1>1 DEF PageList
  <2>2. [pc |-> "set", now |-> now, items |-> s] \in PageState
    BY <1>0, SortPresent DEF PageState
  <2> QED
    BY <1>0, <2>1, <2>2
<1>2. ASSUME NEW p \in Pages, page' = [page EXCEPT ![p].pc = "done"]
      PROVE  Goal
  BY <1>0, <1>2 DEF PageState
<1>3. ASSUME UNCHANGED page
      PROVE  Goal
  BY <1>0, <1>3
<1>4. \A p \in Pages, o \in Orders :
         PageHit(p, o) \/ PageSet(p, o) => page' = [page EXCEPT ![p].pc = "done"]
  BY DEF PageHit, PageSet
<1>5. SweepStep => UNCHANGED page
  BY DEF SweepStep, SweepList, SweepSet, SweepPick, FailProtect, SweepEnd, SweepRemove, SkipRemove
<1>6. \A i \in Ids : Upload(i) \/ Delete(i) \/ AddPin(i) \/ RemovePin(i) \/ Unshare(i)
                       => UNCHANGED page
  BY DEF Upload, Delete, AddPin, RemovePin, Unshare
<1>7. (\E i \in Ids, t \in 2..(LastTick + 1) : CreateShare(i, t)) \/ Tick => UNCHANGED page
  BY DEF CreateShare, Tick
<1>8. \/ UNCHANGED page
      \/ \E p \in Pages : PageList(p) \/ page' = [page EXCEPT ![p].pc = "done"]
  BY <1>4, <1>5, <1>6, <1>7 DEF Next, vars
<1> HIDE DEF Goal
<1>9. Goal
  BY <1>1, <1>2, <1>3, <1>8
<1> QED
  BY <1>9 DEF Goal

\* What becomes of the archives and of what protects them: only the sweep
\* adds to its audit rows, and a pin or link that is new carries this moment.
LEMMA ArchiveEffect ==
    ASSUME Inv, [Next]_vars
    PROVE  /\ present' \subseteq Ids /\ present' \subseteq Born'
           /\ died' \in [Ids -> Maybe(Nat)]
           /\ \A i \in Ids : \/ died'[i] = now
                             \/ died'[i] = died[i] /\ (i \in present => i \in present')
           /\ pinned' \in [Ids -> Maybe(Nat)]
           /\ shared' \in [Ids -> Maybe(ShareState)]
           /\ \A i \in Ids :
                 /\ pinned'[i] \in {None, now, pinned[i]}
                 /\ \/ shared'[i] \in {None, shared[i]}
                    \/ shared'[i].at = now
           /\ swept' \subseteq swept \cup sweep.todo
<1>0. /\ present \subseteq Ids /\ present \subseteq Born /\ now \in Nat
      /\ died \in [Ids -> Maybe(Nat)]
      /\ pinned \in [Ids -> Maybe(Nat)] /\ shared \in [Ids -> Maybe(ShareState)]
  BY DEF Inv, Typed, BornOK
<1>1. present \subseteq Born'
  BY <1>0, BornGrows
<1> DEFINE Goal ==
      /\ present' \subseteq Ids /\ present' \subseteq Born'
      /\ died' \in [Ids -> Maybe(Nat)]
      /\ \A i \in Ids : \/ died'[i] = now
                        \/ died'[i] = died[i] /\ (i \in present => i \in present')
      /\ pinned' \in [Ids -> Maybe(Nat)]
      /\ shared' \in [Ids -> Maybe(ShareState)]
      /\ \A i \in Ids :
            /\ pinned'[i] \in {None, now, pinned[i]}
            /\ \/ shared'[i] \in {None, shared[i]}
               \/ shared'[i].at = now
      /\ swept' \subseteq swept \cup sweep.todo
<1>2. ASSUME UNCHANGED <<present, died, pinned, shared, swept>>
      PROVE  Goal
  BY <1>0, <1>1, <1>2
<1>3. ASSUME NEW i \in Ids, Upload(i)
      PROVE  Goal
  <2>1. present' = present \cup {i} /\ UNCHANGED <<died, pinned, shared, swept>>
    BY <1>3 DEF Upload
  <2>2. i \in Born'
    BY <1>0, <1>3, BornGrows, TimeAssumption DEF Upload, Born, Inv, Typed
  <2> QED
    BY <1>0, <1>1, <2>1, <2>2
<1>4. ASSUME NEW i \in Ids, Drop(i), swept' \subseteq swept \cup sweep.todo
      PROVE  Goal
  <2>1. /\ present' = present \ {i} /\ pinned' = [pinned EXCEPT ![i] = None]
        /\ shared' = [shared EXCEPT ![i] = None] /\ died' = [died EXCEPT ![i] = now]
    BY <1>4 DEF Drop
  <2>2. present' \subseteq Ids /\ present' \subseteq Born'
    BY <1>0, <1>1, <2>1
  <2>3. /\ pinned' \in [Ids -> Maybe(Nat)] /\ shared' \in [Ids -> Maybe(ShareState)]
        /\ \A j \in Ids : pinned'[j] \in {None, pinned[j]} /\ shared'[j] \in {None, shared[j]}
    BY <1>0, <2>1 DEF Maybe
  <2>4. /\ died' \in [Ids -> Maybe(Nat)]
        /\ \A j \in Ids : \/ died'[j] = now
                          \/ died'[j] = died[j] /\ (j \in present => j \in present')
    BY <1>0, <2>1 DEF Maybe
  <2> QED
    BY <1>4, <2>2, <2>3, <2>4
<1>5. ASSUME NEW i \in Ids, AddPin(i) \/ RemovePin(i)
      PROVE  Goal
  BY <1>0, <1>1, <1>5 DEF AddPin, RemovePin, Maybe
<1>6. ASSUME NEW i \in Ids, Unshare(i)
      PROVE  Goal
  BY <1>0, <1>1, <1>6 DEF Unshare, Maybe
<1>7. ASSUME NEW i \in Ids, NEW t \in Int, CreateShare(i, t)
      PROVE  Goal
  <2>1. /\ shared' = [shared EXCEPT ![i] = [at |-> now, until |-> t]] /\ t > now
        /\ UNCHANGED <<present, died, pinned, swept>>
    BY <1>7 DEF CreateShare
  <2>2. [at |-> now, until |-> t] \in ShareState
    BY <1>0, <2>1 DEF ShareState
  <2> QED
    BY <1>0, <1>1, <2>1, <2>2 DEF Maybe
<1>8. SweepList \/ SweepSet \/ SweepPick \/ FailProtect \/ SweepEnd \/ Tick
        => UNCHANGED <<present, died, pinned, shared, swept>>
  BY DEF SweepList, SweepSet, SweepPick, FailProtect, SweepEnd, Tick
<1>9. \A i \in Ids : SkipRemove(i) => UNCHANGED <<present, died, pinned, shared, swept>>
  BY DEF SkipRemove
<1>10. \A i \in Ids : SweepRemove(i) \/ Delete(i) => Drop(i) /\ swept' \subseteq swept \cup sweep.todo
  BY DEF SweepRemove, Delete
<1>11. \A p \in Pages : \A o \in Orders :
          PageList(p) \/ PageHit(p, o) \/ PageSet(p, o) => UNCHANGED <<present, died, pinned, shared, swept>>
  BY DEF PageList, PageHit, PageSet
<1>12. \A p \in Pages : PageList(p) => UNCHANGED <<present, died, pinned, shared, swept>>
  BY DEF PageList
<1>13. \A t \in 2..(LastTick + 1) : t \in Int
  OBVIOUS
<1>14. \/ UNCHANGED <<present, died, pinned, shared, swept>>
       \/ \E i \in Ids : \/ Upload(i) \/ AddPin(i) \/ RemovePin(i) \/ Unshare(i)
                         \/ Drop(i) /\ swept' \subseteq swept \cup sweep.todo
                         \/ \E t \in Int : CreateShare(i, t)
  BY <1>8, <1>9, <1>10, <1>11, <1>12, <1>13 DEF Next, SweepStep, vars
<1> HIDE DEF Goal
<1>15. Goal
  BY <1>2, <1>3, <1>4, <1>5, <1>6, <1>7, <1>14
<1> QED
  BY <1>15 DEF Goal

-----------------------------------------------------------------------------
(* The inductive invariant *)

\* The clauses of Inv about the lists that a step leaves.
LEMMA ListsStep ==
    ASSUME Inv, [Next]_vars
    PROVE  /\ cache' \in Maybe(CacheState)
           /\ UseBucket' => Elems(cache'.items) \subseteq Born'
           /\ \A p \in Pages : Elems(page'[p].items) \subseteq Born'
           /\ Elems(sweep'.items) \subseteq Born'
<1>0. /\ cache \in Maybe(CacheState) /\ page \in [Pages -> PageState] /\ sweep \in SweepState
      /\ UseBucket => Listed(cache.items)
      /\ \A p \in Pages : Listed(page[p].items) /\ page[p].now \in Nat
      /\ Listed(sweep.items) /\ sweep.now \in Nat
  BY DEF Inv, Typed, BornOK, UseBucket, Maybe, CacheState, PageState, SweepState, Listed
<1>1. \A s : Listed(s) => s \in Seq(Ids) /\ Elems(s) \subseteq Born'
  BY ListStays DEF Listed
<1>2. /\ \A s \in Sorted(present, "newest") : Listed(s)
      /\ UseBucket => \A o \in Orders : \A s \in Sorted(Elems(cache.items), o) : Listed(s)
      /\ \A p \in Pages, o \in Orders : \A s \in Sorted(Elems(page[p].items), o) : Listed(s)
      /\ Listed(<<>>)
  <2>1. \A s \in Sorted(present, "newest") : Listed(s)
    BY SortPresent DEF Listed
  <2>2. \A x : Listed(x) => \A o : \A s \in Sorted(Elems(x), o) : Listed(s)
    BY SortList DEF Listed
  <2>3. Listed(<<>>)
    BY EmptyList DEF Listed
  <2> QED
    BY <1>0, <2>1, <2>2, <2>3
<1>3. Elems(sweep'.items) \subseteq Born'
  BY <1>0, <1>1, <1>2, SweepEffect DEF Hit
<1>4. \A p \in Pages : Elems(page'[p].items) \subseteq Born'
  BY <1>0, <1>1, <1>2, PageEffect
<1>5. ASSUME NEW s, NEW f \in Maybe(Nat), Listed(s), cache' = [items |-> s, filled |-> f]
      PROVE  cache' \in Maybe(CacheState) /\ Elems(cache'.items) \subseteq Born'
  BY <1>1, <1>5 DEF Maybe, CacheState, Listed
<1>6. /\ cache' \in Maybe(CacheState)
      /\ UseBucket' => Elems(cache'.items) \subseteq Born'
  <2>1. CASE cache' = cache
    <3>1. UseBucket' <=> UseBucket
      BY <2>1 DEF UseBucket
    <3>2. UseBucket => Elems(cache.items) \subseteq Born'
      BY <1>0, <1>1
    <3> QED
      BY <1>0, <2>1, <3>1, <3>2
  <2>2. CASE UseBucket /\ cache' = Cold
    BY <1>2, <1>5, <2>2 DEF Cold, Maybe
  <2>3. CASE UseBucket /\ \E o \in Orders : \E s \in Sorted(Elems(cache.items), o) :
                cache' = [cache EXCEPT !.items = s]
    <3>1. PICK o \in Orders : \E s \in Sorted(Elems(cache.items), o) :
                cache' = [cache EXCEPT !.items = s]
      BY <2>3
    <3>2. PICK s \in Sorted(Elems(cache.items), o) : cache' = [cache EXCEPT !.items = s]
      BY <3>1
    <3>3. cache \in CacheState
      BY <1>0, <2>3 DEF UseBucket, Maybe
    <3>4. cache' = [items |-> s, filled |-> cache.filled] /\ cache.filled \in Maybe(Nat)
      BY <3>2, <3>3 DEF CacheState
    <3> QED
      BY <1>2, <1>5, <2>3, <3>4
  <2>4. CASE \E p \in Pages, o \in Orders : \E s \in Sorted(Elems(page[p].items), o) :
                page[p].pc = "set" /\ cache' = [items |-> s, filled |-> page[p].now]
    BY <1>0, <1>2, <1>5, <2>4 DEF Maybe
  <2>5. CASE cache' = [items |-> sweep.items, filled |-> sweep.now]
    BY <1>0, <1>5, <2>5 DEF Maybe
  <2> QED
    BY <2>1, <2>2, <2>3, <2>4, <2>5, CacheEffect
<1> QED
  BY <1>3, <1>4, <1>6

\* What retain.Pick picks is in the list, and beyond keep_last or too old.
LEMMA PickFacts ==
    ASSUME NEW s \in Seq(Ids), NEW t, NEW i \in Pick(s, born, KeepLast, MaxAge, t)
    PROVE  /\ i \in Elems(s)
           /\ \E k \in DOMAIN s :
                 /\ i = s[k]
                 /\ \/ BeyondRank(k, Limit(KeepLast, DefaultKeepLast))
                    \/ TooOld(born[s[k]], Limit(MaxAge, DefaultMaxAge), t)
  BY DEF Pick, Elems

\* What the sweep has to do after it picked.
LEMMA PickStep ==
    ASSUME Inv, SweepPick
    PROVE  /\ sweep'.now = sweep.now /\ now' = now /\ born' = born /\ swept' = swept
           /\ UNCHANGED <<pinned, shared>>
           /\ sweep'.todo = Pick(sweep.items, born, KeepLast, MaxAge, sweep.now)
                              \ Protected(sweep.now)
<1>1. sweep \in SweepState
  BY DEF Inv, Typed
<1>2. /\ sweep' = [sweep EXCEPT !.pc = "remove",
                      !.todo = Pick(sweep.items, born, KeepLast, MaxAge, sweep.now)
                                 \ Protected(sweep.now)]
      /\ UNCHANGED <<now, born, pinned, shared, swept>>
  BY DEF SweepPick
<1> QED
  BY <1>1, <1>2 DEF SweepState

\* Nothing has happened yet.
LEMMA InitInv == Init => Inv
<1> SUFFICES ASSUME Init
             PROVE  Inv
  OBVIOUS
<1>1. cache = Cold \/ cache = None
  BY DEF Init
<1>2. Cold \in CacheState /\ Elems(Cold.items) = {}
  BY EmptyList DEF Cold, CacheState, Maybe
<1>3. SweepIdle \in SweepState /\ Elems(SweepIdle.items) = {} /\ SweepIdle.todo = {}
      /\ SweepIdle.now = 0
  BY EmptyList DEF SweepIdle, SweepState
<1>4. \A p \in Pages : page[p] \in PageState /\ Elems(page[p].items) = {}
  BY EmptyList DEF Init, PageState
<1>5. Typed
  BY <1>1, <1>2, <1>3, <1>4 DEF Init, Typed, Maybe
<1>6. Born = {}
  BY DEF Init, Born
<1>7. BornOK
  <2>1. UseBucket => Elems(cache.items) \subseteq Born
    BY <1>1, <1>2 DEF UseBucket
  <2>2. IsFiniteSet(Born)
    BY <1>6, FS_EmptySet
  <2>3. \A p \in Pages : Elems(page[p].items) \subseteq Born
    BY <1>4
  <2> QED
    BY <1>3, <2>1, <2>2, <2>3 DEF Init, BornOK
<1>8. TodoOK
  BY <1>3 DEF Init, TodoOK
<1>9. FreshOK
  <2>1. UseBucket => cache.filled = None
    BY <1>1 DEF UseBucket, Cold
  <2>2. \A p \in Pages : page[p].now = 0 /\ page[p].pc = "idle" /\ Elems(page[p].items) = {}
    BY <1>4 DEF Init
  <2>3. Elems(sweep.items) = {} /\ sweep.pc = "idle" /\ ~sweep.alias
    BY <1>3 DEF Init, SweepIdle
  <2>4. now = 1
    BY DEF Init
  <2> QED
    BY <2>1, <2>2, <2>3, <2>4 DEF FreshOK, Current
<1> QED
  BY <1>5, <1>7, <1>8, <1>9 DEF Inv

\* What is left to delete stays unprotected, or gets protected too late: a
\* pin or a link that arrives during the sweep carries a later moment.
LEMMA TodoStep ==
    ASSUME Inv, [Next]_vars
    PROVE  TodoOK' /\ sweep'.todo \subseteq Born'
<1>0. /\ sweep \in SweepState /\ now \in Nat /\ now' \in Nat /\ now <= now' /\ sweep.now \in Nat
      /\ sweep.now <= now /\ sweep.todo \subseteq Born /\ sweep.todo \subseteq Ids
      /\ Born \subseteq Born' /\ Born \subseteq Ids
      /\ pinned \in [Ids -> Maybe(Nat)] /\ shared \in [Ids -> Maybe(ShareState)]
  BY BornGrows DEF Inv, Typed, TodoOK, BornOK, SweepState, Born
<1>1. CASE SweepPick
  <2>1. /\ sweep'.now = sweep.now /\ now' = now /\ UNCHANGED <<pinned, shared>>
        /\ sweep'.todo = Pick(sweep.items, born, KeepLast, MaxAge, sweep.now)
                           \ Protected(sweep.now)
    BY <1>1, PickStep
  <2>2. sweep.items \in Seq(Ids) /\ Elems(sweep.items) \subseteq Born
    BY <1>0 DEF SweepState, Inv, BornOK
  <2>3. sweep'.todo \subseteq Born
    BY <2>1, <2>2, PickFacts
  <2>4. ASSUME NEW i \in sweep'.todo
        PROVE  /\ pinned'[i] # None => pinned'[i] >= sweep'.now
               /\ shared'[i] # None => shared'[i].at >= sweep'.now \/ shared'[i].until <= sweep'.now
    <3>1. i \in Ids /\ i \notin Protected(sweep.now)
      BY <1>0, <2>1, <2>3
    <3>2. pinned[i] = None /\ (shared[i] = None \/ ~(shared[i].until > sweep.now))
      BY <3>1 DEF Protected
    <3>3. CASE shared[i] = None
      BY <2>1, <3>2, <3>3
    <3>4. CASE shared[i] # None
      <4>1. shared[i] \in ShareState
        BY <1>0, <3>1, <3>4 DEF Maybe
      <4>2. shared[i].until \in Nat
        BY <4>1 DEF ShareState
      <4> QED
        BY <1>0, <2>1, <3>2, <4>2
    <3> QED
      BY <3>3, <3>4
  <2> QED
    BY <1>0, <2>1, <2>3, <2>4 DEF TodoOK
<1>2. CASE sweep'.now = sweep.now /\ sweep'.todo \subseteq sweep.todo
  <2>1. ASSUME NEW i \in sweep'.todo
        PROVE  /\ pinned'[i] # None => pinned'[i] >= sweep'.now
               /\ shared'[i] # None => shared'[i].at >= sweep'.now \/ shared'[i].until <= sweep'.now
    <3>1. i \in Ids /\ i \in sweep.todo
      BY <1>0, <1>2
    <3>2. /\ pinned[i] # None => pinned[i] >= sweep.now
          /\ shared[i] # None => shared[i].at >= sweep.now \/ shared[i].until <= sweep.now
      BY <3>1 DEF Inv, TodoOK
    <3>3. /\ pinned'[i] \in {None, now, pinned[i]}
          /\ shared'[i] \in {None, shared[i]} \/ shared'[i].at = now
      BY <3>1, ArchiveEffect
    <3> QED
      BY <1>0, <1>2, <3>2, <3>3
  <2> QED
    BY <1>0, <1>2, <2>1 DEF TodoOK
<1>3. CASE sweep'.now \in {0, now} /\ sweep'.todo = {}
  BY <1>0, <1>3 DEF TodoOK
<1> QED
  BY <1>1, <1>2, <1>3, SweepEffect

\* The topology does not change.
LEMMA BucketStays ==
    ASSUME Inv, [Next]_vars
    PROVE  UseBucket' <=> UseBucket
<1>0. /\ UseBucket => cache \in CacheState
      /\ sweep.items \in Seq(Ids) /\ sweep.now \in Nat /\ (sweep.pc = "set" => UseBucket)
      /\ \A p \in Pages : /\ page[p].items \in Seq(Ids) /\ page[p].now \in Nat
                          /\ Elems(page[p].items) \subseteq Born
                          /\ page[p].pc = "set" => UseBucket
      /\ UseBucket => Elems(cache.items) \subseteq Born
  BY DEF Inv, Typed, BornOK, FreshOK, UseBucket, Maybe, SweepState, PageState
<1>1. \A s \in Seq(Ids), f \in Maybe(Nat) : [items |-> s, filled |-> f] # None
  BY NoneAssumption DEF Maybe
<1>2. CASE cache' = cache
  BY <1>2 DEF UseBucket
<1>3. CASE UseBucket /\ cache' = Cold
  BY <1>1, <1>3, EmptyList DEF UseBucket, Cold, Maybe
<1>4. CASE UseBucket /\ \E o \in Orders : \E s \in Sorted(Elems(cache.items), o) :
              cache' = [cache EXCEPT !.items = s]
  <2>0. PICK o \in Orders : \E s \in Sorted(Elems(cache.items), o) :
              cache' = [cache EXCEPT !.items = s]
    BY <1>4
  <2>1. PICK s \in Sorted(Elems(cache.items), o) : cache' = [cache EXCEPT !.items = s]
    BY <2>0
  <2>2. cache.items \in Seq(Ids)
    BY <1>0, <1>4 DEF CacheState
  <2>3. s \in Seq(Ids)
    BY <1>0, <1>4, <2>2, SortList
  <2>4. cache' = [items |-> s, filled |-> cache.filled] /\ cache.filled \in Maybe(Nat)
    BY <1>0, <1>4, <2>1 DEF CacheState
  <2> QED
    BY <1>1, <1>4, <2>3, <2>4 DEF UseBucket
<1>5. CASE \E p \in Pages, o \in Orders : \E s \in Sorted(Elems(page[p].items), o) :
              page[p].pc = "set" /\ cache' = [items |-> s, filled |-> page[p].now]
  <2>1. PICK p \in Pages, o \in Orders : \E s \in Sorted(Elems(page[p].items), o) :
              page[p].pc = "set" /\ cache' = [items |-> s, filled |-> page[p].now]
    BY <1>5
  <2>2. PICK s \in Sorted(Elems(page[p].items), o) :
              page[p].pc = "set" /\ cache' = [items |-> s, filled |-> page[p].now]
    BY <2>1
  <2>3. s \in Seq(Ids)
    BY <1>0, SortList
  <2> QED
    BY <1>0, <1>1, <2>2, <2>3 DEF UseBucket, Maybe
<1>6. CASE sweep.pc = "set" /\ cache' = [items |-> sweep.items, filled |-> sweep.now]
  BY <1>0, <1>1, <1>6 DEF UseBucket, Maybe
<1> QED
  BY <1>2, <1>3, <1>4, <1>5, <1>6, CacheEffect

\* Lasts and Current of the state after a step.
LastsNext(j, t) == j \in present' \/ (died'[j] # None /\ died'[j] >= t)
CurrentNext(s, t) == \A j \in Elems(s) : LastsNext(j, t)

\* What existed at some time in the past still did so after a step.
LEMMA CurrentStays ==
    ASSUME Inv, [Next]_vars
    PROVE  /\ \A j \in Ids, t \in Int : t <= now /\ Lasts(j, t) => LastsNext(j, t)
           /\ \A s \in Seq(Ids), t \in Int : t <= now /\ Current(s, t) => CurrentNext(s, t)
           /\ \A s \in Sorted(present, "newest") : CurrentNext(s, now)
<1>0. /\ now \in Nat /\ now # None
      /\ \A i \in Ids : \/ died'[i] = now
                        \/ died'[i] = died[i] /\ (i \in present => i \in present')
  BY ArchiveEffect, TimeAssumption DEF Inv, Typed
<1>1. ASSUME NEW j \in Ids, NEW t \in Int, t <= now, Lasts(j, t)
      PROVE  LastsNext(j, t)
  BY <1>0, <1>1 DEF Lasts, LastsNext
<1>2. ASSUME NEW s \in Seq(Ids), NEW t \in Int, t <= now, Current(s, t)
      PROVE  CurrentNext(s, t)
  <2>1. \A j \in Elems(s) : j \in Ids
    BY ElemsFinite
  <2> QED
    BY <1>1, <1>2, <2>1 DEF Current, CurrentNext
<1>3. ASSUME NEW s \in Sorted(present, "newest")
      PROVE  CurrentNext(s, now)
  <2>1. s \in Seq(Ids) /\ Elems(s) \subseteq present
    <3>1. present \in SUBSET Ids /\ IsFiniteSet(present)
      BY FS_Subset DEF Inv, Typed, BornOK
    <3> QED
      BY <3>1, SortedFacts
  <2>2. Current(s, now)
    BY <2>1 DEF Current, Lasts
  <2> QED
    BY <1>0, <1>2, <2>1, <2>2
<1> QED
  BY <1>1, <1>2, <1>3

\* Oldest is a time of the past, and stays while the sweep's time does.
LEMMA OldestFacts ==
    ASSUME Inv, [Next]_vars
    PROVE  /\ Oldest \in Int /\ Oldest <= now
           /\ sweep'.now = sweep.now => Oldest' = Oldest
           /\ sweep'.now = now => Oldest' \in Int /\ Oldest' <= now
           /\ sweep'.now = now /\ Hit => Oldest' <= cache.filled
<1>0. /\ sweep.now \in Nat /\ now \in Nat /\ sweep.now <= now /\ TTL \in Nat /\ TTL > 0
      /\ cache.filled # None /\ UseBucket => cache.filled \in Nat
  BY LimitsAssumption DEF Inv, Typed, TodoOK, SweepState, CacheState, Maybe, UseBucket
<1>1. Oldest' = IF UseBucket THEN (sweep'.now - TTL) + 1 ELSE sweep'.now
  BY BucketStays DEF Oldest
<1>2. Oldest \in Int /\ Oldest <= now
  BY <1>0 DEF Oldest
<1>3. sweep'.now = sweep.now => Oldest' = Oldest
  BY <1>1 DEF Oldest
<1>4. sweep'.now = now => Oldest' \in Int /\ Oldest' <= now
  BY <1>0, <1>1
<1>5. sweep'.now = now /\ Hit => Oldest' <= cache.filled
  BY <1>0, <1>1 DEF Hit
<1> QED
  BY <1>2, <1>3, <1>4, <1>5

\* The sweep shares the array that the cache holds, or none.
LEMMA AliasStep ==
    ASSUME Inv, [Next]_vars, sweep'.alias
    PROVE  UseBucket /\ cache'.items = sweep'.items
<1>0. /\ sweep \in SweepState /\ (UseBucket => cache \in CacheState)
      /\ sweep.alias => UseBucket /\ cache.items = sweep.items
      /\ sweep.pc = "set" => UseBucket
  BY DEF Inv, Typed, FreshOK, UseBucket, Maybe
<1>1. ASSUME UNCHANGED cache, sweep'.alias = sweep.alias, sweep'.items = sweep.items
      PROVE  UseBucket /\ cache'.items = sweep'.items
  BY <1>0, <1>1
<1>2. ASSUME NEW p \in Pages, NEW o \in Orders, PageHit(p, o)
      PROVE  UseBucket /\ cache'.items = sweep'.items
  <2>1. PICK s \in Sorted(Elems(cache.items), o) :
           /\ cache' = [cache EXCEPT !.items = s]
           /\ sweep' = IF sweep.alias THEN [sweep EXCEPT !.items = s] ELSE sweep
    BY <1>2 DEF PageHit
  <2>2. UseBucket /\ sweep.alias
    BY <1>2, <2>1 DEF PageHit, Hit
  <2>3. sweep' = [sweep EXCEPT !.items = s]
    BY <2>1, <2>2
  <2>4. sweep'.items = s
    BY <1>0, <2>3 DEF SweepState
  <2>5. cache'.items = s
    BY <1>0, <2>1, <2>2 DEF CacheState
  <2> QED
    BY <2>2, <2>4, <2>5
<1>3. CASE SweepList
  <2>1. CASE Hit
    <3>1. cache' = cache
      BY <1>3 DEF SweepList
    <3>2. sweep' = [pc |-> "protect", now |-> now, items |-> cache.items,
                    todo |-> {}, alias |-> TRUE]
      BY <1>3, <2>1 DEF SweepList
    <3> QED
      BY <2>1, <3>1, <3>2 DEF Hit
  <2>2. CASE ~Hit
    BY <1>3, <2>2 DEF SweepList
  <2> QED
    BY <2>1, <2>2
<1>4. CASE SweepSet
  <2>1. sweep'.items = sweep.items
    BY <1>0, <1>4 DEF SweepSet, SweepState
  <2>2. cache' = [items |-> sweep.items, filled |-> sweep.now] /\ UseBucket
    BY <1>0, <1>4 DEF SweepSet
  <2> QED
    BY <2>1, <2>2
<1>5. ASSUME Unalias \/ sweep' = SweepIdle
      PROVE  FALSE
  BY <1>0, <1>5 DEF Unalias, SweepIdle, SweepState
<1>6. ASSUME NEW i \in Ids, SweepRemove(i)
      PROVE  FALSE
  BY <1>0, <1>6 DEF SweepRemove, SweepState
<1>7. SweepPick => /\ UNCHANGED cache
                   /\ sweep'.alias = sweep.alias /\ sweep'.items = sweep.items
  BY <1>0 DEF SweepPick, SweepState
<1>8. \A i \in Ids : SkipRemove(i) => /\ UNCHANGED cache
                                      /\ sweep'.alias = sweep.alias /\ sweep'.items = sweep.items
  BY <1>0 DEF SkipRemove, SweepState
<1>9. FailProtect \/ SweepEnd => sweep' = SweepIdle
  BY DEF FailProtect, SweepEnd
<1>10. \A i \in Ids : Upload(i) \/ Delete(i) => Unalias \/ UNCHANGED <<cache, sweep>>
  BY DEF Upload, Delete, Invalidate
<1>11. \A p \in Pages, o \in Orders : PageSet(p, o) => Unalias
  BY DEF PageSet
<1> QED
  <2>1. CASE UNCHANGED <<cache, sweep>>
    BY <1>1, <2>1
  <2>2. CASE SweepStep
    BY <1>1, <1>3, <1>4, <1>5, <1>6, <1>7, <1>8, <1>9, <2>2 DEF SweepStep
  <2>3. CASE \E p \in Pages, o \in Orders : PageHit(p, o) \/ PageSet(p, o)
    BY <1>2, <1>5, <1>11, <2>3
  <2>4. CASE \E i \in Ids : Upload(i) \/ Delete(i)
    BY <1>5, <1>10, <2>1, <2>4
  <2> QED
    BY <2>1, <2>2, <2>3, <2>4 DEF Next, vars, PageList, AddPin, RemovePin, Unshare,
       CreateShare, Tick

\* Listings age no faster than the times they carry.
LEMMA FreshStep ==
    ASSUME Inv, [Next]_vars
    PROVE  FreshOK'
<1>0. /\ now \in Nat /\ now' \in Nat /\ now <= now'
      /\ sweep \in SweepState /\ sweep.items \in Seq(Ids) /\ sweep.now \in Nat /\ sweep.now <= now
      /\ page \in [Pages -> PageState] /\ FreshOK
      /\ \A p \in Pages : page[p].items \in Seq(Ids) /\ page[p].now \in Nat
      /\ UseBucket => cache \in CacheState /\ cache.items \in Seq(Ids) /\ cache.filled \in Maybe(Nat)
  BY BornGrows DEF Inv, Typed, TodoOK, SweepState, PageState, CacheState, UseBucket, Maybe
<1>1. \A x \in Seq(Ids) : \A o : \A s \in Sorted(Elems(x), o) : Elems(s) \subseteq Elems(x)
  <2> SUFFICES ASSUME NEW x \in Seq(Ids), NEW o, NEW s \in Sorted(Elems(x), o)
               PROVE  Elems(s) \subseteq Elems(x)
    OBVIOUS
  <2>1. Elems(x) \in SUBSET Ids /\ IsFiniteSet(Elems(x))
    BY ElemsFinite
  <2> QED
    BY <2>1, SortedFacts
<1>2. ASSUME UseBucket', cache'.filled # None
      PROVE  cache'.filled <= now' /\ CurrentNext(cache'.items, cache'.filled)
  <2>0. UseBucket
    BY <1>2, BucketStays
  <2>1. CASE cache' = cache
    <3>1. cache.filled \in Nat /\ cache.filled <= now /\ Current(cache.items, cache.filled)
      BY <1>0, <1>2, <2>0, <2>1 DEF FreshOK, Maybe
    <3> QED
      BY <1>0, <2>0, <2>1, <3>1, CurrentStays
  <2>2. CASE cache' = Cold
    BY <1>2, <2>2 DEF Cold
  <2>3. CASE \E o \in Orders : \E s \in Sorted(Elems(cache.items), o) :
                cache' = [cache EXCEPT !.items = s]
    <3>0. PICK o \in Orders : \E s \in Sorted(Elems(cache.items), o) :
                cache' = [cache EXCEPT !.items = s]
      BY <2>3
    <3>1. PICK s \in Sorted(Elems(cache.items), o) : cache' = [cache EXCEPT !.items = s]
      BY <3>0
    <3>2. cache'.items = s /\ cache'.filled = cache.filled
      BY <1>0, <2>0, <3>1 DEF CacheState
    <3>3. cache.filled \in Nat /\ cache.filled <= now /\ Current(cache.items, cache.filled)
      BY <1>0, <1>2, <2>0, <3>2 DEF FreshOK, Maybe
    <3>4. CurrentNext(cache.items, cache.filled)
      BY <1>0, <2>0, <3>3, CurrentStays
    <3>5. Elems(s) \subseteq Elems(cache.items)
      BY <1>0, <1>1, <2>0
    <3> QED
      BY <1>0, <3>2, <3>3, <3>4, <3>5 DEF CurrentNext
  <2>4. CASE \E p \in Pages, o \in Orders : \E s \in Sorted(Elems(page[p].items), o) :
                page[p].pc = "set" /\ cache' = [items |-> s, filled |-> page[p].now]
    <3>1. PICK p \in Pages, o \in Orders : \E s \in Sorted(Elems(page[p].items), o) :
                cache' = [items |-> s, filled |-> page[p].now]
      BY <2>4
    <3>2. PICK s \in Sorted(Elems(page[p].items), o) :
                cache' = [items |-> s, filled |-> page[p].now]
      BY <3>1
    <3>3. page[p].now <= now /\ CurrentNext(page[p].items, page[p].now)
      BY <1>0, CurrentStays DEF FreshOK
    <3>4. Elems(s) \subseteq Elems(page[p].items)
      BY <1>0, <1>1
    <3>5. cache'.items = s /\ cache'.filled = page[p].now
      BY <3>2
    <3> QED
      BY <1>0, <3>3, <3>4, <3>5 DEF CurrentNext
  <2>5. CASE sweep.pc = "set" /\ cache' = [items |-> sweep.items, filled |-> sweep.now]
    <3>1. CurrentNext(sweep.items, sweep.now)
      BY <1>0, <2>5, CurrentStays DEF FreshOK
    <3> QED
      BY <1>0, <2>5, <3>1
  <2> QED
    BY <2>1, <2>2, <2>3, <2>4, <2>5, CacheEffect
<1>3. ASSUME NEW p \in Pages
      PROVE  /\ page'[p].now <= now' /\ CurrentNext(page'[p].items, page'[p].now)
             /\ page'[p].pc = "set" => UseBucket'
  <2>1. CASE page'[p].items = page[p].items /\ page'[p].now = page[p].now
    <3>1. page[p].now <= now /\ CurrentNext(page[p].items, page[p].now)
      BY <1>0, CurrentStays DEF FreshOK
    <3> QED
      BY <1>0, <2>1, <3>1, BucketStays, PageEffect DEF FreshOK
  <2>2. CASE page'[p].items \in Sorted(present, "newest") /\ page'[p].now = now
    BY <1>0, <2>2, CurrentStays, BucketStays, PageEffect DEF FreshOK
  <2> QED
    BY <2>1, <2>2, PageEffect
<1>4. CurrentNext(sweep'.items, Oldest')
  <2>1. CASE sweep'.items = sweep.items /\ sweep'.now = sweep.now
    BY <1>0, <2>1, CurrentStays, OldestFacts DEF FreshOK
  <2>2. CASE sweep'.items = <<>>
    BY <2>2, EmptyList DEF CurrentNext
  <2>3. CASE Hit /\ sweep'.items = cache.items /\ sweep'.now = now
    <3>1. UseBucket /\ cache.filled \in Nat /\ cache.filled <= now
          /\ Current(cache.items, cache.filled) /\ cache.items \in Seq(Ids)
      BY <1>0, <2>3 DEF FreshOK, Maybe, Hit
    <3>2. CurrentNext(cache.items, cache.filled)
      BY <3>1, CurrentStays
    <3>3. Oldest' \in Int /\ Oldest' <= cache.filled
      BY <2>3, OldestFacts
    <3>4. died' \in [Ids -> Maybe(Nat)] /\ \A j \in Elems(cache.items) : j \in Ids
      BY <3>1, ArchiveEffect, ElemsFinite
    <3>5. ASSUME NEW j \in Elems(cache.items)
          PROVE  LastsNext(j, Oldest')
      <4>1. CASE j \in present'
        BY <4>1 DEF LastsNext
      <4>2. CASE died'[j] # None /\ died'[j] >= cache.filled
        <5>1. died'[j] \in Nat
          BY <3>4, <3>5, <4>2 DEF Maybe
        <5> QED
          BY <3>1, <3>3, <4>2, <5>1 DEF LastsNext
      <4> QED
        BY <3>2, <4>1, <4>2 DEF CurrentNext, LastsNext
    <3> QED
      BY <2>3, <3>5 DEF CurrentNext
  <2>4. CASE sweep'.items \in Sorted(present, "newest") /\ sweep'.now = now
    <3>1. Elems(sweep'.items) \subseteq present
      <4>1. present \in SUBSET Ids /\ IsFiniteSet(present)
        BY FS_Subset DEF Inv, Typed, BornOK
      <4> QED
        BY <2>4, <4>1, SortedFacts
    <3>2. \A j \in present : Lasts(j, Oldest')
      BY DEF Lasts
    <3>3. Oldest' \in Int /\ Oldest' <= now /\ present \subseteq Ids
      BY <2>4, OldestFacts DEF Inv, Typed
    <3>4. \A j \in present : LastsNext(j, Oldest')
      BY <3>2, <3>3, CurrentStays
    <3> QED
      BY <3>1, <3>4 DEF CurrentNext
  <2>5. CASE UseBucket /\ sweep.alias /\ sweep'.now = sweep.now
             /\ \E o \in Orders : sweep'.items \in Sorted(Elems(cache.items), o)
    <3>1. cache.items = sweep.items
      BY <1>0, <2>5 DEF FreshOK
    <3>2. Elems(sweep'.items) \subseteq Elems(sweep.items)
      BY <1>0, <1>1, <2>5, <3>1
    <3>3. CurrentNext(sweep.items, Oldest)
      BY <1>0, CurrentStays, OldestFacts DEF FreshOK
    <3>4. Oldest' = Oldest
      BY <2>5, OldestFacts
    <3> QED
      BY <3>2, <3>3, <3>4 DEF CurrentNext
  <2> QED
    BY <2>1, <2>2, <2>3, <2>4, <2>5, SweepEffect
<1>5. ASSUME sweep'.pc = "set"
      PROVE  UseBucket' /\ CurrentNext(sweep'.items, sweep'.now)
  <2>1. CASE /\ sweep.pc = "set" /\ sweep'.now = sweep.now
             /\ Elems(sweep'.items) \subseteq Elems(sweep.items)
    <3>1. UseBucket /\ CurrentNext(sweep.items, sweep.now)
      BY <1>0, <2>1, CurrentStays DEF FreshOK
    <3> QED
      BY <2>1, <3>1, BucketStays DEF CurrentNext
  <2>2. CASE UseBucket /\ sweep'.items \in Sorted(present, "newest") /\ sweep'.now = now
    BY <2>2, BucketStays, CurrentStays
  <2> QED
    BY <1>5, <2>1, <2>2, SweepEffect
<1>6. sweep'.alias => UseBucket' /\ cache'.items = sweep'.items
  BY AliasStep, BucketStays
<1> QED
  BY <1>2, <1>3, <1>4, <1>5, <1>6 DEF FreshOK, Current, CurrentNext, Lasts, LastsNext, Elems

\* Every step keeps the invariant.
LEMMA InvStep == Inv /\ [Next]_vars => Inv'
<1> SUFFICES ASSUME Inv, [Next]_vars
             PROVE  Inv'
  OBVIOUS
<1>1. Typed'
  <2>1. swept' \subseteq Ids
    BY ArchiveEffect DEF Inv, Typed, SweepState
  <2> QED
    BY <2>1, BornGrows, ArchiveEffect, PageEffect, SweepEffect, ListsStep DEF Typed
<1>2. BornOK'
  <2>1. swept' \subseteq Born'
    BY ArchiveEffect, BornGrows DEF Inv, BornOK
  <2> QED
    BY <2>1, BornGrows, ArchiveEffect, ListsStep, TodoStep DEF BornOK
<1> QED
  BY <1>1, <1>2, TodoStep, FreshStep DEF Inv

\* In every reachable state, whatever the topology, the sort orders and the
\* policy, the sweep holds only archives that were uploaded, and its list of
\* work only archives that were unprotected when it began.
THEOREM InvCorrect == Spec => []Inv
  BY InitInv, InvStep, PTL DEF Spec

\* An archive pinned, or shared by a servable link, before SweepOnce began is
\* not deleted by it, however pages, uploads and deletes interleave with it.
THEOREM ProtectedBeforeIsKeptCorrect == Spec => ProtectedBeforeIsKept
<1>1. ASSUME Inv, [Next]_vars
      PROVE  [\A i \in swept' \ swept :
                /\ pinned[i] # None => pinned[i] >= sweep.now
                /\ shared[i] # None => shared[i].at >= sweep.now
                                         \/ shared[i].until <= sweep.now]_vars
  <2>1. swept' \ swept \subseteq sweep.todo
    BY <1>1, ArchiveEffect
  <2> QED
    BY <1>1, <2>1 DEF Inv, TodoOK
<1> QED
  BY <1>1, InvCorrect, PTL DEF Spec, ProtectedBeforeIsKept

-----------------------------------------------------------------------------
(* keep_last *)

\* A reason to delete stays one as long as the sweep runs: archives as new
\* are only added, or are deleted after it began.
LEMMA JustifiedStays ==
    ASSUME Inv, [Next]_vars, sweep'.now = sweep.now, NEW i \in Born, Justified(i)
    PROVE  Justified(i)'
<1> DEFINE T == Newer(i)
           U == {j \in Ids \ {i} : born'[j] # None /\ born'[j] >= born'[i]
                                   /\ LastsNext(j, Oldest')}
<1>0. /\ born \in [Ids -> Maybe(Nat)] /\ born' \in [Ids -> Maybe(Nat)]
      /\ \A j \in Born : born'[j] = born[j] /\ born'[j] # None
      /\ IsFiniteSet(Born') /\ Born \subseteq Ids /\ Born' \subseteq Ids
  BY BornGrows DEF Inv, Typed, Born
<1>1. T \subseteq U
  <2> SUFFICES ASSUME NEW j \in T
               PROVE  j \in U
    OBVIOUS
  <2>1. j \in Ids \ {i} /\ j \in Born /\ born[j] >= born[i] /\ Lasts(j, Oldest)
    BY DEF Newer, Born
  <2>2. LastsNext(j, Oldest')
    BY <2>1, CurrentStays, OldestFacts
  <2> QED
    BY <1>0, <2>1, <2>2
<1>2. IsFiniteSet(U)
  BY <1>0, FS_Subset DEF Born
<1>3. IsFiniteSet(T) /\ Cardinality(T) <= Cardinality(U)
  BY <1>1, <1>2, FS_Subset
<1>4. Cardinality(T) \in Nat /\ Cardinality(U) \in Nat
  BY <1>2, <1>3, FS_CardinalityType
<1>5. Newer(i)' = U
  BY DEF Newer, Lasts, LastsNext
<1>6. Limit(KeepLast, DefaultKeepLast) \in Nat
  BY LimitsAssumption DEF Limit, DefaultKeepLast
<1>7. CASE TooOld(born[i], Limit(MaxAge, DefaultMaxAge), sweep.now)
  BY <1>0, <1>7 DEF Justified
<1>8. CASE KeepLast # 0 /\ Cardinality(T) >= Limit(KeepLast, DefaultKeepLast)
  <2> HIDE DEF T, U
  <2>1. Cardinality(U) >= Limit(KeepLast, DefaultKeepLast)
    BY <1>3, <1>4, <1>6, <1>8
  <2> QED
    BY <1>5, <1>8, <2>1 DEF Justified
<1> QED
  BY <1>7, <1>8 DEF Justified

\* What is picked from a list that is newest first may be deleted: the rank
\* in the list is then a number of archives as new.
LEMMA PickJustified ==
    ASSUME Inv, NewestFirst(sweep.items),
           NEW i \in Pick(sweep.items, born, KeepLast, MaxAge, sweep.now)
    PROVE  Justified(i)
<1>0. /\ sweep.items \in Seq(Ids) /\ Elems(sweep.items) \subseteq Born /\ IsFiniteSet(Born)
      /\ Current(sweep.items, Oldest)
  BY DEF Inv, Typed, BornOK, FreshOK, SweepState
<1>1. PICK k \in DOMAIN sweep.items :
         /\ i = sweep.items[k]
         /\ \/ BeyondRank(k, Limit(KeepLast, DefaultKeepLast))
            \/ TooOld(born[sweep.items[k]], Limit(MaxAge, DefaultMaxAge), sweep.now)
  BY <1>0, PickFacts
<1>3. Limit(KeepLast, DefaultKeepLast) \in Nat
  BY LimitsAssumption DEF Limit, DefaultKeepLast
<1>4. CASE BeyondRank(k, Limit(KeepLast, DefaultKeepLast))
  <2>1. Limit(KeepLast, DefaultKeepLast) > 0 /\ k > Limit(KeepLast, DefaultKeepLast)
    BY <1>4 DEF BeyondRank
  <2>2. KeepLast # 0
    BY <2>1 DEF Limit
  <2>3. Cardinality(Newer(i)) >= Limit(KeepLast, DefaultKeepLast)
    BY <1>0, <1>1, <1>3, <2>1, RankCount
  <2> QED
    BY <2>2, <2>3 DEF Justified
<1>5. CASE TooOld(born[i], Limit(MaxAge, DefaultMaxAge), sweep.now)
  BY <1>5 DEF Justified
<1> QED
  BY <1>1, <1>4, <1>5

\* Nothing listed, nothing deleted; and no cache without a bucket.
LEMMA InitOrder == Init => OrderInv
<1> SUFFICES ASSUME Init
             PROVE  OrderInv
  OBVIOUS
<1>1. Uncached
  <2> SUFFICES ASSUME Topologies \subseteq {"vps"}
               PROVE  ~UseBucket /\ sweep.pc # "set" /\ \A p \in Pages : page[p].pc # "set"
    BY DEF Uncached
  <2>1. cache = None
    BY DEF Init
  <2> QED
    BY <2>1 DEF Init, UseBucket, SweepIdle
<1>2. cache = None \/ cache = Cold
  BY DEF Init
<1>3. UseBucket => NewestFirst(cache.items)
  BY <1>2, EmptyList DEF UseBucket, Cold
<1>4. NewestFirst(sweep.items) /\ sweep.todo = {}
  BY EmptyList DEF Init, SweepIdle
<1> QED
  BY <1>1, <1>3, <1>4 DEF OrderInv

\* Without a bucket there never is a cache, nor a listing on its way into one.
LEMMA UncachedStep ==
    ASSUME Inv, Uncached, [Next]_vars
    PROVE  Uncached'
<1> SUFFICES ASSUME Topologies \subseteq {"vps"}
             PROVE  ~UseBucket' /\ sweep'.pc # "set" /\ \A p \in Pages : page'[p].pc # "set"
  BY DEF Uncached
<1>0. ~UseBucket /\ sweep.pc # "set" /\ \A p \in Pages : page[p].pc # "set"
  BY DEF Uncached
<1>1. sweep'.pc # "set" /\ \A p \in Pages : page'[p].pc # "set"
  BY <1>0, SweepEffect, PageEffect
<1>2. SweepStep => cache' = cache
  BY <1>0 DEF SweepStep, SweepList, SweepSet, SweepPick, FailProtect, SweepEnd, SweepRemove,
              SkipRemove
<1>3. \A p \in Pages, o \in Orders : ~PageHit(p, o) /\ ~PageSet(p, o) /\ ~PageList(p)
  BY <1>0 DEF PageHit, PageSet, PageList, Hit
<1>4. \A i \in Ids : Upload(i) \/ Delete(i) \/ AddPin(i) \/ RemovePin(i) \/ Unshare(i)
                       => cache' = cache
  BY <1>0 DEF Upload, Delete, AddPin, RemovePin, Unshare
<1>5. (\E i \in Ids, t \in 2..(LastTick + 1) : CreateShare(i, t)) \/ Tick => cache' = cache
  BY DEF CreateShare, Tick
<1>6. \A p \in Pages : PageList(p) => cache' = cache
  BY DEF PageList
<1>7. cache' = cache
  BY <1>2, <1>3, <1>4, <1>5, <1>6 DEF Next, vars
<1> QED
  BY <1>0, <1>1, <1>7 DEF UseBucket

\* As long as no page can reorder the sweep's list, it stays newest first,
\* and every archive it names for deletion may be deleted.
LEMMA OrderStep ==
    ASSUME NoReorder, Inv, OrderInv, [Next]_vars
    PROVE  OrderInv'
<1> DEFINE Fine(s) == s \in Seq(Ids) /\ Elems(s) \subseteq Born /\ NewestFirst(s)
           NewOrder(s) == \A j, k \in DOMAIN s : j < k => s[j] # s[k] /\ born'[s[j]] >= born'[s[k]]
<1>0. /\ UseBucket => Fine(cache.items)
      /\ Fine(sweep.items)
      /\ \A p \in Pages : page[p].items \in Seq(Ids) /\ Elems(page[p].items) \subseteq Born
  BY DEF Inv, Typed, BornOK, UseBucket, Maybe, CacheState, PageState, SweepState, OrderInv
<1>1. \A s : Fine(s) => NewOrder(s)
  <2> SUFFICES ASSUME NEW s, Fine(s)
               PROVE  NewOrder(s)
    OBVIOUS
  <2>1. NewestFirst(s)'
    BY OrderStays
  <2> QED
    BY <2>1 DEF NewestFirst
<1>2. Uncached'
  BY UncachedStep DEF OrderInv
<1>3. \/ \A o \in Orders : o = "newest"
      \/ ~UseBucket /\ ~UseBucket' /\ sweep.pc # "set"
  BY <1>2 DEF NoReorder, OrderInv, Uncached
<1>4. /\ \A s \in Sorted(present, "newest") : Fine(s)
      /\ Fine(<<>>)
      /\ \A x \in Seq(Ids) : Elems(x) \subseteq Born => \A s \in Sorted(Elems(x), "newest") : Fine(s)
  BY SortPresent, SortList, EmptyList
<1> HIDE DEF Fine, NewOrder
<1>5. NewestFirst(sweep.items)'
  <2>1. Fine(sweep'.items)
    <3>1. UseBucket => \A o \in Orders : \A s \in Sorted(Elems(cache.items), o) : Fine(s)
      BY <1>0, <1>3, <1>4 DEF Fine
    <3> QED
      BY <1>0, <1>4, <3>1, SweepEffect DEF Hit
  <2>2. NewOrder(sweep'.items)
    BY <1>1, <2>1
  <2> QED
    BY <2>2 DEF NewOrder, NewestFirst
<1>6. UseBucket' => NewestFirst(cache.items)'
  <2> SUFFICES ASSUME UseBucket'
               PROVE  NewestFirst(cache.items)'
    OBVIOUS
  <2>1. \A o \in Orders : o = "newest"
    BY <1>3
  <2>2. Fine(cache'.items)
    <3>1. CASE cache' = cache
      BY <1>0, <3>1 DEF UseBucket
    <3>2. CASE UseBucket /\ cache' = Cold
      BY <1>4, <3>2 DEF Cold
    <3>3. CASE UseBucket /\ \E o \in Orders : \E s \in Sorted(Elems(cache.items), o) :
                  cache' = [cache EXCEPT !.items = s]
      <4>1. PICK s \in Sorted(Elems(cache.items), "newest") : cache' = [cache EXCEPT !.items = s]
        BY <2>1, <3>3
      <4>2. cache \in CacheState
        BY <3>3 DEF Inv, Typed, UseBucket, Maybe
      <4>3. cache'.items = s
        BY <4>1, <4>2 DEF CacheState
      <4> QED
        BY <1>0, <1>4, <3>3, <4>3 DEF Fine
    <3>4. CASE \E p \in Pages, o \in Orders : \E s \in Sorted(Elems(page[p].items), o) :
                  page[p].pc = "set" /\ cache' = [items |-> s, filled |-> page[p].now]
      BY <1>0, <1>4, <2>1, <3>4
    <3>5. CASE sweep.pc = "set" /\ cache' = [items |-> sweep.items, filled |-> sweep.now]
      BY <1>0, <3>5
    <3> QED
      BY <3>1, <3>2, <3>3, <3>4, <3>5, CacheEffect
  <2>3. NewOrder(cache'.items)
    BY <1>1, <2>2
  <2> QED
    BY <2>3 DEF NewOrder, NewestFirst
<1>7. ASSUME NEW i \in sweep'.todo
      PROVE  Justified(i)'
  <2>1. sweep'.now = sweep.now /\ (i \in sweep.todo \/ SweepPick)
    BY SweepEffect, PickStep
  <2>2. CASE i \in sweep.todo
    BY <2>1, <2>2, JustifiedStays DEF OrderInv, Inv, BornOK
  <2>3. CASE SweepPick
    <3>1. i \in Pick(sweep.items, born, KeepLast, MaxAge, sweep.now)
      BY <2>3, PickStep
    <3>2. Justified(i)
      BY <3>1, PickJustified DEF OrderInv
    <3>3. i \in Born
      BY <3>1, <1>0, PickFacts DEF Fine
    <3> QED
      BY <2>1, <3>2, <3>3, JustifiedStays
  <2> QED
    BY <2>1, <2>2, <2>3
<1> QED
  BY <1>2, <1>5, <1>6, <1>7 DEF OrderInv

\* keep_last is kept: what retention deletes is too old, or keep_last others
\* as new exist, or were deleted after the listing the sweep works from was
\* read, in topology vps since the sweep began and in vps-s3 less than
\* listCacheTTL before - for every policy and any number of archives and
\* pages, as long as no page sorts the cached listing in another order than
\* newest first. The hypothesis is the one condition the code does not meet
\* by itself: with another order a page sorts the listing under the sweep's
\* feet.
THEOREM NewestAreKeptCorrect ==
    ASSUME NoReorder
    PROVE  Spec => NewestAreKept
<1>1. Spec => []OrderInv
  <2>1. Inv /\ OrderInv /\ [Next]_vars => OrderInv'
    BY OrderStep
  <2> QED
    BY <2>1, InitOrder, InvCorrect, PTL DEF Spec
<1>2. ASSUME Inv, OrderInv, [Next]_vars
      PROVE  [\A i \in swept' \ swept : Justified(i)]_vars
  <2>1. swept' \ swept \subseteq sweep.todo
    BY <1>2, ArchiveEffect
  <2> QED
    BY <1>2, <2>1 DEF OrderInv
<1> QED
  BY <1>1, <1>2, InvCorrect, PTL DEF Spec, NewestAreKept
=============================================================================
