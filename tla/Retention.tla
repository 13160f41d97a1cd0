----------------------------- MODULE Retention ------------------------------
(***************************************************************************)
(* The retention sweep (SweepOnce) against everything that moves while it  *)
(* runs: uploads, deletes, pins, share links, and in the vps-s3 topology   *)
(* the listing cache, which Captures pages fill, read and sort in place.   *)
(*                                                                         *)
(* Storing or deleting one archive is atomic here (LocalCatalog and        *)
(* BucketCatalog have its steps); a share link is reduced to the time      *)
(* until which it is servable (ShareLinks has the rest), and revoking or   *)
(* using it up to Unshare. One of the sort orders of the Captures table    *)
(* stands for all those that are not newest first.                         *)
(***************************************************************************)
EXTENDS Retain

CONSTANTS
    Ids,         \* archive ids
    Pages,       \* Captures page requests; each is made at most once
    Topologies,  \* the topologies to start in: "vps", "vps-s3"
    Orders,      \* sort orders the pages ask for: "newest", "oldest"
    KeepLast,    \* keep_last
    MaxAge,      \* max_age_days, in ticks
    TTL,         \* listCacheTTL, in ticks
    MaxTime,     \* topology -> bound on the clock
    None         \* never, nothing

ASSUME OrdersAssumption == Orders \subseteq {"newest", "oldest"}
ASSUME LimitsAssumption == KeepLast \in Int /\ MaxAge \in Int /\ TTL \in Nat \ {0}
ASSUME TopologiesAssumption == Topologies \subseteq {"vps", "vps-s3"}
ASSUME TimeAssumption == MaxTime \in [Topologies -> Nat] /\ None \notin Nat
ASSUME NoneAssumption == None \notin [items : Seq(Ids), filled : Nat \cup {None}]

VARIABLES
    now,         \* the clock
    born,        \* created_at of every archive ever uploaded, or None
    present,     \* the archives that exist
    died,        \* history: when an archive was deleted, or None
    pinned,      \* archive_pins: when an archive was pinned, or None
    shared,      \* share_links: creation and expiry of a live link, or None
    cache,       \* listCache; filled = None when cold; None in topology vps
    page,        \* Captures pages listing the bucket
    sweep,       \* SweepOnce
    swept        \* audit rows of actor "retention"

vars == <<now, born, present, died, pinned, shared, cache, page, sweep, swept>>

UseBucket == cache # None
LastTick == MaxTime[IF UseBucket THEN "vps-s3" ELSE "vps"]
Clock == 1..LastTick
Maybe(S) == S \cup {None}
Share == [at : Clock, until : Nat]

TypeOK ==
    /\ now \in Clock
    /\ born \in [Ids -> Maybe(Clock)]
    /\ present \subseteq Ids
    /\ died \in [Ids -> Maybe(Clock)]
    /\ pinned \in [Ids -> Maybe(Clock)]
    /\ shared \in [Ids -> Maybe(Share)]
    /\ UseBucket => cache.filled \in Maybe(Clock) /\ cache.items \in Seq(Ids)
    /\ DOMAIN page = Pages
    /\ \A p \in Pages : /\ page[p].pc \in {"idle", "set", "done"}
                        /\ page[p].now \in Nat /\ page[p].items \in Seq(Ids)
    /\ sweep.pc \in {"idle", "set", "protect", "remove"}
    /\ sweep.now \in Nat /\ sweep.items \in Seq(Ids)
    /\ sweep.todo \subseteq Ids /\ sweep.alias \in BOOLEAN
    /\ swept \subseteq Ids

Cold == [items |-> <<>>, filled |-> None]
SweepIdle == [pc |-> "idle", now |-> 0, items |-> <<>>, todo |-> {}, alias |-> FALSE]

Init ==
    /\ now = 1
    /\ born = [i \in Ids |-> None]
    /\ present = {}
    /\ died = [i \in Ids |-> None]
    /\ pinned = [i \in Ids |-> None]
    /\ shared = [i \in Ids |-> None]
    /\ cache \in {IF t = "vps-s3" THEN Cold ELSE None : t \in Topologies}
    /\ page = [p \in Pages |-> [pc |-> "idle", now |-> 0, items |-> <<>>]]
    /\ sweep = SweepIdle
    /\ swept = {}

-----------------------------------------------------------------------------
(* Listing *)

Before(i, j, order) == IF order = "newest" THEN born[i] >= born[j] ELSE born[i] <= born[j]

\* The orders a sort may leave a set of archives in; ties are open.
Sorted(S, order) ==
    {s \in [1..Cardinality(S) -> S] :
        \A j, k \in DOMAIN s : j < k => s[j] # s[k] /\ Before(s[j], s[k], order)}

\* The set of archives in a list.
Elems(s) == {s[k] : k \in DOMAIN s}

\* listCache.get
Hit == UseBucket /\ cache.filled # None /\ now - cache.filled < TTL

\* The cache moves to another array: the sweep no longer shares it.
Unalias == sweep' = [sweep EXCEPT !.alias = FALSE]
Invalidate == cache' = Cold /\ Unalias

\* handleHome on a cached listing: with no filter the page sorts the cached
\* slice itself, and whoever else holds that slice sees it reordered.
PageHit(p, order) ==
    /\ page[p].pc = "idle"
    /\ Hit
    /\ \E s \in Sorted(Elems(cache.items), order) :
          /\ cache' = [cache EXCEPT !.items = s]
          /\ sweep' = IF sweep.alias THEN [sweep EXCEPT !.items = s] ELSE sweep
    /\ page' = [page EXCEPT ![p].pc = "done"]
    /\ UNCHANGED <<now, born, present, died, pinned, shared, swept>>

\* listItemsBucket on a miss: the time is read, then the bucket is listed.
PageList(p) ==
    /\ UseBucket
    /\ page[p].pc = "idle"
    /\ ~Hit
    /\ \E s \in Sorted(present, "newest") :
          page' = [page EXCEPT ![p] = [pc |-> "set", now |-> now, items |-> s]]
    /\ UNCHANGED <<now, born, present, died, pinned, shared, cache, sweep, swept>>

\* Mutant: the entry is dated when it is stored, not when it was listed.
PageSet_Late(p, order) ==
    /\ page[p].pc = "set"
    /\ \E s \in Sorted(Elems(page[p].items), order) :
          cache' = [items |-> s, filled |-> now]
    /\ Unalias
    /\ page' = [page EXCEPT ![p].pc = "done"]
    /\ UNCHANGED <<now, born, present, died, pinned, shared, swept>>

\* listCache.set with the time and the listing of before, then the sort.
PageSet(p, order) ==
    /\ page[p].pc = "set"
    /\ \E s \in Sorted(Elems(page[p].items), order) :
          cache' = [items |-> s, filled |-> page[p].now]
    /\ Unalias
    /\ page' = [page EXCEPT ![p].pc = "done"]
    /\ UNCHANGED <<now, born, present, died, pinned, shared, swept>>

-----------------------------------------------------------------------------
(* The sweep *)

\* listItems: the archives table, or the cached listing, or the bucket.
SweepList ==
    /\ sweep.pc = "idle"
    /\ IF Hit
         THEN sweep' = [pc |-> "protect", now |-> now, items |-> cache.items,
                        todo |-> {}, alias |-> TRUE]
         ELSE \E s \in Sorted(present, "newest") :
                sweep' = [pc |-> IF UseBucket THEN "set" ELSE "protect", now |-> now,
                          items |-> s, todo |-> {}, alias |-> FALSE]
    /\ UNCHANGED <<now, born, present, died, pinned, shared, cache, page, swept>>

SweepSet ==
    /\ sweep.pc = "set"
    /\ cache' = [items |-> sweep.items, filled |-> sweep.now]
    /\ sweep' = [sweep EXCEPT !.pc = "protect", !.alias = TRUE]
    /\ UNCHANGED <<now, born, present, died, pinned, shared, page, swept>>

\* Mutant: share links no longer protect.
Protected_PinsOnly(t) == {i \in Ids : pinned[i] # None}

\* ProtectedArchiveIDs
Protected(t) ==
    {i \in Ids : pinned[i] # None \/ (shared[i] # None /\ shared[i].until > t)}

\* The protected set, read once, and retain.Pick on the listing.
SweepPick ==
    /\ sweep.pc = "protect"
    /\ sweep' = [sweep EXCEPT
          !.pc = "remove",
          !.todo = Pick(sweep.items, born, KeepLast, MaxAge, sweep.now) \ Protected(sweep.now)]
    /\ UNCHANGED <<now, born, present, died, pinned, shared, cache, page, swept>>

\* The protected set cannot be read: nothing is deleted in this cycle.
FailProtect ==
    /\ sweep.pc = "protect"
    /\ sweep' = SweepIdle
    /\ UNCHANGED <<now, born, present, died, pinned, shared, cache, page, swept>>

\* removeArchive of one archive, and of the links and pins bound to it.
Drop(i) ==
    /\ present' = present \ {i}
    /\ died' = [died EXCEPT ![i] = now]
    /\ pinned' = [pinned EXCEPT ![i] = None]
    /\ shared' = [shared EXCEPT ![i] = None]

SweepRemove(i) ==
    /\ sweep.pc = "remove"
    /\ i \in sweep.todo /\ i \in present
    /\ Drop(i)
    /\ swept' = swept \cup {i}
    /\ sweep' = [sweep EXCEPT !.todo = @ \ {i}, !.alias = FALSE]
    /\ cache' = IF UseBucket THEN Cold ELSE cache
    /\ UNCHANGED <<now, born, page>>

\* The removal fails, or somebody else was faster: warn and go on.
SkipRemove(i) ==
    /\ sweep.pc = "remove"
    /\ i \in sweep.todo
    /\ sweep' = [sweep EXCEPT !.todo = @ \ {i}]
    /\ UNCHANGED <<now, born, present, died, pinned, shared, cache, page, swept>>

\* Mutant: SweepLoop ends after one cycle.
SweepEnd_Once ==
    /\ sweep.pc = "remove" /\ sweep.todo = {}
    /\ sweep' = [SweepIdle EXCEPT !.pc = "stopped"]
    /\ UNCHANGED <<now, born, present, died, pinned, shared, cache, page, swept>>

SweepEnd ==
    /\ sweep.pc = "remove" /\ sweep.todo = {}
    /\ sweep' = SweepIdle
    /\ UNCHANGED <<now, born, present, died, pinned, shared, cache, page, swept>>

-----------------------------------------------------------------------------
(* Everybody else *)

Upload(i) ==
    /\ born[i] = None
    /\ born' = [born EXCEPT ![i] = now]
    /\ present' = present \cup {i}
    /\ IF UseBucket THEN Invalidate ELSE UNCHANGED <<cache, sweep>>
    /\ UNCHANGED <<now, died, pinned, shared, page, swept>>

\* handleDelete
Delete(i) ==
    /\ i \in present
    /\ Drop(i)
    /\ IF UseBucket THEN Invalidate ELSE UNCHANGED <<cache, sweep>>
    /\ UNCHANGED <<now, born, page, swept>>

AddPin(i) ==
    /\ i \in present /\ pinned[i] = None
    /\ pinned' = [pinned EXCEPT ![i] = now]
    /\ UNCHANGED <<now, born, present, died, shared, cache, page, sweep, swept>>

RemovePin(i) ==
    /\ pinned[i] # None
    /\ pinned' = [pinned EXCEPT ![i] = None]
    /\ UNCHANGED <<now, born, present, died, shared, cache, page, sweep, swept>>

CreateShare(i, until) ==
    /\ i \in present /\ shared[i] = None
    /\ until > now
    /\ shared' = [shared EXCEPT ![i] = [at |-> now, until |-> until]]
    /\ UNCHANGED <<now, born, present, died, pinned, cache, page, sweep, swept>>

\* Revoked, or the last of max_uses taken.
Unshare(i) ==
    /\ shared[i] # None
    /\ shared' = [shared EXCEPT ![i] = None]
    /\ UNCHANGED <<now, born, present, died, pinned, cache, page, sweep, swept>>

Tick ==
    /\ now < LastTick
    /\ now' = now + 1
    /\ UNCHANGED <<born, present, died, pinned, shared, cache, page, sweep, swept>>

SweepStep ==
    \/ SweepList \/ SweepSet \/ SweepPick \/ FailProtect \/ SweepEnd
    \/ \E i \in Ids : SweepRemove(i) \/ SkipRemove(i)

Next ==
    \/ SweepStep
    \/ \E p \in Pages : PageList(p) \/ \E o \in Orders : PageHit(p, o) \/ PageSet(p, o)
    \/ \E i \in Ids : Upload(i) \/ Delete(i) \/ AddPin(i) \/ RemovePin(i) \/ Unshare(i)
    \/ \E i \in Ids, t \in 2..(LastTick + 1) : CreateShare(i, t)
    \/ Tick

Spec == Init /\ [][Next]_vars

\* The ticker of SweepLoop goes on; reading the protected set, and removing
\* an archive, succeed at some time if they are tried again and again.
FairSpec ==
    /\ Spec
    /\ WF_vars(SweepStep) /\ SF_vars(SweepPick)
    /\ \A i \in Ids : SF_vars(SweepRemove(i))

-----------------------------------------------------------------------------
(* Properties *)

\* j exists, or was deleted at time t or later.
Lasts(j, t) == j \in present \/ (died[j] # None /\ died[j] >= t)

\* No listing the sweep works from is older than this.
Oldest == IF UseBucket THEN (sweep.now - TTL) + 1 ELSE sweep.now

Newer(i) ==
    {j \in Ids \ {i} : born[j] # None /\ born[j] >= born[i] /\ Lasts(j, Oldest)}

\* Retention may delete i: it is too old, or beyond keep_last.
Justified(i) ==
    \/ TooOld(born[i], Limit(MaxAge, DefaultMaxAge), sweep.now)
    \/ KeepLast # 0 /\ Cardinality(Newer(i)) >= Limit(KeepLast, DefaultKeepLast)

\* keep_last is a promise: an archive that retention deletes is too old, or
\* keep_last others as new exist. Others that were deleted before this sweep
\* began do not count, save those that a cached listing still showed: then
\* they were deleted less than listCacheTTL before, even if an upload or a
\* delete invalidated the cache between the listing and its listCache.set.
NewestAreKept == [][\A i \in swept' \ swept : Justified(i)]_vars

\* An archive pinned, or shared by a link that is still servable, before the
\* sweep began is not deleted by it.
ProtectedBeforeIsKept ==
    [][\A i \in swept' \ swept :
          /\ pinned[i] # None => pinned[i] >= sweep.now
          /\ shared[i] # None => shared[i].at >= sweep.now \/ shared[i].until <= sweep.now]_vars

Excess(i) ==
    /\ i \in present
    /\ KeepLast > 0
    /\ Cardinality({j \in present : born[j] > born[i]}) >= KeepLast

\* An archive beyond keep_last does not stay, unless it gets protected. In
\* topology vps only: there the sweep never works from a cached listing.
ExcessIsSwept ==
    \A i \in Ids : Excess(i) /\ ~UseBucket ~>
        ~Excess(i) \/ pinned[i] # None \/ shared[i] # None
=============================================================================
