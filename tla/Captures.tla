------------------------------ MODULE Captures ------------------------------
(***************************************************************************)
(* The Captures table as pure operators on the archives that exist: facet  *)
(* filter and sort.  An archive is its id; ids are numbered in the order   *)
(* of their keys, so that sorting by key is sorting by id.                 *)
(***************************************************************************)
EXTENDS Pager, FiniteSets

CONSTANTS
    Archive,         \* id -> [slug, words, source, storage, size]
    NoSlug,          \* ParseClusterSlug finds no cluster in the key
    allowedWindows   \* the windows "24h", "7d" and "30d", in ticks

allowedSources == {"http", "s3", "sftp"}
allowedStorages == {"local", "s3", "transit"}

ASSUME ArchiveAssumption ==
    /\ DOMAIN Archive \subseteq Nat
    /\ \A i \in DOMAIN Archive :
          /\ Archive[i].source \in allowedSources
          /\ Archive[i].storage \in allowedStorages \cup {""}
          /\ Archive[i].size \in Nat
ASSUME WindowsAssumption == allowedWindows \subseteq Nat

\* ParseClusterSlug, ok = FALSE
HasCluster(i) == Archive[i].slug # NoSlug

\* "" is a row of before the column existed.
Storage(i) == IF Archive[i].storage = "" THEN "local" ELSE Archive[i].storage

Known(x, allowed) == IF x \in allowed THEN x ELSE None

\* Unknown values of a closed facet are dropped; no facets at all is None.
ParseFilter(facets) ==
    IF facets = None
      THEN [x \in {"cluster", "query", "window", "source", "storage"} |-> None]
      ELSE [facets EXCEPT !.window = Known(@, allowedWindows),
                          !.source = Known(@, allowedSources),
                          !.storage = Known(@, allowedStorages)]

\* None: no lower bound.
windowSince(window, now) == IF window = None THEN None ELSE now - window

\* Every facet that is set must match.
archivePasses(i, f, at, now) ==
    /\ f.source # None => Archive[i].source = f.source
    /\ f.storage # None => Storage(i) = f.storage
    /\ windowSince(f.window, now) # None => at >= windowSince(f.window, now)
    /\ f.query # None => f.query \in Archive[i].words
    /\ f.cluster # None => HasCluster(i) /\ Archive[i].slug = f.cluster

\* The string order of the sources and the storages.
Rank == [http |-> 1, local |-> 1, s3 |-> 2, sftp |-> 3, transit |-> 3]

SortValue(i, field, born) ==
    CASE field = "key" -> i
      [] field = "uploaded" -> born[i]
      [] field = "size" -> Archive[i].size
      [] field = "source" -> Rank[Archive[i].source]
      [] field = "storage" -> Rank[Storage(i)]

\* Equal values are told apart by key.
archiveLess(i, j, field, born) ==
    LET a == SortValue(i, field, born)
        b == SortValue(j, field, born)
    IN  a < b \/ (a = b /\ i < j)

\* In the order that is asked for, i stands before j.
Before(i, j, field, asc, born) ==
    IF asc THEN archiveLess(i, j, field, born) ELSE archiveLess(j, i, field, born)

\* The elements of S in the order R: the k-th has k - 1 others before it.
InOrder(S, R) ==
    [k \in 1..Cardinality(S) |->
        CHOOSE i \in S : Cardinality({j \in S : <<j, i>> \in R}) = k - 1]

sortArchives(S, field, asc, born) ==
    InOrder(S, {p \in S \X S : Before(p[1], p[2], field, asc, born)})
=============================================================================
