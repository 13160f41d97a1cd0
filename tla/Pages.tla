------------------------------- MODULE Pages --------------------------------
(***************************************************************************)
(* A reader of the Captures table, of the Activity page or of the audit    *)
(* API, who follows links page by page while archives come and go and the  *)
(* audit log grows.  Every page is a request of its own: nothing ties it   *)
(* to the state the one before was made from.                              *)
(*                                                                         *)
(* The Captures listing is one statement (topology vps); an Activity page  *)
(* is a COUNT and then a SELECT.  Storing and deleting an archive is one   *)
(* step here (LocalCatalog has its parts), and those two stand for all     *)
(* operations that write an audit row.                                     *)
(***************************************************************************)
EXTENDS Captures, Retain

CONSTANTS
    Actors,      \* who uploads and deletes
    Parts,       \* actor -> what LIKE finds in its name
    OldLogs,     \* list -> audit logs to start from
    Catalogs,    \* list -> archives to start from: id -> created_at
    Links,       \* list -> the facets its links and bookmarks ask for
    Fields,      \* columns the reader sorts by
    Start,       \* the clock at the start
    MaxTime,     \* bound on the clock
    MaxRows,     \* list -> bound on the rows that are inserted or wait for it
    Moving,      \* list -> the archives that come and go while it is read
    MaxDeletes   \* bound on the deletes during one walk

Ids == DOMAIN Archive
Lists == DOMAIN Links

ASSUME TimeAssumption ==
    Start \in Nat /\ MaxTime \in Nat /\ MaxRows \in [Lists -> Nat] /\ MaxDeletes \in Nat
ASSUME ListsAssumption == Lists \subseteq {"captures", "activity", "api"}
ASSUME FieldsAssumption == Fields \subseteq SortFields
ASSUME CatalogAssumption ==
    \A l \in Lists : /\ Moving[l] \subseteq Ids
                      /\ \A c \in Catalogs[l] : /\ DOMAIN c \subseteq Ids /\ IsFiniteSet(DOMAIN c)
                                                 /\ \A i \in DOMAIN c : c[i] \in Nat

Row == [actor : Actors, action : {"upload", "delete"}, at : Nat]

ASSUME LogAssumption ==
    \A l \in Lists : \A a \in OldLogs[l] :
        /\ a \in Seq(Row)
        /\ \A k \in DOMAIN a : a[k].at <= Start

VARIABLES
    now,         \* the clock
    born,        \* created_at of the archives that exist: a function on their ids
    pending,     \* rows whose INSERT is under way: their time has been read
    audit,       \* rows of the audit table, by id
    pc,          \* the reader: "idle", "rows" between COUNT and SELECT, "shown"
    list,        \* what the reader looks at, fixed
    url,         \* the address of the page
    view,        \* its pager
    filter,      \* auditFilterFrom of the request that is being answered
    shown,       \* ids on the page, in order
    walk         \* the pages seen in a row since page 1; NoWalk after a jump

vars == <<now, born, pending, audit, pc, list, url, view, filter, shown, walk>>
reader == <<pc, list, url, view, filter, shown>>

present == DOMAIN born
Empty == [i \in {} |-> 0]

\* start: what page 1 was cut from, less what was deleted since; seen: what
\* the pages showed; deletes: archives deleted since page 1; late: matching
\* rows inserted between the last COUNT and its SELECT; torn: rows that left
\* the window between two pages while an older one stayed in it.
NoWalk == [whole |-> FALSE, start |-> {}, seen |-> {}, deletes |-> 0, late |-> 0, torn |-> 0]

Home == [page |-> None, per_page |-> None, sort |-> None, order |-> None, facets |-> None]

Init ==
    /\ now = Start
    /\ list \in Lists
    /\ born \in Catalogs[list]
    /\ audit \in OldLogs[list] /\ pending = <<>>
    /\ pc = "idle" /\ url = Home
    /\ view = pageViewFor(0, 1, htmlPageSize)
    /\ filter = None
    /\ shown = <<>> /\ walk = NoWalk

-----------------------------------------------------------------------------
(* The catalog and the audit log *)

\* auditWhere
Matches(row, f) ==
    /\ f.actor # None => f.actor \in Parts[row.actor]
    /\ f.action # None => row.action = f.action
    /\ f.since # None => row.at >= f.since

Matching(f) == {k \in DOMAIN audit : Matches(audit[k], f)}

Without(s, k) == [j \in 1..(Len(s) - 1) |-> s[IF j < k THEN j ELSE j + 1]]

\* The time of the row is read here; its INSERT then waits for one of the
\* connections of the pool and for SQLite's lock, or fails.
recordAudit(action) ==
    \/ /\ Cardinality({k \in DOMAIN audit : audit[k].at >= Start}) + Len(pending) < MaxRows[list]
       /\ \E a \in Actors :
             pending' = Append(pending, [actor |-> a, action |-> action, at |-> now])
    \/ UNCHANGED pending

\* The INSERT of the k-th of the waiting rows: the ids of the rows are in the
\* order of the insertions, not of their times.
InsertAudit(k) ==
    /\ audit' = Append(audit, pending[k])
    /\ pending' = Without(pending, k)
    /\ walk' = IF pc = "rows" /\ walk.whole /\ Matches(pending[k], filter)
                 THEN [walk EXCEPT !.late = @ + 1] ELSE walk
    /\ UNCHANGED <<now, born, reader>>

Upload(i) ==
    /\ i \notin present
    /\ born' = [j \in present \cup {i} |-> IF j = i THEN now ELSE born[j]]
    /\ recordAudit("upload")
    /\ UNCHANGED <<now, audit, reader, walk>>

\* By handleDelete or by the retention sweep.
Delete(i) ==
    /\ i \in present
    /\ walk.deletes < MaxDeletes
    /\ born' = [j \in present \ {i} |-> born[j]]
    /\ recordAudit("delete")
    /\ walk' = IF list = "captures" /\ walk.whole
                 THEN [walk EXCEPT !.start = @ \ {i}, !.deletes = @ + 1] ELSE walk
    /\ UNCHANGED <<now, audit, reader>>

Tick ==
    /\ now < MaxTime
    /\ now' = now + 1
    /\ UNCHANGED <<born, pending, audit, reader, walk>>

-----------------------------------------------------------------------------
(* Requests *)

\* How a page continues the walk: page 1 begins one, the Next link goes on
\* with it as long as it leads to the same list, anything else ends it.
Walked(w, u, next, base, page) ==
    IF parsePage(u.page) = 1
      THEN [NoWalk EXCEPT !.whole = TRUE, !.start = base, !.seen = page]
      ELSE IF next /\ w.whole THEN [w EXCEPT !.seen = @ \cup page] ELSE NoWalk

\* The Captures page: list, filter, sort, cut.
handleHome(u, next) ==
    LET f     == ParseFilter(u.facets)
        hits  == {i \in present : archivePasses(i, f, born[i], now)}
        items == sortArchives(hits, parseSortField(u.sort), parseSortAsc(u.sort, u.order), born)
        size  == parsePageSize(u.per_page)
        cut   == paginateSlice(items, parsePage(u.page), size)
        page  == cut.items
    IN  /\ shown' = page
        /\ view' = cut.pager
        /\ pc' = "shown"
        /\ filter' = None
        /\ walk' = Walked(walk, u, next, hits, {page[k] : k \in DOMAIN page})

auditFilterFrom(u) ==
    IF u.facets = None THEN [actor |-> None, action |-> None, since |-> None]
    ELSE [actor |-> u.facets.actor, action |-> u.facets.action,
          since |-> windowSince(Known(u.facets.window, allowedWindows), now)]

\* The rows that match f and not g, above one that matches both.
Torn(f, g) ==
    {k \in Matching(f) \ Matching(g) : \E j \in Matching(f) \cap Matching(g) : j < k}

\* handleActivityGET and handleListAudit: the filter, then COUNT.
CountAuditFiltered(u, next) ==
    LET f == auditFilterFrom(u)
        w == Walked(walk, u, next, Matching(f), {})
    IN  /\ filter' = f
        /\ view' = pageViewFor(Cardinality(Matching(f)), parsePage(u.page), parsePageSize(u.per_page))
        /\ pc' = "rows"
        /\ shown' = <<>>
        /\ walk' = [w EXCEPT !.late = 0, !.torn =
                      IF parsePage(u.page) # 1 /\ w.whole
                        THEN @ + Cardinality(Torn(filter, f)) ELSE 0]

Ask(u, next) ==
    /\ pc # "rows"
    /\ url' = u
    /\ IF list = "captures" THEN handleHome(u, next) ELSE CountAuditFiltered(u, next)
    /\ UNCHANGED <<now, born, pending, audit, list>>

\* Mutant: a per_page of the request does not reach the SELECT.
auditLimit_Default(limit) == htmlPageSize

auditLimit(limit) == IF limit = 0 THEN 50 ELSE limit

\* Newest first, LIMIT and OFFSET from the pager of the COUNT.
ListAuditFiltered ==
    /\ pc = "rows"
    /\ LET size   == parsePageSize(url.per_page)
           hits   == Matching(filter)
           rows   == InOrder(hits, {p \in hits \X hits : p[1] > p[2]})
           page   == Slice(rows, (view.page - 1) * size, auditLimit(size))
           onPage == {page[k] : k \in DOMAIN page}
       IN  /\ shown' = page
           /\ walk' = [walk EXCEPT
                 !.start = {k \in @ : Matches(audit[k], filter)},
                 !.seen = IF walk.whole THEN @ \cup onPage ELSE {}]
    /\ pc' = "shown"
    /\ UNCHANGED <<now, born, pending, audit, list, url, view, filter>>

Open(facets) == Ask(With(Home, facets), FALSE)

\* Next: the pager's link, which keeps size and order; a client of the API
\* counts the page up in its own request.
FollowNext ==
    /\ pc = "shown" /\ view.hasNext
    /\ LET u == IF list = "api" THEN [url EXCEPT !.page = view.page + 1]
                                ELSE pagerURL(view.page + 1, url)
       IN  Ask(u, u.facets = url.facets)

\* First, Previous, Last and the numbers; a page beyond the end is typed in.
JumpTo(p) ==
    /\ pc = "shown" /\ view.total > 0 /\ list # "api"
    /\ Ask(pagerURL(p, url), FALSE)

SetPageSize(n) ==
    /\ pc = "shown" /\ list # "api"
    /\ Ask([pagerURL(1, url) EXCEPT !.per_page = n], FALSE)

SortBy(field) ==
    /\ pc = "shown" /\ list = "captures"
    /\ Ask(sortURL(field, url), FALSE)

\* A chip keeps the page index.
PickFacet(facets) ==
    /\ pc = "shown" /\ list = "captures"
    /\ Ask(With(url, facets), FALSE)

Next ==
    \/ \E i \in Moving[list] : Upload(i) \/ Delete(i)
    \/ \E k \in DOMAIN pending : InsertAudit(k)
    \/ Tick
    \/ \E f \in Links[list] : Open(f)
    \/ ListAuditFiltered
    \/ FollowNext
    \/ \E p \in 1..(view.totalPages + 1) : JumpTo(p)
    \/ \E n \in HTMLPageSizes : SetPageSize(n)
    \/ \E c \in Fields : SortBy(c)
    \/ \E f \in Links[list] : PickFacet(f)

Spec == Init /\ [][Next]_vars

-----------------------------------------------------------------------------
(* Properties *)

AtTheEnd == pc = "shown" /\ walk.whole /\ ~view.hasNext
Missed == walk.start \ walk.seen

\* Whoever reads the Captures table from page 1 to the last by the Next link
\* has seen every archive that was there all along, but for one per archive
\* deleted meanwhile: the order, the page size and the last page survive the
\* links, and uploads push archives forward only.
DeleteCostsOne ==
    AtTheEnd /\ list = "captures" => Cardinality(Missed) <= walk.deletes

\* The same for the audit log, where COUNT and SELECT are two statements and
\* the rows, which are in the order of their insertion, may leave a window in
\* another order: of the rows of the list, only the oldest are missed, and
\* of those at most as many as were inserted while the last page was made,
\* but for one per row that left the window before an older one.
LogMissesAreBounded ==
    AtTheEnd /\ list # "captures" =>
        LET Oldest(k) == Cardinality({j \in Matching(filter) : j < k}) < walk.late
        IN  /\ Missed \subseteq Matching(filter)
            /\ Cardinality({k \in Missed : ~Oldest(k)}) <= walk.torn

\* "No captures yet" and "No matches" are true: a page is empty only if the
\* list is, although chips keep the page index of a longer list and archives
\* disappear under a bookmark.
EmptyPageIsEmptyList ==
    pc = "shown" /\ shown = <<>> => view.total = 0

\* The numbers of the pager rise, hold the first page, the last one, the
\* current one and its neighbours, and a gap is marked exactly where pages
\* are left out: between numbers that do not follow each other.
NumbersLeadEverywhere ==
    pc = "shown" =>
        LET w    == pageWindow(view.page, view.totalPages)
            near == {1, view.totalPages} \cup
                    (((view.page - 1)..(view.page + 1)) \cap (1..view.totalPages))
        IN  /\ near \subseteq {w[k] : k \in DOMAIN w}
            /\ w[1] # GapMark /\ w[Len(w)] # GapMark
            /\ \A k \in 1..(Len(w) - 1) :
                  w[k] # GapMark =>
                      \/ w[k + 1] = w[k] + 1
                      \/ w[k + 1] = GapMark /\ w[k + 2] > w[k] + 1

\* A listing as retain.Pick expects it: newest first.
Listing == sortArchives(present, "uploaded", FALSE, born)

\* The policy of retain.go and of the specification, without indexes, on the
\* newest-first listing of whatever uploads and deletes leave, and for every
\* pair of limits: no remaining archive is too old, at most keep_last remain,
\* and an archive goes only if it is too old or keep_last others are at least
\* as new; a limit of 0 never removes anything by itself.
PickMeetsPolicy ==
    LET listing == Listing IN
    \A keepLast, maxAge \in 0..3 :
        LET Picked == Pick(listing, born, keepLast, maxAge, now)
            Old(i) == maxAge > 0 /\ born[i] > 0 /\ now - born[i] > maxAge
        IN  /\ \A i \in present \ Picked : ~Old(i)
            /\ keepLast > 0 => Cardinality(present \ Picked) <= keepLast
            /\ \A i \in Picked :
                  \/ Old(i)
                  \/ /\ keepLast > 0
                     /\ Cardinality({j \in present \ {i} : born[j] >= born[i]}) >= keepLast
=============================================================================
