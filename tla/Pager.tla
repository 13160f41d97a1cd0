------------------------------- MODULE Pager --------------------------------
(***************************************************************************)
(* The pager of the HTML lists as pure operators: query parameters, the    *)
(* page a request gets, the numbered links, and the links' URLs.  A URL is *)
(* a record of its parameters, None where a parameter is absent; page and  *)
(* per_page are what Atoi makes of them (0 for junk).                      *)
(***************************************************************************)
EXTENDS Integers, Sequences

CONSTANTS
    HTMLPageSizes,   \* allowed per_page values
    htmlPageSize,    \* the default one
    None             \* an absent parameter

ASSUME PageSizeAssumption ==
    htmlPageSize \in HTMLPageSizes /\ HTMLPageSizes \subseteq Nat \ {0}

SortFields == {"uploaded", "key", "size", "source", "storage"}

ASSUME NoneAssumption ==
    None \notin Int /\ None \notin SortFields \cup {"name", "asc", "desc"}

defaultSortField == "uploaded"
GapMark == 0

parsePage(p) == IF p = None \/ p < 1 THEN 1 ELSE p
parsePageSize(n) == IF n \in HTMLPageSizes THEN n ELSE htmlPageSize

firstSortAsc(field) == field \notin {"size", "uploaded"}
parseSortField(f) ==
    IF f = "name" THEN "key" ELSE IF f \in SortFields THEN f ELSE defaultSortField
parseSortAsc(f, order) ==
    IF order = None THEN firstSortAsc(parseSortField(f)) ELSE order = "asc"

TotalPages(total, size) == IF total = 0 THEN 1 ELSE (total + size - 1) \div size

\* Mutant: an index beyond the end is taken as it comes.
Clamp_None(page, tp) == page

Clamp(page, tp) == IF page > tp THEN tp ELSE page

\* The page a request gets: an index beyond the end is answered by the last.
pageViewFor(total, page, size) ==
    LET tp == TotalPages(total, size)
        p  == Clamp(page, tp)
    IN  [page |-> p, total |-> total, totalPages |-> tp, hasPrev |-> p > 1, hasNext |-> p < tp]

Pages(lo, hi) == [k \in 1..(hi - lo + 1) |-> lo + k - 1]
GapIf(b) == IF b THEN <<GapMark>> ELSE <<>>

\* Mutant: the right gap is tested like the left one.
RightGap_OffByOne(cur, tp) == cur + 2 < tp - 1

RightGap(cur, tp) == cur + 1 < tp - 1

\* The numbered links: all of them, or first, last and the neighbours of the
\* current page, with marks for the gaps.
pageWindow(cur, tp) ==
    IF tp <= 7 THEN Pages(1, tp)
    ELSE LET lo == IF cur - 1 < 2 THEN 2 ELSE cur - 1
             hi == IF cur + 1 > tp - 1 THEN tp - 1 ELSE cur + 1
         IN  <<1>> \o GapIf(cur - 1 > 2) \o Pages(lo, hi) \o GapIf(RightGap(cur, tp)) \o <<tp>>

\* At most size items after the first skip ones.
Slice(items, skip, size) ==
    LET n == Len(items)
    IN  SubSeq(items, skip + 1, IF skip + size > n THEN n ELSE skip + size)

\* The page and its pager.
paginateSlice(items, page, size) ==
    LET pv == pageViewFor(Len(items), page, size)
    IN  [items |-> Slice(items, (pv.page - 1) * size, size), pager |-> pv]

-----------------------------------------------------------------------------
(* Links *)

OrderParam(field, asc) ==
    IF asc = firstSortAsc(field) THEN None ELSE IF asc THEN "asc" ELSE "desc"

\* Defaults are left out, and so are all facet parameters.
listURL(page, size, field, asc) ==
    [page |-> IF page > 1 THEN page ELSE None,
     per_page |-> IF size # htmlPageSize THEN size ELSE None,
     sort |-> IF field # defaultSortField THEN field ELSE None,
     order |-> OrderParam(field, asc),
     facets |-> None]

\* Mutant: the order goes back to the first one of the column.
pagerURL_NoOrder(page, url) ==
    listURL(page, parsePageSize(url.per_page), parseSortField(url.sort),
            firstSortAsc(parseSortField(url.sort)))

\* The pager's links on the page of url lead to another page of the list.
pagerURL(page, url) ==
    listURL(page, parsePageSize(url.per_page), parseSortField(url.sort),
            parseSortAsc(url.sort, url.order))

\* A column header: its own first order, or the other one if it is active.
sortURL(field, url) ==
    LET same == parseSortField(url.sort) = field
    IN  listURL(1, parsePageSize(url.per_page), field,
                IF same THEN ~parseSortAsc(url.sort, url.order) ELSE firstSortAsc(field))

\* FilterURLBuilder.With: the other parameters stay, the page index too.
With(url, facets) == [url EXCEPT !.facets = facets]
=============================================================================
