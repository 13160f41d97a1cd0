------------------------------ MODULE MCPages -------------------------------
(* Small instance of Pages for TLC. *)
EXTENDS Pages, TLC

Item(slug, words, source, storage, size) ==
    [slug |-> slug, words |-> words, source |-> source, storage |-> storage, size |-> size]

MCArchive ==
    <<Item("prod", {"x"}, "http", "", 2),
      Item("prod", {"x", "y"}, "sftp", "local", 1),
      Item(NoSlug, {"y"}, "http", "transit", 2)>>

MCParts == [ann |-> {"a", "n"}, bob |-> {"b"}]

OldRows(n) == [k \in 1..n |-> [actor |-> "ann", action |-> "upload", at |-> 1]]
\* Rows whose ids and times disagree.
Unordered == [k \in 1..3 |-> [actor |-> "ann", action |-> "upload", at |-> IF k = 3 THEN 1 ELSE 2]]
MCOldLogs == [captures |-> {<<>>}, activity |-> {OldRows(8)}, api |-> {<<>>, Unordered}]
MCMaxRows == [captures |-> 0, activity |-> 1, api |-> 2]

OldCatalog == (1 :> 0) @@ (2 :> 2) @@ (3 :> 2)
MCCatalogs == [captures |-> {Empty, OldCatalog}, activity |-> {Empty}, api |-> {Empty}]
MCMoving == [captures |-> {1, 2, 3}, activity |-> {1}, api |-> {1}]

Facets(cluster, query, window) ==
    [cluster |-> cluster, query |-> query, window |-> window, source |-> None, storage |-> None]
AuditFacets(actor, action, window) == [actor |-> actor, action |-> action, window |-> window]

MCLinks ==
    [captures |-> {None, Facets("prod", None, None), Facets(None, "y", 2)},
     activity |-> {None, AuditFacets("b", None, None)},
     api      |-> {None, AuditFacets("a", "upload", None), AuditFacets(None, None, 2)}]
=============================================================================
