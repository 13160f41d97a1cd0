------------------------------ MODULE Catalog ------------------------------
(***************************************************************************)
(* What an archive store promises its clients, whatever it is made of: an  *)
(* archive appears under a fresh id with its content in one step, keeps    *)
(* that content while it is stored, once removed its id never comes back,  *)
(* and its removal is confirmed to one delete request at most, after it    *)
(* happened.  LocalCatalog (files and SQLite rows written in several       *)
(* steps, with failures and crashes between them) implements this.         *)
(***************************************************************************)
CONSTANTS
    Ids,         \* archive ids
    Contents,    \* archive contents, identified by their sha256
    Deletes,     \* delete requests
    None         \* no archive

VARIABLES
    stored,      \* the content a download of each id returns, or None
    retired,     \* ids that were stored and have been removed
    confirmed    \* for each id, the delete requests told that they removed it

vars == <<stored, retired, confirmed>>

Init ==
    /\ stored = [i \in Ids |-> None]
    /\ retired = {}
    /\ confirmed = [i \in Ids |-> {}]

Add(i, c) ==
    /\ stored[i] = None
    /\ i \notin retired
    /\ stored' = [stored EXCEPT ![i] = c]
    /\ UNCHANGED <<retired, confirmed>>

Remove(i) ==
    /\ stored[i] # None
    /\ stored' = [stored EXCEPT ![i] = None]
    /\ retired' = retired \cup {i}
    /\ UNCHANGED confirmed

\* A request that loses the race is told "not found" and confirms nothing.
Confirm(i, d) ==
    /\ i \in retired
    /\ confirmed[i] = {}
    /\ confirmed' = [confirmed EXCEPT ![i] = {d}]
    /\ UNCHANGED <<stored, retired>>

Next ==
    \E i \in Ids : \/ \E c \in Contents : Add(i, c)
                   \/ Remove(i)
                   \/ \E d \in Deletes : Confirm(i, d)

Spec == Init /\ [][Next]_vars
=============================================================================
