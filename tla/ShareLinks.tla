----------------------------- MODULE ShareLinks -----------------------------
(***************************************************************************)
(* Share links: handleCreateShare, handleRevokeShare and the public        *)
(* download GET /s/{token}, on the share_links table.  The download is a   *)
(* chain of separate reads and writes: look the link up and test it, open  *)
(* the archive, take one use with a guarded UPDATE, and, when the UPDATE   *)
(* touched no row, look the link up again to choose the answer.  Links are *)
(* revoked, archives deleted and time passes between any two of them, and  *)
(* each database call may fail.                                            *)
(*                                                                         *)
(* Time is counted in ticks, Second ticks to a second; the table stores    *)
(* whole seconds (RFC3339).  A token identifies its link, labels and audit *)
(* rows are left out.  Link ids are AUTOINCREMENT: never used again.       *)
(***************************************************************************)
EXTENDS Naturals

CONSTANTS
    Archives,    \* archive ids
    Links,       \* share link ids
    Requests,    \* download requests; each is made at most once
    Admins,      \* share creations; one at a time each
    Caps,        \* the max_uses values asked for; 0 is unlimited
    Second,      \* ticks per second
    MaxTime,     \* bound on the clock
    DBFails,     \* whether database and storage calls may fail
    None         \* no archive, no link

ASSUME CapsAssumption == Caps \subseteq Nat
ASSUME TimeAssumption == Second \in Nat \ {0} /\ MaxTime \in Nat
ASSUME FailAssumption == DBFails \in BOOLEAN
ASSUME NoneAssumption == None \notin Archives \cup Links

VARIABLES
    now,         \* the clock, in ticks
    rows,        \* archives with a row: resolveArchive finds them
    blobs,       \* archives whose bytes can be opened
    link,        \* the share_links table
    creating,    \* validated share requests about to be inserted
    req,         \* download handlers
    served       \* history: downloads streamed per link, metered or not

vars == <<now, rows, blobs, link, creating, req, served>>

\* A deleted row keeps its last values, for the properties only.
LinkRow == [state : {"free", "row", "deleted"}, archive : Archives \cup {None},
            maxUses : Nat, useCount : Nat, expires : Nat, revoked : BOOLEAN]
\* "failed" is a 404 too, but one that only a storage failure accounts for.
RequestPC == {"idle", "open", "count", "lookup", "served", "gone", "notfound", "failed"}
Request == [pc : RequestPC, link : Links \cup {None}, now : Nat]
Creation == [archive : Archives \cup {None}, maxUses : Nat, expires : Nat]
Idle == [archive |-> None, maxUses |-> 0, expires |-> 0]

TypeOK ==
    /\ now \in 0..MaxTime
    /\ rows \subseteq Archives
    /\ blobs \subseteq Archives
    /\ link \in [Links -> LinkRow]
    /\ creating \in [Admins -> Creation]
    /\ req \in [Requests -> Request]
    /\ served \in [Links -> [metered : Nat, unmetered : Nat]]

Init ==
    /\ now = 0
    /\ rows = Archives
    /\ blobs = Archives
    /\ link = [l \in Links |->
                 [state |-> "free", archive |-> None, maxUses |-> 0,
                  useCount |-> 0, expires |-> 0, revoked |-> FALSE]]
    /\ creating = [a \in Admins |-> Idle]
    /\ req = [r \in Requests |-> [pc |-> "idle", link |-> None, now |-> 0]]
    /\ served = [l \in Links |-> [metered |-> 0, unmetered |-> 0]]

-----------------------------------------------------------------------------
(* The two tests of a link: Go's, on times, and SQL's, on formatted times. *)

\* Mutant: rounds up.
formatShareTime_Up(t) == (t + Second - 1) \div Second

\* RFC3339 keeps whole seconds.
formatShareTime(t) == t \div Second
shareTime(s) == s * Second

CapLeft(k) == k.maxUses = 0 \/ k.useCount < k.maxUses

\* ShareLink.Active, shareInactiveReason = "", shareStatus = "active".
Active(k, t) == ~k.revoked /\ t < shareTime(k.expires) /\ CapLeft(k)

\* Mutant: the cap is left to the handler's own check.
Servable_NoCap(k, t) == ~k.revoked /\ k.expires > formatShareTime(t)

\* Mutant: the revocation is left to the handler's own check.
Servable_NoRevoke(k, t) == k.expires > formatShareTime(t) /\ CapLeft(k)

\* The WHERE clause of IncrementShareUse and of ProtectedArchiveIDs.
Servable(k, t) == ~k.revoked /\ k.expires > formatShareTime(t) /\ CapLeft(k)

-----------------------------------------------------------------------------
(* Creation and revocation *)

\* handleCreateShare up to the INSERT: the archive resolves, the expiry is
\* after now, the cap is not negative.
ResolveShare(ad, a, m, e) ==
    /\ creating[ad] = Idle
    /\ a \in rows
    /\ e > now
    /\ creating' = [creating EXCEPT ![ad] = [archive |-> a, maxUses |-> m, expires |-> e]]
    /\ UNCHANGED <<now, rows, blobs, link, req, served>>

\* Mutant: an unlimited link is stored with max_uses NULL.
InsertShare_NullCap(ad, l) ==
    /\ creating[ad] # Idle
    /\ link[l].state = "free"
    /\ link' = [link EXCEPT ![l] =
                  [state |-> "row", archive |-> creating[ad].archive,
                   maxUses |-> IF creating[ad].maxUses = 0 THEN None
                               ELSE creating[ad].maxUses,
                   useCount |-> 0, expires |-> formatShareTime(creating[ad].expires),
                   revoked |-> FALSE]]
    /\ creating' = [creating EXCEPT ![ad] = Idle]
    /\ UNCHANGED <<now, rows, blobs, req, served>>

\* CreateShareLink.
InsertShare(ad, l) ==
    /\ creating[ad] # Idle
    /\ link[l].state = "free"
    /\ link' = [link EXCEPT ![l] =
                  [state |-> "row", archive |-> creating[ad].archive,
                   maxUses |-> creating[ad].maxUses, useCount |-> 0,
                   expires |-> formatShareTime(creating[ad].expires),
                   revoked |-> FALSE]]
    /\ creating' = [creating EXCEPT ![ad] = Idle]
    /\ UNCHANGED <<now, rows, blobs, req, served>>

\* The INSERT fails: 500.
FailInsertShare(ad) ==
    /\ DBFails
    /\ creating[ad] # Idle
    /\ creating' = [creating EXCEPT ![ad] = Idle]
    /\ UNCHANGED <<now, rows, blobs, link, req, served>>

\* RevokeShareLink: UPDATE ... WHERE id = ? AND revoked_at = ''.
RevokeShareLink(l) ==
    /\ link[l].state = "row"
    /\ ~link[l].revoked
    /\ link' = [link EXCEPT ![l].revoked = TRUE]
    /\ UNCHANGED <<now, rows, blobs, creating, req, served>>

-----------------------------------------------------------------------------
(* Download: handleShareDownload *)

Go(r, pc) == req' = [req EXCEPT ![r].pc = pc]

\* ShareByTokenHash, then shareInactiveReason at the time just read.
LookupShare(r, l) ==
    /\ req[r].pc = "idle"
    /\ link[l].state # "free"
    /\ req' = [req EXCEPT ![r] =
                 [pc |-> IF link[l].state = "deleted" THEN "notfound"
                         ELSE IF Active(link[l], now) THEN "open" ELSE "gone",
                  link |-> l, now |-> now]]
    /\ UNCHANGED <<now, rows, blobs, link, creating, served>>

\* A database error is answered like an unknown token.
FailLookupShare(r, l) ==
    /\ DBFails
    /\ req[r].pc = "idle"
    /\ link[l].state # "free"
    /\ req' = [req EXCEPT ![r] = [pc |-> "failed", link |-> l, now |-> now]]
    /\ UNCHANGED <<now, rows, blobs, link, creating, served>>

\* openDownload.  The reader keeps the bytes readable from here on.
OpenArchive(r) ==
    /\ req[r].pc = "open"
    /\ LET a == link[req[r].link].archive IN
         \/ a \in rows \cap blobs /\ Go(r, "count")
         \/ a \notin rows \cap blobs /\ Go(r, "notfound")
         \/ DBFails /\ Go(r, "failed")
    /\ UNCHANGED <<now, rows, blobs, link, creating, served>>

Meter(l) ==
    /\ link' = [link EXCEPT ![l].useCount = @ + 1]
    /\ served' = [served EXCEPT ![l].metered = @ + 1]

\* IncrementShareUse, the UPDATE.  The audit row and the bytes follow; the
\* SELECT of the new count decides nothing (its error is served as well).
IncrementShareUse(r) ==
    LET l == req[r].link IN
    /\ req[r].pc = "count"
    /\ IF link[l].state = "row" /\ Servable(link[l], req[r].now)
         THEN Meter(l) /\ Go(r, "served")
         ELSE Go(r, "lookup") /\ UNCHANGED <<link, served>>
    /\ UNCHANGED <<now, rows, blobs, creating>>

\* Mutant: "exhausted" also when the link is gone.
LookupRefused_Gone(r) ==
    /\ req[r].pc = "lookup"
    /\ Go(r, "gone")
    /\ UNCHANGED <<now, rows, blobs, link, creating, served>>

\* No row was updated: ShareByID tells 404 from 410.
LookupRefused(r) ==
    /\ req[r].pc = "lookup"
    /\ Go(r, IF link[req[r].link].state = "row" THEN "gone" ELSE "notfound")
    /\ UNCHANGED <<now, rows, blobs, link, creating, served>>

\* The UPDATE, or the lookup after it, fails with a database error: the
\* handler logs it and streams the archive without a use being counted.
ServeUnmetered(r) ==
    LET l == req[r].link IN
    /\ DBFails
    /\ req[r].pc \in {"count", "lookup"}
    /\ served' = [served EXCEPT ![l].unmetered = @ + 1]
    /\ Go(r, "served")
    /\ UNCHANGED <<now, rows, blobs, link, creating>>

-----------------------------------------------------------------------------
(* Archives and time *)

\* DeleteArchive: the bytes first, ...
RemoveBlob(a) ==
    /\ a \in blobs
    /\ blobs' = blobs \ {a}
    /\ UNCHANGED <<now, rows, link, creating, req, served>>

\* Mutant: the links of a deleted archive stay.
DropRow_KeepsLinks(a) ==
    /\ a \in rows \ blobs
    /\ rows' = rows \ {a}
    /\ UNCHANGED <<now, blobs, link, creating, req, served>>

\* ... then, in one transaction, the row and the links bound to it.
DropRow(a) ==
    /\ a \in rows \ blobs
    /\ rows' = rows \ {a}
    /\ link' = [l \in Links |->
                  IF link[l].state = "row" /\ link[l].archive = a
                    THEN [link[l] EXCEPT !.state = "deleted"] ELSE link[l]]
    /\ UNCHANGED <<now, blobs, creating, req, served>>

Tick ==
    /\ now < MaxTime
    /\ now' = now + 1
    /\ UNCHANGED <<rows, blobs, link, creating, req, served>>

DownloadStep(r) ==
    \/ OpenArchive(r) \/ IncrementShareUse(r)
    \/ LookupRefused(r) \/ ServeUnmetered(r)

Next ==
    \/ \E ad \in Admins, a \in Archives, m \in Caps, e \in 1..(MaxTime + 1) :
          ResolveShare(ad, a, m, e)
    \/ \E ad \in Admins : FailInsertShare(ad) \/ \E l \in Links : InsertShare(ad, l)
    \/ \E l \in Links : RevokeShareLink(l)
    \/ \E r \in Requests, l \in Links : LookupShare(r, l) \/ FailLookupShare(r, l)
    \/ \E r \in Requests : DownloadStep(r)
    \/ \E a \in Archives : RemoveBlob(a) \/ DropRow(a)
    \/ Tick

Spec == Init /\ [][Next]_vars

-----------------------------------------------------------------------------
(* Properties *)

\* "Only the first N succeed": however many downloads of a max_uses = N link
\* pass the stale Active check together, the guarded UPDATE counts each
\* metered download once and lets at most N through (IncrementShareUse).
UseCapHolds ==
    \A l \in Links :
        /\ link[l].useCount = served[l].metered
        /\ link[l].maxUses > 0 => served[l].metered <= link[l].maxUses

\* The archive is streamed at most max_uses times, metered or not: what the
\* use cap promises whoever creates a one-shot link.
NeverOversold ==
    \A l \in Links : link[l].maxUses > 0 =>
        served[l].metered + served[l].unmetered <= link[l].maxUses

\* Active (on times) and the WHERE clause shared by the download and by
\* retention's protected set (on formatted, truncated times) never disagree.
TestsAgree == \A l \in Links : Servable(link[l], now) <=> Active(link[l], now)

\* 410 is only answered for a link that is dead, and stays dead; 404 only
\* when the link or its archive is gone, if storage did not fail.
AnswersAreHonest ==
    \A r \in Requests :
        LET k == link[req[r].link] IN
        /\ req[r].pc = "gone" => ~Active(k, now)
        /\ req[r].pc = "notfound" =>
              k.state = "deleted" \/ k.archive \notin rows \cap blobs

\* Revoking is final and immediate: from then on no download is counted,
\* not even one that passed the Active check before.
RevokedServesNothing ==
    [][\A l \in Links : link[l].revoked =>
          link'[l].revoked /\ served'[l].metered = served[l].metered]_vars

\* Once the delete transaction has committed, no download of that archive is
\* counted, neither by a request that had opened it before nor through a
\* link inserted while the archive was being deleted.
NothingServedAfterDelete ==
    [][\A l \in Links : link[l].state # "free" /\ link[l].archive \notin rows =>
          served'[l].metered = served[l].metered]_vars
=============================================================================
