------------------------- MODULE ShareLinks_proofs --------------------------
(***************************************************************************)
(* Proofs about ShareLinks, for every set of archives, links, requests and *)
(* administrators, every cap, every clock resolution and bound.            *)
(***************************************************************************)
EXTENDS ShareLinks, TLAPS

\* The WHERE clause on truncated times and Active on times are the same
\* test: a stored expiry lies on a second.
LEMMA TruncationAgrees ==
    ASSUME NEW t \in Nat, NEW s \in Nat
    PROVE  (s > formatShareTime(t)) <=> (t < shareTime(s))
<1> DEFINE q == t \div Second
           m == t % Second
<1>1. Second \in Nat /\ Second > 0
  BY TimeAssumption
<1>2. q \in Nat /\ m \in Nat /\ m < Second /\ t = Second * q + m
  BY <1>1
<1> HIDE DEF q, m
<1>3. CASE s > q
  <2>1. s >= q + 1
    BY <1>2, <1>3
  <2>2. Second * s >= Second * (q + 1)
    BY <1>1, <1>2, <2>1
  <2> QED
    BY <1>1, <1>2, <1>3, <2>2 DEF formatShareTime, shareTime, q
<1>4. CASE ~(s > q)
  <2>1. Second * s <= Second * q
    BY <1>1, <1>2, <1>4
  <2> QED
    BY <1>1, <1>2, <1>4, <2>1 DEF formatShareTime, shareTime, q
<1> QED
  BY <1>3, <1>4

\* A formatted time is a number of whole seconds.
LEMMA FormatIsNat ==
    ASSUME NEW t \in Nat
    PROVE  formatShareTime(t) \in Nat
  BY TimeAssumption DEF formatShareTime

-----------------------------------------------------------------------------
(* Type correctness *)

\* Every handler, the delete transaction and the clock keep the tables and
\* the handlers' state well typed.
LEMMA TypeStep == TypeOK /\ [Next]_vars => TypeOK'
<1> SUFFICES ASSUME TypeOK, [Next]_vars
             PROVE  TypeOK'
  OBVIOUS
<1> USE CapsAssumption, TimeAssumption, NoneAssumption
<1>1. ASSUME NEW ad \in Admins, NEW a \in Archives, NEW m \in Caps,
             NEW e \in 1..(MaxTime + 1), ResolveShare(ad, a, m, e)
      PROVE  TypeOK'
  BY <1>1 DEF ResolveShare, TypeOK, Creation
<1>2. ASSUME NEW ad \in Admins, FailInsertShare(ad)
      PROVE  TypeOK'
  BY <1>2 DEF FailInsertShare, TypeOK, Creation, Idle
<1>3. ASSUME NEW ad \in Admins, NEW l \in Links, InsertShare(ad, l)
      PROVE  TypeOK'
  <2>1. creating[ad] \in Creation
    BY DEF TypeOK
  <2>2. formatShareTime(creating[ad].expires) \in Nat
    BY <2>1, FormatIsNat DEF Creation
  <2>3. link' \in [Links -> LinkRow]
    BY <1>3, <2>1, <2>2 DEF InsertShare, TypeOK, Creation, LinkRow
  <2>4. creating' \in [Admins -> Creation]
    BY <1>3, <2>1 DEF InsertShare, TypeOK, Creation, Idle
  <2> QED
    BY <1>3, <2>3, <2>4 DEF InsertShare, TypeOK
<1>4. ASSUME NEW l \in Links, RevokeShareLink(l)
      PROVE  TypeOK'
  BY <1>4 DEF RevokeShareLink, TypeOK, LinkRow
<1>5. ASSUME NEW r \in Requests, NEW l \in Links,
             LookupShare(r, l) \/ FailLookupShare(r, l)
      PROVE  TypeOK'
  <2>1. req' \in [Requests -> Request]
    <3>1. CASE LookupShare(r, l)
      BY <3>1 DEF LookupShare, TypeOK, Request, RequestPC
    <3>2. CASE FailLookupShare(r, l)
      BY <3>2 DEF FailLookupShare, TypeOK, Request, RequestPC
    <3> QED
      BY <1>5, <3>1, <3>2
  <2> QED
    BY <1>5, <2>1 DEF LookupShare, FailLookupShare, TypeOK
<1>6. ASSUME NEW r \in Requests, OpenArchive(r)
      PROVE  TypeOK'
  BY <1>6 DEF OpenArchive, Go, TypeOK, Request, RequestPC
<1>7. ASSUME NEW r \in Requests, IncrementShareUse(r)
      PROVE  TypeOK'
  <2> DEFINE k == req[r].link
  <2>1. req' \in [Requests -> Request]
    BY <1>7 DEF IncrementShareUse, Go, TypeOK, Request, RequestPC
  <2>2. CASE Meter(k)
    <3>1. link' \in [Links -> LinkRow]
      <4>1. \A l \in Links : link[l] \in LinkRow
        BY DEF TypeOK
      <4>2. \A l \in Links : [link[l] EXCEPT !.useCount = @ + 1] \in LinkRow
        BY <4>1 DEF LinkRow
      <4> QED
        BY <2>2, <4>1, <4>2 DEF Meter, TypeOK
    <3>2. served' \in [Links -> [metered : Nat, unmetered : Nat]]
      <4>1. \A l \in Links : served[l] \in [metered : Nat, unmetered : Nat]
        BY DEF TypeOK
      <4>2. \A l \in Links : [served[l] EXCEPT !.metered = @ + 1]
                                 \in [metered : Nat, unmetered : Nat]
        BY <4>1
      <4> QED
        BY <2>2, <4>1, <4>2 DEF Meter, TypeOK
    <3> QED
      BY <1>7, <2>1, <3>1, <3>2 DEF IncrementShareUse, TypeOK
  <2>3. CASE UNCHANGED <<link, served>>
    BY <1>7, <2>1, <2>3 DEF IncrementShareUse, TypeOK
  <2> QED
    BY <1>7, <2>2, <2>3 DEF IncrementShareUse
<1>8. ASSUME NEW r \in Requests, LookupRefused(r)
      PROVE  TypeOK'
  BY <1>8 DEF LookupRefused, Go, TypeOK, Request, RequestPC
<1>9. ASSUME NEW r \in Requests, ServeUnmetered(r)
      PROVE  TypeOK'
  <2>1. req' \in [Requests -> Request]
    BY <1>9 DEF ServeUnmetered, Go, TypeOK, Request, RequestPC
  <2>2. served' \in [Links -> [metered : Nat, unmetered : Nat]]
    <3>1. \A l \in Links : served[l] \in [metered : Nat, unmetered : Nat]
      BY DEF TypeOK
    <3>2. \A l \in Links : [served[l] EXCEPT !.unmetered = @ + 1]
                               \in [metered : Nat, unmetered : Nat]
      BY <3>1
    <3> QED
      BY <1>9, <3>1, <3>2 DEF ServeUnmetered, TypeOK
  <2> QED
    BY <1>9, <2>1, <2>2 DEF ServeUnmetered, TypeOK
<1>10. ASSUME NEW a \in Archives, RemoveBlob(a)
       PROVE  TypeOK'
  BY <1>10 DEF RemoveBlob, TypeOK
<1>11. ASSUME NEW a \in Archives, DropRow(a)
       PROVE  TypeOK'
  BY <1>11 DEF DropRow, TypeOK, LinkRow
<1>12. CASE Tick
  BY <1>12 DEF Tick, TypeOK
<1>13. CASE UNCHANGED vars
  BY <1>13 DEF vars, TypeOK
<1> QED
  BY <1>1, <1>2, <1>3, <1>4, <1>5, <1>6, <1>7, <1>8, <1>9, <1>10, <1>11,
     <1>12, <1>13 DEF Next, DownloadStep

\* The tables and handlers of the share link service are well typed in every
\* reachable state (TypeOK).
THEOREM TypeCorrect == Spec => []TypeOK
<1>1. Init => TypeOK
  BY TimeAssumption DEF Init, TypeOK, LinkRow, Request, RequestPC, Creation, Idle
<1>2. QED
  BY <1>1, TypeStep, PTL DEF Spec

-----------------------------------------------------------------------------
(* How a link and its archive age *)

\* A link, once inserted, keeps its archive, cap and expiry; its use count
\* only grows, a revocation stays, and a row never comes back.
Ages(l) ==
    /\ link'[l].state # "free"
    /\ link'[l].archive = link[l].archive
    /\ link'[l].maxUses = link[l].maxUses
    /\ link'[l].expires = link[l].expires
    /\ link'[l].useCount >= link[l].useCount
    /\ link[l].revoked => link'[l].revoked
    /\ link[l].state = "deleted" => link'[l].state = "deleted"
    /\ link'[l].state = "row" /\ link[l].archive \in rows => link[l].archive \in rows'

\* Every step ages every inserted link: revoking, counting a use and the
\* delete transaction are the only writers of an existing row.
LEMMA LinksAge ==
    ASSUME TypeOK, [Next]_vars, NEW l \in Links, link[l].state # "free"
    PROVE  Ages(l)
<1> USE DEF Ages
<1>0. link[l] \in LinkRow
  BY DEF TypeOK
<1>1. CASE UNCHANGED <<link, rows>>
  BY <1>0, <1>1 DEF LinkRow
<1>2. ASSUME NEW ad \in Admins, NEW j \in Links, InsertShare(ad, j)
      PROVE  Ages(l)
  <2>1. link'[l] = link[l] /\ rows' = rows
    BY <1>2 DEF InsertShare, TypeOK
  <2> QED
    BY <1>0, <2>1 DEF LinkRow
<1>3. ASSUME NEW j \in Links, RevokeShareLink(j)
      PROVE  Ages(l)
  <2>1. link'[l] = IF l = j THEN [link[l] EXCEPT !.revoked = TRUE] ELSE link[l]
    BY <1>3 DEF RevokeShareLink, TypeOK
  <2> QED
    BY <1>0, <1>3, <2>1 DEF RevokeShareLink, LinkRow
<1>4. ASSUME NEW r \in Requests, IncrementShareUse(r)
      PROVE  Ages(l)
  <2>1. \/ link'[l] = link[l]
        \/ link'[l] = [link[l] EXCEPT !.useCount = @ + 1]
    BY <1>4 DEF IncrementShareUse, Meter, TypeOK
  <2> QED
    BY <1>0, <1>4, <2>1 DEF IncrementShareUse, LinkRow
<1>5. ASSUME NEW a \in Archives, DropRow(a)
      PROVE  Ages(l)
  <2>1. link'[l] = IF link[l].state = "row" /\ link[l].archive = a
                     THEN [link[l] EXCEPT !.state = "deleted"] ELSE link[l]
    BY <1>5 DEF DropRow, TypeOK
  <2> QED
    BY <1>0, <1>5, <2>1 DEF DropRow, LinkRow
<1> QED
  BY <1>1, <1>2, <1>3, <1>4, <1>5 DEF Next, DownloadStep, vars, ResolveShare,
     FailInsertShare, LookupShare, FailLookupShare, OpenArchive, LookupRefused,
     ServeUnmetered, RemoveBlob, Tick

\* Archives are only removed and the clock only advances.
LEMMA WorldAges ==
    ASSUME TypeOK, [Next]_vars
    PROVE  rows' \subseteq rows /\ blobs' \subseteq blobs /\ now' >= now /\ now' \in Nat
<1> DEFINE Goal == rows' \subseteq rows /\ blobs' \subseteq blobs
                     /\ now' >= now /\ now' \in Nat
<1>0. now \in Nat
  BY TimeAssumption DEF TypeOK
<1>1. CASE UNCHANGED <<rows, blobs, now>>
  BY <1>0, <1>1
<1>2. CASE Tick
  BY <1>0, <1>2 DEF Tick
<1>3. ASSUME NEW a \in Archives, RemoveBlob(a) \/ DropRow(a)
      PROVE  Goal
  BY <1>0, <1>3 DEF RemoveBlob, DropRow
<1>4. ASSUME NEW r \in Requests, DownloadStep(r)
      PROVE  Goal
  BY <1>1, <1>4 DEF DownloadStep, OpenArchive, IncrementShareUse, LookupRefused,
     ServeUnmetered
<1> HIDE DEF Goal
<1> QED
  BY <1>1, <1>2, <1>3, <1>4 DEF Next, vars, ResolveShare, FailInsertShare,
     InsertShare, RevokeShareLink, LookupShare, FailLookupShare, Goal

\* A dead link stays dead.
LEMMA DeadStaysDead ==
    ASSUME TypeOK, TypeOK', [Next]_vars, NEW l \in Links, link[l].state # "free",
           NEW t \in Nat, NEW u \in Nat, u >= t
    PROVE  /\ ~Active(link[l], t) => ~Active(link'[l], u)
           /\ ~Servable(link[l], t) => ~Servable(link'[l], t)
<1>1. Ages(l)
  BY LinksAge
<1>2. link[l] \in LinkRow /\ link'[l] \in LinkRow
  BY DEF TypeOK
<1>3. shareTime(link[l].expires) \in Nat
  BY <1>2, TimeAssumption DEF LinkRow, shareTime
<1> HIDE DEF shareTime, formatShareTime
<1>4. CapLeft(link'[l]) => CapLeft(link[l])
  BY <1>1, <1>2 DEF Ages, CapLeft, LinkRow
<1> QED
  BY <1>1, <1>2, <1>3, <1>4 DEF Ages, Active, Servable, LinkRow

-----------------------------------------------------------------------------
(* The use cap *)

\* A link that has not been inserted is neither used nor revoked.
FreeIsUnused ==
    \A l \in Links : link[l].state = "free" => link[l].useCount = 0 /\ ~link[l].revoked

\* However many requests pass the stale Active test together, the guarded
\* UPDATE keeps the count exact and within the cap (IncrementShareUse).
LEMMA CapStep ==
    ASSUME TypeOK, FreeIsUnused, UseCapHolds, [Next]_vars
    PROVE  FreeIsUnused' /\ UseCapHolds'
<1> SUFFICES ASSUME NEW l \in Links
             PROVE  /\ link'[l].state = "free" => link'[l].useCount = 0 /\ ~link'[l].revoked
                    /\ link'[l].useCount = served'[l].metered
                    /\ link'[l].maxUses > 0 => served'[l].metered <= link'[l].maxUses
  BY DEF FreeIsUnused, UseCapHolds
<1> DEFINE Goal == /\ link'[l].state = "free" => link'[l].useCount = 0 /\ ~link'[l].revoked
                   /\ link'[l].useCount = served'[l].metered
                   /\ link'[l].maxUses > 0 => served'[l].metered <= link'[l].maxUses
<1>0. /\ link[l] \in LinkRow
      /\ served[l] \in [metered : Nat, unmetered : Nat]
      /\ link[l].state = "free" => link[l].useCount = 0 /\ ~link[l].revoked
      /\ link[l].useCount = served[l].metered
      /\ link[l].maxUses > 0 => served[l].metered <= link[l].maxUses
  BY DEF TypeOK, FreeIsUnused, UseCapHolds
<1>1. CASE UNCHANGED <<link, served>>
  BY <1>0, <1>1
<1>2. ASSUME NEW ad \in Admins, NEW j \in Links, InsertShare(ad, j)
      PROVE  Goal
  <2>0. creating[ad].maxUses \in Nat
    BY DEF TypeOK, Creation
  <2>1. CASE l = j
    <3>1. /\ link[l].state = "free"
          /\ link'[l].state = "row" /\ link'[l].useCount = 0
          /\ link'[l].maxUses = creating[ad].maxUses
          /\ served' = served
      BY <1>2, <2>1 DEF InsertShare, TypeOK
    <3> QED
      BY <1>0, <2>0, <3>1
  <2>2. CASE l # j
    <3>1. link'[l] = link[l] /\ served' = served
      BY <1>2, <2>2 DEF InsertShare, TypeOK
    <3> QED
      BY <1>0, <3>1
  <2> QED
    BY <2>1, <2>2
<1>3. ASSUME NEW j \in Links, RevokeShareLink(j)
      PROVE  Goal
  <2>1. /\ link'[l] = IF l = j THEN [link[l] EXCEPT !.revoked = TRUE] ELSE link[l]
        /\ l = j => link[l].state = "row"
        /\ served' = served
    BY <1>3 DEF RevokeShareLink, TypeOK
  <2> QED
    BY <1>0, <2>1 DEF LinkRow
<1>4. ASSUME NEW r \in Requests, IncrementShareUse(r)
      PROVE  Goal
  <2>1. CASE Meter(req[r].link) /\ req[r].link = l
    <3>1. /\ link'[l] = [link[l] EXCEPT !.useCount = @ + 1]
          /\ served'[l] = [served[l] EXCEPT !.metered = @ + 1]
      BY <2>1 DEF Meter, TypeOK
    <3>2. link[l].state = "row" /\ CapLeft(link[l])
      <4>1. served' # served
        BY <1>0, <3>1
      <4> QED
        BY <1>4, <2>1, <4>1 DEF IncrementShareUse, Servable
    <3> QED
      BY <1>0, <3>1, <3>2 DEF CapLeft, LinkRow
  <2>2. CASE Meter(req[r].link) /\ req[r].link # l
    <3>1. link'[l] = link[l] /\ served'[l] = served[l]
      BY <2>2 DEF Meter, TypeOK
    <3> QED
      BY <1>0, <3>1
  <2> QED
    BY <1>1, <1>4, <2>1, <2>2 DEF IncrementShareUse
<1>5. ASSUME NEW r \in Requests, ServeUnmetered(r)
      PROVE  Goal
  <2>1. link' = link /\ served'[l].metered = served[l].metered
    <3>1. \/ served'[l] = served[l]
          \/ served'[l] = [served[l] EXCEPT !.unmetered = @ + 1]
      BY <1>5 DEF ServeUnmetered, TypeOK
    <3> QED
      BY <1>0, <1>5, <3>1 DEF ServeUnmetered
  <2> QED
    BY <1>0, <2>1
<1>6. ASSUME NEW a \in Archives, DropRow(a)
      PROVE  Goal
  <2>1. /\ \/ link'[l] = link[l]
           \/ link'[l] = [link[l] EXCEPT !.state = "deleted"]
        /\ served' = served
    BY <1>6 DEF DropRow, TypeOK
  <2> QED
    BY <1>0, <2>1 DEF LinkRow
<1> QED
  BY <1>1, <1>2, <1>3, <1>4, <1>5, <1>6 DEF Next, DownloadStep, vars, ResolveShare,
     FailInsertShare, LookupShare, FailLookupShare, OpenArchive, LookupRefused,
     RemoveBlob, Tick

\* The inductive form of UseCapHolds.
LEMMA CapInvariant == Spec => [](FreeIsUnused /\ UseCapHolds)
<1>1. Init => FreeIsUnused /\ UseCapHolds
  BY DEF Init, FreeIsUnused, UseCapHolds
<1>2. QED
  BY <1>1, TypeCorrect, CapStep, PTL DEF Spec

\* "Only the first N succeed": the count of a link is the number of metered
\* downloads, and never exceeds max_uses (UseCapHolds, IncrementShareUse).
THEOREM UseCapCorrect == Spec => []UseCapHolds
  BY CapInvariant, PTL

-----------------------------------------------------------------------------
(* Agreement of the two tests, and revocation *)

\* Go's Active and the WHERE clause of IncrementShareUse accept the same
\* links at any time, although the table only stores whole seconds.
LEMMA ServableIsActive ==
    ASSUME NEW k \in LinkRow, NEW t \in Nat
    PROVE  Servable(k, t) <=> Active(k, t)
<1>1. k.expires \in Nat
  BY DEF LinkRow
<1>2. (k.expires > formatShareTime(t)) <=> (t < shareTime(k.expires))
  BY <1>1, TruncationAgrees
<1> QED
  BY <1>2 DEF Servable, Active

\* The handler's test and the guarded UPDATE, hence retention's protected
\* set as well, agree in every reachable state (TestsAgree).
THEOREM TestsAgreeCorrect == Spec => []TestsAgree
<1>1. TypeOK => TestsAgree
  <2> SUFFICES ASSUME TypeOK, NEW l \in Links
               PROVE  Servable(link[l], now) <=> Active(link[l], now)
    BY DEF TestsAgree
  <2>1. link[l] \in LinkRow /\ now \in Nat
    BY TimeAssumption DEF TypeOK
  <2> QED
    BY <2>1, ServableIsActive
<1>2. QED
  BY <1>1, TypeCorrect, PTL

\* A step that counts a download of l finds it servable, with its row.
LEMMA MeteredIsServable ==
    ASSUME TypeOK, [Next]_vars, NEW l \in Links, served'[l].metered # served[l].metered
    PROVE  \E r \in Requests :
              /\ req[r].pc = "count" /\ req[r].link = l
              /\ link[l].state = "row" /\ Servable(link[l], req[r].now)
<1>0. served[l] \in [metered : Nat, unmetered : Nat]
  BY DEF TypeOK
<1>1. ASSUME NEW r \in Requests, ServeUnmetered(r)
      PROVE  FALSE
  <2>1. \/ served'[l] = served[l]
        \/ served'[l] = [served[l] EXCEPT !.unmetered = @ + 1]
    BY <1>1 DEF ServeUnmetered, TypeOK
  <2> QED
    BY <1>0, <2>1
<1>2. PICK r \in Requests : IncrementShareUse(r)
  BY <1>1 DEF Next, DownloadStep, vars, ResolveShare, FailInsertShare, InsertShare,
     RevokeShareLink, LookupShare, FailLookupShare, OpenArchive, LookupRefused,
     RemoveBlob, DropRow, Tick
<1>3. Meter(req[r].link) /\ link[req[r].link].state = "row"
        /\ Servable(link[req[r].link], req[r].now)
  BY <1>2 DEF IncrementShareUse
<1>4. req[r].link = l
  BY <1>3 DEF Meter, TypeOK
<1> QED
  BY <1>2, <1>3, <1>4 DEF IncrementShareUse

\* Revoking is final and immediate for metered downloads, those that had
\* passed the Active test before included (RevokedServesNothing).
THEOREM RevocationCorrect == Spec => RevokedServesNothing
<1> DEFINE P == \A l \in Links : link[l].revoked =>
                   link'[l].revoked /\ served'[l].metered = served[l].metered
<1>1. TypeOK /\ FreeIsUnused /\ [Next]_vars => [P]_vars
  <2> SUFFICES ASSUME TypeOK, FreeIsUnused, [Next]_vars, NEW l \in Links, link[l].revoked
               PROVE  link'[l].revoked /\ served'[l].metered = served[l].metered
    OBVIOUS
  <2>1. served'[l].metered = served[l].metered
    BY MeteredIsServable DEF Servable
  <2>2. link'[l].revoked
    <3>1. CASE link[l].state # "free"
      BY <3>1, LinksAge DEF Ages
    <3>2. CASE link[l].state = "free"
      BY <3>2 DEF FreeIsUnused
    <3> QED
      BY <3>1, <3>2
  <2> QED
    BY <2>1, <2>2
<1>2. QED
  BY <1>1, TypeCorrect, CapInvariant, PTL DEF Spec, RevokedServesNothing

-----------------------------------------------------------------------------
(* What a download handler knows between its calls *)

\* A handler's link exists; a handler about to count a use either lost the
\* row or still has the archive's; one that was refused, or has answered,
\* was right and stays right.
RequestOK(r) ==
    LET l == req[r].link IN
    req[r].pc # "idle" =>
      /\ l \in Links /\ link[l].state # "free"
      /\ req[r].now <= now
      /\ req[r].pc = "count" /\ link[l].state = "row" => link[l].archive \in rows
      /\ req[r].pc = "lookup" /\ link[l].state = "row" => ~Servable(link[l], req[r].now)
      /\ req[r].pc = "gone" => ~Active(link[l], now)
      /\ req[r].pc = "notfound" =>
            link[l].state = "deleted" \/ link[l].archive \notin rows \cap blobs

\* A link that is active was active before.
LEMMA ActiveEarlier ==
    ASSUME NEW k \in LinkRow, NEW t \in Nat, NEW u \in Nat, t <= u, Active(k, u)
    PROVE  Active(k, t)
<1>1. shareTime(k.expires) \in Nat
  BY TimeAssumption DEF LinkRow, shareTime
<1> QED
  BY <1>1 DEF Active

\* What a handler knows survives the steps of everybody else.
LEMMA RequestKept ==
    ASSUME TypeOK, TypeOK', [Next]_vars, NEW r \in Requests, RequestOK(r), req'[r] = req[r]
    PROVE  RequestOK(r)'
<1> SUFFICES ASSUME req[r].pc # "idle"
             PROVE  RequestOK(r)'
  BY DEF RequestOK
<1> DEFINE l == req[r].link
<1>1. l \in Links /\ link[l].state # "free"
  BY DEF RequestOK
<1>2. /\ req[r].now \in Nat /\ now \in Nat
      /\ rows' \subseteq rows /\ blobs' \subseteq blobs /\ now' >= now /\ now' \in Nat
  BY WorldAges, TimeAssumption DEF TypeOK, Request
<1>3. Ages(l)
  BY <1>1, LinksAge
<1>4. /\ ~Active(link[l], now) => ~Active(link'[l], now')
      /\ ~Servable(link[l], req[r].now) => ~Servable(link'[l], req[r].now)
  BY <1>1, <1>2, DeadStaysDead
<1>5. link[l].state \in {"free", "row", "deleted"}
  BY <1>1 DEF TypeOK, LinkRow
<1>6. req[r].now <= now'
  BY <1>2 DEF RequestOK
<1> QED
  BY <1>1, <1>2, <1>3, <1>4, <1>5, <1>6 DEF RequestOK, Ages

\* Each step of a download establishes what the next one relies on.
LEMMA RequestStep ==
    ASSUME TypeOK, TypeOK', [Next]_vars, NEW r \in Requests, RequestOK(r)
    PROVE  RequestOK(r)'
<1> DEFINE k == req[r].link
<1>0. now \in Nat /\ now <= now /\ req[r] \in Request
  BY TimeAssumption DEF TypeOK
<1>1. CASE req'[r] = req[r]
  BY <1>1, RequestKept
<1>2. ASSUME NEW l \in Links, LookupShare(r, l)
      PROVE  RequestOK(r)'
  <2>1. req'[r] = [pc |-> IF link[l].state = "deleted" THEN "notfound"
                          ELSE IF Active(link[l], now) THEN "open" ELSE "gone",
                   link |-> l, now |-> now]
    BY <1>2 DEF LookupShare, TypeOK
  <2> QED
    BY <1>0, <1>2, <2>1 DEF LookupShare, RequestOK
<1>3. ASSUME NEW l \in Links, FailLookupShare(r, l)
      PROVE  RequestOK(r)'
  <2>1. req'[r] = [pc |-> "failed", link |-> l, now |-> now]
    BY <1>3 DEF FailLookupShare, TypeOK
  <2> QED
    BY <1>0, <1>3, <2>1 DEF FailLookupShare, RequestOK
<1>4. CASE OpenArchive(r)
  <2>1. \/ /\ req'[r] = [req[r] EXCEPT !.pc = "count"]
           /\ link[k].archive \in rows
        \/ /\ req'[r] = [req[r] EXCEPT !.pc = "notfound"]
           /\ link[k].archive \notin rows \cap blobs
        \/ req'[r] = [req[r] EXCEPT !.pc = "failed"]
    BY <1>4 DEF OpenArchive, Go, TypeOK
  <2> QED
    BY <1>0, <1>4, <2>1 DEF OpenArchive, RequestOK, Request
<1>5. CASE IncrementShareUse(r)
  <2>1. CASE link[k].state = "row" /\ Servable(link[k], req[r].now)
    <3>1. req'[r] = [req[r] EXCEPT !.pc = "served"]
      BY <1>5, <2>1 DEF IncrementShareUse, Go, TypeOK
    <3>2. k \in Links /\ link[k].state # "free" /\ req[r].now <= now
      BY <1>5 DEF IncrementShareUse, RequestOK
    <3>3. link'[k].state # "free"
      BY <3>2, LinksAge DEF Ages
    <3> QED
      BY <1>0, <1>5, <3>1, <3>2, <3>3 DEF IncrementShareUse, RequestOK, Request
  <2>2. CASE ~(link[k].state = "row" /\ Servable(link[k], req[r].now))
    <3>1. req'[r] = [req[r] EXCEPT !.pc = "lookup"] /\ link' = link
      BY <1>5, <2>2 DEF IncrementShareUse, Go, TypeOK
    <3> QED
      BY <1>0, <1>5, <2>2, <3>1 DEF IncrementShareUse, RequestOK, Request
  <2> QED
    BY <2>1, <2>2
<1>6. CASE LookupRefused(r)
  <2>1. /\ k \in Links /\ link[k].state # "free" /\ req[r].now <= now
        /\ link[k].state = "row" => ~Servable(link[k], req[r].now)
    BY <1>6 DEF LookupRefused, RequestOK
  <2>2. link[k] \in LinkRow /\ req[r].now \in Nat
    BY <1>0, <2>1 DEF TypeOK, Request
  <2>3. link[k].state = "row" => ~Active(link[k], now)
    BY <1>0, <2>1, <2>2, ServableIsActive, ActiveEarlier
  <2>4. req'[r] = [req[r] EXCEPT
                     !.pc = IF link[k].state = "row" THEN "gone" ELSE "notfound"]
    BY <1>6 DEF LookupRefused, Go, TypeOK
  <2> QED
    BY <1>0, <1>6, <2>1, <2>2, <2>3, <2>4 DEF LookupRefused, RequestOK, Request, LinkRow
<1>7. CASE ServeUnmetered(r)
  <2>1. req'[r] = [req[r] EXCEPT !.pc = "served"]
    BY <1>7 DEF ServeUnmetered, Go, TypeOK
  <2> QED
    BY <1>0, <1>7, <2>1 DEF ServeUnmetered, RequestOK, Request
<1>8. ASSUME NEW q \in Requests, q # r,
             DownloadStep(q) \/ \E l \in Links : LookupShare(q, l) \/ FailLookupShare(q, l)
      PROVE  req'[r] = req[r]
  BY <1>8 DEF DownloadStep, OpenArchive, IncrementShareUse, LookupRefused,
     ServeUnmetered, LookupShare, FailLookupShare, Go, TypeOK
<1>9. CASE UNCHANGED req
  BY <1>1, <1>9
<1> QED
  BY <1>1, <1>2, <1>3, <1>4, <1>5, <1>6, <1>7, <1>8, <1>9 DEF Next, DownloadStep, vars,
     ResolveShare, FailInsertShare, InsertShare, RevokeShareLink, RemoveBlob, DropRow, Tick

\* What the handlers know holds in every reachable state.
LEMMA RequestInvariant == Spec => [](\A r \in Requests : RequestOK(r))
<1> DEFINE I == \A r \in Requests : RequestOK(r)
<1>1. Init => I
  BY DEF Init, RequestOK
<1>2. TypeOK /\ TypeOK' /\ I /\ [Next]_vars => I'
  BY RequestStep
<1>3. QED
  BY <1>1, <1>2, TypeCorrect, PTL DEF Spec

\* 410 and 404 are honest and stay so: a link answered "gone" never becomes
\* active again (AnswersAreHonest, handleShareDownload).
THEOREM AnswersCorrect == Spec => []AnswersAreHonest
<1>1. (\A r \in Requests : RequestOK(r)) => AnswersAreHonest
  BY DEF RequestOK, AnswersAreHonest
<1>2. QED
  BY <1>1, RequestInvariant, PTL

-----------------------------------------------------------------------------
(* Deleted archives, and the cap without failures *)

\* After the delete transaction no download of the archive is counted, not
\* through a request that had opened it before nor through a link inserted
\* while it was being deleted (NothingServedAfterDelete, DeleteArchive).
THEOREM DeleteCorrect == Spec => NothingServedAfterDelete
<1> DEFINE I == \A r \in Requests : RequestOK(r)
           P == \A l \in Links : link[l].state # "free" /\ link[l].archive \notin rows =>
                   served'[l].metered = served[l].metered
<1>1. TypeOK /\ I /\ [Next]_vars => [P]_vars
  <2> SUFFICES ASSUME TypeOK, I, [Next]_vars, NEW l \in Links,
                      link[l].archive \notin rows,
                      served'[l].metered # served[l].metered
               PROVE  FALSE
    OBVIOUS
  <2>1. PICK r \in Requests : req[r].pc = "count" /\ req[r].link = l /\ link[l].state = "row"
    BY MeteredIsServable
  <2> QED
    BY <2>1 DEF RequestOK
<1>2. QED
  BY <1>1, TypeCorrect, RequestInvariant, PTL DEF Spec, NothingServedAfterDelete

\* When no database call fails, every download is metered: a link is never
\* oversold (NeverOversold).  With failures the handler serves unmetered.
THEOREM NeverOversoldCorrect ==
    ASSUME ~DBFails
    PROVE  Spec => []NeverOversold
<1> DEFINE I == \A l \in Links : served[l].unmetered = 0
<1>1. Init => I
  BY DEF Init
<1>2. TypeOK /\ I /\ [Next]_vars => I'
  <2> SUFFICES ASSUME TypeOK, I, [Next]_vars, NEW l \in Links
               PROVE  served'[l].unmetered = 0
    OBVIOUS
  <2>0. served[l] \in [metered : Nat, unmetered : Nat]
    BY DEF TypeOK
  <2>1. ASSUME NEW r \in Requests, IncrementShareUse(r)
        PROVE  served'[l].unmetered = 0
    <3>1. \/ served'[l] = served[l]
          \/ served'[l] = [served[l] EXCEPT !.metered = @ + 1]
      BY <2>1 DEF IncrementShareUse, Meter, TypeOK
    <3> QED
      BY <2>0, <3>1
  <2> QED
    BY <2>1 DEF Next, DownloadStep, vars, ResolveShare, FailInsertShare, InsertShare,
       RevokeShareLink, LookupShare, FailLookupShare, OpenArchive, LookupRefused,
       ServeUnmetered, RemoveBlob, DropRow, Tick
<1>3. TypeOK /\ UseCapHolds /\ I => NeverOversold
  BY DEF TypeOK, UseCapHolds, NeverOversold
<1>4. QED
  BY <1>1, <1>2, <1>3, TypeCorrect, UseCapCorrect, PTL DEF Spec

=============================================================================
