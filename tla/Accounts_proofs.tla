-------------------------- MODULE Accounts_proofs --------------------------
(***************************************************************************)
(* Proofs about Accounts, for any number of users, keys, sessions and      *)
(* requests: its types, that an active admin remains unless a write        *)
(* overlaps another request's guard, that a key gives no more than its     *)
(* owner's role, that no session is older than its user's password, and    *)
(* that nobody is reactivated without being asked to.                      *)
(***************************************************************************)
EXTENDS Accounts, FiniteSetTheorems, TLAPS

\* A handler at work knows its user, and a removal asks for no activation.
HandlerOK(q) ==
    /\ q.pc = "key" => q.actor \in Users
    /\ q.pc \in {"guard", "count", "write", "password"} => q.target \in Users
    /\ q.op = "remove" => q.active = FALSE
HandlersOK == \A r \in Requests : HandlerOK(req[r])

\* Should r write now, an active admin would remain: the one it writes, or
\* one that it does not write.
Safe(r) ==
    \/ req[r].active = TRUE /\ req[r].role = "admin"
    \/ \E a \in Users : a # req[r].target /\ ActiveAdmin(a)

\* As long as no write has overlapped a guard, there is an active admin and
\* every request that has passed its guard is safe.
GuardsHold ==
    overlapped = FALSE =>
        /\ \E a \in Users : ActiveAdmin(a)
        /\ \A r \in Requests : req[r].pc = "write" => Safe(r)

IInv == TypeOK /\ HandlersOK /\ GuardsHold

-----------------------------------------------------------------------------
(* Types *)

\* The records of authorised requests are requests.
LEMMA SignedType ==
    ASSUME NEW pc \in {"idle", "load", "key"}, NEW a \in Users \cup {None}, NEW role \in Roles,
           pc = "key" => a \in Users
    PROVE  Signed(pc, a, role) \in Request /\ HandlerOK(Signed(pc, a, role))
BY DEF Signed, Request, Roles, HandlerOK

\* The records of requests on a user are requests.
LEMMA WorkType ==
    ASSUME NEW pc \in {"guard", "write", "password"}, NEW u \in Users,
           NEW op \in {"update", "remove"}, NEW role \in Roles, NEW active \in BOOLEAN,
           NEW asked \in BOOLEAN, NEW pw \in BOOLEAN,
           op = "remove" => active = FALSE
    PROVE  /\ Work(pc, u, op, role, active, asked, pw) \in Request
           /\ HandlerOK(Work(pc, u, op, role, active, asked, pw))
BY DEF Work, Request, Roles, HandlerOK

\* So is the record of an idle handler.
LEMMA NoRequestType == NoRequest \in Request /\ HandlerOK(NoRequest)
BY SignedType DEF NoRequest, Roles

\* patchUserPassword's continuation is a request on the user.
LEMMA ToPasswordType ==
    ASSUME NEW u \in Users, NEW pw
    PROVE  ToPassword(u, pw) \in Request /\ HandlerOK(ToPassword(u, pw))
BY NoRequestType, WorkType DEF ToPassword, Roles

\* A user's row is typed.
LEMMA RowType ==
    ASSUME TypeOK, NEW u \in Users
    PROVE  /\ user[u].role \in Roles /\ user[u].active \in BOOLEAN /\ user[u].pw \in Nat
           /\ user[u].state \in {"free", "row", "gone"}
BY DEF TypeOK, UserRow

\* Deleting rows leaves a sessions table.
LEMMA WithoutType ==
    ASSUME TypeOK, NEW S
    PROVE  Without(S) \in [Sessions -> Session \cup {None}]
BY DEF TypeOK, Without

\* A valid session or a key belongs to a user.
LEMMA SessionUserType ==
    ASSUME TypeOK, NEW s \in Sessions, session[s] # None
    PROVE  session[s].user \in Users
BY DEF TypeOK, Session

\* So does a login under way, and it stays one when a password overtakes it.
LEMMA OvertakenType ==
    ASSUME TypeOK, NEW u \in Users, NEW p \in Nat
    PROVE  /\ \A l \in Logins : login[l] # None => login[l].user \in Users
           /\ Overtaken(u, p) \in [Logins -> Session \cup {None}]
<1>1. \A l \in Logins : login[l] \in Session \cup {None}
  BY DEF TypeOK
<1>2. \A x \in Session : x.user \in Users /\ x.since \in Nat
  BY DEF Session
<1>3. \A x \in Session : [user |-> u, since |-> x.since, late |-> p] \in Session
  BY <1>2 DEF Session
<1> QED
  BY <1>1, <1>2, <1>3 DEF Overtaken

\* EnsureAdmin's table is one.
LEMMA TypeInit == Init => TypeOK /\ HandlersOK
<1> SUFFICES ASSUME Init PROVE TypeOK /\ HandlersOK
  OBVIOUS
<1>1. NewUser("admin") \in UserRow /\ NoUser \in UserRow
  BY DEF NewUser, NoUser, UserRow, Roles
<1>2. user \in [Users -> UserRow]
  BY <1>1 DEF Init
<1>3. req \in [Requests -> Request] /\ HandlersOK
  BY NoRequestType DEF Init, HandlersOK
<1>4. made \in 0..MaxRequests
  BY BoundAssumption DEF Init
<1> QED
  BY <1>2, <1>3, <1>4 DEF Init, TypeOK

\* Storing a good record in a handler's place.
LEMMA StoreType ==
    ASSUME TypeOK, HandlersOK, NEW r \in Requests, NEW q \in Request, HandlerOK(q),
           req' = [req EXCEPT ![r] = q]
    PROVE  req' \in [Requests -> Request] /\ HandlersOK'
BY DEF TypeOK, HandlersOK

\* An answer frees the handler.
LEMMA AnswerType ==
    ASSUME TypeOK, HandlersOK, NEW r \in Requests, Answer(r)
    PROVE  req' \in [Requests -> Request] /\ HandlersOK' /\ stale' \subseteq Requests
BY NoRequestType, StoreType DEF TypeOK, Answer

\* A guard that lets its request pass.
LEMMA GoType ==
    ASSUME TypeOK, HandlersOK, NEW r \in Requests, NEW pc \in {"count", "write"},
           req[r].pc \in {"guard", "count"}, Go(r, pc)
    PROVE  req' \in [Requests -> Request] /\ HandlersOK' /\ stale' \subseteq Requests
<1>1. req' \in [Requests -> Request] /\ stale' \subseteq Requests
  BY DEF Go, TypeOK, Request
<1>2. HandlersOK'
  BY DEF Go, TypeOK, Request, HandlersOK, HandlerOK
<1> QED
  BY <1>1, <1>2

\* Authorisation keeps the types.
LEMMA BeginType ==
    ASSUME TypeOK, HandlersOK, NEW r \in Requests, NEW s \in Sessions, NEW perm,
           NEW pc \in {"load", "key"}, Begin(r, s, perm, pc)
    PROVE  TypeOK' /\ HandlersOK'
<1>1. session[s].user \in Users /\ user[session[s].user].role \in Roles
  BY SessionUserType, RowType DEF Begin, SessionValid
<1>2. req' \in [Requests -> Request] /\ HandlersOK'
  BY <1>1, SignedType, StoreType DEF Begin
<1>3. made' \in 0..MaxRequests
  BY BoundAssumption DEF Begin, TypeOK
<1> QED
  BY <1>2, <1>3 DEF TypeOK, Begin

\* Loading a user keeps the types.
LEMMA LoadType ==
    ASSUME TypeOK, HandlersOK, NEW r \in Requests, NEW u \in Users,
           NEW change \in Request, HandlerOK(change), Load(r, u, change)
    PROVE  TypeOK' /\ HandlersOK'
<1>1. req' \in [Requests -> Request] /\ HandlersOK'
  BY StoreType DEF Load
<1> QED
  BY <1>1 DEF TypeOK, Load, history

\* Every step keeps the types and the handlers' records in order.
LEMMA TypeStep == TypeOK /\ HandlersOK /\ [Next]_vars => TypeOK' /\ HandlersOK'
<1> SUFFICES ASSUME TypeOK, HandlersOK, [Next]_vars PROVE TypeOK' /\ HandlersOK'
  OBVIOUS
<1>0. ASSUME UNCHANGED req PROVE HandlersOK'
  BY <1>0 DEF HandlersOK
<1>1. ASSUME NEW l \in Logins, NEW u \in Users, NEW p \in 0..MaxPassword,
             CheckPassword(l, u, p)
      PROVE  TypeOK' /\ HandlersOK'
  <2>1. [user |-> u, since |-> p, late |-> p] \in Session
    BY BoundAssumption DEF Session
  <2>2. login' \in [Logins -> Session \cup {None}]
    BY <1>1, <2>1 DEF CheckPassword, TypeOK
  <2> QED
    BY <1>0, <1>1, <2>2 DEF CheckPassword, TypeOK, history
<1>2. ASSUME NEW l \in Logins, FailCreateSession(l) PROVE TypeOK' /\ HandlersOK'
  BY <1>0, <1>2 DEF FailCreateSession, TypeOK, history
<1>3. ASSUME NEW l \in Logins, NEW s \in Sessions, CreateSession(l, s)
      PROVE  TypeOK' /\ HandlersOK'
  <2>1. login[l] \in Session
    BY <1>3 DEF CreateSession, TypeOK
  <2>3. PICK P \in {{}, OutOfDate} :
          /\ session' = [Without(P) EXCEPT ![s] = login[l]]
          /\ expired' = expired \ (P \cup {s})
    BY <1>3 DEF CreateSession
  <2>4. session' \in [Sessions -> Session \cup {None}]
    BY <2>1, <2>3, WithoutType
  <2>5. expired' \subseteq Sessions
    BY <2>3 DEF TypeOK
  <2> QED
    BY <1>0, <1>3, <2>4, <2>5 DEF CreateSession, TypeOK, history
<1>4. ASSUME NEW s \in Sessions, Logout(s) PROVE TypeOK' /\ HandlersOK'
  BY <1>0, <1>4, WithoutType DEF Logout, TypeOK, history
<1>5. ASSUME NEW s \in Sessions, ExpireSession(s) PROVE TypeOK' /\ HandlersOK'
  BY <1>0, <1>5 DEF ExpireSession, TypeOK, history
<1>6. ASSUME PurgeExpiredSessions PROVE TypeOK' /\ HandlersOK'
  BY <1>0, <1>6, WithoutType DEF PurgeExpiredSessions, TypeOK, history
<1>7. ASSUME NEW r \in Requests, NEW s \in Sessions,
             RequireAdmin(r, s) \/ RequireKeys(r, s)
      PROVE  TypeOK' /\ HandlersOK'
  BY <1>7, BeginType DEF RequireAdmin, RequireKeys
<1>8. ASSUME NEW r \in Requests, NEW s \in Sessions, ChangeOwnPassword(r, s)
      PROVE  TypeOK' /\ HandlersOK'
  <2>1. session[s].user \in Users
    BY <1>8, SessionUserType DEF ChangeOwnPassword, SessionValid
  <2>2. req' \in [Requests -> Request] /\ HandlersOK'
    BY <1>8, <2>1, ToPasswordType, StoreType DEF ChangeOwnPassword
  <2>3. made' \in 0..MaxRequests
    BY <1>8, BoundAssumption DEF ChangeOwnPassword, TypeOK
  <2> QED
    BY <1>8, <2>2, <2>3 DEF ChangeOwnPassword, TypeOK
<1>9. ASSUME NEW r \in Requests, NEW u \in Users, NEW role \in AskedRoles \cup {None},
             NEW active \in BOOLEAN \cup {None}, NEW pw \in BOOLEAN,
             PatchUser(r, u, role, active, pw)
      PROVE  TypeOK' /\ HandlersOK'
  <2> DEFINE newRole == IF role = None THEN user[u].role ELSE role
             newActive == IF active = None THEN user[u].active ELSE active
             asked == IF active = None THEN FALSE ELSE active
  <2>1. newRole \in Roles /\ newActive \in BOOLEAN /\ asked \in BOOLEAN
    BY RowType, RolesAssumption
  <2>2. \/ Load(r, u, ToPassword(u, pw))
        \/ Load(r, u, Work("guard", u, "update", newRole, newActive, asked, pw))
    BY <1>9 DEF PatchUser
  <2> HIDE DEF newRole, newActive, asked
  <2> QED
    BY <2>1, <2>2, ToPasswordType, WorkType, LoadType
<1>10. ASSUME NEW r \in Requests, NEW u \in Users, NEW role \in AskedRoles,
              AdminUserRole(r, u, role)
       PROVE  TypeOK' /\ HandlersOK'
  <2>1. role \in Roles /\ user[u].active \in BOOLEAN
    BY RowType, RolesAssumption
  <2> QED
    BY <1>10, <2>1, WorkType, LoadType DEF AdminUserRole
<1>11. ASSUME NEW r \in Requests, NEW u \in Users, NEW role \in AskedRoles,
              CreateUser(r, u, role)
       PROVE  TypeOK' /\ HandlersOK'
  <2>1. NewUser(role) \in UserRow
    BY RolesAssumption DEF NewUser, UserRow
  <2> QED
    BY <1>11, <2>1, AnswerType DEF CreateUser, TypeOK
<1>12. ASSUME NEW r \in Requests, NEW u \in Users,
              DeactivateUser(r, u) \/ ActivateUser(r, u) \/ RemoveInactive(r, u)
       PROVE  TypeOK' /\ HandlersOK'
  <2>1. user[u].role \in Roles
    BY RowType
  <2> QED
    BY <1>12, <2>1, WorkType, LoadType DEF DeactivateUser, ActivateUser, RemoveInactive
<1>13. ASSUME NEW r \in Requests, GuardUser(r) \/ GuardCount(r)
       PROVE  TypeOK' /\ HandlersOK'
  <2>1. req[r].pc \in {"guard", "count"}
    BY <1>13 DEF GuardUser, GuardCount
  <2>2. Answer(r) \/ Go(r, "write") \/ Go(r, "count")
    BY <1>13 DEF GuardUser, GuardCount
  <2>3. req' \in [Requests -> Request] /\ HandlersOK' /\ stale' \subseteq Requests
    BY <2>1, <2>2, AnswerType, GoType
  <2> QED
    BY <1>13, <2>3 DEF GuardUser, GuardCount, TypeOK
<1>14. ASSUME NEW r \in Requests, Overtake(r)
       PROVE  stale' \subseteq Requests /\ overlapped' \in BOOLEAN
  BY <1>14 DEF Overtake, TypeOK
<1>15. ASSUME NEW r \in Requests, UpdateUser(r) PROVE TypeOK' /\ HandlersOK'
  <2>1. req[r].target \in Users /\ req[r].role \in Roles /\ req[r].active \in BOOLEAN
    BY <1>15 DEF UpdateUser, TypeOK, Request, HandlersOK, HandlerOK
  <2>2. [state |-> "row", role |-> req[r].role, active |-> req[r].active,
         pw |-> user[req[r].target].pw] \in UserRow
    BY <2>1, RowType DEF UserRow
  <2>3. user' \in [Users -> UserRow]
    BY <1>15, <2>2 DEF UpdateUser, TypeOK
  <2>4. req' \in [Requests -> Request] /\ HandlersOK'
    BY <1>15, <2>1, ToPasswordType, StoreType DEF UpdateUser
  <2> QED
    BY <1>14, <1>15, <2>3, <2>4 DEF UpdateUser, TypeOK
<1>16. ASSUME NEW r \in Requests, RemoveUser(r) PROVE TypeOK' /\ HandlersOK'
  <2>1. GoneUser \in UserRow
    BY DEF GoneUser, UserRow, Roles
  <2>2. user' \in [Users -> UserRow]
    BY <1>16, <2>1 DEF RemoveUser, TypeOK
  <2>3. key' \in [Keys -> Key \cup {None}]
    BY <1>16 DEF RemoveUser, TypeOK
  <2>4. session' \in [Sessions -> Session \cup {None}] /\ expired' \subseteq Sessions
    BY <1>16, WithoutType DEF RemoveUser, TypeOK
  <2>5. req' \in [Requests -> Request] /\ HandlersOK'
    BY <1>16, NoRequestType, StoreType DEF RemoveUser
  <2> QED
    BY <1>14, <1>16, <2>2, <2>3, <2>4, <2>5 DEF RemoveUser, TypeOK
<1>17. ASSUME NEW r \in Requests, FailStatement(r) PROVE TypeOK' /\ HandlersOK'
  BY <1>17, AnswerType DEF FailStatement, TypeOK
<1>18. ASSUME NEW r \in Requests, SetPassword(r) PROVE TypeOK' /\ HandlersOK'
  <2>0. WithPassword(req[r].target, user[req[r].target].pw + 1) \in UserRow
    <3>1. req[r].target \in Users
      BY <1>18 DEF SetPassword, HandlersOK, HandlerOK
    <3> QED
      BY <3>1, RowType DEF WithPassword, UserRow
  <2>1. user' \in [Users -> UserRow]
    BY <1>18, <2>0 DEF SetPassword, TypeOK
  <2>2. session' \in [Sessions -> Session \cup {None}] /\ expired' \subseteq Sessions
    BY <1>18, WithoutType DEF SetPassword, TypeOK
  <2>3. login' \in [Logins -> Session \cup {None}]
    <3>1. req[r].target \in Users /\ user[req[r].target].pw + 1 \in Nat
      BY <1>18, RowType DEF SetPassword, HandlersOK, HandlerOK
    <3> QED
      BY <1>18, <3>1, OvertakenType DEF SetPassword
  <2> QED
    BY <1>18, <2>1, <2>2, <2>3, AnswerType DEF SetPassword, TypeOK
<1>19. ASSUME NEW r \in Requests, NEW k \in Keys, NEW scope \in Scopes,
              CreateAPIKey(r, k, scope)
       PROVE  TypeOK' /\ HandlersOK'
  <2>1. req[r].actor \in Users /\ req[r].actorRole \in Roles
    BY <1>19 DEF CreateAPIKey, HandlersOK, HandlerOK, TypeOK, Request
  <2>2. key' \in [Keys -> Key \cup {None}]
    BY <1>19, <2>1 DEF CreateAPIKey, TypeOK, Key
  <2> QED
    BY <1>19, <2>2, AnswerType DEF CreateAPIKey, TypeOK
<1>20. ASSUME NEW s \in Sessions, NEW k \in Keys, DeleteAPIKey(s, k)
       PROVE  TypeOK' /\ HandlersOK'
  BY <1>0, <1>20 DEF DeleteAPIKey, TypeOK, history
<1>21. CASE UNCHANGED vars
  BY <1>0, <1>21 DEF vars, TypeOK
<1> QED
  BY <1>1, <1>2, <1>3, <1>4, <1>5, <1>6, <1>7, <1>8, <1>9, <1>10, <1>11, <1>12, <1>13,
     <1>15, <1>16, <1>17, <1>18, <1>19, <1>20, <1>21 DEF Next

\* Users, sessions, keys and handlers keep their types (Accounts' TypeOK).
THEOREM TypeCorrect == Spec => []TypeOK
<1>1. Init => TypeOK /\ HandlersOK
  BY TypeInit
<1>2. TypeOK /\ HandlersOK /\ [Next]_vars => (TypeOK /\ HandlersOK)'
  BY TypeStep
<1> QED
  BY <1>1, <1>2, PTL DEF Spec

-----------------------------------------------------------------------------
(* The last admin *)

\* If more than one admin is counted, one is left beside any given user.
LEMMA OneIsLeft ==
    ASSUME NEW u, Cardinality(ActiveAdmins) > 1
    PROVE  \E a \in ActiveAdmins : a # u
<1> SUFFICES ASSUME \A a \in ActiveAdmins : a = u PROVE FALSE
  OBVIOUS
<1>1. ActiveAdmins = {} \/ ActiveAdmins = {u}
  OBVIOUS
<1>2. Cardinality({}) = 0 /\ Cardinality({u}) = 1
  BY FS_EmptySet, FS_Singleton
<1> QED
  BY <1>1, <1>2

\* A step that writes no user and clears no request for its write.
LEMMA Quiet ==
    ASSUME TypeOK, GuardsHold, UNCHANGED <<user, overlapped>>,
           \A q \in Requests : req'[q].pc = "write" => req'[q] = req[q]
    PROVE  GuardsHold'
BY DEF GuardsHold, Safe, ActiveAdmin, Enabled, InTable

\* A step that changes a handler's record only, to one not cleared or safe.
LEMMA Cleared ==
    ASSUME TypeOK, GuardsHold, UNCHANGED <<user, overlapped>>,
           NEW r \in Requests, NEW q, req' = [req EXCEPT ![r] = q],
           overlapped = FALSE => q.pc # "write" \/ (Safe(r))'
    PROVE  GuardsHold'
<1>1. \A p \in Requests \ {r} : req'[p] = req[p]
  BY DEF TypeOK
<1>2. req'[r] = q
  BY DEF TypeOK
<1> QED
  BY <1>1, <1>2 DEF GuardsHold, Safe, ActiveAdmin, Enabled, InTable

\* The guards hold in every step.
LEMMA GuardsStep == IInv /\ [Next]_vars => GuardsHold'
<1> SUFFICES ASSUME TypeOK, HandlersOK, GuardsHold, [Next]_vars PROVE GuardsHold'
  BY DEF IInv
<1>a. ASSUME NEW r \in Requests, Answer(r), UNCHANGED <<user, overlapped>>
      PROVE  GuardsHold'
  BY <1>a, Cleared DEF Answer, NoRequest, Signed
<1>1. ASSUME UNCHANGED <<user, req, overlapped>> PROVE GuardsHold'
  BY <1>1, Quiet
<1>2. ASSUME NEW r \in Requests, NEW s \in Sessions,
             RequireAdmin(r, s) \/ RequireKeys(r, s) \/ ChangeOwnPassword(r, s)
      PROVE  GuardsHold'
  BY <1>2, Cleared DEF RequireAdmin, RequireKeys, ChangeOwnPassword, Begin, Signed,
                      ToPassword, Work, NoRequest
<1>3. ASSUME NEW r \in Requests, NEW u \in Users, NEW change,
             Load(r, u, change), change.pc # "write"
      PROVE  GuardsHold'
  BY <1>3, Cleared DEF Load, history
<1>4. ASSUME NEW r \in Requests, NEW u \in Users, NEW role \in AskedRoles \cup {None},
             NEW active \in BOOLEAN \cup {None}, NEW pw \in BOOLEAN,
             PatchUser(r, u, role, active, pw)
      PROVE  GuardsHold'
  BY <1>3, <1>4 DEF PatchUser, Work, ToPassword, NoRequest, Signed
<1>5. ASSUME NEW r \in Requests, NEW u \in Users, NEW role \in AskedRoles,
             AdminUserRole(r, u, role)
      PROVE  GuardsHold'
  BY <1>3, <1>5 DEF AdminUserRole, Work
<1>6. ASSUME NEW r \in Requests, NEW u \in Users,
             DeactivateUser(r, u) \/ RemoveInactive(r, u)
      PROVE  GuardsHold'
  BY <1>3, <1>6 DEF DeactivateUser, RemoveInactive, Work
<1>7. ASSUME NEW r \in Requests, NEW u \in Users, ActivateUser(r, u) PROVE GuardsHold'
  <2> DEFINE q == Work("write", u, "update", user[u].role, TRUE, TRUE, FALSE)
  <2>1. req' = [req EXCEPT ![r] = q] /\ UNCHANGED <<user, overlapped>>
    BY <1>7 DEF ActivateUser, Load, history
  <2>2. req'[r].active = TRUE /\ req'[r].role = user[u].role /\ req'[r].target = u
    BY <2>1 DEF TypeOK, Work
  <2>3. ASSUME overlapped = FALSE PROVE Safe(r)'
    <3>1. PICK a \in Users : ActiveAdmin(a)
      BY <2>3 DEF GuardsHold
    <3>2. CASE user[u].role = "admin"
      BY <2>2, <3>2 DEF Safe
    <3>3. CASE user[u].role # "admin"
      <4>1. a # u /\ ActiveAdmin(a)'
        BY <2>1, <3>1, <3>3 DEF ActiveAdmin, Enabled, InTable
      <4> QED
        BY <2>2, <4>1 DEF Safe
    <3> QED
      BY <3>2, <3>3
  <2> HIDE DEF q
  <2> QED
    BY <2>1, <2>3, Cleared
<1>8. ASSUME NEW r \in Requests, NEW u \in Users, NEW role \in AskedRoles,
             CreateUser(r, u, role)
      PROVE  GuardsHold'
  <2>1. \A a \in Users : ActiveAdmin(a) => ActiveAdmin(a)'
    BY <1>8 DEF CreateUser, ActiveAdmin, Enabled, InTable, TypeOK
  <2>2. \A p \in Requests : req'[p].pc = "write" => req'[p] = req[p]
    BY <1>8 DEF CreateUser, Answer, NoRequest, Signed, TypeOK
  <2> QED
    BY <1>8, <2>1, <2>2 DEF CreateUser, GuardsHold, Safe
<1>9. ASSUME NEW r \in Requests, NEW pc, Go(r, pc), UNCHANGED <<user, overlapped>>,
             overlapped = FALSE => pc # "write" \/ Safe(r)
      PROVE  GuardsHold'
  <2>1. \A p \in Requests \ {r} : req'[p] = req[p]
    BY <1>9 DEF Go, TypeOK
  <2>2. /\ req'[r].pc = pc /\ req'[r].target = req[r].target
        /\ req'[r].role = req[r].role /\ req'[r].active = req[r].active
    BY <1>9 DEF Go, TypeOK, Request
  <2>3. Safe(r) => Safe(r)'
    BY <1>9, <2>2 DEF Safe, ActiveAdmin, Enabled, InTable
  <2>4. \A p \in Requests \ {r} : Safe(p) => Safe(p)'
    BY <1>9, <2>1 DEF Safe, ActiveAdmin, Enabled, InTable
  <2>5. \A a \in Users : ActiveAdmin(a) => ActiveAdmin(a)'
    BY <1>9 DEF ActiveAdmin, Enabled, InTable
  <2> QED
    BY <1>9, <2>1, <2>2, <2>3, <2>4, <2>5 DEF GuardsHold
<1>10. ASSUME NEW r \in Requests, GuardUser(r) PROVE GuardsHold'
  <2> DEFINE u == req[r].target
             pc == IF ~ActiveAdmin(u) \/ (req[r].active /\ req[r].role = "admin")
                     THEN "write" ELSE "count"
  <2>1. Go(r, pc) /\ UNCHANGED <<user, overlapped>>
    BY <1>10 DEF GuardUser
  <2>2. ASSUME overlapped = FALSE, pc = "write" PROVE Safe(r)
    <3>1. PICK a \in Users : ActiveAdmin(a)
      BY <2>2 DEF GuardsHold
    <3>2. ~ActiveAdmin(u) \/ (req[r].active = TRUE /\ req[r].role = "admin")
      <4>1. req[r].active \in BOOLEAN
        BY DEF TypeOK, Request
      <4> QED
        BY <2>2, <4>1
    <3> QED
      BY <3>1, <3>2 DEF Safe
  <2> HIDE DEF pc
  <2> QED
    BY <1>9, <2>1, <2>2
<1>11. ASSUME NEW r \in Requests, GuardCount(r) PROVE GuardsHold'
  <2>1. CASE Cardinality(ActiveAdmins) <= 1
    BY <1>11, <1>a, <2>1 DEF GuardCount
  <2>2. CASE ~(Cardinality(ActiveAdmins) <= 1)
    <3>1. Cardinality(ActiveAdmins) > 1
      <4>1. IsFiniteSet(ActiveAdmins)
        BY UsersAssumption, FS_Subset DEF ActiveAdmins
      <4>2. Cardinality(ActiveAdmins) \in Nat
        BY <4>1, FS_CardinalityType
      <4> QED
        BY <2>2, <4>2
    <3>2. Safe(r)
      BY <3>1, OneIsLeft DEF Safe, ActiveAdmins
    <3> QED
      BY <1>9, <1>11, <2>2, <3>2 DEF GuardCount
  <2> QED
    BY <2>1, <2>2
<1>12. ASSUME NEW r \in Requests, Overtake(r), overlapped' = FALSE
       PROVE  overlapped = FALSE /\ \A p \in Requests \ {r} : req[p].pc # "write"
  BY <1>12 DEF Overtake, TypeOK
<1>13. ASSUME NEW r \in Requests, UpdateUser(r) PROVE GuardsHold'
  <2> SUFFICES ASSUME overlapped' = FALSE
               PROVE  /\ \E a \in Users : ActiveAdmin(a)'
                      /\ \A p \in Requests : req'[p].pc # "write"
    BY DEF GuardsHold
  <2>1. overlapped = FALSE /\ \A p \in Requests \ {r} : req[p].pc # "write"
    BY <1>12, <1>13 DEF UpdateUser
  <2>2. Safe(r) /\ req[r].target \in Users
    BY <1>13, <2>1 DEF UpdateUser, GuardsHold, HandlersOK, HandlerOK
  <2>3. \A p \in Requests : req'[p].pc # "write"
    BY <1>13, <2>1 DEF UpdateUser, ToPassword, Work, NoRequest, Signed, TypeOK
  <2>4. CASE req[r].active = TRUE /\ req[r].role = "admin"
    <3>1. PICK t \in Users : t = req[r].target
      BY <2>2
    <3>2. user'[t] = [state |-> "row", role |-> req[r].role, active |-> req[r].active,
                      pw |-> user[t].pw]
      BY <1>13, <3>1 DEF UpdateUser, TypeOK
    <3>3. user'[t].state = "row" /\ user'[t].role = "admin" /\ user'[t].active = TRUE
      BY <2>4, <3>2
    <3>4. ActiveAdmin(t)'
      BY <3>3 DEF ActiveAdmin, Enabled, InTable
    <3> QED
      BY <2>3, <3>4
  <2>5. CASE \E a \in Users : a # req[r].target /\ ActiveAdmin(a)
    BY <1>13, <2>3, <2>5 DEF UpdateUser, ActiveAdmin, Enabled, InTable, TypeOK
  <2> QED
    BY <2>2, <2>4, <2>5 DEF Safe
<1>14. ASSUME NEW r \in Requests, RemoveUser(r) PROVE GuardsHold'
  <2> SUFFICES ASSUME overlapped' = FALSE
               PROVE  /\ \E a \in Users : ActiveAdmin(a)'
                      /\ \A p \in Requests : req'[p].pc # "write"
    BY DEF GuardsHold
  <2>1. overlapped = FALSE /\ \A p \in Requests \ {r} : req[p].pc # "write"
    BY <1>12, <1>14 DEF RemoveUser
  <2>2. Safe(r) /\ req[r].active = FALSE
    BY <1>14, <2>1 DEF RemoveUser, GuardsHold, HandlersOK, HandlerOK
  <2>3. \A p \in Requests : req'[p].pc # "write"
    BY <1>14, <2>1 DEF RemoveUser, NoRequest, Signed, TypeOK
  <2>4. PICK a \in Users : a # req[r].target /\ ActiveAdmin(a)
    BY <2>2 DEF Safe
  <2>5. ActiveAdmin(a)'
    BY <1>14, <2>4 DEF RemoveUser, ActiveAdmin, Enabled, InTable, TypeOK
  <2> QED
    BY <2>3, <2>5
<1>15. ASSUME NEW r \in Requests, SetPassword(r) PROVE GuardsHold'
  <2>1. req[r].target \in Users
    BY <1>15 DEF SetPassword, HandlersOK, HandlerOK
  <2>2. \A a \in Users : ActiveAdmin(a) => ActiveAdmin(a)'
    BY <1>15, <2>1 DEF SetPassword, WithPassword, ActiveAdmin, Enabled, InTable, TypeOK
  <2>3. \A p \in Requests : req'[p].pc = "write" => req'[p] = req[p]
    BY <1>15 DEF SetPassword, Answer, NoRequest, Signed, TypeOK
  <2> QED
    BY <1>15, <2>2, <2>3 DEF SetPassword, GuardsHold, Safe
<1>16. ASSUME NEW r \in Requests, FailStatement(r) PROVE GuardsHold'
  BY <1>16, <1>a DEF FailStatement
<1>17. ASSUME NEW r \in Requests, NEW k \in Keys, NEW scope \in Scopes,
              CreateAPIKey(r, k, scope)
       PROVE  GuardsHold'
  BY <1>17, <1>a DEF CreateAPIKey
<1>18. ASSUME NEW l \in Logins, NEW u \in Users, NEW p \in 0..MaxPassword,
              CheckPassword(l, u, p)
       PROVE  GuardsHold'
  BY <1>1, <1>18 DEF CheckPassword, history
<1>19. ASSUME NEW l \in Logins, FailCreateSession(l) PROVE GuardsHold'
  BY <1>1, <1>19 DEF FailCreateSession, history
<1>20. ASSUME NEW l \in Logins, NEW s \in Sessions, CreateSession(l, s) PROVE GuardsHold'
  BY <1>1, <1>20 DEF CreateSession, history
<1>21. ASSUME NEW s \in Sessions, Logout(s) \/ ExpireSession(s) PROVE GuardsHold'
  BY <1>1, <1>21 DEF Logout, ExpireSession, history
<1>22. ASSUME PurgeExpiredSessions PROVE GuardsHold'
  BY <1>1, <1>22 DEF PurgeExpiredSessions, history
<1>23. ASSUME NEW s \in Sessions, NEW k \in Keys, DeleteAPIKey(s, k) PROVE GuardsHold'
  BY <1>1, <1>23 DEF DeleteAPIKey, history
<1>24. CASE UNCHANGED vars
  BY <1>1, <1>24 DEF vars
<1> QED
  BY <1>2, <1>4, <1>5, <1>6, <1>7, <1>8, <1>10, <1>11, <1>13, <1>14, <1>15, <1>16,
     <1>17, <1>18, <1>19, <1>20, <1>21, <1>22, <1>23, <1>24 DEF Next

\* EnsureAdmin's user is an active admin.
LEMMA GuardsInit == Init => GuardsHold
<1> SUFFICES ASSUME Init PROVE GuardsHold
  OBVIOUS
<1>1. PICK a \in Users :
        user = [u \in Users |-> IF u = a THEN NewUser("admin") ELSE NoUser]
  BY DEF Init
<1>2. ActiveAdmin(a)
  BY <1>1 DEF NewUser, ActiveAdmin, Enabled, InTable
<1>3. \A r \in Requests : req[r].pc # "write"
  BY DEF Init, NoRequest, Signed
<1> QED
  BY <1>2, <1>3 DEF GuardsHold

\* In every behaviour there is an active admin, unless a user was written
\* between the guard and the write of another request (AdminRemains).
THEOREM AdminRemainsCorrect == Spec => []AdminRemains
<1>1. Init => IInv
  BY TypeInit, GuardsInit DEF IInv
<1>2. IInv /\ [Next]_vars => IInv'
  BY TypeStep, GuardsStep DEF IInv
<1>3. IInv => AdminRemains
  BY DEF IInv, TypeOK, GuardsHold, AdminRemains, ActiveAdmins
<1> QED
  BY <1>1, <1>2, <1>3, PTL DEF Spec

-----------------------------------------------------------------------------
(* Sessions and passwords *)

\* Session x is of a user that was created, and knows the user's password
\* or was overtaken by it.
Dated(x) ==
    /\ user[x.user].state # "free"
    /\ InTable(x.user) => user[x.user].pw \in {x.since, x.late}

\* So are the sessions, and those that logins under way are to insert.
AllDated ==
    /\ \A l \in Logins : login[l] # None => Dated(login[l])
    /\ \A s \in Sessions : session[s] # None => Dated(session[s])

SInv == TypeOK /\ HandlersOK /\ AllDated

\* A step that writes no password, uncreates no user and inserts no session
\* keeps sessions newer than the passwords.
LEMMA NoNewSession ==
    ASSUME SInv,
           \A s \in Sessions : session'[s] \in {session[s], None},
           \A l \in Logins : login'[l] \in {login[l], None},
           \A u \in Users : user[u].state # "free" =>
               /\ user'[u].state # "free"
               /\ user'[u].state = "row" => /\ user[u].state = "row"
                                           /\ user'[u].pw = user[u].pw
    PROVE  AllDated'
<1>1. \A s \in Sessions : session[s] # None => session[s].user \in Users
  BY SessionUserType DEF SInv
<1>2. \A l \in Logins : login[l] # None => login[l].user \in Users
  BY DEF SInv, TypeOK, Session
<1>3. \A s \in Sessions : session[s] # None => Dated(session[s])
  BY DEF SInv, AllDated
<1>4. \A l \in Logins : login[l] # None => Dated(login[l])
  BY DEF SInv, AllDated
<1>5. \A s \in Sessions : session'[s] # None => Dated(session[s])'
  BY <1>1, <1>3 DEF Dated, InTable
<1>6. \A l \in Logins : login'[l] # None => Dated(login[l])'
  BY <1>2, <1>4 DEF Dated, InTable
<1> QED
  BY <1>5, <1>6 DEF AllDated

\* Every step keeps sessions newer than the passwords.
LEMMA NewerStep == SInv /\ [Next]_vars => AllDated'
<1> SUFFICES ASSUME SInv, [Next]_vars PROVE AllDated'
  OBVIOUS
<1> DEFINE Kept == AllDated'
<1>0. TypeOK /\ HandlersOK
  BY DEF SInv
<1>1. ASSUME UNCHANGED <<user, session, login>> PROVE Kept
  BY <1>1, NoNewSession
<1>2. ASSUME NEW l \in Logins, NEW u \in Users, NEW p \in 0..MaxPassword,
             CheckPassword(l, u, p)
      PROVE  Kept
  <2> DEFINE x == [user |-> u, since |-> p, late |-> p]
  <2>1. \A m \in Logins : login'[m] = login[m] \/ login'[m] = x
    BY <1>0, <1>2 DEF CheckPassword, TypeOK
  <2>2. user[u].state # "free" /\ user[u].pw = p /\ UNCHANGED <<user, session>>
    BY <1>2 DEF CheckPassword, Enabled, InTable
  <2>3. Dated(x)
    BY <2>2 DEF Dated
  <2> HIDE DEF x
  <2> QED
    BY <2>1, <2>2, <2>3 DEF SInv, AllDated, Dated, InTable
<1>3. ASSUME NEW l \in Logins, NEW s \in Sessions, CreateSession(l, s) PROVE Kept
  <2>1. PICK P \in {{}, OutOfDate} : session' = [Without(P) EXCEPT ![s] = login[l]]
    BY <1>3 DEF CreateSession
  <2>2. session'[s] = login[l] /\ \A t \in Sessions \ {s} : session'[t] \in {session[t], None}
    BY <2>1 DEF Without
  <2>3. UNCHANGED user /\ \A m \in Logins : login'[m] \in {login[m], None}
    BY <1>0, <1>3 DEF CreateSession, TypeOK
  <2>4. Dated(login[l])
    BY <1>3 DEF SInv, AllDated, CreateSession
  <2> QED
    BY <2>2, <2>3, <2>4 DEF SInv, AllDated, Dated, InTable
<1>4. ASSUME NEW l \in Logins, FailCreateSession(l) PROVE Kept
  BY <1>0, <1>4, NoNewSession DEF FailCreateSession, TypeOK
<1>5. ASSUME NEW s \in Sessions, Logout(s) \/ ExpireSession(s) PROVE Kept
  BY <1>1, <1>5, NoNewSession DEF Logout, ExpireSession, Without
<1>6. ASSUME PurgeExpiredSessions PROVE Kept
  BY <1>6, NoNewSession DEF PurgeExpiredSessions, Without
<1>7. ASSUME NEW r \in Requests, NEW s \in Sessions,
             RequireAdmin(r, s) \/ RequireKeys(r, s) \/ ChangeOwnPassword(r, s)
      PROVE  Kept
  BY <1>1, <1>7 DEF RequireAdmin, RequireKeys, Begin, ChangeOwnPassword
<1>8. ASSUME NEW r \in Requests, NEW u \in Users, NEW change, Load(r, u, change) PROVE Kept
  BY <1>1, <1>8 DEF Load
<1>9. ASSUME NEW r \in Requests, NEW u \in Users, NEW role \in AskedRoles \cup {None},
             NEW active \in BOOLEAN \cup {None}, NEW pw \in BOOLEAN,
             PatchUser(r, u, role, active, pw)
      PROVE  Kept
  BY <1>8, <1>9 DEF PatchUser
<1>10. ASSUME NEW r \in Requests, NEW u \in Users, NEW role \in AskedRoles,
              AdminUserRole(r, u, role)
       PROVE  Kept
  BY <1>8, <1>10 DEF AdminUserRole
<1>11. ASSUME NEW r \in Requests, NEW u \in Users,
              DeactivateUser(r, u) \/ ActivateUser(r, u) \/ RemoveInactive(r, u)
       PROVE  Kept
  BY <1>8, <1>11 DEF DeactivateUser, ActivateUser, RemoveInactive
<1>12. ASSUME NEW r \in Requests, NEW u \in Users, NEW role \in AskedRoles,
              CreateUser(r, u, role)
       PROVE  Kept
  <2>1. \A v \in Users : user[v].state # "free" => user'[v] = user[v]
    BY <1>0, <1>12 DEF CreateUser, TypeOK
  <2> QED
    BY <1>12, <2>1, NoNewSession DEF CreateUser
<1>13. ASSUME NEW r \in Requests,
              GuardUser(r) \/ GuardCount(r) \/ FailStatement(r)
       PROVE  Kept
  BY <1>1, <1>13 DEF GuardUser, GuardCount, FailStatement
<1>14. ASSUME NEW r \in Requests, UpdateUser(r) PROVE Kept
  <2>1. req[r].target \in Users
    BY <1>0, <1>14 DEF UpdateUser, HandlersOK, HandlerOK
  <2>2. \A v \in Users : \/ user'[v] = user[v]
                         \/ /\ user[v].state = "row" /\ user'[v].state = "row"
                            /\ user'[v].pw = user[v].pw
    BY <1>0, <1>14, <2>1 DEF UpdateUser, InTable, TypeOK
  <2> QED
    BY <1>14, <2>2, NoNewSession DEF UpdateUser
<1>15. ASSUME NEW r \in Requests, RemoveUser(r) PROVE Kept
  <2>1. \A v \in Users : user'[v] = user[v] \/ user'[v].state = "gone"
    BY <1>0, <1>15 DEF RemoveUser, GoneUser, TypeOK
  <2> QED
    BY <1>15, <2>1, NoNewSession DEF RemoveUser, Without
<1>16. ASSUME NEW r \in Requests, SetPassword(r) PROVE Kept
  <2> DEFINE u == req[r].target
  <2>1. u \in Users
    BY <1>0, <1>16 DEF SetPassword, HandlersOK, HandlerOK
  <2>2. /\ user'[u].state = user[u].state
        /\ \A v \in Users \ {u} : user'[v] = user[v]
    BY <1>0, <1>16, <2>1 DEF SetPassword, WithPassword, TypeOK
  <2>3. \A s \in Sessions : \/ session'[s] = None
                            \/ /\ session'[s] = session[s]
                               /\ session[s] # None => session[s].user # u
    BY <1>16 DEF SetPassword, Without, SessionsOf
  <2>4. /\ user'[u].pw = user[u].pw + 1
        /\ \A l \in Logins : \/ login'[l] = [user |-> u, since |-> login[l].since,
                                             late |-> user[u].pw + 1]
                             \/ /\ login'[l] = login[l]
                                /\ login[l] # None => login[l].user # u
    BY <1>0, <1>16, <2>1 DEF SetPassword, Overtaken, WithPassword, TypeOK
  <2>5. user[u].state # "free"
    BY <1>16 DEF SetPassword, InTable
  <2> HIDE DEF u
  <2>6. ASSUME NEW s \in Sessions, session'[s] # None PROVE Dated(session[s])'
    <3>1. session[s] # None /\ session[s].user \in Users \ {u} /\ session'[s] = session[s]
      BY <1>0, <2>3, <2>6, SessionUserType
    <3>2. Dated(session[s])
      BY <3>1 DEF SInv, AllDated
    <3> QED
      BY <2>2, <3>1, <3>2 DEF Dated, InTable
  <2>7. ASSUME NEW l \in Logins, login'[l] # None PROVE Dated(login[l])'
    <3>1. CASE login'[l] = [user |-> u, since |-> login[l].since, late |-> user[u].pw + 1]
      <4>1. login'[l].user = u /\ login'[l].late = user[u].pw + 1
        BY <3>1
      <4> QED
        BY <2>2, <2>4, <2>5, <4>1 DEF Dated
    <3>2. CASE login'[l] = login[l] /\ login[l].user # u
      <4>1. Dated(login[l]) /\ login[l].user \in Users \ {u}
        BY <1>0, <2>7, <3>2 DEF SInv, AllDated, TypeOK, Session
      <4> QED
        BY <2>2, <3>2, <4>1 DEF Dated, InTable
    <3> QED
      BY <2>4, <2>7, <3>1, <3>2
  <2> QED
    BY <2>6, <2>7 DEF AllDated
<1>17. ASSUME NEW r \in Requests, NEW k \in Keys, NEW scope \in Scopes,
              CreateAPIKey(r, k, scope)
       PROVE  Kept
  BY <1>1, <1>17 DEF CreateAPIKey
<1>18. ASSUME NEW s \in Sessions, NEW k \in Keys, DeleteAPIKey(s, k) PROVE Kept
  BY <1>1, <1>18 DEF DeleteAPIKey
<1>19. CASE UNCHANGED vars
  BY <1>1, <1>19 DEF vars
<1> QED
  BY <1>2, <1>3, <1>4, <1>5, <1>6, <1>7, <1>9, <1>10, <1>11, <1>12, <1>13, <1>14, <1>15,
     <1>16, <1>17, <1>18, <1>19 DEF Next

\* A session was opened with its user's present password, or by a login that
\* was under way when that password was set (SessionsAreNewer), for any number
\* of logins, requests and password changes.
THEOREM SessionsAreNewerCorrect == Spec => []SessionsAreNewer
<1>1. Init => SInv
  BY TypeInit DEF Init, AllDated, SInv
<1>2. SInv /\ [Next]_vars => SInv'
  BY TypeStep, NewerStep DEF SInv
<1>3. SInv => SessionsAreNewer
  BY DEF SInv, AllDated, Dated, SessionsAreNewer
<1> QED
  BY <1>1, <1>2, <1>3, PTL DEF Spec

-----------------------------------------------------------------------------
(* API keys *)

\* What a key permits, a session with the same role permits.
LEMMA KeyWithinRole ==
    ASSUME NEW role, NEW perm, NEW scope, canAPIKey(role, perm, scope)
    PROVE  canSession(role, perm)
<1>1. CASE perm = "archives:write" /\ role \in {"uploader", "admin"}
  BY <1>1 DEF canSession
<1>2. CASE perm = "archives:read" /\ role \in Roles
  BY <1>2 DEF canSession
<1>3. CASE perm = "audit:read" /\ role \in Roles
  BY <1>3 DEF canSession
<1> QED
  BY <1>1, <1>2, <1>3 DEF canAPIKey

\* Whatever happened to its owner's role since createAPIKeyForUser, a valid
\* key permits nothing that the owner's session would not (KeyGivesNoMore).
THEOREM KeyGivesNoMoreCorrect == Spec => []KeyGivesNoMore
<1>1. KeyGivesNoMore
  BY KeyWithinRole DEF KeyGivesNoMore, KeyRole
<1> QED
  BY <1>1, PTL

-----------------------------------------------------------------------------
(* Reactivation *)

\* A request that stands between loading its user and writing it.
Loaded(r) == req[r].pc \in {"guard", "count", "write"}

\* A request that will write an active user without being asked to found the
\* user active, and the user still is, unless somebody else wrote it.
FlagFresh(r) ==
    Loaded(r) /\ req[r].active = TRUE /\ req[r].asked = FALSE /\ r \notin stale
        => user[req[r].target].active = TRUE
FlagsFresh == \A r \in Requests : FlagFresh(r)

RInv == TypeOK /\ HandlersOK /\ FlagsFresh

\* A step that deactivates nobody and loads nothing for a request keeps its
\* flag fresh.
LEMMA StaysFresh ==
    ASSUME RInv,
           \A u \in Users : user[u].active = TRUE => user'[u].active = TRUE,
           \A r \in Requests :
               \/ req'[r].pc \notin {"guard", "count", "write"}
               \/ /\ r \in stale <=> r \in stale'
                  /\ Loaded(r)
                  /\ req'[r].active = req[r].active /\ req'[r].asked = req[r].asked
                  /\ req'[r].target = req[r].target
    PROVE  FlagsFresh'
<1>1. \A r \in Requests : Loaded(r) => req[r].target \in Users
  BY DEF RInv, HandlersOK, HandlerOK, Loaded
<1> QED
  BY <1>1 DEF RInv, FlagsFresh, FlagFresh, Loaded

\* An answer makes no request stale or fresh but the one that ends.
LEMMA AnswerFresh ==
    ASSUME RInv, NEW r \in Requests, Answer(r),
           \A u \in Users : user[u].active = TRUE => user'[u].active = TRUE
    PROVE  FlagsFresh'
<1>1. /\ req'[r] = NoRequest /\ \A q \in Requests \ {r} : req'[q] = req[q]
      /\ stale' = stale \ {r}
  BY DEF Answer, RInv, TypeOK
<1>2. req'[r].pc \notin {"guard", "count", "write"}
  BY <1>1 DEF NoRequest, Signed
<1>3. \A q \in Requests : req'[q].pc \in {"guard", "count", "write"} => q # r
  BY <1>2
<1> QED
  BY <1>1, <1>3, StaysFresh DEF Loaded

\* Storing a record without a loaded user in an idle handler's place.
LEMMA StoreFresh ==
    ASSUME RInv, NEW r \in Requests, NEW q, req' = [req EXCEPT ![r] = q],
           q.pc \notin {"guard", "count", "write"}, UNCHANGED <<user, stale>>
    PROVE  FlagsFresh'
<1>1. req'[r] = q /\ \A p \in Requests \ {r} : req'[p] = req[p]
  BY DEF RInv, TypeOK
<1> QED
  BY <1>1, StaysFresh DEF Loaded

\* A handler that loads a user keeps its flag, or was asked for another.
LEMMA LoadFresh ==
    ASSUME RInv, NEW r \in Requests, NEW u \in Users, NEW change, Load(r, u, change),
           change.pc \in {"guard", "write"} =>
               /\ change.target = u
               /\ change.active = TRUE /\ change.asked = FALSE => user[u].active = TRUE,
           change.pc \in {"idle", "guard", "write", "password"}
    PROVE  FlagsFresh'
<1>1. req'[r] = change /\ \A p \in Requests \ {r} : req'[p] = req[p]
  BY DEF RInv, TypeOK, Load
<1>2. UNCHANGED <<user, stale>>
  BY DEF Load, history
<1> QED
  BY <1>1, <1>2 DEF RInv, FlagsFresh, FlagFresh, Loaded

\* The record a handler makes of its request keeps what it was given.
LEMMA WorkFresh ==
    ASSUME RInv, NEW r \in Requests, NEW u \in Users, NEW pc \in {"guard", "write"}, NEW op,
           NEW role, NEW active, NEW asked, NEW pw,
           Load(r, u, Work(pc, u, op, role, active, asked, pw)),
           active = TRUE /\ asked = FALSE => user[u].active = TRUE
    PROVE  FlagsFresh'
<1> DEFINE w == Work(pc, u, op, role, active, asked, pw)
<1>1. w.pc = pc /\ w.target = u /\ w.active = active /\ w.asked = asked
  BY DEF Work
<1>2. Load(r, u, w)
  OBVIOUS
<1> HIDE DEF w
<1> QED
  BY <1>1, <1>2, LoadFresh

\* A write by r: whoever had loaded the same user is stale from now on.
LEMMA OvertakeFresh ==
    ASSUME RInv, NEW r \in Requests, Overtake(r), NEW q, req' = [req EXCEPT ![r] = q],
           q.pc \notin {"guard", "count", "write"},
           \A u \in Users : u # req[r].target => user'[u] = user[u]
    PROVE  FlagsFresh'
<1>1. req'[r] = q /\ \A p \in Requests \ {r} : req'[p] = req[p]
  BY DEF RInv, TypeOK
<1>2. ASSUME NEW p \in Requests \ {r}, Loaded(p), p \notin stale'
      PROVE  p \notin stale /\ req[p].target \in Users /\ req[p].target # req[r].target
  BY <1>2 DEF Overtake, Loaded, RInv, HandlersOK, HandlerOK
<1> QED
  BY <1>1, <1>2 DEF RInv, FlagsFresh, FlagFresh, Loaded

\* Every step keeps the flags fresh.
LEMMA FreshStep == RInv /\ [Next]_vars => FlagsFresh'
<1> SUFFICES ASSUME RInv, [Next]_vars PROVE FlagsFresh'
  OBVIOUS
<1>0. TypeOK /\ HandlersOK
  BY DEF RInv
<1>1. ASSUME UNCHANGED <<user, req, stale>> PROVE FlagsFresh'
  BY <1>1 DEF RInv, FlagsFresh, FlagFresh, Loaded
<1>2. ASSUME NEW l \in Logins, NEW u \in Users, NEW p \in 0..MaxPassword,
             CheckPassword(l, u, p)
      PROVE  FlagsFresh'
  BY <1>1, <1>2 DEF CheckPassword, history
<1>3. ASSUME NEW l \in Logins, NEW s \in Sessions, CreateSession(l, s) PROVE FlagsFresh'
  BY <1>1, <1>3 DEF CreateSession, history
<1>4. ASSUME NEW l \in Logins, FailCreateSession(l) PROVE FlagsFresh'
  BY <1>1, <1>4 DEF FailCreateSession, history
<1>5. ASSUME NEW s \in Sessions, Logout(s) \/ ExpireSession(s) PROVE FlagsFresh'
  BY <1>1, <1>5 DEF Logout, ExpireSession, history
<1>6. ASSUME PurgeExpiredSessions PROVE FlagsFresh'
  BY <1>1, <1>6 DEF PurgeExpiredSessions, history
<1>7. ASSUME NEW r \in Requests, NEW s \in Sessions, RequireAdmin(r, s) \/ RequireKeys(r, s)
      PROVE  FlagsFresh'
  <2>1. PICK pc, a, role :
           pc \in {"load", "key"} /\ req' = [req EXCEPT ![r] = Signed(pc, a, role)]
    BY <1>7 DEF RequireAdmin, RequireKeys, Begin
  <2>2. UNCHANGED <<user, stale>>
    BY <1>7 DEF RequireAdmin, RequireKeys, Begin
  <2>3. Signed(pc, a, role).pc = pc
    BY DEF Signed
  <2> QED
    BY <2>1, <2>2, <2>3, StoreFresh
<1>8. \A u, pw : ToPassword(u, pw).pc \in {"password", "idle"}
  BY DEF ToPassword, Work, NoRequest, Signed
<1>9. ASSUME NEW r \in Requests, NEW s \in Sessions, ChangeOwnPassword(r, s)
      PROVE  FlagsFresh'
  BY <1>8, <1>9, StoreFresh DEF ChangeOwnPassword
<1>10. ASSUME NEW r \in Requests, NEW u \in Users, NEW role \in AskedRoles \cup {None},
              NEW active \in BOOLEAN \cup {None}, NEW pw \in BOOLEAN,
              PatchUser(r, u, role, active, pw)
       PROVE  FlagsFresh'
  <2> DEFINE newRole == IF role = None THEN user[u].role ELSE role
             newActive == IF active = None THEN user[u].active ELSE active
             asked == IF active = None THEN FALSE ELSE active
  <2>1. newActive = TRUE /\ asked = FALSE => user[u].active = TRUE
    OBVIOUS
  <2>2. \/ Load(r, u, ToPassword(u, pw))
        \/ Load(r, u, Work("guard", u, "update", newRole, newActive, asked, pw))
    BY <1>10 DEF PatchUser
  <2> HIDE DEF newRole, newActive, asked
  <2>3. CASE Load(r, u, ToPassword(u, pw))
    BY <1>8, <2>3, LoadFresh
  <2>4. CASE Load(r, u, Work("guard", u, "update", newRole, newActive, asked, pw))
    BY <2>1, <2>4, WorkFresh
  <2> QED
    BY <2>2, <2>3, <2>4
<1>11. ASSUME NEW r \in Requests, NEW u \in Users, NEW role \in AskedRoles,
              AdminUserRole(r, u, role)
       PROVE  FlagsFresh'
  <2>1. user[u].active = TRUE /\ FALSE = FALSE => user[u].active = TRUE
    OBVIOUS
  <2> QED
    BY <1>11, <2>1, WorkFresh DEF AdminUserRole
<1>12. ASSUME NEW r \in Requests, NEW u \in Users,
              DeactivateUser(r, u) \/ ActivateUser(r, u) \/ RemoveInactive(r, u)
       PROVE  FlagsFresh'
  <2>1. CASE DeactivateUser(r, u) \/ RemoveInactive(r, u)
    BY <2>1, WorkFresh DEF DeactivateUser, RemoveInactive
  <2>2. CASE ActivateUser(r, u)
    BY <2>2, WorkFresh DEF ActivateUser
  <2> QED
    BY <1>12, <2>1, <2>2
<1>13. ASSUME NEW r \in Requests, NEW u \in Users, NEW role \in AskedRoles,
              CreateUser(r, u, role)
       PROVE  FlagsFresh'
  <2>1. \A v \in Users : user[v].active = TRUE => user'[v].active = TRUE
    BY <1>0, <1>13 DEF CreateUser, NewUser, TypeOK
  <2> QED
    BY <1>13, <2>1, AnswerFresh DEF CreateUser
<1>14. ASSUME NEW r \in Requests, GuardUser(r) \/ GuardCount(r)
       PROVE  FlagsFresh'
  <2>1. UNCHANGED user /\ Loaded(r)
    BY <1>14 DEF GuardUser, GuardCount, Loaded
  <2>2. Answer(r) \/ Go(r, "write") \/ Go(r, "count")
    BY <1>14 DEF GuardUser, GuardCount
  <2>3. CASE Answer(r)
    BY <2>1, <2>3, AnswerFresh
  <2>4. ASSUME NEW pc \in {"write", "count"}, Go(r, pc)
        PROVE  FlagsFresh'
    <3>1. /\ \A q \in Requests \ {r} : req'[q] = req[q]
          /\ req'[r].active = req[r].active /\ req'[r].asked = req[r].asked
          /\ req'[r].target = req[r].target /\ stale' = stale
      BY <1>0, <2>4 DEF Go, TypeOK, Request
    <3> QED
      BY <2>1, <3>1, StaysFresh DEF Loaded
  <2> QED
    BY <2>2, <2>3, <2>4
<1>15. ASSUME NEW r \in Requests, UpdateUser(r)
       PROVE  FlagsFresh'
  <2>1. \A u \in Users : u # req[r].target => user'[u] = user[u]
    BY <1>0, <1>15 DEF UpdateUser, TypeOK
  <2> QED
    BY <1>8, <1>15, <2>1, OvertakeFresh DEF UpdateUser
<1>16. ASSUME NEW r \in Requests, RemoveUser(r)
       PROVE  FlagsFresh'
  <2>1. \A u \in Users : u # req[r].target => user'[u] = user[u]
    BY <1>0, <1>16 DEF RemoveUser, TypeOK
  <2>2. NoRequest.pc = "idle"
    BY DEF NoRequest, Signed
  <2> QED
    BY <1>16, <2>1, <2>2, OvertakeFresh DEF RemoveUser
<1>17. ASSUME NEW r \in Requests, FailStatement(r)
       PROVE  FlagsFresh'
  BY <1>17, AnswerFresh DEF FailStatement
<1>18. ASSUME NEW r \in Requests, SetPassword(r)
       PROVE  FlagsFresh'
  <2>1. \A v \in Users : user[v].active = TRUE => user'[v].active = TRUE
    BY <1>0, <1>18 DEF SetPassword, WithPassword, TypeOK
  <2> QED
    BY <1>18, <2>1, AnswerFresh DEF SetPassword
<1>19. ASSUME NEW r \in Requests, NEW k \in Keys, NEW scope \in Scopes,
              CreateAPIKey(r, k, scope)
       PROVE  FlagsFresh'
  BY <1>19, AnswerFresh DEF CreateAPIKey
<1>20. ASSUME NEW s \in Sessions, NEW k \in Keys, DeleteAPIKey(s, k) PROVE FlagsFresh'
  BY <1>1, <1>20 DEF DeleteAPIKey, history
<1>21. CASE UNCHANGED vars
  BY <1>1, <1>21 DEF vars
<1> QED
  BY <1>2, <1>3, <1>4, <1>5, <1>6, <1>7, <1>9, <1>10, <1>11, <1>12, <1>13, <1>14, <1>15,
     <1>16, <1>17, <1>18, <1>19, <1>20, <1>21 DEF Next

\* Only UpdateUser sets the active flag of a user that has a row.
LEMMA OnlyUpdateActivates ==
    ASSUME TypeOK, HandlersOK, [Next]_vars, NEW u \in Users, InTable(u),
           user[u].active = FALSE, user'[u].active = TRUE
    PROVE  \E r \in Requests : UpdateUser(r) /\ req[r].target = u
<1>1. user' # user
  OBVIOUS
<1>2. ASSUME NEW r \in Requests, NEW v \in Users, NEW role \in AskedRoles, CreateUser(r, v, role)
      PROVE  FALSE
  <2>1. v # u
    BY <1>2 DEF CreateUser, InTable
  <2> QED
    BY <1>2, <2>1 DEF CreateUser, TypeOK
<1>3. ASSUME NEW r \in Requests, RemoveUser(r)
      PROVE  FALSE
  BY <1>3 DEF RemoveUser, GoneUser, TypeOK
<1>4. ASSUME NEW r \in Requests, SetPassword(r)
      PROVE  FALSE
  BY <1>4 DEF SetPassword, WithPassword, TypeOK
<1>5. ASSUME NEW r \in Requests, UpdateUser(r)
      PROVE  req[r].target = u
  BY <1>5 DEF UpdateUser, TypeOK
<1>6. \A l \in Logins, v \in Users, p \in 0..MaxPassword : CheckPassword(l, v, p) => user' = user
  BY DEF CheckPassword
<1>7. \A l \in Logins : /\ FailCreateSession(l) => user' = user
                        /\ \A s \in Sessions : CreateSession(l, s) => user' = user
  BY DEF FailCreateSession, CreateSession
<1>8. /\ \A s \in Sessions : Logout(s) \/ ExpireSession(s) => user' = user
      /\ PurgeExpiredSessions => user' = user
      /\ \A s \in Sessions, k \in Keys : DeleteAPIKey(s, k) => user' = user
  BY DEF Logout, ExpireSession, PurgeExpiredSessions, DeleteAPIKey
<1>9. \A r \in Requests, s \in Sessions :
         RequireAdmin(r, s) \/ ChangeOwnPassword(r, s) \/ RequireKeys(r, s) => user' = user
  BY DEF RequireAdmin, RequireKeys, Begin, ChangeOwnPassword
<1>10. \A r \in Requests, v \in Users :
         /\ \A role, active, pw : PatchUser(r, v, role, active, pw) => user' = user
         /\ \A role \in AskedRoles : AdminUserRole(r, v, role) => user' = user
         /\ DeactivateUser(r, v) \/ ActivateUser(r, v) \/ RemoveInactive(r, v) => user' = user
  <2>1. ASSUME NEW r \in Requests, NEW v \in Users, NEW role, NEW active, NEW pw,
               PatchUser(r, v, role, active, pw)
        PROVE  user' = user
    BY <2>1 DEF PatchUser, Load
  <2>2. ASSUME NEW r \in Requests, NEW v \in Users, NEW role \in AskedRoles,
               AdminUserRole(r, v, role)
        PROVE  user' = user
    BY <2>2 DEF AdminUserRole, Load
  <2>3. ASSUME NEW r \in Requests, NEW v \in Users,
               DeactivateUser(r, v) \/ ActivateUser(r, v) \/ RemoveInactive(r, v)
        PROVE  user' = user
    BY <2>3 DEF DeactivateUser, ActivateUser, RemoveInactive, Load
  <2> QED
    BY <2>1, <2>2, <2>3
<1>11. \A r \in Requests :
         /\ GuardUser(r) \/ GuardCount(r) \/ FailStatement(r) => user' = user
         /\ \A k \in Keys, scope \in Scopes : CreateAPIKey(r, k, scope) => user' = user
  BY DEF GuardUser, GuardCount, FailStatement, CreateAPIKey
<1>12. UNCHANGED vars => user' = user
  BY DEF vars
<1> QED
  BY <1>1, <1>2, <1>3, <1>4, <1>5, <1>6, <1>7, <1>8, <1>9, <1>10, <1>11, <1>12 DEF Next

\* Nobody becomes active again by the way: a deactivated user is written
\* active only by a request that asks for it, or by one that loaded the user
\* before another request wrote it (ReactivationIsAsked), for any number of
\* concurrent requests.
THEOREM ReactivationIsAskedCorrect == Spec => ReactivationIsAsked
<1>1. Init => RInv
  <2> SUFFICES ASSUME Init PROVE RInv
    OBVIOUS
  <2>1. \A r \in Requests : req[r] = NoRequest
    BY DEF Init
  <2>2. NoRequest.pc = "idle"
    BY DEF NoRequest, Signed
  <2> QED
    BY <2>1, <2>2, TypeInit DEF RInv, FlagsFresh, FlagFresh, Loaded
<1>2. RInv /\ [Next]_vars => RInv'
  BY TypeStep, FreshStep DEF RInv
<1>3. ASSUME RInv, RInv', [Next]_vars
      PROVE  [\A u \in Users : InTable(u) /\ ~user[u].active /\ user'[u].active =>
                \E r \in Requests : /\ req[r].pc = "write" /\ req'[r].pc # "write"
                                    /\ req[r].target = u
                                    /\ req[r].asked \/ r \in stale]_vars
  <2> SUFFICES ASSUME NEW u \in Users, InTable(u), ~user[u].active, user'[u].active
               PROVE  \E r \in Requests : /\ req[r].pc = "write" /\ req'[r].pc # "write"
                                          /\ req[r].target = u
                                          /\ req[r].asked \/ r \in stale
    OBVIOUS
  <2>1. user[u].active \in BOOLEAN /\ user'[u].active \in BOOLEAN
    BY <1>3 DEF RInv, TypeOK, UserRow
  <2>2. user[u].active = FALSE /\ user'[u].active = TRUE
    BY <2>1
  <2>3. PICK r \in Requests : UpdateUser(r) /\ req[r].target = u
    BY <1>3, <2>2, OnlyUpdateActivates DEF RInv
  <2>4. req[r].pc = "write" /\ req[r].active = TRUE
    BY <1>3, <2>2, <2>3 DEF UpdateUser, RInv, TypeOK
  <2>5. req[r].asked = TRUE \/ req[r].asked = FALSE
    BY <1>3 DEF RInv, TypeOK, Request
  <2>6. req[r].asked = TRUE \/ r \in stale
    BY <1>3, <2>2, <2>3, <2>4, <2>5 DEF RInv, FlagsFresh, FlagFresh, Loaded
  <2>7. req'[r].pc # "write"
    BY <1>3, <2>3 DEF UpdateUser, ToPassword, Work, NoRequest, Signed, RInv, TypeOK
  <2> QED
    BY <2>3, <2>4, <2>6, <2>7
<1> QED
  BY <1>1, <1>2, <1>3, PTL DEF Spec, ReactivationIsAsked
=============================================================================
