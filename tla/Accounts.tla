------------------------------ MODULE Accounts ------------------------------
(***************************************************************************)
(* Users, sessions and API keys.  Every administrative request is a chain  *)
(* of statements without a transaction around them: authenticate, load the *)
(* user, ask GuardLastAdmin (which reads the user again and counts the     *)
(* admins), write role and active back as they were loaded or asked for.   *)
(* A login checks the password and inserts the session later.  Requests    *)
(* interleave between any two statements, and every statement may fail.    *)
(*                                                                         *)
(* Abstractions: a password is a version number; user names, display names *)
(* and audit rows carry no control.  A request that ends frees its slot,   *)
(* and a deleted token or key frees its place for a fresh one.  User ids   *)
(* are AUTOINCREMENT and never used again.  PRAGMA foreign_keys is set on  *)
(* one connection of the pool only, so a session or key of a user removed  *)
(* meanwhile may or may not be refused.                                    *)
(***************************************************************************)
EXTENDS Naturals, FiniteSets

CONSTANTS
    Users,       \* user ids
    AskedRoles,  \* the roles requests name
    Sessions,    \* places for session tokens
    Keys,        \* places for API keys
    Logins,      \* concurrent login requests
    Requests,    \* concurrent requests of signed-in users
    None,        \* no user, no row, a field the body leaves out
    MaxPassword, \* bound on the number of password changes of a user
    MaxRequests  \* bound on the number of requests of signed-in users

Roles == {"viewer", "uploader", "admin"}

ASSUME RolesAssumption == AskedRoles \subseteq Roles
ASSUME UsersAssumption == IsFiniteSet(Users)
ASSUME NoneAssumption == None \notin Users
ASSUME BoundAssumption == MaxPassword \in Nat /\ MaxRequests \in Nat

VARIABLES
    user,        \* users table; state "gone" is a removed row
    session,     \* sessions table
    expired,     \* sessions whose expires_at has passed
    key,         \* api_keys table
    login,       \* login handlers: the session they are to insert, or None
    req,         \* handlers of signed-in users
    made,        \* number of requests of signed-in users so far
    stale,       \* history: requests whose user was written since they loaded it
    overlapped   \* history: a user was written while another request was
                 \* between its guard and its write

vars == <<user, session, expired, key, login, req, made, stale, overlapped>>
history == <<made, stale, overlapped>>

Scopes == {"upload", "read"}
UserRow == [state : {"free", "row", "gone"}, role : Roles, active : BOOLEAN, pw : Nat]
\* History: the password that the login checked, and the last one set for the
\* user while the login was under way.
Session == [user : Users, since : Nat, late : Nat]
\* History: the role that the owner had when the key was made.
Key == [user : Users, scope : Scopes, role : Roles]
Request == [pc : {"idle", "load", "guard", "count", "write", "password", "key"},
            actor : Users \cup {None}, actorRole : Roles,
            target : Users \cup {None}, op : {"update", "remove"},
            role : Roles, active : BOOLEAN, asked : BOOLEAN, pw : BOOLEAN]

TypeOK ==
    /\ user \in [Users -> UserRow]
    /\ session \in [Sessions -> Session \cup {None}]
    /\ expired \subseteq Sessions
    /\ key \in [Keys -> Key \cup {None}]
    /\ login \in [Logins -> Session \cup {None}]
    /\ req \in [Requests -> Request]
    /\ made \in 0..MaxRequests
    /\ stale \subseteq Requests
    /\ overlapped \in BOOLEAN

\* A request of a: authorised, its user not yet loaded.
Signed(pc, a, role) ==
    [pc |-> pc, actor |-> a, actorRole |-> role, target |-> None, op |-> "update",
     role |-> "viewer", active |-> FALSE, asked |-> FALSE, pw |-> FALSE]
\* A request on user u, with what it will write.
Work(pc, u, op, role, active, asked, pw) ==
    [pc |-> pc, actor |-> None, actorRole |-> "viewer", target |-> u, op |-> op,
     role |-> role, active |-> active, asked |-> asked, pw |-> pw]
NoRequest == Signed("idle", None, "viewer")

NoUser == [state |-> "free", role |-> "viewer", active |-> FALSE, pw |-> 0]
GoneUser == [state |-> "gone", role |-> "viewer", active |-> FALSE, pw |-> 0]
NewUser(role) == [state |-> "row", role |-> role, active |-> TRUE, pw |-> 0]

\* EnsureAdmin has created the first admin in the empty table.
Init ==
    /\ \E a \in Users :
          user = [u \in Users |-> IF u = a THEN NewUser("admin") ELSE NoUser]
    /\ session = [s \in Sessions |-> None]
    /\ expired = {}
    /\ key = [k \in Keys |-> None]
    /\ login = [l \in Logins |-> None]
    /\ req = [r \in Requests |-> NoRequest]
    /\ made = 0
    /\ stale = {}
    /\ overlapped = FALSE

-----------------------------------------------------------------------------
(* Permissions and authentication *)

Perms == {"archives:read", "archives:write", "archives:delete", "audit:read",
          "users:manage", "apikeys:manage", "shares:manage"}

canSession(role, perm) ==
    CASE perm \in {"archives:read", "audit:read"} -> role \in Roles
      [] perm \in {"archives:write", "apikeys:manage"} -> role \in {"uploader", "admin"}
      [] perm \in {"archives:delete", "users:manage", "shares:manage"} -> role = "admin"

canAPIKey(role, perm, scope) ==
    \/ perm = "archives:write" /\ scope = "upload" /\ role \in {"uploader", "admin"}
    \/ perm \in {"archives:read", "audit:read"} /\ scope = "read" /\ role \in Roles

InTable(u) == user[u].state = "row"
Enabled(u) == InTable(u) /\ user[u].active

\* UserBySessionHash finds the user.
SessionValid(s) == session[s] # None /\ s \notin expired /\ Enabled(session[s].user)

\* AuthByAPIKeyHash finds the owner.
KeyValid(k) == key[k] # None /\ Enabled(key[k].user)

\* Mutant: the key keeps the role its owner had.
KeyRole_AtCreation(k) == key[k].role

\* The role a request with the key acts with: the JOIN reads the owner's row.
KeyRole(k) == user[key[k].user].role

-----------------------------------------------------------------------------
(* Login, logout, expiry *)

\* handleLoginPOST: UserByUsername, CheckPassword, the active flag.
CheckPassword(l, u, p) ==
    /\ login[l] = None
    /\ user[u].pw = p /\ Enabled(u)
    /\ login' = [login EXCEPT ![l] = [user |-> u, since |-> p, late |-> p]]
    /\ UNCHANGED <<user, session, expired, key, req, history>>

OutOfDate == {s \in expired : session[s] # None}
Without(S) == [s \in Sessions |-> IF s \in S THEN None ELSE session[s]]

\* The session row, then the opportunistic purge, which may fail.
CreateSession(l, s) ==
    /\ login[l] # None
    /\ session[s] = None
    /\ \E P \in {{}, OutOfDate} :
          /\ session' = [Without(P) EXCEPT ![s] = login[l]]
          /\ expired' = expired \ (P \cup {s})
    /\ login' = [login EXCEPT ![l] = None]
    /\ UNCHANGED <<user, key, req, history>>

FailCreateSession(l) ==
    /\ login[l] # None
    /\ login' = [login EXCEPT ![l] = None]
    /\ UNCHANGED <<user, session, expired, key, req, history>>

\* handleLogout behind requireAuth: a request may show a key, and the cookie
\* of any session with it.
Logout(s) ==
    /\ SessionValid(s) \/ \E k \in Keys : KeyValid(k)
    /\ session[s] # None
    /\ session' = Without({s})
    /\ expired' = expired \ {s}
    /\ UNCHANGED <<user, key, login, req, history>>

\* Time passes the session's expires_at.
ExpireSession(s) ==
    /\ session[s] # None /\ s \notin expired
    /\ expired' = expired \cup {s}
    /\ UNCHANGED <<user, session, key, login, req, history>>

\* SweepOnce: PurgeExpiredSessions.
PurgeExpiredSessions ==
    /\ OutOfDate # {}
    /\ session' = Without(OutOfDate)
    /\ expired' = {}
    /\ UNCHANGED <<user, key, login, req, history>>

-----------------------------------------------------------------------------
(* Requests: authorisation and the handlers up to their guard *)

\* The handler goes on to pc, or has answered.
Go(r, pc) == /\ req' = [req EXCEPT ![r].pc = pc]
             /\ UNCHANGED stale
Answer(r) == /\ req' = [req EXCEPT ![r] = NoRequest]
             /\ stale' = stale \ {r}

\* requirePermission: actor and role are those of this moment.
Begin(r, s, perm, pc) ==
    /\ req[r].pc = "idle" /\ made < MaxRequests
    /\ made' = made + 1
    /\ SessionValid(s)
    /\ LET a == session[s].user IN
         /\ canSession(user[a].role, perm)
         /\ req' = [req EXCEPT ![r] = Signed(pc, a, user[a].role)]
    /\ UNCHANGED <<user, session, expired, key, login, stale, overlapped>>

RequireAdmin(r, s) == Begin(r, s, "users:manage", "load")
RequireKeys(r, s) == Begin(r, s, "apikeys:manage", "key")

\* patchUserPassword: what is left to do for a request on user u.
ToPassword(u, pw) ==
    IF pw THEN Work("password", u, "update", "viewer", FALSE, FALSE, FALSE) ELSE NoRequest

\* UserByID: what the handler will write, should its guard agree.
Load(r, u, change) ==
    /\ req[r].pc = "load"
    /\ InTable(u)
    /\ req' = [req EXCEPT ![r] = change]
    /\ UNCHANGED <<user, session, expired, key, login, history>>

\* loadUserForPatch and patchUserRoleActive: what the body leaves out keeps
\* the value that was loaded.
PatchUser(r, u, role, active, pw) ==
    Load(r, u, IF role = None /\ active = None THEN ToPassword(u, pw)
               ELSE Work("guard", u, "update",
                         IF role = None THEN user[u].role ELSE role,
                         IF active = None THEN user[u].active ELSE active,
                         IF active = None THEN FALSE ELSE active,
                         pw))

\* Mutant: the form's handler writes an active user.
AdminUserRole_Activates(r, u, role) ==
    Load(r, u, Work("guard", u, "update", role, TRUE, FALSE, FALSE))

\* handleAdminUserRolePOST writes the loaded active flag back.
AdminUserRole(r, u, role) ==
    Load(r, u, Work("guard", u, "update", role, user[u].active, FALSE, FALSE))

\* handleDeleteUser, handleAdminUserDeactivatePOST
DeactivateUser(r, u) ==
    Load(r, u, Work("guard", u, "update", user[u].role, FALSE, FALSE, FALSE))

\* handleAdminUserActivatePOST asks no guard.
ActivateUser(r, u) ==
    Load(r, u, Work("write", u, "update", user[u].role, TRUE, TRUE, FALSE))

\* handleAdminUserRemovePOST: not oneself, and only an inactive user.
RemoveInactive(r, u) ==
    /\ u # req[r].actor /\ ~user[u].active
    /\ Load(r, u, Work("guard", u, "remove", user[u].role, FALSE, FALSE, FALSE))

\* handleCreateUser, handleAdminUsersCreatePOST; no role is the uploader's.
CreateUser(r, u, role) ==
    /\ req[r].pc = "load"
    /\ user[u].state = "free"
    /\ user' = [user EXCEPT ![u] = NewUser(role)]
    /\ Answer(r)
    /\ UNCHANGED <<session, expired, key, login, made, overlapped>>

-----------------------------------------------------------------------------
(* GuardLastAdmin and the writes *)

ActiveAdmin(u) == Enabled(u) /\ user[u].role = "admin"
ActiveAdmins == {u \in Users : ActiveAdmin(u)}

\* The first read: a change that takes no admin away needs no count.
GuardUser(r) ==
    LET u == req[r].target IN
    /\ req[r].pc = "guard"
    /\ InTable(u)
    /\ Go(r, IF ~ActiveAdmin(u) \/ (req[r].active /\ req[r].role = "admin")
               THEN "write" ELSE "count")
    /\ UNCHANGED <<user, session, expired, key, login, made, overlapped>>

\* Mutant: off by one.
GuardCount_OffByOne(r) ==
    /\ req[r].pc = "count"
    /\ IF Cardinality(ActiveAdmins) < 1 THEN Answer(r) ELSE Go(r, "write")
    /\ UNCHANGED <<user, session, expired, key, login, made, overlapped>>

\* CountActiveAdmins; ErrLastAdmin.
GuardCount(r) ==
    /\ req[r].pc = "count"
    /\ IF Cardinality(ActiveAdmins) <= 1 THEN Answer(r) ELSE Go(r, "write")
    /\ UNCHANGED <<user, session, expired, key, login, made, overlapped>>

\* Request r writes a user: others have loaded it, or passed their guard.
Overtake(r) ==
    /\ stale' = (stale \ {r}) \cup
                 {q \in Requests \ {r} : /\ req[q].pc \in {"guard", "count", "write"}
                                          /\ req[q].target = req[r].target}
    /\ overlapped' = (overlapped \/ \E q \in Requests \ {r} : req[q].pc = "write")

UpdateUser(r) ==
    LET u == req[r].target IN
    /\ req[r].pc = "write" /\ req[r].op = "update"
    /\ InTable(u)
    /\ user' = [user EXCEPT ![u] = [state |-> "row", role |-> req[r].role,
                                    active |-> req[r].active, pw |-> @.pw]]
    /\ req' = [req EXCEPT ![r] = ToPassword(u, req[r].pw)]
    /\ Overtake(r)
    /\ UNCHANGED <<session, expired, key, login, made>>

SessionsOf(u) == {s \in Sessions : session[s] # None /\ session[s].user = u}

\* RemoveUser's transaction: sessions, keys and the row go together.
RemoveUser(r) ==
    LET u == req[r].target IN
    /\ req[r].pc = "write" /\ req[r].op = "remove"
    /\ InTable(u)
    /\ user' = [user EXCEPT ![u] = GoneUser]
    /\ session' = Without(SessionsOf(u))
    /\ expired' = expired \ SessionsOf(u)
    /\ key' = [k \in Keys |-> IF key[k] # None /\ key[k].user = u THEN None ELSE key[k]]
    /\ req' = [req EXCEPT ![r] = NoRequest]
    /\ Overtake(r)
    /\ UNCHANGED <<login, made>>

\* A row is not found, a value is refused, or the database fails; a
\* transaction rolls back, the statements before it stay.
FailStatement(r) ==
    /\ req[r].pc # "idle"
    /\ Answer(r)
    /\ UNCHANGED <<user, session, expired, key, login, made, overlapped>>

-----------------------------------------------------------------------------
(* Passwords and API keys *)

\* requireAuth with a session: PATCH /v1/me or the settings page.
ChangeOwnPassword(r, s) ==
    /\ req[r].pc = "idle" /\ made < MaxRequests
    /\ made' = made + 1
    /\ SessionValid(s)
    /\ req' = [req EXCEPT ![r] = ToPassword(session[s].user, TRUE)]
    /\ UNCHANGED <<user, session, expired, key, login, stale, overlapped>>

WithPassword(u, pw) == [state |-> user[u].state, role |-> user[u].role,
                        active |-> user[u].active, pw |-> pw]

\* History: password p overtakes the logins of u that are under way.
Overtaken(u, p) ==
    [l \in Logins |-> IF login[l] # None /\ login[l].user = u
                        THEN [user |-> u, since |-> login[l].since, late |-> p]
                        ELSE login[l]]

\* Mutant: the sessions stay.
SetPassword_KeepsSessions(r) ==
    LET u == req[r].target IN
    /\ req[r].pc = "password"
    /\ InTable(u) /\ user[u].pw < MaxPassword
    /\ user' = [user EXCEPT ![u] = WithPassword(u, @.pw + 1)]
    /\ login' = Overtaken(u, user[u].pw + 1)
    /\ Answer(r)
    /\ UNCHANGED <<session, expired, key, made, overlapped>>

\* SetPassword: the hash and all sessions of the user, in one transaction.
SetPassword(r) ==
    LET u == req[r].target IN
    /\ req[r].pc = "password"
    /\ InTable(u) /\ user[u].pw < MaxPassword
    /\ user' = [user EXCEPT ![u] = WithPassword(u, @.pw + 1)]
    /\ session' = Without(SessionsOf(u))
    /\ expired' = expired \ SessionsOf(u)
    /\ login' = Overtaken(u, user[u].pw + 1)
    /\ Answer(r)
    /\ UNCHANGED <<key, made, overlapped>>

\* Mutant: a request that names no scope is not given the upload scope.
CreateAPIKey_NoDefault(r, k, scope) ==
    /\ req[r].pc = "key"
    /\ key[k] = None
    /\ req[r].actorRole # "viewer"
    /\ scope = "read" => req[r].actorRole # "uploader"
    /\ key' = [key EXCEPT ![k] = [user |-> req[r].actor,
                                  scope |-> IF scope = "upload" THEN "" ELSE scope,
                                  role |-> req[r].actorRole]]
    /\ Answer(r)
    /\ UNCHANGED <<user, session, expired, login, made, overlapped>>

\* createAPIKeyForUser, with the role read at authentication.
CreateAPIKey(r, k, scope) ==
    /\ req[r].pc = "key"
    /\ key[k] = None
    /\ req[r].actorRole # "viewer"
    /\ scope = "read" => req[r].actorRole # "uploader"
    /\ key' = [key EXCEPT ![k] = [user |-> req[r].actor, scope |-> scope,
                                  role |-> req[r].actorRole]]
    /\ Answer(r)
    /\ UNCHANGED <<user, session, expired, login, made, overlapped>>

\* DeleteAPIKey: WHERE id = ? AND user_id = the signed-in user's.
DeleteAPIKey(s, k) ==
    /\ SessionValid(s)
    /\ key[k] # None /\ key[k].user = session[s].user
    /\ key' = [key EXCEPT ![k] = None]
    /\ UNCHANGED <<user, session, expired, login, req, history>>

Next ==
    \/ \E l \in Logins, u \in Users, p \in 0..MaxPassword : CheckPassword(l, u, p)
    \/ \E l \in Logins : FailCreateSession(l) \/ \E s \in Sessions : CreateSession(l, s)
    \/ \E s \in Sessions : Logout(s) \/ ExpireSession(s)
    \/ PurgeExpiredSessions
    \/ \E r \in Requests, s \in Sessions :
          RequireAdmin(r, s) \/ ChangeOwnPassword(r, s) \/ RequireKeys(r, s)
    \/ \E r \in Requests, u \in Users :
          \/ \E role \in AskedRoles \cup {None}, active \in BOOLEAN \cup {None}, pw \in BOOLEAN :
                PatchUser(r, u, role, active, pw)
          \/ \E role \in AskedRoles : AdminUserRole(r, u, role) \/ CreateUser(r, u, role)
          \/ DeactivateUser(r, u) \/ ActivateUser(r, u) \/ RemoveInactive(r, u)
    \/ \E r \in Requests :
          \/ GuardUser(r) \/ GuardCount(r) \/ UpdateUser(r) \/ RemoveUser(r)
          \/ FailStatement(r) \/ SetPassword(r)
          \/ \E k \in Keys, scope \in Scopes : CreateAPIKey(r, k, scope)
    \/ \E s \in Sessions, k \in Keys : DeleteAPIKey(s, k)

Spec == Init /\ [][Next]_vars

-----------------------------------------------------------------------------
(* Properties *)

\* The last active admin cannot be demoted, deactivated or removed: there
\* always is one, unless a user was written while another request stood
\* between its guard and its write (GuardLastAdmin is not in a transaction
\* with UpdateUser and RemoveUser).
AdminRemains == ActiveAdmins # {} \/ overlapped

\* A session was opened with the present password of its user, whatever
\* became of the user and of requests under way meanwhile (SetPassword): the
\* one exception is a session whose login had checked an older password and
\* was still to insert it when the present one was set (handleLoginPOST).
SessionsAreNewer ==
    \A s \in Sessions : session[s] # None /\ InTable(session[s].user) =>
        user[session[s].user].pw \in {session[s].since, session[s].late}

\* Whatever became of its owner since it was created, a key permits nothing
\* that the owner's own session would not now (canAPIKey, AuthByAPIKeyHash).
KeyGivesNoMore ==
    \A k \in Keys : KeyValid(k) => \A p \in Perms :
        canAPIKey(KeyRole(k), p, key[k].scope) => canSession(user[key[k].user].role, p)

\* A deactivated user becomes active again only by the write of a request
\* that asks for it, or of one that loaded the user before another request
\* wrote it (the handlers write the loaded flag back, not the role alone).
ReactivationIsAsked ==
    [][\A u \in Users : InTable(u) /\ ~user[u].active /\ user'[u].active =>
          \E r \in Requests : /\ req[r].pc = "write" /\ req'[r].pc # "write"
                              /\ req[r].target = u
                              /\ req[r].asked \/ r \in stale]_vars
=============================================================================
