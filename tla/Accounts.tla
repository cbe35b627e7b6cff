------------------------------ MODULE Accounts ------------------------------
(***************************************************************************)
(* The auth service: accounts, sessions, one-time links, and the           *)
(* administration of users and roles.  Every request is a goroutine with   *)
(* its own PostgreSQL transaction at READ COMMITTED: a statement sees what *)
(* was committed when it began, rows are locked by UPDATE, DELETE, SELECT  *)
(* ... FOR UPDATE and by the foreign keys of an INSERT, and whoever needs  *)
(* a locked row waits.  The steps of a request are the points another      *)
(* request can come between; a request may die at any of them and leaves   *)
(* nothing behind (Abort).                                                 *)
(*                                                                         *)
(* Passwords are left out: what is modelled is who may sign in, not the    *)
(* guessing of passwords, so failure counters, lock-out and rate limits,   *)
(* which only refuse, are left out too.  One organisation; the resources a *)
(* permission names are reduced to "user", "role" and the others.          *)
(***************************************************************************)
EXTENDS Naturals, FiniteSets

CONSTANTS
  User,      \* names for app_user rows; a name is not reused
  Founder,   \* System Admins at the start, whose addresses are verified
  Staff,     \* users at the start who hold the role Manager
  Role,      \* custom roles: Manager and others that carry nothing at first
  Manager,   \* the custom role the staff hold
  Perm,      \* permissions
  Offers,    \* the sets of permissions an edit may give a role
  Session,   \* names for live user_session rows
  Token,     \* names for unused one-time tokens
  Request,   \* requests under way at once
  MaxEdits   \* BOUND: administrative requests

SysAdmin == "System Admin"   \* the built-in role: every permission, global
NoRole   == "none"

ASSUME StaffAssumption == Founder \subseteq User /\ Staff \subseteq User \ Founder
ASSUME RoleAssumption  == Manager \in Role /\ {SysAdmin, NoRole} \cap Role = {}
ASSUME PermAssumption  == {"user", "role"} \subseteq Perm /\ Offers \subseteq SUBSET Perm
ASSUME BoundAssumption == MaxEdits \in Nat

VARIABLES
  users,     \* app_user with its one baseline user_role
  roles,     \* role with role_permission: custom role -> permissions
  sessions,  \* user_session rows not revoked: {[id, user]}
  tokens,    \* tokens not used: {[id, kind, user]}
  req,       \* where each request is
  given,     \* history: permissions System Admins have put into custom roles
  edits

vars == <<users, roles, sessions, tokens, req, given, edits>>

Status  == {"absent", "PENDING_ACCESS", "ACTIVE", "DISABLED", "deleted"}
Account == [status : Status, verified : BOOLEAN, role : Role \cup {SysAdmin, NoRole}, member : BOOLEAN]
Kinds   == {"reset", "verify"}

Idle == [op |-> "idle"]
UserActs == {"create", "update", "status", "password", "delete", "touch"}
RoleActs == {"create", "update", "delete"}

\* A request that is signed in, one under way, and one that holds rows to write.
Signed   == [op : {"signed"}, user : User, session : Session]
LogsIn   == [op : {"login"}, at : {"verified", "opening"}, user : User]
Changing == [op : {"change"}, user : User, ends : SUBSET Session]
Forgot   == [op : {"forgot"}, user : User, kills : SUBSET Token]
Resets   == [op : {"reset"}, at : {"claimed", "updated", "swept"}, user : User, token : Token, ends : SUBSET Session]
Verifies == [op : {"verify"}, user : User, token : Token]
Resends  == [op : {"resend"}, at : {"read", "swept"}, user : User]
Admin    == [op : {"admin"}, at : {"locked", "written"}, act : UserActs, actor : User, user : User,
             role : Role \cup {SysAdmin, NoRole}, active : BOOLEAN, ends : SUBSET Session, kills : SUBSET Token]
EditRole == [op : {"role"}, act : RoleActs, actor : User, role : Role, perms : SUBSET Perm, global : BOOLEAN]

Requests == {Idle} \cup Signed \cup LogsIn \cup Changing \cup Forgot \cup Resets \cup Verifies \cup Resends
            \cup Admin \cup EditRole

TypeOK ==
  /\ users \in [User -> Account]
  /\ DOMAIN roles \subseteq Role /\ \A r \in DOMAIN roles : roles[r] \subseteq Perm
  /\ sessions \subseteq [id : Session, user : User]
  /\ tokens \subseteq [id : Token, kind : Kinds, user : User]
  /\ req \in [Request -> Requests]
  /\ given \subseteq Perm
  /\ edits \in Nat

Absent   == [status |-> "absent", verified |-> FALSE, role |-> NoRole, member |-> FALSE]
Employed(r) == [status |-> "ACTIVE", verified |-> TRUE, role |-> r, member |-> TRUE]

Init ==
  /\ users = [u \in User |-> IF u \in Founder THEN Employed(SysAdmin)
                             ELSE IF u \in Staff THEN Employed(Manager) ELSE Absent]
  /\ roles = [r \in Role |-> IF r = Manager THEN {"user", "role"} ELSE {}]
  /\ sessions = {} /\ tokens = {}
  /\ req = [q \in Request |-> Idle]
  /\ given = {}
  /\ edits = 0

Goto(q, r) == req' = [req EXCEPT ![q] = r]
Ends(q)    == Goto(q, Idle)
Edit       == edits < MaxEdits /\ edits' = edits + 1

-----------------------------------------------------------------------------
(* What a statement sees, and which rows are locked.                        *)

Exists(u) == users[u].status \notin {"absent", "deleted"}

\* ListUserPermissions: the permissions of the user's role.
Holds(u) == IF users[u].role = SysAdmin THEN Perm
            ELSE IF users[u].role \in DOMAIN roles THEN roles[users[u].role] ELSE {}

\* hasGlobalPermissionQuery: only assignments outside any organisation count.
Global(u) == users[u].role = SysAdmin

\* HasOrganizationPermission; a row without an organisation is for global holders only.
Allowed(u, p) == p \in Holds(u)

LiveOf(u)          == {s.id : s \in {x \in sessions : x.user = u}}
UnusedOf(u, kinds) == {t.id : t \in {x \in tokens : x.user = u /\ x.kind \in kinds}}

\* Requests that hold the account's row: UPDATE, DELETE or FOR UPDATE.
Writes(r, u) ==
  /\ r.op \in {"login", "reset", "admin"} /\ r.user = u
  /\ r.op = "login" => r.at = "opening"
  /\ r.op = "reset" => r.at # "claimed"

RowFree(q, u) == \A p \in Request \ {q} : ~Writes(req[p], u)

\* Mutant of KeyFree: all but a deletion lock FOR NO KEY UPDATE, which a foreign key passes.
KeyFreeOfDeletion(u) == \A p \in Request : req[p].op = "admin" /\ req[p].act = "delete" => req[p].user # u

\* Only FOR UPDATE and DELETE conflict with the foreign key of an INSERT.
KeyFree(u) == \A p \in Request : req[p].op = "admin" => req[p].user # u

\* Tokens a request has locked: SELECT ... FOR UPDATE, or an UPDATE not yet committed.
LockedTokens(r) ==
  IF r.op \in {"reset", "verify"} THEN {r.token}
  ELSE IF r.op \in {"forgot", "admin"} THEN r.kills ELSE {}

\* Mutant of TokensFree: a link is read without FOR UPDATE.
TokensUnlocked(q, ids) == ids \subseteq Token

TokensFree(q, ids) == \A p \in Request \ {q} : LockedTokens(req[p]) \cap ids = {}

\* A role's row: FOR UPDATE of the role's own edits, KEY SHARE of an assignment not yet committed.
EditsRole(r, x)   == r.op = "role" /\ r.role = x
AssignsRole(r, x) == r.op = "admin" /\ r.at = "written" /\ r.role = x

\* Names are handed out once: not in use, and in nobody's hands.
NewSession(s) == /\ \A x \in sessions : x.id # s
                 /\ \A q \in Request : /\ req[q].op = "signed" => req[q].session # s
                                       /\ req[q].op \in {"change", "reset", "admin"} => s \notin req[q].ends
NewToken(t)   == /\ \A x \in tokens : x.id # t
                 /\ \A q \in Request : t \notin LockedTokens(req[q])

-----------------------------------------------------------------------------
(* Signing in and out.                                                      *)

\* Login up to the verified password: a read outside any transaction.
Login(q, u) ==
  /\ req[q] = Idle
  /\ users[u].status = "ACTIVE" /\ users[u].verified
  /\ Goto(q, [op |-> "login", at |-> "verified", user |-> u])
  /\ UNCHANGED <<users, roles, sessions, tokens, given, edits>>

\* recordSuccess begins: RecordLoginSuccess updates the account's row.
RecordLoginSuccess(q) ==
  /\ req[q].op = "login" /\ req[q].at = "verified"
  /\ RowFree(q, req[q].user)
  /\ Goto(q, [op |-> "login", at |-> "opening", user |-> req[q].user])
  /\ UNCHANGED <<users, roles, sessions, tokens, given, edits>>

\* CreateUserSession and commit; the foreign key refuses an account that is gone.
OpenSession(q, s) ==
  /\ req[q].op = "login" /\ req[q].at = "opening"
  /\ Exists(req[q].user) /\ NewSession(s)
  /\ sessions' = sessions \cup {[id |-> s, user |-> req[q].user]}
  /\ Ends(q)
  /\ UNCHANGED <<users, roles, tokens, given, edits>>

\* A request with a session cookie: the session lives and its user is ACTIVE.
Authenticate(q, x) ==
  /\ req[q] = Idle
  /\ users[x.user].status = "ACTIVE"
  /\ Goto(q, [op |-> "signed", user |-> x.user, session |-> x.id])
  /\ UNCHANGED <<users, roles, sessions, tokens, given, edits>>

\* Sessions run out by themselves.
Expire(x) ==
  /\ sessions' = sessions \ {x}
  /\ UNCHANGED <<users, roles, tokens, req, given, edits>>

\* Logout and RevokeOwnSession: one UPDATE of one of the principal's sessions.
RevokeOwnSession(q, x) ==
  /\ req[q].op = "signed" /\ x.user = req[q].user
  /\ sessions' = sessions \ {x}
  /\ Ends(q)
  /\ UNCHANGED <<users, roles, tokens, given, edits>>

\* LogoutAll and ClearOwnSessions: one UPDATE or DELETE of all of them.
LogoutAll(q) ==
  /\ req[q].op = "signed"
  /\ sessions' = {x \in sessions : x.user # req[q].user}
  /\ Ends(q)
  /\ UNCHANGED <<users, roles, tokens, given, edits>>

\* ChangePassword is one statement: it decides which sessions end before it waits for the row.
ChangePassword(q) ==
  /\ req[q].op = "signed"
  /\ Goto(q, [op |-> "change", user |-> req[q].user, ends |-> LiveOf(req[q].user) \ {req[q].session}])
  /\ UNCHANGED <<users, roles, sessions, tokens, given, edits>>

PasswordChanged(q) ==
  /\ req[q].op = "change" /\ RowFree(q, req[q].user)
  /\ sessions' = {x \in sessions : x.id \notin req[q].ends}
  /\ Ends(q)
  /\ UNCHANGED <<users, roles, tokens, given, edits>>

-----------------------------------------------------------------------------
(* Forgotten passwords: a link that works once.                             *)

\* RequestPasswordReset invalidates the links it sees ...
RequestPasswordReset(q, u) ==
  /\ req[q] = Idle
  /\ users[u].status = "ACTIVE"
  /\ TokensFree(q, UnusedOf(u, {"reset"}))
  /\ Goto(q, [op |-> "forgot", user |-> u, kills |-> UnusedOf(u, {"reset"})])
  /\ UNCHANGED <<users, roles, sessions, tokens, given, edits>>

\* ... and inserts a new one; then it is mailed.
CreateResetToken(q, t) ==
  /\ req[q].op = "forgot" /\ NewToken(t)
  /\ Exists(req[q].user) /\ KeyFree(req[q].user)
  /\ tokens' = {x \in tokens : x.id \notin req[q].kills}
               \cup {[id |-> t, kind |-> "reset", user |-> req[q].user]}
  /\ Ends(q)
  /\ UNCHANGED <<users, roles, sessions, given, edits>>

\* ResetPassword: GetActivePasswordResetToken ... FOR UPDATE.
ClaimResetToken(q, x) ==
  /\ req[q] = Idle
  /\ x.kind = "reset" /\ users[x.user].status = "ACTIVE"
  /\ TokensFree(q, {x.id})
  /\ Goto(q, [op |-> "reset", at |-> "claimed", user |-> x.user, token |-> x.id, ends |-> {}])
  /\ UNCHANGED <<users, roles, sessions, tokens, given, edits>>

Resetting(r, at, ends) == [op |-> "reset", at |-> at, user |-> r.user, token |-> r.token, ends |-> ends]

\* MarkPasswordResetTokenUsed, UpdateUserPassword: now the account's row is held.
UpdateUserPassword(q) ==
  /\ req[q].op = "reset" /\ req[q].at = "claimed"
  /\ RowFree(q, req[q].user)
  /\ Goto(q, Resetting(req[q], "updated", {}))
  /\ UNCHANGED <<users, roles, sessions, tokens, given, edits>>

\* RevokeAllUserSessions.
RevokeAllUserSessions(q) ==
  /\ req[q].op = "reset" /\ req[q].at = "updated"
  /\ Goto(q, Resetting(req[q], "swept", LiveOf(req[q].user)))
  /\ UNCHANGED <<users, roles, sessions, tokens, given, edits>>

PasswordReset(q) ==
  /\ req[q].op = "reset" /\ req[q].at = "swept"
  /\ sessions' = {x \in sessions : x.id \notin req[q].ends}
  /\ tokens' = {x \in tokens : x.id # req[q].token}
  /\ Ends(q)
  /\ UNCHANGED <<users, roles, given, edits>>

-----------------------------------------------------------------------------
(* Registration: an account of no organisation, waiting for approval.       *)

WithStatus(account, s)   == [account EXCEPT !.status = s]
WithVerified(account, b) == [account EXCEPT !.verified = b]

Register(u, t) ==
  /\ users[u].status = "absent" /\ NewToken(t)
  /\ \A q \in Request : req[q].op = "admin" => req[q].user # u
  /\ users' = [users EXCEPT ![u] = WithStatus(@, "PENDING_ACCESS")]
  /\ tokens' = tokens \cup {[id |-> t, kind |-> "verify", user |-> u]}
  /\ UNCHANGED <<roles, sessions, req, given, edits>>

\* VerifyEmail: the token FOR UPDATE ...
ClaimVerification(q, x) ==
  /\ req[q] = Idle
  /\ x.kind = "verify" /\ TokensFree(q, {x.id})
  /\ Goto(q, [op |-> "verify", user |-> x.user, token |-> x.id])
  /\ UNCHANGED <<users, roles, sessions, tokens, given, edits>>

\* ... then the account, when it is still there.
VerifyEmail(q) ==
  /\ req[q].op = "verify" /\ RowFree(q, req[q].user)
  /\ users' = [users EXCEPT ![req[q].user] = WithVerified(@, Exists(req[q].user))]
  /\ tokens' = {x \in tokens : x.id # req[q].token}
  /\ Ends(q)
  /\ UNCHANGED <<roles, sessions, given, edits>>

\* ResendVerification: three statements, each its own transaction.
ResendVerification(q, u) ==
  /\ req[q] = Idle
  /\ users[u].status = "PENDING_ACCESS" /\ ~users[u].verified
  /\ Goto(q, [op |-> "resend", at |-> "read", user |-> u])
  /\ UNCHANGED <<users, roles, sessions, tokens, given, edits>>

InvalidateVerifications(q) ==
  /\ req[q].op = "resend" /\ req[q].at = "read"
  /\ TokensFree(q, UnusedOf(req[q].user, {"verify"}))
  /\ tokens' = {x \in tokens : ~(x.kind = "verify" /\ x.user = req[q].user)}
  /\ Goto(q, [op |-> "resend", at |-> "swept", user |-> req[q].user])
  /\ UNCHANGED <<users, roles, sessions, given, edits>>

\* No foreign key stops it when the account has gone: its organisation is NULL.
CreateVerification(q, t) ==
  /\ req[q].op = "resend" /\ req[q].at = "swept" /\ NewToken(t)
  /\ tokens' = tokens \cup {[id |-> t, kind |-> "verify", user |-> req[q].user]}
  /\ Ends(q)
  /\ UNCHANGED <<users, roles, sessions, given, edits>>

-----------------------------------------------------------------------------
(* Administration of users.  A request locks the account's row, checks what *)
(* the actor may do, writes, and commits.                                   *)

\* Mutant of LocksUser: the account is read without FOR UPDATE.
ReadsUser(q, u) == Exists(u)

\* getUserInTx: the account's row FOR UPDATE; a row that is gone is refused.
LocksUser(q, u) == RowFree(q, u) /\ Exists(u)

AdminRequest(q, act, u, r, active) ==
  /\ req[q].op = "signed" /\ Edit
  /\ Goto(q, [op |-> "admin", at |-> "locked", act |-> act, actor |-> req[q].user, user |-> u,
              role |-> r, active |-> active, ends |-> {}, kills |-> {}])
  /\ UNCHANGED <<users, roles, sessions, tokens, given>>

\* authorizedRoleName: a role that exists; System Admin is for global holders to give.
MayAssign(actor, r) == /\ Allowed(actor, "role")
                       /\ r \in DOMAIN roles \cup {SysAdmin}
                       /\ r = SysAdmin => Global(actor)

\* isLastActivePlatformAdmin: counted without a lock.
LastActivePlatformAdmin(u) ==
  \A v \in User \ {u} : ~(users[v].status = "ACTIVE" /\ users[v].role = SysAdmin)

CreateUser(q, u, r) ==
  /\ req[q].op = "signed"
  /\ users[u].status = "absent"
  /\ \A p \in Request : req[p].op = "admin" => req[p].user # u
  /\ Allowed(req[q].user, "user") /\ MayAssign(req[q].user, r)
  /\ AdminRequest(q, "create", u, r, TRUE)

UpdateUser(q, u, r, active) ==
  /\ req[q].op = "signed" /\ u # req[q].user
  /\ LocksUser(q, u)
  /\ active => users[u].verified
  /\ IF users[u].member THEN Allowed(req[q].user, "user") ELSE Global(req[q].user)
  /\ ~active => Allowed(req[q].user, "user")
  /\ MayAssign(req[q].user, r)
  /\ users[u].role = SysAdmin /\ r # SysAdmin => ~LastActivePlatformAdmin(u)
  /\ AdminRequest(q, "update", u, r, active)

SetUserActive(q, u, active) ==
  /\ req[q].op = "signed" /\ (~active => u # req[q].user)
  /\ LocksUser(q, u)
  /\ active => users[u].verified /\ users[u].role # NoRole
  /\ users[u].member /\ Allowed(req[q].user, "user")
  /\ AdminRequest(q, "status", u, NoRole, active)

ResetUserPassword(q, u) ==
  /\ req[q].op = "signed"
  /\ LocksUser(q, u)
  /\ users[u].member /\ Allowed(req[q].user, "user")
  /\ users[u].role = SysAdmin => Global(req[q].user)
  /\ AdminRequest(q, "password", u, NoRole, TRUE)

HardDeleteUser(q, u) ==
  /\ req[q].op = "signed" /\ u # req[q].user
  /\ LocksUser(q, u)
  /\ Global(req[q].user)
  /\ users[u].role = SysAdmin => ~LastActivePlatformAdmin(u)
  /\ AdminRequest(q, "delete", u, NoRole, FALSE)

\* UnlockUser writes the failure counter, which is left out, under the same lock.
UnlockUser(q, u) ==
  /\ req[q].op = "signed"
  /\ LocksUser(q, u)
  /\ users[u].member /\ Allowed(req[q].user, "user")
  /\ AdminRequest(q, "touch", u, NoRole, TRUE)

\* UpdateOwnProfile writes names; an account of no organisation is refused.
UpdateOwnProfile(q) ==
  /\ req[q].op = "signed"
  /\ LocksUser(q, req[q].user) /\ users[req[q].user].member
  /\ AdminRequest(q, "touch", req[q].user, NoRole, TRUE)

\* The statements after the checks; the first to touch other rows than the account's.
Sweeps(r) == r.act \in {"password", "delete"} \/ (r.act \in {"update", "status"} /\ ~r.active)

\* The user_role inserted refers to a role: it waits for the role's edits and fails without it.
RoleReferable(r) ==
  r.act \in {"create", "update"} =>
    /\ r.role \in DOMAIN roles \cup {SysAdmin}
    /\ \A p \in Request : ~EditsRole(req[p], r.role)

Written(r, ends, kills) == [r EXCEPT !.at = "written", !.ends = ends, !.kills = kills]

\* Reset links that go with it.
Revokes(r) == IF r.act \in {"password", "delete"} THEN UnusedOf(r.user, {"reset"}) ELSE {}

WriteUser(q) ==
  LET r == req[q] IN
  /\ r.op = "admin" /\ r.at = "locked"
  /\ RoleReferable(r)
  /\ TokensFree(q, Revokes(r))
  /\ Goto(q, Written(r, IF Sweeps(r) THEN LiveOf(r.user) ELSE {}, Revokes(r)))
  /\ UNCHANGED <<users, roles, sessions, tokens, given, edits>>

InForce(active) == IF active THEN "ACTIVE" ELSE "DISABLED"
Updated(account, s, r) == [account EXCEPT !.status = s, !.role = r, !.member = TRUE]

\* The account as the request leaves it.
Changed(r, account) ==
  IF r.act = "create" THEN Employed(r.role)
  ELSE IF r.act = "delete" THEN WithStatus(Absent, "deleted")
  ELSE IF r.act = "update" THEN Updated(account, InForce(r.active), r.role)
  ELSE IF r.act = "status" THEN WithStatus(account, InForce(r.active))
  ELSE account

CommitUser(q) ==
  LET r == req[q] IN
  /\ r.op = "admin" /\ r.at = "written"
  /\ users' = [users EXCEPT ![r.user] = Changed(r, users[r.user])]
  /\ sessions' = {x \in sessions : x.id \notin r.ends}
  /\ tokens' = {x \in tokens : x.id \notin r.kills}
  /\ Ends(q)
  /\ UNCHANGED <<roles, given, edits>>

-----------------------------------------------------------------------------
(* Administration of roles.                                                 *)

\* Mutant of LocksRole: the role is read without FOR UPDATE.
ReadsRole(q, r) == r \in DOMAIN roles

\* SELECT ... FOR UPDATE waits for other edits of the role and for assignments not yet committed.
LocksRole(q, r) == \A p \in Request \ {q} : ~EditsRole(req[p], r) /\ ~AssignsRole(req[p], r)

\* Mutant of Grantable: whoever may edit roles may give everything.
GrantableToAll(actor, r, ps) == ps \subseteq Perm

\* requireGrantablePermissions: what the role already carries, or what the actor holds.
Grantable(actor, r, ps) ==
  ps \subseteq Holds(actor) \cup (IF r \in DOMAIN roles THEN roles[r] ELSE {})

RoleRequest(q, act, r, ps) ==
  /\ req[q].op = "signed" /\ Edit
  /\ Allowed(req[q].user, "role")
  /\ Goto(q, [op |-> "role", act |-> act, actor |-> req[q].user, role |-> r, perms |-> ps,
              global |-> Global(req[q].user)])
  /\ UNCHANGED <<users, roles, sessions, tokens, given>>

CreateRole(q, r, ps) ==
  /\ req[q].op = "signed" /\ r \notin DOMAIN roles
  /\ \A p \in Request : req[p].op \in {"admin", "role"} => req[p].role # r
  /\ Grantable(req[q].user, r, ps)
  /\ RoleRequest(q, "create", r, ps)

UpdateRole(q, r, ps) ==
  /\ req[q].op = "signed" /\ r \in DOMAIN roles /\ LocksRole(q, r)
  /\ Grantable(req[q].user, r, ps)
  /\ RoleRequest(q, "update", r, ps)

InUse(r) == \E u \in User : users[u].role = r

DeleteRole(q, r) ==
  /\ req[q].op = "signed" /\ r \in DOMAIN roles /\ LocksRole(q, r)
  /\ ~InUse(r)
  /\ RoleRequest(q, "delete", r, {})

Unassigned(account) == [account EXCEPT !.role = NoRole]

\* Deleting a role takes its assignments with it: user_role ... ON DELETE CASCADE.
CommitRole(q) ==
  LET r == req[q] IN
  /\ r.op = "role"
  /\ IF r.act = "delete"
     THEN /\ roles' = [x \in DOMAIN roles \ {r.role} |-> roles[x]]
          /\ users' = [u \in User |-> IF users[u].role = r.role
                                      THEN Unassigned(users[u]) ELSE users[u]]
     ELSE /\ roles' = [x \in DOMAIN roles \cup {r.role} |-> IF x = r.role THEN r.perms ELSE roles[x]]
          /\ UNCHANGED users
  /\ given' = IF r.global THEN given \cup r.perms ELSE given
  /\ Ends(q)
  /\ UNCHANGED <<sessions, tokens, edits>>

\* A start of the Platform finds no active System Admin and creates the configured one; the INSERT
\* leaves email_verified_at NULL.
EnsureAdmin(u) ==
  /\ LastActivePlatformAdmin(u)
  /\ users[u].status = "absent"
  /\ \A q \in Request : req[q].op = "admin" => req[q].user # u
  /\ users' = [users EXCEPT ![u] = WithVerified(Employed(SysAdmin), FALSE)]
  /\ UNCHANGED <<roles, sessions, tokens, req, given, edits>>

\* A request fails, its client goes away, a deadlock's victim is rolled back, or it is done.
Abort(q) ==
  /\ req[q] # Idle
  /\ Ends(q)
  /\ UNCHANGED <<users, roles, sessions, tokens, given, edits>>

Enter(q) ==
  \/ \E u \in User : Login(q, u) \/ RequestPasswordReset(q, u) \/ ResendVerification(q, u)
  \/ \E x \in sessions : Authenticate(q, x)
  \/ \E x \in tokens : ClaimResetToken(q, x) \/ ClaimVerification(q, x)

Proceed(q) ==
  \/ RecordLoginSuccess(q) \/ \E s \in Session : OpenSession(q, s)
  \/ UpdateUserPassword(q) \/ RevokeAllUserSessions(q) \/ PasswordReset(q)
  \/ PasswordChanged(q) \/ VerifyEmail(q) \/ InvalidateVerifications(q)
  \/ \E t \in Token : CreateResetToken(q, t) \/ CreateVerification(q, t)
  \/ WriteUser(q) \/ CommitUser(q) \/ CommitRole(q)

SignedIn(q) ==
  \/ \E x \in sessions : RevokeOwnSession(q, x)
  \/ LogoutAll(q) \/ ChangePassword(q) \/ UpdateOwnProfile(q)
  \/ \E u \in User :
       \/ \E r \in Role \cup {SysAdmin} :
            CreateUser(q, u, r) \/ \E a \in BOOLEAN : UpdateUser(q, u, r, a)
       \/ \E a \in BOOLEAN : SetUserActive(q, u, a)
       \/ ResetUserPassword(q, u) \/ HardDeleteUser(q, u) \/ UnlockUser(q, u)
  \/ \E r \in Role :
       \/ \E ps \in Offers : CreateRole(q, r, ps) \/ UpdateRole(q, r, ps)
       \/ DeleteRole(q, r)

Next ==
  \/ \E q \in Request : Enter(q) \/ Proceed(q) \/ SignedIn(q) \/ Abort(q)
  \/ \E x \in sessions : Expire(x)
  \/ \E u \in User : EnsureAdmin(u) \/ \E t \in Token : Register(u, t)

Spec == Init /\ [][Next]_vars

-----------------------------------------------------------------------------
(* What must hold.                                                          *)

\* A session that lives belongs to an account that is there and whose address was verified, an
\* unused reset link to an account that is there, and an account that is ACTIVE has a role that is
\* there, whatever was deleted while they were being made.
NoOrphans ==
  /\ \A x \in sessions : Exists(x.user) /\ users[x.user].verified
  /\ \A x \in tokens : x.kind = "reset" => Exists(x.user)
  /\ \A u \in User : users[u].status = "ACTIVE" => users[u].role \in DOMAIN roles \cup {SysAdmin}

\* When a reset by link, a reset by an administrator, a disabling or a deletion commits, no session of
\* that user is left, and no sign-in that has got as far as the account's row is about to add one. A
\* sign-in that has verified the old password and still waits for the row (Login, recordSuccess) is not
\* stopped: it opens its session right after the commit, unless the account is gone.
SweepIsComplete ==
  [][\A q \in Request : PasswordReset(q) \/ (CommitUser(q) /\ Sweeps(req[q]))
       => /\ \A x \in sessions' : x.user # req[q].user
          /\ \A p \in Request : req'[p].op = "login" /\ req'[p].at = "opening"
                                  => req'[p].user # req[q].user]_vars

\* A link works once: whoever resets a password or verifies an address by a link holds one that is
\* still unused, whoever else follows, replaces or revokes it meanwhile.
TokenIsOneTime ==
  \A q \in Request : req[q].op \in {"reset", "verify"} =>
    \E x \in tokens : x.id = req[q].token /\ x.user = req[q].user

\* When an administrator's password commits, no reset link of the user is unused and nobody is at
\* work with one, so no link sent before sets the password back. A request for a link that waits for the
\* account's key (RequestPasswordReset) is not stopped: its link is created right after and works.
AdminResetIsFinal ==
  [][\A q \in Request : CommitUser(q) /\ req[q].act = "password"
       => /\ \A x \in tokens' : x.user # req[q].user \/ x.kind # "reset"
          /\ \A p \in Request : req'[p].op = "reset" => req'[p].user # req[q].user]_vars

\* Nobody but a System Admin brings a permission into the custom roles: through any number of edits,
\* concurrent ones included, they carry what the staff had at first and what was given to them.
NoEscalation ==
  \A r \in DOMAIN roles : roles[r] \subseteq {"user", "role"} \cup given

=============================================================================
