--------------------------- MODULE Accounts_proofs ---------------------------
(***************************************************************************)
(* What holds of the auth service for any number of accounts, sessions,    *)
(* links and requests at once.  The locks exclude one another (LocksOK), a *)
(* request that holds a row has everything in hand that it will end when   *)
(* it commits (RequestOK), and from these two follows the rest.            *)
(***************************************************************************)
EXTENDS Accounts, TLAPS

\* What an administrative request holds of its account until it commits.
AdminOK(r) ==
  /\ r.at = "written" /\ Sweeps(r) => LiveOf(r.user) \subseteq r.ends
  /\ r.at = "written" /\ r.act \in {"password", "delete"} => UnusedOf(r.user, {"reset"}) \subseteq r.kills
  /\ r.at = "written" /\ r.act \in {"create", "update"} => r.role \in DOMAIN roles \cup {SysAdmin}
  /\ r.act = "status" /\ r.active => users[r.user].role # NoRole
  /\ r.role # NoRole => r.act \in {"create", "update"}
  /\ r.act # "create" => Exists(r.user)

\* What a link's holder holds: the link, unused.
HoldsLink(r) == \E x \in tokens : /\ x.id = r.token /\ x.user = r.user
                                  /\ r.op = "reset" => x.kind = "reset"

\* The account has been there, and its address was verified when it still is.
Verified(u) == users[u].status # "absent" /\ (Exists(u) => users[u].verified)

RequestOK(r) ==
  /\ r.op = "login" => Verified(r.user)
  /\ r.op = "reset" => /\ users[r.user].status # "absent"
                       /\ r.at = "swept" => LiveOf(r.user) \subseteq r.ends
  /\ r.op \in {"reset", "verify"} => HoldsLink(r)
  /\ r.op = "admin" => AdminOK(r)
  /\ r.op = "role" => /\ r.global \/ r.perms \subseteq {"user", "role"} \cup given
                      /\ r.act = "delete" => \A u \in User : users[u].role # r.role

RequestsOK == \A q \in Request, r \in Requests : req[q] = r => RequestOK(r)

\* Two requests hold the same account's row, the same link, or a role that one of them assigns.
Collide(r, s) ==
  \/ \E u \in User : Writes(r, u) /\ Writes(s, u)
  \/ LockedTokens(r) \cap LockedTokens(s) # {}
  \/ \E x \in Role : AssignsRole(r, x) /\ EditsRole(s, x)

LocksOK == \A p, q \in Request : p # q => ~Collide(req[p], req[q])

RolesKnown == \A u \in User : users[u].role \in DOMAIN roles \cup {SysAdmin, NoRole}

IndInv == TypeOK /\ NoOrphans /\ NoEscalation /\ RolesKnown /\ RequestsOK /\ LocksOK

-----------------------------------------------------------------------------
(* Requests and rows, and what a step leaves to the others.                 *)

\* The kinds of requests are told apart by their op.
LEMMA ByOp ==
  ASSUME NEW r \in Requests
  PROVE  /\ r.op = "signed" => r \in Signed
         /\ r.op = "login"  => r \in LogsIn
         /\ r.op = "change" => r \in Changing
         /\ r.op = "forgot" => r \in Forgot
         /\ r.op = "reset"  => r \in Resets
         /\ r.op = "verify" => r \in Verifies
         /\ r.op = "resend" => r \in Resends
         /\ r.op = "admin"  => r \in Admin
         /\ r.op = "role"   => r \in EditRole
  BY DEF Requests, Idle, Signed, LogsIn, Changing, Forgot, Resets, Verifies, Resends, Admin, EditRole

\* The types of the tables.
RowTypes ==
  /\ users \in [User -> Account]
  /\ DOMAIN roles \subseteq Role /\ \A r \in DOMAIN roles : roles[r] \subseteq Perm
  /\ sessions \subseteq [id : Session, user : User]
  /\ tokens \subseteq [id : Token, kind : Kinds, user : User]
  /\ given \subseteq Perm

\* The type invariant, the rows and the requests apart.
LEMMA TypeParts == TypeOK <=> RowTypes /\ req \in [Request -> Requests] /\ edits \in Nat
  BY DEF TypeOK, RowTypes

\* What a step may do to the rows while somebody else's request r is where it is.
Orderly(r) ==
  /\ \A x \in sessions' : x \in sessions \/ ~Writes(r, x.user)
  /\ \A x \in tokens' : x \in tokens \/ x.kind # "reset" \/ ~(r.op = "admin" /\ r.user = x.user)
  /\ \A x \in tokens : x \in tokens' \/ x.id \notin LockedTokens(r)
  /\ \A u \in User : Verified(u) => Verified(u)'
  /\ \A u \in User : users[u].status # "absent" => users'[u].status # "absent"
  /\ \A u \in User : Exists(u) => Exists(u)' \/ ~Writes(r, u)
  /\ \A u \in User : users'[u].role = users[u].role \/ (~Writes(r, u) /\ ~EditsRole(r, users'[u].role))
  /\ \A x \in DOMAIN roles : x \in DOMAIN roles' \/ ~AssignsRole(r, x)
  /\ given \subseteq given'

\* The rows are what they should be after the step.
Fine == RowTypes' /\ NoOrphans' /\ NoEscalation' /\ RolesKnown'

\* After an orderly step a request still has in hand what it had.
LEMMA Kept ==
  ASSUME TypeOK, NEW r \in Requests, RequestOK(r), Orderly(r), RowTypes'
  PROVE  RequestOK(r)'
<1>1. r.op = "login" => Verified(r.user)'
  BY ByOp DEF RequestOK, Orderly, LogsIn
<1>2. r.op = "reset" => users'[r.user].status # "absent"
  BY ByOp DEF RequestOK, Orderly, Resets
<1>3. ASSUME r.op = "reset", r.at = "swept", NEW i \in LiveOf(r.user)' PROVE i \in r.ends
  <2>1. PICK x \in sessions' : x.user = r.user /\ x.id = i
    BY <1>3 DEF LiveOf
  <2>2. Writes(r, x.user)
    BY <1>3, <2>1 DEF Writes
  <2>3. i \in LiveOf(r.user)
    BY <2>1, <2>2 DEF Orderly, LiveOf
  <2> QED
    BY <1>3, <2>3 DEF RequestOK
<1>4. ASSUME r.op \in {"reset", "verify"} PROVE HoldsLink(r)'
  <2>1. PICK x \in tokens : x.id = r.token /\ x.user = r.user /\ (r.op = "reset" => x.kind = "reset")
    BY <1>4 DEF RequestOK, HoldsLink
  <2>2. x \in tokens'
    BY <1>4, <2>1 DEF Orderly, LockedTokens
  <2> QED
    BY <2>1, <2>2 DEF HoldsLink
<1>5. ASSUME r.op = "admin" PROVE AdminOK(r)'
  <2>1. r \in Admin /\ AdminOK(r) /\ Writes(r, r.user) /\ Sweeps(r)' = Sweeps(r)
    BY <1>5, ByOp DEF RequestOK, Writes, Sweeps
  <2>2. ASSUME NEW i \in LiveOf(r.user)' PROVE i \in LiveOf(r.user)
    <3>1. PICK x \in sessions' : x.user = r.user /\ x.id = i
      BY <2>2 DEF LiveOf
    <3> QED
      BY <2>1, <3>1 DEF Orderly, LiveOf
  <2>3. ASSUME NEW i \in UnusedOf(r.user, {"reset"})' PROVE i \in UnusedOf(r.user, {"reset"})
    <3>1. PICK x \in tokens' : x.user = r.user /\ x.kind = "reset" /\ x.id = i
      BY <2>3 DEF UnusedOf
    <3> QED
      BY <1>5, <3>1 DEF Orderly, UnusedOf
  <2>4. r.at = "written" /\ r.act \in {"create", "update"} => r.role \in DOMAIN roles' \cup {SysAdmin}
    BY <1>5, <2>1 DEF AdminOK, Orderly, AssignsRole
  <2>5. /\ r.act = "status" /\ r.active => users'[r.user].role # NoRole
        /\ r.act # "create" => Exists(r.user)'
    BY <2>1 DEF AdminOK, Orderly, Admin
  <2> QED
    BY <2>1, <2>2, <2>3, <2>4, <2>5 DEF AdminOK
<1>6. r.op = "role" /\ ~r.global => r.perms \subseteq {"user", "role"} \cup given'
  BY DEF RequestOK, Orderly
<1>7. r.op = "role" /\ r.act = "delete" => \A u \in User : users'[u].role # r.role
  BY DEF RequestOK, Orderly, EditsRole
<1> QED
  BY <1>1, <1>2, <1>3, <1>4, <1>5, <1>6, <1>7 DEF RequestOK

-----------------------------------------------------------------------------
(* Locks.                                                                   *)

\* Nobody else's request is in the way of one that has become s.
Clear(q, s) == \A p \in Request \ {q} : ~Collide(s, req[p]) /\ ~Collide(req[p], s)

\* A request that takes only what is free, or what it has already, is in nobody's way.
LEMMA Acquires ==
  ASSUME LocksOK, NEW q \in Request, NEW s \in Requests,
         \A u \in User : Writes(s, u) => Writes(req[q], u) \/ RowFree(q, u),
         LockedTokens(s) \subseteq LockedTokens(req[q]) \/ TokensFree(q, LockedTokens(s)),
         \A x \in Role : AssignsRole(s, x) =>
             AssignsRole(req[q], x) \/ \A p \in Request \ {q} : ~EditsRole(req[p], x),
         \A x \in Role : EditsRole(s, x) =>
             EditsRole(req[q], x) \/ \A p \in Request \ {q} : ~AssignsRole(req[p], x)
  PROVE  Clear(q, s)
<1> SUFFICES ASSUME NEW p \in Request \ {q} PROVE ~Collide(s, req[p]) /\ ~Collide(req[p], s)
  BY DEF Clear
<1>1. ~Collide(req[q], req[p]) /\ ~Collide(req[p], req[q])
  BY DEF LocksOK
<1>2. \A u \in User : ~(Writes(s, u) /\ Writes(req[p], u))
  BY <1>1 DEF Collide, RowFree
<1>3. LockedTokens(s) \cap LockedTokens(req[p]) = {}
  BY <1>1 DEF Collide, TokensFree
<1>4. \A x \in Role : ~(AssignsRole(s, x) /\ EditsRole(req[p], x)) /\ ~(AssignsRole(req[p], x) /\ EditsRole(s, x))
  BY <1>1 DEF Collide
<1> QED
  BY <1>2, <1>3, <1>4 DEF Collide

\* A request that has read, at most, and holds no lock yet.
HoldsNothing(s) == /\ s.op \notin {"reset", "verify", "forgot", "admin", "role"}
                   /\ s.op = "login" => s.at = "verified"

\* Such a request collides with no other.
LEMMA NothingHeld == ASSUME NEW q \in Request, NEW s, HoldsNothing(s) PROVE Clear(q, s)
<1>1. (\A u \in User : ~Writes(s, u)) /\ LockedTokens(s) = {}
  BY DEF HoldsNothing, Writes, LockedTokens
<1>2. \A x \in Role : ~AssignsRole(s, x) /\ ~EditsRole(s, x)
  BY DEF HoldsNothing, AssignsRole, EditsRole
<1> QED
  BY <1>1, <1>2 DEF Clear, Collide

\* A step of one request, orderly for the others, keeps the invariant.
LEMMA Conclude ==
  ASSUME IndInv, Fine, edits' \in Nat, NEW q \in Request, NEW s \in Requests, Goto(q, s),
         RequestOK(s)', Clear(q, s), \A p \in Request \ {q} : Orderly(req[p])
  PROVE  IndInv'
<1>1. req \in [Request -> Requests] /\ TypeOK
  BY TypeParts DEF IndInv
<1>2. /\ req' \in [Request -> Requests] /\ req'[q] = s
      /\ \A p \in Request \ {q} : req'[p] = req[p]
  BY <1>1 DEF Goto
<1>3. TypeOK'
  BY <1>2, TypeParts DEF Fine, TypeOK, RowTypes
<1>4. ASSUME NEW p \in Request, NEW r \in Requests, req'[p] = r PROVE RequestOK(r)'
  <2>1. CASE p = q
    BY <1>2, <1>4, <2>1
  <2>2. CASE p # q
    <3>1. req[p] = r /\ Orderly(r) /\ RequestOK(r)
      BY <1>2, <1>4, <2>2 DEF IndInv, RequestsOK
    <3> QED
      BY <1>1, <3>1, Kept DEF Fine
  <2> QED
    BY <2>1, <2>2
<1>5. RequestsOK'
  BY <1>4 DEF RequestsOK
<1>6. LocksOK'
  BY <1>2 DEF LocksOK, Clear, IndInv
<1> QED
  BY <1>3, <1>5, <1>6 DEF IndInv, Fine

\* A transaction that is nobody's request, or nothing at all.
LEMMA AloneKeeps ==
  ASSUME IndInv, Fine, edits' = edits, req' = req, \A p \in Request : Orderly(req[p])
  PROVE  IndInv'
<1>1. req \in [Request -> Requests] /\ TypeOK /\ edits \in Nat
  BY TypeParts DEF IndInv
<1>2. TypeOK'
  BY <1>1 DEF Fine, TypeOK, RowTypes
<1>3. ASSUME NEW p \in Request, NEW r \in Requests, req'[p] = r PROVE RequestOK(r)'
  <2>1. req[p] = r /\ Orderly(r) /\ RequestOK(r)
    BY <1>3 DEF IndInv, RequestsOK
  <2> QED
    BY <1>1, <2>1, Kept DEF Fine
<1>4. RequestsOK' /\ LocksOK'
  BY <1>3 DEF RequestsOK, LocksOK, IndInv
<1> QED
  BY <1>2, <1>4 DEF IndInv, Fine

\* The tables.
Rows == <<users, roles, sessions, tokens, given>>

\* Nothing happens to the rows.
LEMMA SameRows == ASSUME IndInv, UNCHANGED Rows PROVE Fine /\ \A r \in Requests : Orderly(r)
<1>1. RowTypes' /\ NoOrphans' /\ NoEscalation' /\ RolesKnown'
  BY TypeParts DEF IndInv, RowTypes, NoOrphans, NoEscalation, RolesKnown, Rows, Exists
<1>2. \A u \in User : Verified(u)' = Verified(u)
  BY DEF Verified, Exists, Rows
<1> QED
  BY <1>1, <1>2 DEF Fine, Orderly, Rows, Exists

\* A step that only moves a request on.
LEMMA Moves ==
  ASSUME IndInv, UNCHANGED Rows, edits' \in Nat, NEW q \in Request, NEW s \in Requests, Goto(q, s),
         RequestOK(s), Clear(q, s)
  PROVE  IndInv'
<1>1. Fine /\ (\A p \in Request : Orderly(req[p])) /\ TypeOK
  BY SameRows, TypeParts DEF IndInv
<1>2. Orderly(s)
  BY SameRows
<1>3. RequestOK(s)'
  BY <1>1, <1>2, Kept DEF Fine
<1> QED
  BY <1>1, <1>3, Conclude

\* A request that is over is nothing and holds nothing.
LEMMA IdleOK == Idle \in Requests /\ RequestOK(Idle) /\ RequestOK(Idle)' /\ HoldsNothing(Idle)
  BY DEF Requests, Idle, RequestOK, HoldsNothing

\* A request's last step, orderly for the others, keeps the invariant (its commit).
LEMMA EndsKeeps ==
  ASSUME IndInv, Fine, edits' = edits, NEW q \in Request, Ends(q), \A p \in Request \ {q} : Orderly(req[p])
  PROVE  IndInv'
<1>1. edits' \in Nat /\ Goto(q, Idle)
  BY TypeParts DEF IndInv, Ends
<1> QED
  BY <1>1, IdleOK, NothingHeld, Conclude

-----------------------------------------------------------------------------
(* Requests that begin, and steps that only read and lock.                  *)

\* Login, RequestPasswordReset, ResendVerification, Authenticate, ClaimResetToken, ClaimVerification.
LEMMA EnterKeeps == ASSUME IndInv, NEW q \in Request, Enter(q) PROVE IndInv'
<1>1. TypeOK /\ RowTypes /\ LocksOK /\ edits \in Nat
  BY TypeParts DEF IndInv
<1>2. ASSUME NEW u \in User, Login(q, u) PROVE IndInv'
  <2> DEFINE s == [op |-> "login", at |-> "verified", user |-> u]
  <2>1. s \in Requests /\ HoldsNothing(s)
    BY DEF Requests, LogsIn, HoldsNothing
  <2>2. RequestOK(s)
    BY <1>2 DEF Login, RequestOK, Verified
  <2> QED
    BY <1>1, <1>2, <2>1, <2>2, NothingHeld, Moves DEF Login, Rows
<1>3. ASSUME NEW u \in User, RequestPasswordReset(q, u) PROVE IndInv'
  <2> DEFINE s == [op |-> "forgot", user |-> u, kills |-> UnusedOf(u, {"reset"})]
  <2>1. s \in Requests
    BY <1>1 DEF Requests, Forgot, UnusedOf, RowTypes
  <2>2. LockedTokens(s) = UnusedOf(u, {"reset"}) /\ RequestOK(s)
    BY DEF LockedTokens, EditsRole, RequestOK
  <2>3. /\ \A v \in User : ~Writes(s, v)
        /\ \A x \in Role : ~AssignsRole(s, x) /\ ~EditsRole(s, x)
    BY DEF Writes, AssignsRole, EditsRole
  <2>4. TokensFree(q, LockedTokens(s))
    BY <1>3, <2>2 DEF RequestPasswordReset
  <2>5. Clear(q, s)
    BY <1>1, <2>1, <2>3, <2>4, Acquires
  <2> QED
    BY <1>1, <1>3, <2>1, <2>2, <2>5, Moves DEF RequestPasswordReset, Rows
<1>4. ASSUME NEW u \in User, ResendVerification(q, u) PROVE IndInv'
  <2> DEFINE s == [op |-> "resend", at |-> "read", user |-> u]
  <2>1. s \in Requests /\ HoldsNothing(s) /\ RequestOK(s)
    BY DEF Requests, Resends, HoldsNothing, RequestOK
  <2> QED
    BY <1>1, <1>4, <2>1, NothingHeld, Moves DEF ResendVerification, Rows
<1>5. ASSUME NEW x \in sessions, Authenticate(q, x) PROVE IndInv'
  <2> DEFINE s == [op |-> "signed", user |-> x.user, session |-> x.id]
  <2>1. s \in Requests /\ HoldsNothing(s) /\ RequestOK(s)
    BY <1>1 DEF Requests, Signed, HoldsNothing, RequestOK, RowTypes
  <2> QED
    BY <1>1, <1>5, <2>1, NothingHeld, Moves DEF Authenticate, Rows
<1>6. ASSUME NEW x \in tokens, ClaimResetToken(q, x) PROVE IndInv'
  <2> DEFINE s == [op |-> "reset", at |-> "claimed", user |-> x.user, token |-> x.id, ends |-> {}]
  <2>1. s \in Requests
    BY <1>1 DEF Requests, Resets, RowTypes
  <2>2. LockedTokens(s) = {x.id} /\ RequestOK(s)
    BY <1>6 DEF LockedTokens, RequestOK, HoldsLink, ClaimResetToken
  <2>3. /\ \A v \in User : ~Writes(s, v)
        /\ \A y \in Role : ~AssignsRole(s, y) /\ ~EditsRole(s, y)
    BY DEF Writes, AssignsRole, EditsRole
  <2>4. TokensFree(q, LockedTokens(s))
    BY <1>6, <2>2 DEF ClaimResetToken
  <2>5. Clear(q, s)
    BY <1>1, <2>1, <2>3, <2>4, Acquires
  <2> QED
    BY <1>1, <1>6, <2>1, <2>2, <2>5, Moves DEF ClaimResetToken, Rows
<1>7. ASSUME NEW x \in tokens, ClaimVerification(q, x) PROVE IndInv'
  <2> DEFINE s == [op |-> "verify", user |-> x.user, token |-> x.id]
  <2>1. s \in Requests
    BY <1>1 DEF Requests, Verifies, RowTypes
  <2>2. LockedTokens(s) = {x.id} /\ RequestOK(s)
    BY <1>7 DEF LockedTokens, RequestOK, HoldsLink
  <2>3. /\ \A v \in User : ~Writes(s, v)
        /\ \A y \in Role : ~AssignsRole(s, y) /\ ~EditsRole(s, y)
    BY DEF Writes, AssignsRole, EditsRole
  <2>4. TokensFree(q, LockedTokens(s))
    BY <1>7, <2>2 DEF ClaimVerification
  <2>5. Clear(q, s)
    BY <1>1, <2>1, <2>3, <2>4, Acquires
  <2> QED
    BY <1>1, <1>7, <2>1, <2>2, <2>5, Moves DEF ClaimVerification, Rows
<1> QED
  BY <1>2, <1>3, <1>4, <1>5, <1>6, <1>7 DEF Enter

\* RecordLoginSuccess takes the account's row.
LEMMA RecordLoginKeeps == ASSUME IndInv, NEW q \in Request, RecordLoginSuccess(q) PROVE IndInv'
<1>1. PICK r : r = req[q]
  OBVIOUS
<1>2. /\ r \in LogsIn /\ r \in Requests /\ RequestOK(r) /\ edits \in Nat /\ LocksOK
  BY <1>1, TypeParts, ByOp DEF IndInv, RequestsOK, RecordLoginSuccess
<1> DEFINE s == [op |-> "login", at |-> "opening", user |-> r.user]
<1>3. s \in Requests /\ RequestOK(s)
  BY <1>2 DEF Requests, LogsIn, RequestOK
<1>4. /\ \A u \in User : Writes(s, u) => u = r.user
      /\ LockedTokens(s) = {}
      /\ \A x \in Role : ~AssignsRole(s, x) /\ ~EditsRole(s, x)
  BY DEF Writes, LockedTokens, AssignsRole, EditsRole
<1>5. RowFree(q, r.user)
  BY <1>1 DEF RecordLoginSuccess
<1>6. Clear(q, s)
  BY <1>2, <1>3, <1>4, <1>5, Acquires
<1> QED
  BY <1>1, <1>2, <1>3, <1>6, Moves DEF RecordLoginSuccess, Rows

\* ChangePassword decides which sessions it will end.
LEMMA ChangePasswordKeeps == ASSUME IndInv, NEW q \in Request, ChangePassword(q) PROVE IndInv'
<1>1. PICK r : r = req[q]
  OBVIOUS
<1>2. r \in Signed /\ edits \in Nat /\ RowTypes
  BY <1>1, TypeParts, ByOp DEF IndInv, ChangePassword
<1> DEFINE s == [op |-> "change", user |-> r.user, ends |-> LiveOf(r.user) \ {r.session}]
<1>3. s \in Requests /\ RequestOK(s) /\ HoldsNothing(s)
  BY <1>2 DEF Requests, Changing, RequestOK, HoldsNothing, Signed, LiveOf, RowTypes
<1> QED
  BY <1>1, <1>2, <1>3, NothingHeld, Moves DEF ChangePassword, Rows

\* The statements of ResetPassword after the link is claimed: the row, then the sessions.
LEMMA ResetSteps ==
  ASSUME IndInv, NEW q \in Request, UpdateUserPassword(q) \/ RevokeAllUserSessions(q)
  PROVE  IndInv'
<1>1. PICK r : r = req[q]
  OBVIOUS
<1>2. /\ r \in Resets /\ r \in Requests /\ RequestOK(r) /\ edits \in Nat /\ LocksOK /\ RowTypes
      /\ r.op = "reset"
  BY <1>1, TypeParts, ByOp DEF IndInv, RequestsOK, UpdateUserPassword, RevokeAllUserSessions
<1>3. ASSUME NEW at \in {"updated", "swept"}, NEW ends \in SUBSET Session,
             at = "swept" => LiveOf(r.user) \subseteq ends,
             Writes(r, r.user) \/ RowFree(q, r.user)
      PROVE  /\ Resetting(r, at, ends) \in Requests /\ RequestOK(Resetting(r, at, ends))
             /\ Clear(q, Resetting(r, at, ends))
  <2> DEFINE s == Resetting(r, at, ends)
  <2>1. /\ s \in Resets /\ s.op = "reset" /\ s.user = r.user /\ s.token = r.token
        /\ s.at = at /\ s.ends = ends
    BY <1>2 DEF Resetting, Resets
  <2>2. s \in Requests /\ RequestOK(s)
    BY <1>2, <1>3, <2>1 DEF Requests, RequestOK, HoldsLink
  <2>3. /\ \A u \in User : Writes(s, u) => u = r.user
        /\ LockedTokens(s) = LockedTokens(r)
        /\ \A x \in Role : ~AssignsRole(s, x) /\ ~EditsRole(s, x)
    BY <1>2, <2>1 DEF Writes, LockedTokens, AssignsRole, EditsRole
  <2>4. Clear(q, s)
    BY <1>1, <1>2, <1>3, <2>2, <2>3, Acquires
  <2> QED
    BY <2>2, <2>4
<1>4. CASE UpdateUserPassword(q)
  <2>1. Resetting(r, "updated", {}) \in Requests /\ RequestOK(Resetting(r, "updated", {})) /\ Clear(q, Resetting(r, "updated", {}))
    BY <1>1, <1>3, <1>4 DEF UpdateUserPassword
  <2> QED
    BY <1>1, <1>2, <1>4, <2>1, Moves DEF UpdateUserPassword, Rows
<1>5. CASE RevokeAllUserSessions(q)
  <2> DEFINE s == Resetting(r, "swept", LiveOf(r.user))
  <2>1. LiveOf(r.user) \subseteq Session /\ Writes(r, r.user)
    BY <1>1, <1>2, <1>5 DEF LiveOf, RowTypes, RevokeAllUserSessions, Writes
  <2>2. s \in Requests /\ RequestOK(s) /\ Clear(q, s)
    BY <1>3, <2>1
  <2> QED
    BY <1>1, <1>2, <1>5, <2>2, Moves DEF RevokeAllUserSessions, Rows
<1> QED
  BY <1>4, <1>5

\* An administrative request gets the account's row.
LEMMA AdminRequestKeeps ==
  ASSUME IndInv, NEW q \in Request, NEW act \in UserActs, NEW u \in User,
         NEW x \in Role \cup {SysAdmin, NoRole}, NEW active \in BOOLEAN,
         AdminRequest(q, act, u, x, active), RowFree(q, u),
         act = "status" /\ active => users[u].role # NoRole,
         x # NoRole => act \in {"create", "update"},
         act # "create" => Exists(u)
  PROVE  IndInv'
<1>1. PICK r : r = req[q]
  OBVIOUS
<1>2. r \in Signed /\ edits' \in Nat /\ LocksOK
  BY <1>1, TypeParts, ByOp DEF IndInv, AdminRequest, Edit
<1> DEFINE s == [op |-> "admin", at |-> "locked", act |-> act, actor |-> r.user, user |-> u,
                 role |-> x, active |-> active, ends |-> {}, kills |-> {}]
<1>3. s \in Requests
  BY <1>2 DEF Requests, Admin, Signed
<1>4. AdminOK(s)
  BY DEF AdminOK
<1>5. RequestOK(s)
  BY <1>4 DEF RequestOK
<1>6. /\ \A v \in User : Writes(s, v) => v = u
      /\ LockedTokens(s) = {}
      /\ \A y \in Role : ~AssignsRole(s, y) /\ ~EditsRole(s, y)
  BY DEF Writes, LockedTokens, AssignsRole, EditsRole
<1>7. Clear(q, s)
  BY <1>2, <1>3, <1>6, Acquires
<1> QED
  BY <1>1, <1>2, <1>3, <1>5, <1>7, Moves DEF AdminRequest, Rows

\* Nobody holds the row of an account that is not there yet, but who is creating it.
LEMMA AbsentIsFree ==
  ASSUME IndInv, NEW u \in User, users[u].status = "absent",
         \A p \in Request : req[p].op = "admin" => req[p].user # u
  PROVE  \A p \in Request : ~Writes(req[p], u)
<1> SUFFICES ASSUME NEW p \in Request, Writes(req[p], u) PROVE FALSE
  OBVIOUS
<1>1. PICK r : r = req[p]
  OBVIOUS
<1>2. r \in Requests /\ RequestOK(r)
  BY <1>1, TypeParts DEF IndInv, RequestsOK
<1> QED
  BY <1>1, <1>2 DEF Writes, RequestOK, Verified

\* A role's edit gets the role's row.
LEMMA RoleRequestKeeps ==
  ASSUME IndInv, NEW q \in Request, NEW act \in RoleActs, NEW x \in Role, NEW ps \in SUBSET Perm,
         RoleRequest(q, act, x, ps), \A p \in Request \ {q} : ~AssignsRole(req[p], x),
         Grantable(req[q].user, x, ps),
         act = "delete" => \A u \in User : users[u].role # x
  PROVE  IndInv'
<1>1. PICK r : r = req[q]
  OBVIOUS
<1>2. r \in Signed /\ edits' \in Nat /\ LocksOK /\ RowTypes /\ NoEscalation
  BY <1>1, TypeParts, ByOp DEF IndInv, RoleRequest, Edit
<1> DEFINE s == [op |-> "role", act |-> act, actor |-> r.user, role |-> x, perms |-> ps, global |-> Global(r.user)]
<1>3. s \in Requests
  BY <1>2 DEF Requests, EditRole, Signed, Global
<1>4. ~Global(r.user) => ps \subseteq {"user", "role"} \cup given
  BY <1>1, <1>2 DEF Grantable, Holds, Global, NoEscalation
<1>5. s.op = "role" /\ s.role = x /\ s.perms = ps /\ s.act = act /\ (Global(r.user) => s.global)
  OBVIOUS
<1>6. RequestOK(s)
  BY <1>4, <1>5 DEF RequestOK
<1>7. /\ \A v \in User : ~Writes(s, v)
      /\ LockedTokens(s) = {}
      /\ \A y \in Role : ~AssignsRole(s, y) /\ (EditsRole(s, y) => y = x)
  BY DEF Writes, LockedTokens, AssignsRole, EditsRole
<1>8. Clear(q, s)
  BY <1>2, <1>3, <1>7, Acquires
<1> QED
  BY <1>1, <1>2, <1>3, <1>6, <1>8, Moves DEF RoleRequest, Rows

\* What WriteUser makes of a request.
LEMMA WrittenFields ==
  ASSUME NEW r \in Admin, NEW ends \in SUBSET Session, NEW kills \in SUBSET Token
  PROVE  /\ Written(r, ends, kills) \in Admin
         /\ Written(r, ends, kills).op = "admin" /\ Written(r, ends, kills).at = "written"
         /\ Written(r, ends, kills).act = r.act /\ Written(r, ends, kills).user = r.user
         /\ Written(r, ends, kills).role = r.role /\ Written(r, ends, kills).active = r.active
         /\ Written(r, ends, kills).ends = ends /\ Written(r, ends, kills).kills = kills
  BY DEF Admin, Written

\* The statements of an administrative request: what it will end is in its hands.
LEMMA WriteUserKeeps == ASSUME IndInv, NEW q \in Request, WriteUser(q) PROVE IndInv'
<1>1. PICK r : r = req[q]
  OBVIOUS
<1>2. /\ r \in Admin /\ r.op = "admin" /\ AdminOK(r) /\ edits \in Nat /\ LocksOK /\ RowTypes
  BY <1>1, TypeParts, ByOp DEF IndInv, RequestsOK, RequestOK, WriteUser
<1>3. PICK ends \in SUBSET Session : ends = IF Sweeps(r) THEN LiveOf(r.user) ELSE {}
  BY <1>2 DEF RowTypes, LiveOf
<1>4. PICK kills \in SUBSET Token : kills = Revokes(r)
  BY <1>2 DEF RowTypes, UnusedOf, Revokes
<1>5. PICK s : s = Written(r, ends, kills)
  OBVIOUS
<1>6. /\ s \in Admin /\ s.op = "admin" /\ s.at = "written" /\ s.act = r.act /\ s.user = r.user
      /\ s.role = r.role /\ s.active = r.active /\ s.ends = ends /\ s.kills = kills
  BY <1>2, <1>5, WrittenFields
<1>7. s \in Requests
  BY <1>6 DEF Requests
<1>8. /\ RoleReferable(r) /\ TokensFree(q, kills) /\ Goto(q, s) /\ UNCHANGED Rows /\ edits' = edits
  BY <1>1, <1>3, <1>4, <1>5 DEF WriteUser, Rows
<1>9. AdminOK(s)
  <2>1. Sweeps(s) = Sweeps(r)
    BY <1>6 DEF Sweeps
  <2>2. Sweeps(s) => LiveOf(s.user) \subseteq s.ends
    BY <1>3, <1>6, <2>1
  <2>3. s.act \in {"password", "delete"} => UnusedOf(s.user, {"reset"}) \subseteq s.kills
    BY <1>4, <1>6 DEF Revokes
  <2>4. s.act \in {"create", "update"} => s.role \in DOMAIN roles \cup {SysAdmin}
    BY <1>6, <1>8 DEF RoleReferable
  <2>5. /\ s.act = "status" /\ s.active => users[s.user].role # NoRole
        /\ s.role # NoRole => s.act \in {"create", "update"}
        /\ s.act # "create" => Exists(s.user)
    BY <1>2, <1>6 DEF AdminOK
  <2> QED
    BY <2>2, <2>3, <2>4, <2>5 DEF AdminOK
<1>10. RequestOK(s)
  BY <1>6, <1>9 DEF RequestOK
<1>11. /\ \A v \in User : Writes(s, v) => Writes(r, v)
       /\ LockedTokens(s) = kills
       /\ \A x \in Role : ~EditsRole(s, x)
  BY <1>2, <1>6 DEF Writes, LockedTokens, EditsRole
<1>12. ASSUME NEW x \in Role, AssignsRole(s, x) PROVE \A p \in Request : ~EditsRole(req[p], x)
  <2>1. r.role = x /\ r.role # NoRole
    BY <1>6, <1>12, RoleAssumption DEF AssignsRole
  <2>2. r.act \in {"create", "update"}
    BY <1>2, <2>1 DEF AdminOK
  <2> QED
    BY <1>8, <2>1, <2>2 DEF RoleReferable
<1>13. Clear(q, s)
  BY <1>1, <1>2, <1>7, <1>8, <1>11, <1>12, Acquires
<1> QED
  BY <1>2, <1>7, <1>8, <1>10, <1>13, Moves

-----------------------------------------------------------------------------
(* Steps that write rows.                                                   *)

\* Sessions and links that come and go (the accounts and the roles stay).
LEMMA SessionAndTokenRows ==
  ASSUME IndInv, UNCHANGED <<users, roles, given>>,
         sessions' \subseteq [id : Session, user : User],
         tokens' \subseteq [id : Token, kind : Kinds, user : User],
         \A x \in sessions' : x \in sessions \/ (Exists(x.user) /\ users[x.user].verified),
         \A x \in tokens' : x \in tokens \/ x.kind # "reset" \/ Exists(x.user)
  PROVE  /\ Fine
         /\ \A r \in Requests :
              /\ \A x \in sessions' : x \in sessions \/ ~Writes(r, x.user)
              /\ \A x \in tokens' : x \in tokens \/ x.kind # "reset" \/ ~(r.op = "admin" /\ r.user = x.user)
              /\ \A x \in tokens : x \in tokens' \/ x.id \notin LockedTokens(r)
              => Orderly(r)
<1>1. RowTypes /\ NoOrphans /\ NoEscalation /\ RolesKnown
  BY TypeParts DEF IndInv
<1>2. RowTypes'
  BY <1>1 DEF RowTypes
<1>3. \A u : Exists(u)' = Exists(u)
  BY DEF Exists
<1>4. NoOrphans' /\ NoEscalation' /\ RolesKnown'
  BY <1>1, <1>3 DEF NoOrphans, NoEscalation, RolesKnown
<1>5. \A u \in User : Verified(u)' = Verified(u)
  BY <1>3 DEF Verified
<1> QED
  BY <1>2, <1>3, <1>4, <1>5 DEF Fine, Orderly

\* An account that is neither to come nor gone.
There(a) == a.status \notin {"absent", "deleted"}

\* One account changes (VerifyEmail, the administration of users, Register, EnsureAdmin).
LEMMA UserRow ==
  ASSUME IndInv, NEW u \in User, NEW a \in Account, users' = [users EXCEPT ![u] = a],
         UNCHANGED <<roles, given>>,
         a.role \in DOMAIN roles \cup {SysAdmin, NoRole}, a.status = "ACTIVE" => a.role # NoRole,
         users[u].status # "absent" => a.status # "absent", Verified(u) /\ There(a) => a.verified,
         sessions' \subseteq sessions, tokens' \subseteq [id : Token, kind : Kinds, user : User],
         \A x \in tokens' : x \in tokens \/ x.kind # "reset",
         \A x \in sessions' : x.user = u => There(a) /\ a.verified,
         \A x \in tokens' : x.user = u /\ x.kind = "reset" => There(a)
  PROVE  /\ Fine
         /\ \A r \in Requests :
              /\ \A x \in tokens : x \in tokens' \/ x.id \notin LockedTokens(r)
              /\ a.role = users[u].role \/ (~Writes(r, u) /\ ~EditsRole(r, a.role))
              /\ Exists(u) => There(a) \/ ~Writes(r, u)
              => Orderly(r)
<1>1. RowTypes /\ NoOrphans /\ NoEscalation /\ RolesKnown
  BY TypeParts DEF IndInv
<1>2. users'[u] = a /\ \A v \in User : v # u => users'[v] = users[v]
  BY <1>1 DEF RowTypes
<1>3. users' \in [User -> Account]
  BY <1>1 DEF RowTypes
<1>4. RowTypes'
  BY <1>1, <1>3 DEF RowTypes
<1>5. (Exists(u)' <=> There(a)) /\ \A v \in User : v # u => (Exists(v)' <=> Exists(v))
  BY <1>2 DEF Exists, There
<1>6. \A x \in sessions' : x.user \in User /\ Exists(x.user)' /\ users'[x.user].verified
  BY <1>1, <1>2, <1>5 DEF NoOrphans, RowTypes
<1>7. \A x \in tokens' : x.kind = "reset" => Exists(x.user)'
  BY <1>1, <1>2, <1>5 DEF NoOrphans, RowTypes
<1>8. \A v \in User : users'[v].status = "ACTIVE" => users'[v].role \in DOMAIN roles' \cup {SysAdmin}
  BY <1>1, <1>2 DEF NoOrphans
<1>9. NoOrphans' /\ NoEscalation' /\ RolesKnown'
  BY <1>1, <1>2, <1>6, <1>7, <1>8 DEF NoOrphans, NoEscalation, RolesKnown
<1>10. \A v \in User : Verified(v) => Verified(v)'
  BY <1>2, <1>5 DEF Verified
<1>11. \A v \in User : users[v].status # "absent" => users'[v].status # "absent"
  BY <1>2
<1>12. ASSUME NEW r \in Requests,
              \A x \in tokens : x \in tokens' \/ x.id \notin LockedTokens(r),
              a.role = users[u].role \/ (~Writes(r, u) /\ ~EditsRole(r, a.role)),
              Exists(u) => There(a) \/ ~Writes(r, u)
       PROVE  Orderly(r)
  <2>1. \A v \in User : users'[v].role = users[v].role \/ (~Writes(r, v) /\ ~EditsRole(r, users'[v].role))
    BY <1>2, <1>12
  <2>2. \A v \in User : Exists(v) => Exists(v)' \/ ~Writes(r, v)
    BY <1>2, <1>5, <1>12
  <2> QED
    BY <1>10, <1>11, <1>12, <2>1, <2>2 DEF Orderly
<1> QED
  BY <1>4, <1>9, <1>12 DEF Fine

\* The others' requests, and what their locks say of a step of request q.
LEMMA Others ==
  ASSUME IndInv, NEW q \in Request
  PROVE  /\ \A p \in Request : req[p] \in Requests /\ RequestOK(req[p])
         /\ \A p \in Request \ {q} :
              /\ \A u \in User : Writes(req[q], u) => ~Writes(req[p], u)
              /\ LockedTokens(req[p]) \cap LockedTokens(req[q]) = {}
              /\ \A x \in Role : AssignsRole(req[q], x) => ~EditsRole(req[p], x)
              /\ \A x \in Role : EditsRole(req[q], x) => ~AssignsRole(req[p], x)
<1>1. \A p \in Request : req[p] \in Requests /\ RequestOK(req[p])
  BY TypeParts DEF IndInv, RequestsOK
<1>2. \A p \in Request \ {q} : ~Collide(req[p], req[q]) /\ ~Collide(req[q], req[p])
  BY DEF IndInv, LocksOK
<1> QED
  BY <1>1, <1>2 DEF Collide

\* OpenSession: the account's row is held, so nobody is ending its sessions.
LEMMA OpenSessionKeeps ==
  ASSUME IndInv, NEW q \in Request, NEW i \in Session, OpenSession(q, i) PROVE IndInv'
<1>1. PICK r : r = req[q]
  OBVIOUS
<1>2. /\ r \in LogsIn /\ r.op = "login" /\ Verified(r.user) /\ Writes(r, r.user) /\ Exists(r.user) /\ RowTypes
  BY <1>1, TypeParts, ByOp, Others DEF IndInv, RequestOK, OpenSession, Writes
<1>3. PICK y : y = [id |-> i, user |-> r.user]
  OBVIOUS
<1>4. y \in [id : Session, user : User] /\ y.user = r.user /\ users[r.user].verified
  BY <1>2, <1>3 DEF LogsIn, Verified
<1>5. sessions' = sessions \cup {y} /\ tokens' = tokens /\ UNCHANGED <<users, roles, given, edits>> /\ Ends(q)
  BY <1>1, <1>3 DEF OpenSession
<1>6. sessions' \subseteq [id : Session, user : User] /\ tokens' \subseteq [id : Token, kind : Kinds, user : User]
  BY <1>2, <1>4, <1>5 DEF RowTypes
<1>7. /\ \A x \in sessions' : x \in sessions \/ (Exists(x.user) /\ users[x.user].verified)
      /\ \A x \in tokens' : x \in tokens
  BY <1>2, <1>4, <1>5
<1>8. \A p \in Request \ {q} : ~Writes(req[p], r.user) /\ req[p] \in Requests
  BY <1>1, <1>2, Others DEF LogsIn
<1>9. \A p \in Request \ {q} : \A x \in sessions' : x \in sessions \/ ~Writes(req[p], x.user)
  BY <1>4, <1>5, <1>8
<1>10. Fine /\ \A p \in Request \ {q} : Orderly(req[p])
  BY <1>5, <1>6, <1>7, <1>8, <1>9, SessionAndTokenRows
<1> QED
  BY <1>5, <1>10, EndsKeeps

\* Sessions end (Expire, RevokeOwnSession, LogoutAll, ChangePassword).
LEMMA SessionsEnd ==
  ASSUME IndInv, sessions' \subseteq sessions, UNCHANGED <<users, roles, tokens, given, edits>>
  PROVE  /\ req' = req => IndInv'
         /\ \A q \in Request : Ends(q) => IndInv'
<1>1. RowTypes /\ \A p \in Request : req[p] \in Requests
  BY TypeParts DEF IndInv
<1>2. sessions' \subseteq [id : Session, user : User] /\ tokens' \subseteq [id : Token, kind : Kinds, user : User]
  BY <1>1 DEF RowTypes
<1>3. Fine /\ \A r \in Requests : Orderly(r)
  BY <1>2, SessionAndTokenRows
<1> QED
  BY <1>1, <1>3, EndsKeeps, AloneKeeps

\* CreateResetToken: the foreign key is free, so nobody is revoking the account's links.
LEMMA CreateResetTokenKeeps ==
  ASSUME IndInv, NEW q \in Request, NEW t \in Token, CreateResetToken(q, t) PROVE IndInv'
<1>1. PICK r : r = req[q]
  OBVIOUS
<1>2. r \in Forgot /\ r.op = "forgot" /\ Exists(r.user) /\ RowTypes
  BY <1>1, TypeParts, ByOp DEF IndInv, CreateResetToken
<1>3. PICK y : y = [id |-> t, kind |-> "reset", user |-> r.user]
  OBVIOUS
<1>4. y \in [id : Token, kind : Kinds, user : User] /\ y.user = r.user
  BY <1>2, <1>3 DEF Forgot, Kinds
<1>5. /\ tokens' = {x \in tokens : x.id \notin r.kills} \cup {y}
      /\ UNCHANGED <<users, roles, sessions, given, edits>> /\ Ends(q)
  BY <1>1, <1>3 DEF CreateResetToken
<1>6. sessions' \subseteq [id : Session, user : User] /\ tokens' \subseteq [id : Token, kind : Kinds, user : User]
  BY <1>2, <1>4, <1>5 DEF RowTypes
<1>7. /\ \A x \in sessions' : x \in sessions
      /\ \A x \in tokens' : x \in tokens \/ Exists(x.user)
  BY <1>2, <1>4, <1>5
<1>8. LockedTokens(r) = r.kills
  BY <1>2 DEF LockedTokens
<1>9. ASSUME NEW p \in Request \ {q}
      PROVE  /\ req[p] \in Requests
             /\ \A x \in tokens' : x \in tokens \/ ~(req[p].op = "admin" /\ req[p].user = x.user)
             /\ \A x \in tokens : x \in tokens' \/ x.id \notin LockedTokens(req[p])
  <2>1. req[p] \in Requests /\ LockedTokens(req[p]) \cap r.kills = {}
    BY <1>1, <1>8, Others
  <2>2. req[p].op = "admin" => req[p].user # r.user
    BY <1>1 DEF CreateResetToken, KeyFree
  <2> QED
    BY <1>4, <1>5, <2>1, <2>2
<1>10. Fine /\ \A p \in Request \ {q} : Orderly(req[p])
  BY <1>5, <1>6, <1>7, <1>9, SessionAndTokenRows
<1> QED
  BY <1>5, <1>10, EndsKeeps

\* PasswordReset: the link is used, the sessions found are ended.
LEMMA PasswordResetKeeps == ASSUME IndInv, NEW q \in Request, PasswordReset(q) PROVE IndInv'
<1>1. PICK r : r = req[q]
  OBVIOUS
<1>2. r.op = "reset" /\ RowTypes
  BY <1>1, TypeParts DEF IndInv, PasswordReset
<1>3. /\ tokens' = {x \in tokens : x.id # r.token} /\ sessions' = {x \in sessions : x.id \notin r.ends}
      /\ UNCHANGED <<users, roles, given, edits>> /\ Ends(q)
  BY <1>1 DEF PasswordReset
<1>4. sessions' \subseteq [id : Session, user : User] /\ tokens' \subseteq [id : Token, kind : Kinds, user : User]
  BY <1>2, <1>3 DEF RowTypes
<1>5. LockedTokens(r) = {r.token}
  BY <1>2 DEF LockedTokens
<1>6. \A p \in Request \ {q} : req[p] \in Requests /\ r.token \notin LockedTokens(req[p])
  BY <1>1, <1>5, Others
<1>7. \A p \in Request \ {q} : \A x \in tokens : x \in tokens' \/ x.id \notin LockedTokens(req[p])
  BY <1>3, <1>6
<1>8. Fine /\ \A p \in Request \ {q} : Orderly(req[p])
  BY <1>3, <1>4, <1>6, <1>7, SessionAndTokenRows
<1> QED
  BY <1>3, <1>8, EndsKeeps

\* The statements of ResendVerification: links that somebody holds are waited for.
LEMMA ResendSteps ==
  ASSUME IndInv, NEW q \in Request,
         InvalidateVerifications(q) \/ (\E t \in Token : CreateVerification(q, t))
  PROVE  IndInv'
<1>1. PICK r : r = req[q]
  OBVIOUS
<1>2. /\ r \in Resends /\ r.op = "resend" /\ RowTypes /\ edits \in Nat
      /\ \A p \in Request : req[p] \in Requests
  BY <1>1, TypeParts, ByOp DEF IndInv, InvalidateVerifications, CreateVerification
<1>3. CASE InvalidateVerifications(q)
  <2> DEFINE s == [op |-> "resend", at |-> "swept", user |-> r.user]
  <2>1. s \in Requests /\ HoldsNothing(s) /\ RequestOK(s)'
    BY <1>2 DEF Requests, Resends, HoldsNothing, RequestOK
  <2>2. /\ tokens' = {x \in tokens : ~(x.kind = "verify" /\ x.user = r.user)}
        /\ UNCHANGED <<users, roles, sessions, given, edits>> /\ Goto(q, s)
        /\ TokensFree(q, UnusedOf(r.user, {"verify"}))
    BY <1>1, <1>3 DEF InvalidateVerifications
  <2>3. sessions' \subseteq [id : Session, user : User] /\ tokens' \subseteq [id : Token, kind : Kinds, user : User]
    BY <1>2, <2>2 DEF RowTypes
  <2>4. ASSUME NEW p \in Request \ {q}, NEW x \in tokens, x \notin tokens' PROVE x.id \notin LockedTokens(req[p])
    <3>1. x.id \in UnusedOf(r.user, {"verify"})
      BY <2>2, <2>4 DEF UnusedOf
    <3> QED
      BY <2>2, <3>1 DEF TokensFree
  <2>5. Fine /\ \A p \in Request \ {q} : Orderly(req[p])
    BY <1>2, <2>2, <2>3, <2>4, SessionAndTokenRows
  <2> QED
    BY <1>2, <2>1, <2>2, <2>5, NothingHeld, Conclude
<1>4. ASSUME NEW t \in Token, CreateVerification(q, t) PROVE IndInv'
  <2>1. PICK y : y = [id |-> t, kind |-> "verify", user |-> r.user]
    OBVIOUS
  <2>2. y \in [id : Token, kind : Kinds, user : User] /\ y.kind = "verify"
    BY <1>2, <2>1 DEF Resends, Kinds
  <2>3. tokens' = tokens \cup {y} /\ UNCHANGED <<users, roles, sessions, given, edits>> /\ Ends(q)
    BY <1>1, <1>4, <2>1 DEF CreateVerification
  <2>4. sessions' \subseteq [id : Session, user : User] /\ tokens' \subseteq [id : Token, kind : Kinds, user : User]
    BY <1>2, <2>2, <2>3 DEF RowTypes
  <2>5. Fine /\ \A p \in Request \ {q} : Orderly(req[p])
    BY <1>2, <2>2, <2>3, <2>4, SessionAndTokenRows
  <2> QED
    BY <2>3, <2>5, EndsKeeps
<1> QED
  BY <1>3, <1>4

\* What is written into an account keeps its type and its other fields.
LEMMA VerifiedFields ==
  ASSUME NEW a \in Account, NEW b \in BOOLEAN
  PROVE  /\ WithVerified(a, b) \in Account /\ WithVerified(a, b).verified = b
         /\ WithVerified(a, b).status = a.status /\ WithVerified(a, b).role = a.role
  BY DEF Account, WithVerified

\* The status alone changes.
LEMMA StatusFields ==
  ASSUME NEW a \in Account, NEW s \in Status
  PROVE  /\ WithStatus(a, s) \in Account /\ WithStatus(a, s).status = s
         /\ WithStatus(a, s).verified = a.verified /\ WithStatus(a, s).role = a.role
  BY DEF Account, WithStatus

\* A deleted role takes its assignment with it, nothing else of the account.
LEMMA UnassignedFields ==
  ASSUME NEW a \in Account
  PROVE  /\ Unassigned(a) \in Account /\ Unassigned(a).role = NoRole
         /\ Unassigned(a).status = a.status /\ Unassigned(a).verified = a.verified
  BY DEF Account, Unassigned

\* UpdateUser writes the status and the role and makes the account a member.
LEMMA UpdatedFields ==
  ASSUME NEW a \in Account, NEW s \in Status, NEW x \in Role \cup {SysAdmin, NoRole}
  PROVE  /\ Updated(a, s, x) \in Account /\ Updated(a, s, x).status = s
         /\ Updated(a, s, x).role = x /\ Updated(a, s, x).verified = a.verified
  BY DEF Account, Updated

\* An account as CreateUser makes it.
LEMMA EmployedFields ==
  ASSUME NEW x \in Role \cup {SysAdmin, NoRole}
  PROVE  /\ Employed(x) \in Account /\ Employed(x).status = "ACTIVE"
         /\ Employed(x).role = x /\ Employed(x).verified = TRUE
  BY DEF Account, Employed, Status

\* VerifyEmail: the account is verified when it is still there, the link is used.
LEMMA VerifyEmailKeeps == ASSUME IndInv, NEW q \in Request, VerifyEmail(q) PROVE IndInv'
<1>1. PICK r : r = req[q]
  OBVIOUS
<1>2. r \in Verifies /\ r.op = "verify" /\ r.user \in User /\ RowTypes /\ NoOrphans /\ RolesKnown
  BY <1>1, TypeParts, ByOp DEF IndInv, VerifyEmail, Verifies
<1>3. PICK a : a = WithVerified(users[r.user], Exists(r.user))
  OBVIOUS
<1>4. Exists(r.user) \in BOOLEAN /\ users[r.user] \in Account
  BY <1>2 DEF Exists, RowTypes
<1>5. /\ a \in Account /\ a.status = users[r.user].status /\ a.role = users[r.user].role
      /\ There(a) => a.verified
      /\ Exists(r.user) => There(a)
  BY <1>3, <1>4, VerifiedFields DEF Exists, There
<1>6. /\ users' = [users EXCEPT ![r.user] = a] /\ tokens' = {x \in tokens : x.id # r.token}
      /\ UNCHANGED <<roles, sessions, given, edits>> /\ Ends(q)
  BY <1>1, <1>3 DEF VerifyEmail
<1>7. /\ a.role \in DOMAIN roles \cup {SysAdmin, NoRole} /\ (a.status = "ACTIVE" => a.role # NoRole)
  BY <1>2, <1>5, RoleAssumption DEF RolesKnown, NoOrphans, SysAdmin, NoRole, RowTypes
<1>8. /\ \A x \in sessions' : x.user = r.user => There(a) /\ a.verified
      /\ \A x \in tokens' : x.user = r.user /\ x.kind = "reset" => There(a)
  BY <1>2, <1>5, <1>6 DEF NoOrphans, Exists, There
<1>9. tokens' \subseteq tokens /\ tokens' \subseteq [id : Token, kind : Kinds, user : User] /\ sessions' \subseteq sessions
  BY <1>2, <1>6 DEF RowTypes
<1>10. LockedTokens(r) = {r.token}
  BY <1>2 DEF LockedTokens
<1>11. \A p \in Request \ {q} : req[p] \in Requests /\ r.token \notin LockedTokens(req[p])
  BY <1>1, <1>10, Others
<1>12. \A p \in Request \ {q} : \A x \in tokens : x \in tokens' \/ x.id \notin LockedTokens(req[p])
  BY <1>6, <1>11
<1>13. Fine /\ \A p \in Request \ {q} : Orderly(req[p])
  BY <1>2, <1>5, <1>6, <1>7, <1>8, <1>9, <1>11, <1>12, UserRow
<1> QED
  BY <1>6, <1>13, EndsKeeps

\* A new account that nobody has made before (Register, EnsureAdmin).
LEMMA NewAccountKeeps ==
  ASSUME IndInv, NEW u \in User, users[u].status = "absent",
         \A p \in Request : req[p].op = "admin" => req[p].user # u,
         NEW a \in Account, users' = [users EXCEPT ![u] = a], a.status # "absent",
         a.role = users[u].role \/ a.role = SysAdmin, a.status = "ACTIVE" => a.role # NoRole,
         UNCHANGED <<roles, sessions, req, given, edits>>, tokens \subseteq tokens',
         tokens' \subseteq [id : Token, kind : Kinds, user : User],
         \A x \in tokens' : x \in tokens \/ x.kind # "reset"
  PROVE  IndInv'
<1>1. RowTypes /\ NoOrphans /\ RolesKnown /\ \A p \in Request : req[p] \in Requests
  BY TypeParts DEF IndInv
<1>2. /\ \A x \in sessions' : x.user # u
      /\ \A x \in tokens' : x.user = u => x.kind # "reset"
  BY <1>1 DEF NoOrphans, Exists
<1>3. \A p \in Request : ~Writes(req[p], u)
  BY AbsentIsFree
<1>4. \A p \in Request : ~EditsRole(req[p], SysAdmin)
  BY <1>1, ByOp, RoleAssumption DEF EditsRole, EditRole
<1>5. a.role \in DOMAIN roles \cup {SysAdmin, NoRole}
  BY <1>1 DEF RolesKnown
<1>6. ~Verified(u)
  BY DEF Verified
<1>7. Fine /\ \A p \in Request : Orderly(req[p])
  BY <1>1, <1>2, <1>3, <1>4, <1>5, <1>6, UserRow
<1> QED
  BY <1>7, AloneKeeps

\* Register makes an account and its verification link.
LEMMA RegisterKeeps == ASSUME IndInv, NEW u \in User, NEW t \in Token, Register(u, t) PROVE IndInv'
<1>1. PICK a : a = WithStatus(users[u], "PENDING_ACCESS")
  OBVIOUS
<1>2. PICK y : y = [id |-> t, kind |-> "verify", user |-> u]
  OBVIOUS
<1>3. RowTypes /\ users[u] \in Account /\ "PENDING_ACCESS" \in Status
  BY TypeParts DEF IndInv, RowTypes, Status
<1>4. a \in Account /\ a.status = "PENDING_ACCESS" /\ a.role = users[u].role
  BY <1>1, <1>3, StatusFields
<1>5. y \in [id : Token, kind : Kinds, user : User] /\ y.kind = "verify"
  BY <1>2 DEF Kinds
<1>6. /\ users' = [users EXCEPT ![u] = a] /\ tokens' = tokens \cup {y}
      /\ UNCHANGED <<roles, sessions, req, given, edits>> /\ users[u].status = "absent"
      /\ \A p \in Request : req[p].op = "admin" => req[p].user # u
  BY <1>1, <1>2 DEF Register
<1>7. tokens' \subseteq [id : Token, kind : Kinds, user : User]
  BY <1>3, <1>5, <1>6 DEF RowTypes
<1> QED
  BY <1>4, <1>5, <1>6, <1>7, NewAccountKeeps

\* EnsureAdmin makes an administrator whose address is not verified.
LEMMA EnsureAdminKeeps == ASSUME IndInv, NEW u \in User, EnsureAdmin(u) PROVE IndInv'
<1>1. PICK a : a = WithVerified(Employed(SysAdmin), FALSE)
  OBVIOUS
<1>2. Employed(SysAdmin) \in Account /\ Employed(SysAdmin).status = "ACTIVE" /\ Employed(SysAdmin).role = SysAdmin
  BY DEF Employed, Account, Status
<1>3. a \in Account /\ a.status = "ACTIVE" /\ a.role = SysAdmin
  BY <1>1, <1>2, VerifiedFields
<1>4. SysAdmin # NoRole
  BY DEF SysAdmin, NoRole
<1>5. tokens' \subseteq [id : Token, kind : Kinds, user : User] /\ tokens' = tokens
  BY TypeParts DEF IndInv, RowTypes, EnsureAdmin
<1> QED
  BY <1>1, <1>3, <1>4, <1>5, NewAccountKeeps DEF EnsureAdmin

\* The account as an administrative request leaves it.
LEMMA ChangedAccount ==
  ASSUME IndInv, NEW r \in Admin, AdminOK(r), r.at = "written"
  PROVE  /\ Changed(r, users[r.user]) \in Account
         /\ Changed(r, users[r.user]).status # "absent" \/ users[r.user].status = "absent"
         /\ Changed(r, users[r.user]).role \in DOMAIN roles \cup {SysAdmin, NoRole}
         /\ Changed(r, users[r.user]).status = "ACTIVE" => Changed(r, users[r.user]).role # NoRole
         /\ \/ Changed(r, users[r.user]).role \in {users[r.user].role, NoRole}
            \/ Changed(r, users[r.user]).role = r.role /\ r.act \in {"create", "update"}
         /\ r.act # "delete" => There(Changed(r, users[r.user]))
         /\ r.act # "delete" => Changed(r, users[r.user]).verified \/ ~users[r.user].verified
         /\ r.act = "delete" => ~There(Changed(r, users[r.user]))
<1>1. RowTypes /\ NoOrphans /\ RolesKnown /\ r.user \in User /\ users[r.user] \in Account /\ r.act \in UserActs
      /\ r.role \in Role \cup {SysAdmin, NoRole} /\ r.active \in BOOLEAN
  BY TypeParts DEF IndInv, Admin, RowTypes
<1>2. PICK a : a = users[r.user]
  OBVIOUS
<1>3. NoRole \notin DOMAIN roles \cup {SysAdmin}
  BY <1>1, RoleAssumption DEF RowTypes, SysAdmin, NoRole
<1>4. InForce(r.active) \in {"ACTIVE", "DISABLED"} /\ (InForce(r.active) = "ACTIVE" => r.active)
      /\ InForce(r.active) \in Status
  BY <1>1 DEF InForce, Status
<1>5. /\ a \in Account /\ a.role \in DOMAIN roles \cup {SysAdmin, NoRole}
      /\ a.status = "ACTIVE" => a.role # NoRole
  BY <1>1, <1>2, <1>3 DEF RolesKnown, NoOrphans
<1>6. r.act # "create" => There(a)
  BY <1>2 DEF AdminOK, Exists, There
<1>7. CASE r.act = "create"
  <2>1. Changed(r, a) = Employed(r.role) /\ r.role \in DOMAIN roles \cup {SysAdmin}
    BY <1>7 DEF Changed, AdminOK
  <2> QED
    BY <1>1, <1>2, <1>3, <1>5, <1>7, <2>1, EmployedFields DEF There
<1>8. CASE r.act = "delete"
  <2>1. Absent \in Account /\ Absent.role = NoRole /\ "deleted" \in Status
    BY DEF Absent, Account, Status
  <2>2. Changed(r, a) = WithStatus(Absent, "deleted")
    BY <1>8 DEF Changed
  <2> QED
    BY <1>2, <1>8, <2>1, <2>2, StatusFields DEF There
<1>9. CASE r.act = "update"
  <2>1. Changed(r, a) = Updated(a, InForce(r.active), r.role) /\ r.role \in DOMAIN roles \cup {SysAdmin}
    BY <1>9 DEF Changed, AdminOK
  <2> QED
    BY <1>1, <1>2, <1>3, <1>4, <1>5, <1>9, <2>1, UpdatedFields DEF There
<1>10. CASE r.act = "status"
  <2>1. Changed(r, a) = WithStatus(a, InForce(r.active)) /\ (r.active => a.role # NoRole)
    BY <1>2, <1>10 DEF Changed, AdminOK
  <2> QED
    BY <1>1, <1>2, <1>4, <1>5, <1>10, <2>1, StatusFields DEF There
<1>11. CASE r.act \in {"password", "touch"}
  <2>1. Changed(r, a) = a
    BY <1>11 DEF Changed
  <2> QED
    BY <1>2, <1>5, <1>6, <1>11, <2>1 DEF There
<1> QED
  BY <1>1, <1>7, <1>8, <1>9, <1>10, <1>11 DEF UserActs

\* CommitUser: what was locked is written, what was found is ended.
LEMMA CommitUserKeeps == ASSUME IndInv, NEW q \in Request, CommitUser(q) PROVE IndInv'
<1>1. PICK r : r = req[q]
  OBVIOUS
<1>2. /\ r \in Admin /\ r.op = "admin" /\ r.at = "written" /\ AdminOK(r) /\ r.user \in User
      /\ RowTypes /\ NoOrphans
  BY <1>1, TypeParts, ByOp, Others DEF IndInv, RequestOK, CommitUser, Admin
<1>3. PICK u : u = r.user
  OBVIOUS
<1>4. PICK a : a = Changed(r, users[u])
  OBVIOUS
<1>5. /\ a \in Account /\ (users[u].status # "absent" => a.status # "absent")
      /\ a.role \in DOMAIN roles \cup {SysAdmin, NoRole} /\ (a.status = "ACTIVE" => a.role # NoRole)
      /\ a.role \in {users[u].role, NoRole} \/ (a.role = r.role /\ r.act \in {"create", "update"})
      /\ r.act # "delete" => There(a) /\ (a.verified \/ ~users[u].verified)
      /\ r.act = "delete" => ~There(a)
  BY <1>2, <1>3, <1>4, ChangedAccount
<1>6. /\ users' = [users EXCEPT ![u] = a] /\ sessions' = {x \in sessions : x.id \notin r.ends}
      /\ tokens' = {x \in tokens : x.id \notin r.kills} /\ UNCHANGED <<roles, given, edits>> /\ Ends(q)
  BY <1>1, <1>3, <1>4 DEF CommitUser
<1>7. r.act = "delete" => \A x \in sessions' : x.user # u
  BY <1>2, <1>3, <1>6 DEF AdminOK, Sweeps, LiveOf
<1>8. r.act = "delete" => \A x \in tokens' : x.user = u => x.kind # "reset"
  BY <1>2, <1>3, <1>6 DEF AdminOK, UnusedOf
<1>9. /\ \A x \in sessions' : x.user = u => There(a) /\ a.verified
      /\ \A x \in tokens' : x.user = u /\ x.kind = "reset" => There(a)
  BY <1>2, <1>5, <1>6, <1>7, <1>8 DEF NoOrphans
<1>10. Verified(u) /\ There(a) => a.verified
  <2>1. CASE r.act = "create"
    BY <1>4, <2>1, <1>2, EmployedFields DEF Changed, Admin
  <2>2. CASE r.act # "create"
    BY <1>2, <1>3, <1>5, <2>2 DEF Verified, AdminOK
  <2> QED
    BY <2>1, <2>2
<1>11. tokens' \subseteq tokens /\ tokens' \subseteq [id : Token, kind : Kinds, user : User] /\ sessions' \subseteq sessions
  BY <1>2, <1>6 DEF RowTypes
<1>12. LockedTokens(r) = r.kills /\ Writes(r, u) /\ u \in User /\ (r.role \in Role => AssignsRole(r, r.role))
  BY <1>2, <1>3 DEF LockedTokens, Writes, AssignsRole
<1>13. ASSUME NEW p \in Request \ {q}
       PROVE  /\ req[p] \in Requests /\ ~Writes(req[p], u)
              /\ \A x \in tokens : x \in tokens' \/ x.id \notin LockedTokens(req[p])
              /\ a.role = users[u].role \/ ~EditsRole(req[p], a.role)
  <2>1. /\ req[p] \in Requests /\ ~Writes(req[p], u) /\ LockedTokens(req[p]) \cap r.kills = {}
        /\ r.role \in Role => ~EditsRole(req[p], r.role)
    BY <1>1, <1>12, Others
  <2>2. \A x : EditsRole(req[p], x) => x \in Role
    BY <2>1, ByOp DEF EditsRole, EditRole
  <2>3. NoRole \notin Role
    BY RoleAssumption
  <2>4. a.role = users[u].role \/ ~EditsRole(req[p], a.role)
    BY <1>5, <2>1, <2>2, <2>3
  <2> QED
    BY <1>6, <2>1, <2>4
<1>14. Fine /\ \A p \in Request \ {q} : Orderly(req[p])
  BY <1>5, <1>6, <1>9, <1>10, <1>11, <1>12, <1>13, UserRow
<1> QED
  BY <1>6, <1>14, EndsKeeps

\* CommitRole: nobody has a role that is deleted, and what a role gets was its editor's to give.
LEMMA CommitRoleKeeps == ASSUME IndInv, NEW q \in Request, CommitRole(q) PROVE IndInv'
<1>1. PICK r : r = req[q]
  OBVIOUS
<1>2. /\ r \in EditRole /\ r.op = "role" /\ RequestOK(r) /\ RowTypes /\ NoOrphans /\ NoEscalation /\ RolesKnown
      /\ r.role \in Role /\ r.perms \subseteq Perm /\ r.global \in BOOLEAN
  BY <1>1, TypeParts, ByOp, Others DEF IndInv, CommitRole, EditRole
<1>3. /\ UNCHANGED <<sessions, tokens, edits>> /\ Ends(q)
      /\ given' = IF r.global THEN given \cup r.perms ELSE given
  BY <1>1 DEF CommitRole
<1>4. users' = users
  <2>1. CASE r.act = "delete"
    <3>1. \A u \in User : users[u].role # r.role
      BY <1>2, <2>1 DEF RequestOK
    <3>2. users' = [u \in User |-> IF users[u].role = r.role THEN Unassigned(users[u]) ELSE users[u]]
      BY <1>1, <2>1 DEF CommitRole
    <3> QED
      BY <1>2, <3>1, <3>2 DEF RowTypes
  <2>2. CASE r.act # "delete"
    BY <1>1, <2>2 DEF CommitRole
  <2> QED
    BY <2>1, <2>2
<1>5. given \subseteq given' /\ given' \subseteq Perm /\ r.perms \subseteq {"user", "role"} \cup given'
  BY <1>2, <1>3 DEF RequestOK, RowTypes
<1>6. /\ DOMAIN roles' \subseteq Role
      /\ \A x \in DOMAIN roles' : roles'[x] = r.perms \/ (x \in DOMAIN roles /\ roles'[x] = roles[x])
      /\ \A x \in DOMAIN roles : x \in DOMAIN roles' \/ (x = r.role /\ r.act = "delete")
  <2>1. CASE r.act = "delete"
    <3>1. roles' = [x \in DOMAIN roles \ {r.role} |-> roles[x]]
      BY <1>1, <2>1 DEF CommitRole
    <3> QED
      BY <1>2, <2>1, <3>1 DEF RowTypes
  <2>2. CASE r.act # "delete"
    <3>1. roles' = [x \in DOMAIN roles \cup {r.role} |-> IF x = r.role THEN r.perms ELSE roles[x]]
      BY <1>1, <2>2 DEF CommitRole
    <3> QED
      BY <1>2, <3>1 DEF RowTypes
  <2> QED
    BY <2>1, <2>2
<1>7. RowTypes' /\ NoEscalation'
  BY <1>2, <1>3, <1>4, <1>5, <1>6 DEF RowTypes, NoEscalation
<1>8. \A u \in User : users[u].role \in DOMAIN roles => users[u].role \in DOMAIN roles'
  BY <1>2, <1>6 DEF RequestOK
<1>9. NoOrphans' /\ RolesKnown'
  BY <1>2, <1>3, <1>4, <1>8 DEF NoOrphans, RolesKnown, Exists
<1>10. EditsRole(r, r.role)
  BY <1>2 DEF EditsRole
<1>11. ASSUME NEW p \in Request \ {q} PROVE Orderly(req[p])
  <2>1. ~AssignsRole(req[p], r.role)
    BY <1>1, <1>2, <1>10, Others
  <2>2. \A u \in User : Verified(u)' = Verified(u) /\ Exists(u)' = Exists(u)
    BY <1>4 DEF Verified, Exists
  <2> QED
    BY <1>3, <1>4, <1>5, <1>6, <2>1, <2>2 DEF Orderly
<1> QED
  BY <1>3, <1>7, <1>9, <1>11, EndsKeeps DEF Fine

-----------------------------------------------------------------------------
(* The whole.                                                               *)

\* What somebody who is signed in asks for.
LEMMA SignedInKeeps == ASSUME IndInv, NEW q \in Request, SignedIn(q) PROVE IndInv'
<1>1. ASSUME (\E x \in sessions : RevokeOwnSession(q, x)) \/ LogoutAll(q) PROVE IndInv'
  <2>1. sessions' \subseteq sessions /\ UNCHANGED <<users, roles, tokens, given, edits>> /\ Ends(q)
    BY <1>1 DEF RevokeOwnSession, LogoutAll
  <2> QED
    BY <2>1, SessionsEnd
<1>2. ASSUME UpdateOwnProfile(q) PROVE IndInv'
  <2>1. req[q].user \in User /\ NoRole \in Role \cup {SysAdmin, NoRole}
    BY <1>2, TypeParts, ByOp DEF IndInv, UpdateOwnProfile, Signed
  <2>2. PICK u \in User : u = req[q].user
    BY <2>1
  <2> QED
    BY <1>2, <2>1, <2>2, AdminRequestKeeps DEF UpdateOwnProfile, LocksUser, UserActs
<1>3. ASSUME NEW u \in User, NEW x \in Role \cup {SysAdmin}, CreateUser(q, u, x) PROVE IndInv'
  <2>1. RowFree(q, u)
    BY <1>3, AbsentIsFree DEF CreateUser, RowFree
  <2> QED
    BY <1>3, <2>1, AdminRequestKeeps DEF CreateUser, UserActs
<1>4. ASSUME NEW u \in User, NEW x \in Role \cup {SysAdmin}, NEW active \in BOOLEAN, UpdateUser(q, u, x, active)
      PROVE  IndInv'
  BY <1>4, AdminRequestKeeps DEF UpdateUser, LocksUser, UserActs
<1>5. ASSUME NEW u \in User, NEW active \in BOOLEAN, SetUserActive(q, u, active) PROVE IndInv'
  BY <1>5, AdminRequestKeeps DEF SetUserActive, LocksUser, UserActs
<1>6. ASSUME NEW u \in User, ResetUserPassword(q, u) \/ HardDeleteUser(q, u) \/ UnlockUser(q, u) PROVE IndInv'
  BY <1>6, AdminRequestKeeps DEF ResetUserPassword, HardDeleteUser, UnlockUser, LocksUser, UserActs
<1>7. ASSUME NEW x \in Role, NEW ps \in Offers, CreateRole(q, x, ps) \/ UpdateRole(q, x, ps) PROVE IndInv'
  <2>1. ps \in SUBSET Perm /\ \A p \in Request \ {q} : ~AssignsRole(req[p], x)
    BY <1>7, PermAssumption DEF CreateRole, UpdateRole, LocksRole, AssignsRole
  <2> QED
    BY <1>7, <2>1, RoleRequestKeeps DEF CreateRole, UpdateRole, RoleActs
<1>8. ASSUME NEW x \in Role, DeleteRole(q, x) PROVE IndInv'
  BY <1>8, RoleRequestKeeps DEF DeleteRole, LocksRole, InUse, RoleActs, Grantable
<1> QED
  BY <1>1, <1>2, <1>3, <1>4, <1>5, <1>6, <1>7, <1>8, ChangePasswordKeeps DEF SignedIn

\* The steps of requests that are under way.
LEMMA ProceedKeeps == ASSUME IndInv, NEW q \in Request, Proceed(q) PROVE IndInv'
<1>1. ASSUME PasswordChanged(q) PROVE IndInv'
  <2>1. sessions' \subseteq sessions /\ UNCHANGED <<users, roles, tokens, given, edits>> /\ Ends(q)
    BY <1>1 DEF PasswordChanged
  <2> QED
    BY <2>1, SessionsEnd
<1> QED
  BY <1>1, RecordLoginKeeps, OpenSessionKeeps, ResetSteps, PasswordResetKeeps, VerifyEmailKeeps, ResendSteps,
     CreateResetTokenKeeps, WriteUserKeeps, CommitUserKeeps, CommitRoleKeeps DEF Proceed

\* Every step keeps the invariant.
LEMMA NextKeeps == IndInv /\ [Next]_vars => IndInv'
<1> SUFFICES ASSUME IndInv, [Next]_vars PROVE IndInv'
  OBVIOUS
<1>1. ASSUME NEW q \in Request, Abort(q) PROVE IndInv'
  BY <1>1, SameRows, TypeParts, EndsKeeps DEF Abort, Rows, IndInv
<1>2. ASSUME NEW x \in sessions, Expire(x) PROVE IndInv'
  BY <1>2, SessionsEnd DEF Expire
<1>3. CASE UNCHANGED vars
  BY <1>3, SameRows, TypeParts, AloneKeeps DEF vars, Rows, IndInv
<1> QED
  BY <1>1, <1>2, <1>3, EnterKeeps, ProceedKeeps, SignedInKeeps, RegisterKeeps, EnsureAdminKeeps DEF Next

\* The first administrators and the staff.
LEMMA InitOK == Init => IndInv
<1> SUFFICES ASSUME Init PROVE IndInv
  OBVIOUS
<1>1. /\ \A u \in User : users[u] \in {Employed(SysAdmin), Employed(Manager), Absent}
      /\ DOMAIN roles = Role /\ \A x \in Role : roles[x] \subseteq {"user", "role"}
      /\ sessions = {} /\ tokens = {} /\ given = {} /\ edits = 0
  BY DEF Init
<1>2. Absent \in Account /\ Absent.status = "absent" /\ Absent.role = NoRole
  BY DEF Absent, Account, Status
<1>3. \A x \in {SysAdmin, Manager} : /\ Employed(x) \in Account /\ Employed(x).role = x
                                     /\ Employed(x).role \in DOMAIN roles \cup {SysAdmin}
  <2>1. Manager \in Role /\ SysAdmin \in Role \cup {SysAdmin, NoRole}
    BY RoleAssumption
  <2>2. /\ Employed(Manager) \in Account /\ Employed(Manager).role = Manager
        /\ Employed(SysAdmin) \in Account /\ Employed(SysAdmin).role = SysAdmin
    BY <2>1 DEF Employed, Account, Status
  <2> QED
    BY <1>1, <2>1, <2>2
<1>4. RowTypes
  <2>1. users = [u \in User |-> users[u]]
    BY DEF Init
  <2>2. \A u \in User : users[u] \in Account
    BY <1>1, <1>2, <1>3
  <2> QED
    BY <1>1, <2>1, <2>2, PermAssumption DEF RowTypes
<1>5. \A q \in Request : req[q] = Idle
  BY DEF Init
<1>6. TypeOK
  BY <1>1, <1>4, <1>5, IdleOK, TypeParts DEF Init
<1>7. RolesKnown /\ NoOrphans /\ NoEscalation
  BY <1>1, <1>2, <1>3 DEF RolesKnown, NoOrphans, NoEscalation
<1>8. RequestsOK
  BY <1>5, IdleOK DEF RequestsOK
<1>9. LocksOK
  BY <1>5, IdleOK, NothingHeld DEF LocksOK, Clear
<1> QED
  BY <1>6, <1>7, <1>8, <1>9 DEF IndInv

\* The invariant holds in every state, for any number of requests.
LEMMA Invariance == Spec => []IndInv
  BY InitOK, NextKeeps, PTL DEF Spec

\* The tables of the auth service and its requests keep their types.
THEOREM TypeCorrect == Spec => []TypeOK
<1>1. IndInv => TypeOK
  BY DEF IndInv
<1> QED
  BY <1>1, Invariance, PTL

\* No session and no reset link outlives its account, and nobody who may sign in is without a role,
\* whatever is deleted meanwhile (HardDeleteUser, DeleteRole, the locks of users.go and roles.go).
THEOREM NothingOutlivesItsAccount == Spec => []NoOrphans
<1>1. IndInv => NoOrphans
  BY DEF IndInv
<1> QED
  BY <1>1, Invariance, PTL

\* Custom roles carry what the staff had and what System Admins gave, through any number of edits
\* (requireGrantablePermissions).
THEOREM NobodyEscalates == Spec => []NoEscalation
<1>1. IndInv => NoEscalation
  BY DEF IndInv
<1> QED
  BY <1>1, Invariance, PTL

\* Who acts on a link holds one that is unused (GetActivePasswordResetToken, VerifyEmail: FOR UPDATE).
THEOREM LinksWorkOnce == Spec => []TokenIsOneTime
<1>1. ASSUME IndInv PROVE TokenIsOneTime
  <2>1. \A q \in Request : RequestOK(req[q])
    BY <1>1, TypeParts DEF IndInv, RequestsOK
  <2> QED
    BY <2>1 DEF TokenIsOneTime, RequestOK, HoldsLink
<1> QED
  BY <1>1, Invariance, PTL

\* What ends a user's sessions ends all of them, and no sign-in holds the account's row then; one that
\* waits for the row still opens its session (PasswordReset, UpdateUser, SetUserActive,
\* ResetUserPassword, HardDeleteUser; Login, recordSuccess).
THEOREM SweepsAreComplete == Spec => SweepIsComplete
<1> DEFINE A == \A q \in Request : PasswordReset(q) \/ (CommitUser(q) /\ Sweeps(req[q]))
                  => /\ \A x \in sessions' : x.user # req[q].user
                     /\ \A p \in Request : req'[p].op = "login" /\ req'[p].at = "opening"
                                             => req'[p].user # req[q].user
<1>1. ASSUME IndInv, NEW q \in Request, PasswordReset(q) \/ (CommitUser(q) /\ Sweeps(req[q]))
      PROVE  /\ \A x \in sessions' : x.user # req[q].user
             /\ \A p \in Request : req'[p].op = "login" /\ req'[p].at = "opening"
                                     => req'[p].user # req[q].user
  <2>1. PICK r : r = req[q]
    OBVIOUS
  <2>2. RequestOK(r) /\ r \in Requests
    BY <1>1, <2>1, TypeParts DEF IndInv, RequestsOK
  <2>3. LiveOf(r.user) \subseteq r.ends
    BY <1>1, <2>1, <2>2 DEF RequestOK, AdminOK, PasswordReset, CommitUser
  <2>4. sessions' = {x \in sessions : x.id \notin r.ends}
    BY <1>1, <2>1 DEF PasswordReset, CommitUser
  <2>5. \A x \in sessions' : x.user # r.user
    BY <2>3, <2>4 DEF LiveOf
  <2>6. Writes(r, r.user) /\ r.user \in User
    BY <1>1, <2>1, <2>2, ByOp DEF Writes, PasswordReset, CommitUser, Resets, Admin
  <2>7. ASSUME NEW p \in Request, req'[p].op = "login", req'[p].at = "opening" PROVE req'[p].user # r.user
    <3>1. p # q /\ req'[p] = req[p]
      BY <1>1, <2>7, TypeParts DEF IndInv, PasswordReset, CommitUser, Ends, Goto, Idle
    <3>2. ~Writes(req[p], r.user)
      BY <1>1, <2>1, <2>6, <3>1 DEF IndInv, LocksOK, Collide
    <3> QED
      BY <2>7, <3>1, <3>2 DEF Writes
  <2> QED
    BY <2>1, <2>5, <2>7
<1>2. IndInv => A
  BY <1>1
<1>3. IndInv /\ [Next]_vars => [A]_vars
  BY <1>2
<1> QED
  BY <1>3, Invariance, PTL DEF Spec, SweepIsComplete

\* When an administrator's password commits, no reset link of the user is left and nobody is at work with
\* one; a request for a link that waits for the account's key still creates one (ResetUserPassword;
\* RequestPasswordReset).
THEOREM AdminResetsAreFinal == Spec => AdminResetIsFinal
<1> DEFINE A == \A q \in Request : CommitUser(q) /\ req[q].act = "password"
                  => /\ \A x \in tokens' : x.user # req[q].user \/ x.kind # "reset"
                     /\ \A p \in Request : req'[p].op = "reset" => req'[p].user # req[q].user
<1>1. ASSUME IndInv, NEW q \in Request, CommitUser(q), req[q].act = "password"
      PROVE  /\ \A x \in tokens' : x.user # req[q].user \/ x.kind # "reset"
             /\ \A p \in Request : req'[p].op = "reset" => req'[p].user # req[q].user
  <2>1. PICK r : r = req[q]
    OBVIOUS
  <2>2. RequestOK(r)
    BY <1>1, <2>1, TypeParts DEF IndInv, RequestsOK
  <2>3. UnusedOf(r.user, {"reset"}) \subseteq r.kills
    BY <1>1, <2>1, <2>2 DEF RequestOK, AdminOK, CommitUser
  <2>4. tokens' = {x \in tokens : x.id \notin r.kills}
    BY <1>1, <2>1 DEF CommitUser
  <2>5. \A x \in tokens' : x.user # r.user \/ x.kind # "reset"
    BY <2>3, <2>4 DEF UnusedOf
  <2>6. ASSUME NEW p \in Request, req'[p].op = "reset" PROVE req'[p].user # r.user
    <3>1. p # q /\ req'[p] = req[p]
      BY <1>1, <2>6, TypeParts DEF IndInv, CommitUser, Ends, Goto, Idle
    <3>2. HoldsLink(req[p]) /\ LockedTokens(req[p]) = {req[p].token}
      BY <1>1, <2>6, <3>1, TypeParts DEF IndInv, RequestsOK, RequestOK, LockedTokens
    <3>3. PICK x \in tokens : x.id = req[p].token /\ x.user = req[p].user /\ x.kind = "reset"
      BY <2>6, <3>1, <3>2 DEF HoldsLink
    <3>4. LockedTokens(r) = r.kills
      BY <1>1, <2>1 DEF LockedTokens, CommitUser
    <3>5. req[p].token \notin r.kills
      BY <1>1, <2>1, <3>1, <3>2, <3>4 DEF IndInv, LocksOK, Collide
    <3> QED
      BY <2>3, <3>1, <3>3, <3>5 DEF UnusedOf
  <2> QED
    BY <2>1, <2>5, <2>6
<1>2. IndInv => A
  BY <1>1
<1>3. IndInv /\ [Next]_vars => [A]_vars
  BY <1>2
<1> QED
  BY <1>3, Invariance, PTL DEF Spec, AdminResetIsFinal
==============================================================================
