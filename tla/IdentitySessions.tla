-------------------------- MODULE IdentitySessions --------------------------
(***************************************************************************)
(* The use cases that register an account, sign it in and out, rotate its  *)
(* refresh tokens and change its password or role: register.go, login.go,  *)
(* refresh.go, logout.go, change_password.go, set_user_role.go, and the    *)
(* seeder command.                                                         *)
(***************************************************************************)
EXTENDS IdentityDB

(* Register: tx { insert; publish } *)

RegisterBegin(p) ==
  /\ Begin(p, "register", "insert")
  /\ UNCHANGED <<user, sessions, otps, outbox, redis, tx>>

\* NewUser: role "user", active, version 1.  The unique email index makes a
\* second insert wait for the first one's transaction and then fail.
NewUser(role) == [hash |-> 1, role |-> role, status |-> "active",
                  verified |-> FALSE, version |-> 1]

RegisterInsert(p) ==
  /\ At(p, "register", "insert")
  /\ UserFree(p)
  /\ \/ /\ user = None
        /\ Buffer(p, [tx[p] EXCEPT !.user = NewUser("user")])
        /\ Goto(p, "commit")
     \/ /\ user # None   \* ErrEmailTaken
        /\ Finish(p)
        /\ UNCHANGED tx
  /\ UNCHANGED <<user, sessions, otps, outbox, redis>>

-----------------------------------------------------------------------------
(* Login: Allowed; GetByEmail; Verify; CanSignIn; Reset; IssuePair.  There  *)
(* is no transaction: the session insert commits by itself.                 *)

LoginBegin(p) ==
  /\ Begin(p, "login", "throttle")
  /\ UNCHANGED <<user, sessions, otps, outbox, redis, tx>>

LoginAllowed(p) ==
  /\ At(p, "login", "throttle")
  /\ \/ Allowed("login") /\ Goto(p, "read")
     \/ throttle["login"] >= MaxFailures /\ Finish(p)   \* ErrAccountLocked
  /\ UNCHANGED <<user, sessions, otps, outbox, redis, tx>>

\* The caller's password either matches the hash just read or it does not;
\* an unknown email, a wrong password and a failed read are one path.
LoginRead(p) ==
  /\ At(p, "login", "read")
  /\ \/ /\ user # None
        /\ IF CanSignIn(user)
             THEN Load(p, user, "clear")
             ELSE Finish(p)   \* ErrAccountDisabled
     \/ Goto(p, "fail")       \* ErrInvalidCredentials
  /\ UNCHANGED <<user, sessions, otps, outbox, redis, tx>>

LoginRecordFailure(p) ==
  /\ At(p, "login", "fail")
  /\ RecordFailure("login")
  /\ Finish(p)
  /\ UNCHANGED <<user, sessions, otps, outbox, blacklist, tx>>

LoginReset(p) ==
  /\ At(p, "login", "clear")
  /\ Reset("login")
  /\ Goto(p, "issue")
  /\ UNCHANGED <<user, sessions, otps, outbox, blacklist, tx>>

\* IssuePair outside a transaction: the session is live at once.
LoginIssuePair(p) ==
  /\ At(p, "login", "issue")
  /\ \E s \in Sessions :
       /\ Fresh(s)
       /\ sessions' = [sessions EXCEPT ![s] =
            [status |-> "live", expired |-> FALSE,
             parent |-> None, hash |-> req[p].u.hash]]
  /\ Finish(p)
  /\ UNCHANGED <<user, otps, outbox, redis, tx>>

-----------------------------------------------------------------------------
(* Refresh: GetByHash, IsActive, GetByID, CanSignIn; then tx { Revoke;      *)
(* IssuePair }.                                                             *)

RefreshBegin(p) ==
  /\ Begin(p, "refresh", "read")
  /\ UNCHANGED <<user, sessions, otps, outbox, redis, tx>>

\* The presented token: any live one, or one that is unknown, revoked or
\* expired.
RefreshRead(p) ==
  /\ At(p, "refresh", "read")
  /\ \/ \E s \in Sessions :
          /\ IsActive(s)
          /\ Present(p, s, "read_user")
     \/ Finish(p)   \* ErrRefreshTokenInvalid
  /\ UNCHANGED <<user, sessions, otps, outbox, redis, tx>>

RefreshReadUser(p) ==
  /\ At(p, "refresh", "read_user")
  /\ IF user # None /\ CanSignIn(user)
       THEN Load(p, user, "revoke")
       ELSE Finish(p)
  /\ UNCHANGED <<user, sessions, otps, outbox, redis, tx>>

\* UPDATE ... WHERE revoked_at IS NULL: it waits for the row, and matching no
\* row is not an error.
RefreshRevoke(p) ==
  /\ At(p, "refresh", "revoke")
  /\ SessionFree(p, req[p].sid)
  /\ Buffer(p, [tx[p] EXCEPT !.revoke =
                  {s \in {req[p].sid} : sessions[s].status = "live"}])
  /\ Goto(p, "issue")
  /\ UNCHANGED <<user, sessions, otps, outbox, redis>>

\* Mutant: the new session is inserted on the pool, outside the transaction.
RefreshIssueOutsideTx(p) ==
  /\ At(p, "refresh", "issue")
  /\ \E s \in Sessions :
       /\ Fresh(s)
       /\ sessions' = [sessions EXCEPT ![s] =
            [status |-> "live", expired |-> FALSE,
             parent |-> req[p].sid, hash |-> req[p].u.hash]]
  /\ Goto(p, "commit")
  /\ UNCHANGED <<user, otps, outbox, redis, tx>>

RefreshIssuePair(p) ==
  /\ At(p, "refresh", "issue")
  /\ \E s \in Sessions : /\ Fresh(s)
                         /\ Buffer(p, [tx[p] EXCEPT !.create = s])
  /\ Goto(p, "commit")
  /\ UNCHANGED <<user, sessions, otps, outbox, redis>>

-----------------------------------------------------------------------------
(* Logout: GetByHash; Revoke if found; blacklist the access token.          *)

LogoutBegin(p) ==
  /\ Begin(p, "logout", "read")
  /\ UNCHANGED <<user, sessions, otps, outbox, redis, tx>>

\* An unknown token is forgiven: the blacklist step still runs.
LogoutRead(p) ==
  /\ At(p, "logout", "read")
  /\ \/ \E s \in Sessions :
          /\ Issued(s)
          /\ Present(p, s, "revoke")
     \/ Goto(p, "blacklist")
  /\ UNCHANGED <<user, sessions, otps, outbox, redis, tx>>

LogoutRevoke(p) ==
  /\ At(p, "logout", "revoke")
  /\ SessionFree(p, req[p].sid)
  /\ sessions' = [sessions EXCEPT ![req[p].sid].status = "revoked"]
  /\ Goto(p, "blacklist")
  /\ UNCHANGED <<user, otps, outbox, redis, tx>>

\* The caller's access token id, named by the session it was issued with, or
\* "" when it sent none.
LogoutBlacklist(p) ==
  /\ At(p, "logout", "blacklist")
  /\ \/ \E s \in Sessions : Issued(s) /\ blacklist' = blacklist \cup {s}
     \/ UNCHANGED blacklist
  /\ Finish(p)
  /\ UNCHANGED <<user, sessions, otps, outbox, throttle, tx>>

-----------------------------------------------------------------------------
(* ChangePassword: GetByID, Verify, Hash; then tx { Update; RevokeAll;      *)
(* Publish }.                                                               *)

ChangePasswordBegin(p) ==
  /\ Begin(p, "change_password", "read")
  /\ UNCHANGED <<user, sessions, otps, outbox, redis, tx>>

ChangePasswordRead(p) ==
  /\ At(p, "change_password", "read")
  /\ \/ /\ user # None   \* the caller's current password verified
        /\ Load(p, WithNewHash(user), "update")
     \/ Finish(p)        \* ErrUserNotFound, ErrInvalidCredentials
  /\ UNCHANGED <<user, sessions, otps, outbox, redis, tx>>

-----------------------------------------------------------------------------
(* SetUserRole: tx { GetByID; ChangeRole; Update; Publish }, admins only.   *)

SetUserRoleBegin(p) ==
  /\ Begin(p, "set_role", "read")
  /\ UNCHANGED <<user, sessions, otps, outbox, redis, tx>>

SetUserRoleRead(p) ==
  /\ At(p, "set_role", "read")
  /\ \/ /\ user # None
        /\ \E role \in Roles : Load(p, [user EXCEPT !.role = role], "update")
     \/ Finish(p)   \* ErrUserNotFound, ErrInvalidRole
  /\ UNCHANGED <<user, sessions, otps, outbox, redis, tx>>

-----------------------------------------------------------------------------
(* cmd/seed: promote the account if it exists, else create it as admin; no  *)
(* transaction and no event.                                                *)

SeedBegin(p) ==
  /\ Begin(p, "seed", "read")
  /\ UNCHANGED <<user, sessions, otps, outbox, redis, tx>>

SeedRead(p) ==
  /\ At(p, "seed", "read")
  /\ Goto(p, IF user # None THEN "promote" ELSE "insert")
  /\ UNCHANGED <<user, sessions, otps, outbox, redis, tx>>

SeedPromote(p) ==
  /\ At(p, "seed", "promote")
  /\ UserFree(p)
  /\ user' = [user EXCEPT !.role = "admin", !.version = @ + 1]
  /\ Finish(p)
  /\ UNCHANGED <<sessions, otps, outbox, redis, tx>>

SeedInsert(p) ==
  /\ At(p, "seed", "insert")
  /\ UserFree(p)
  /\ user' = IF user = None THEN NewUser("admin") ELSE user
  /\ Finish(p)
  /\ UNCHANGED <<sessions, otps, outbox, redis, tx>>

-----------------------------------------------------------------------------
SessionStep(p) ==
  \/ RegisterBegin(p) \/ RegisterInsert(p)
  \/ LoginBegin(p) \/ LoginAllowed(p) \/ LoginRead(p)
  \/ LoginRecordFailure(p) \/ LoginReset(p) \/ LoginIssuePair(p)
  \/ RefreshBegin(p) \/ RefreshRead(p) \/ RefreshReadUser(p)
  \/ RefreshRevoke(p) \/ RefreshIssuePair(p)
  \/ LogoutBegin(p) \/ LogoutRead(p) \/ LogoutRevoke(p) \/ LogoutBlacklist(p)
  \/ ChangePasswordBegin(p) \/ ChangePasswordRead(p)
  \/ SetUserRoleBegin(p) \/ SetUserRoleRead(p)
  \/ SeedBegin(p) \/ SeedRead(p) \/ SeedPromote(p) \/ SeedInsert(p)
=============================================================================
