----------------------------- MODULE IdentityDB -----------------------------
(***************************************************************************)
(* The rows one account has in the identity schema, the requests that work *)
(* on them and the transactions they open.                                 *)
(*                                                                         *)
(* Requests of different accounts touch disjoint rows, so the model keeps  *)
(* ONE account: a users row, its refresh sessions, its one-time codes, the *)
(* outbox counters of its events, its lockout counters and the blacklist   *)
(* of its access tokens.  A request is one goroutine of the gRPC server;   *)
(* it runs at most once, one step per SQL statement or Redis call, and the *)
(* steps of different requests interleave freely.                          *)
(*                                                                         *)
(* PostgreSQL is modelled at READ COMMITTED, the level TxManager opens:    *)
(* a transaction's writes are buffered in tx[p] until it commits; a row it *)
(* wrote is locked until it ends; a statement sees the committed state at  *)
(* the moment it runs.                                                     *)
(***************************************************************************)
EXTENDS Naturals, FiniteSets

CONSTANTS Requests,     \* the requests that may run
          Sessions,     \* ids for refresh_tokens rows
          MaxCodes,     \* bound on otps rows
          MaxFailures,  \* throttleMaxFailures
          Roles,        \* the role names in play
          Ops,          \* the operations this instance exercises
          TimePasses,   \* BOOLEAN: may sessions, codes and lockouts expire
          RedisMayFail, \* BOOLEAN: may Redis calls fail (they fail open)
          None          \* absent row, absent value

Codes == 1..MaxCodes
Statuses == {"active", "disabled"}
Purposes == {"password_reset", "email_verify"}
ThrottleKeys == {"login", "otp"}
Subjects == {"registered", "password_changed", "role_changed",
             "password_reset_requested", "email_verified"}
AllOps == {"register", "login", "refresh", "logout", "change_password",
           "set_role", "seed", "request_reset", "reset_password",
           "request_verify", "verify_email"}

ASSUME IdentityAssumption ==
  /\ MaxCodes \in Nat
  /\ MaxFailures \in Nat \ {0}
  /\ {"user", "admin"} \subseteq Roles
  /\ Ops \subseteq AllOps
  /\ TimePasses \in BOOLEAN
  /\ RedisMayFail \in BOOLEAN
  /\ None \notin Sessions
  /\ None \notin [hash : Nat, role : Roles, status : Statuses,
                  verified : BOOLEAN, version : Nat]

VARIABLES
  user,      \* the identity.users row, or None
  sessions,  \* the identity.refresh_tokens rows
  otps,      \* the identity.otps rows, numbered in created_at order
  outbox,    \* number of identity.outbox rows per subject
  throttle,  \* Redis login:fails counters, saturated at MaxFailures
  blacklist, \* Redis jwt:blacklist keys, named by the session of the pair
  req,       \* local state of every request
  tx         \* the open transaction of every request

vars == <<user, sessions, otps, outbox, throttle, blacklist, req, tx>>
redis == <<throttle, blacklist>>

\* hash numbers the password hashes stored so far: argon2id salts, so every
\* Hash call yields a new one.  full_name is never written after registration.
UserRow == [hash : Nat, role : Roles, status : Statuses,
            verified : BOOLEAN, version : Nat]

\* parent (the session a Refresh rotated) and hash (the password hash in force
\* when the issuing request read the user) are history.
SessionRow == [status : {"unused", "live", "revoked"}, expired : BOOLEAN,
               parent : Sessions \cup {None}, hash : Nat]

\* uses counts the committed transactions that were let in by this code
\* (history).
CodeRow == [status : {"unused", "live", "consumed"}, expired : BOOLEAN,
            purpose : Purposes, uses : Nat]

\* The points between the statements of the use cases.
Pcs == {"idle", "throttle", "read", "read_user", "verify", "clear", "fail",
        "issue", "revoke", "blacklist", "consume", "update", "mark", "scan",
        "revoke_all", "insert", "send", "publish", "promote", "commit",
        "clear_after", "done"}

\* u is the User aggregate in the request's memory, sid and code the rows it
\* loaded, before the sessions that existed when it began (history).
Request == [op : Ops \cup {"none"}, pc : Pcs,
            u : UserRow \cup {None}, sid : Sessions \cup {None},
            code : 0..MaxCodes, before : SUBSET Sessions]

\* Buffered writes: the new users row, the sessions revoked, the session
\* inserted, the code consumed; scan is the row set RevokeAll found.
Tx == [user : UserRow \cup {None}, revoke : SUBSET Sessions,
       create : Sessions \cup {None}, consume : 0..MaxCodes,
       scan : SUBSET Sessions]

NoTx == [user |-> None, revoke |-> {}, create |-> None, consume |-> 0,
         scan |-> {}]
Start == [op |-> "none", pc |-> "idle", u |-> None, sid |-> None, code |-> 0,
          before |-> {}]
Done == [Start EXCEPT !.pc = "done"]

TypeOK ==
  /\ user \in UserRow \cup {None}
  /\ sessions \in [Sessions -> SessionRow]
  /\ otps \in [Codes -> CodeRow]
  /\ outbox \in [Subjects -> Nat]
  /\ throttle \in [ThrottleKeys -> 0..MaxFailures]
  /\ blacklist \subseteq Sessions
  /\ req \in [Requests -> Request]
  /\ tx \in [Requests -> Tx]

-----------------------------------------------------------------------------
(* Rows *)

Issued(s) == sessions[s].status # "unused"
CanSignIn(u) == u.status = "active"
\* Mutant: the hasher's error is dropped and its empty result stored.
WithEmptyHash(u) == [u EXCEPT !.hash = None]
WithNewHash(u) == [u EXCEPT !.hash = @ + 1]   \* User.ChangePassword, in memory
IsActive(s) == sessions[s].status = "live" /\ ~sessions[s].expired

\* A new session id is a random UUID: one no row and no open insert has.
Fresh(s) == ~Issued(s) /\ \A q \in Requests : tx[q].create # s

\* INSERT INTO identity.otps: rows are numbered in the order of created_at.
NextCode(c) == /\ otps[c].status = "unused"
               /\ \A d \in Codes : d < c => otps[d].status # "unused"

\* GetActiveOTP: the newest unconsumed, unexpired code of the purpose.
LiveCode(c, purpose) == /\ otps[c].status = "live"
                        /\ ~otps[c].expired
                        /\ otps[c].purpose = purpose
GetActive(c, purpose) ==
  /\ LiveCode(c, purpose)
  /\ \A d \in Codes : LiveCode(d, purpose) => d <= c

\* Row locks: held by the open transaction that wrote the row.
UserFree(p) == \A q \in Requests \ {p} : tx[q].user = None
SessionFree(p, s) == \A q \in Requests \ {p} : s \notin tx[q].revoke
CodeFree(p, c) == \A q \in Requests \ {p} : tx[q].consume # c

-----------------------------------------------------------------------------
(* Control *)

At(p, op, pc) == req[p].op = op /\ req[p].pc = pc
Goto(p, pc) == req' = [req EXCEPT ![p].pc = pc]
Load(p, u, pc) == req' = [req EXCEPT ![p].u = u, ![p].pc = pc]
Present(p, s, pc) == req' = [req EXCEPT ![p].sid = s, ![p].pc = pc]
Redeem(p, c, pc) == req' = [req EXCEPT ![p].code = c, ![p].pc = pc]
Finish(p) == req' = [req EXCEPT ![p] = Done]
Buffer(p, t) == tx' = [tx EXCEPT ![p] = t]
Begin(p, op, pc) ==
  /\ op \in Ops
  /\ req[p] = Start
  /\ req' = [req EXCEPT ![p] = [Start EXCEPT !.op = op, !.pc = pc,
                                 !.before = {s \in Sessions : Issued(s)}]]

\* Publish adds one outbox row of the subject.
Publish(subject) == outbox' = [outbox EXCEPT ![subject] = @ + 1]

\* The event a use case hands to Publish inside its transaction.
EventOf(op) ==
  CASE op = "register" -> {"registered"}
    [] op \in {"change_password", "reset_password"} -> {"password_changed"}
    [] op = "set_role" -> {"role_changed"}
    [] op = "verify_email" -> {"email_verified"}
    [] OTHER -> {}

-----------------------------------------------------------------------------
(* Statements shared by several use cases *)

\* Mutant: the update is not guarded by the version it read.
UpdateUserUnguarded(p) ==
  /\ req[p].pc = "update"
  /\ UserFree(p)
  /\ user # None
  /\ Buffer(p, [tx[p] EXCEPT !.user =
                  [req[p].u EXCEPT !.version = user.version + 1,
                                   !.verified = user.verified]])
  /\ Goto(p, IF req[p].op = "set_role" THEN "commit" ELSE "scan")
  /\ UNCHANGED <<user, sessions, otps, outbox, redis>>

\* UserRepository.Update inside the transaction: the row lock, then the
\* version guard on the row as it is once the lock is granted.  It writes
\* every column of the aggregate (email_verified_at is not one of them).
UpdateUser(p) ==
  /\ req[p].pc = "update"
  /\ UserFree(p)
  /\ \/ /\ user # None /\ user.version = req[p].u.version
        /\ Buffer(p, [tx[p] EXCEPT !.user =
                        [req[p].u EXCEPT !.version = @ + 1,
                                         !.verified = user.verified]])
        /\ Goto(p, IF req[p].op = "set_role" THEN "commit" ELSE "scan")
     \/ /\ user = None \/ user.version # req[p].u.version
        /\ Buffer(p, NoTx)   \* ErrConcurrentUpdate: rollback
        /\ Finish(p)
  /\ UNCHANGED <<user, sessions, otps, outbox, redis>>

\* RevokeAllRefreshTokensForUser: the statement picks its rows from the
\* snapshot it starts with ...
RevokeAllScan(p) ==
  /\ req[p].pc = "scan"
  /\ Buffer(p, [tx[p] EXCEPT !.scan =
                  {s \in Sessions : sessions[s].status = "live"}])
  /\ Goto(p, "revoke_all")
  /\ UNCHANGED <<user, sessions, otps, outbox, redis>>

\* Mutant: sessions another transaction holds are skipped, not waited for.
RevokeAllSkipLocked(p) ==
  /\ req[p].pc = "revoke_all"
  /\ Buffer(p, [tx[p] EXCEPT !.revoke =
                  {s \in tx[p].scan : /\ sessions[s].status = "live"
                                      /\ SessionFree(p, s)}])
  /\ Goto(p, "commit")
  /\ UNCHANGED <<user, sessions, otps, outbox, redis>>

\* ... waits for the ones other transactions hold, and revokes those that
\* are still unrevoked when it gets them.
RevokeAllForUser(p) ==
  /\ req[p].pc = "revoke_all"
  /\ \A s \in tx[p].scan : SessionFree(p, s)
  /\ Buffer(p, [tx[p] EXCEPT !.revoke =
                  {s \in tx[p].scan : sessions[s].status = "live"}])
  /\ Goto(p, "commit")
  /\ UNCHANGED <<user, sessions, otps, outbox, redis>>

\* Publish inside the transaction and COMMIT: the buffered writes and the
\* event become visible at once.
Commit(p) ==
  /\ req[p].pc = "commit"
  /\ user' = IF tx[p].user = None THEN user ELSE tx[p].user
  /\ sessions' = [s \in Sessions |->
       IF s = tx[p].create
         THEN [status |-> "live", expired |-> FALSE,
               parent |-> req[p].sid, hash |-> req[p].u.hash]
       ELSE IF s \in tx[p].revoke THEN [sessions[s] EXCEPT !.status = "revoked"]
       ELSE sessions[s]]
  /\ otps' = [c \in Codes |->
       [otps[c] EXCEPT !.status = IF c = tx[p].consume THEN "consumed" ELSE @,
                       !.uses = IF c = req[p].code THEN @ + 1 ELSE @]]
  /\ outbox' = [e \in Subjects |->
       IF e \in EventOf(req[p].op) THEN outbox[e] + 1 ELSE outbox[e]]
  /\ Buffer(p, NoTx)
  /\ IF req[p].op = "reset_password" THEN Goto(p, "clear_after") ELSE Finish(p)
  /\ UNCHANGED redis

\* Mutant: an error leaves the transaction open on its connection.
FailWithoutRollback(p) ==
  /\ req[p].pc \notin {"idle", "done"}
  /\ Finish(p)
  /\ UNCHANGED <<user, sessions, otps, outbox, redis, tx>>

\* A statement, a call or the commit fails, the caller gives up or the
\* process dies: the transaction is rolled back, what was committed stays.
Fail(p) ==
  /\ req[p].pc \notin {"idle", "done"}
  /\ Buffer(p, NoTx)
  /\ Finish(p)
  /\ UNCHANGED <<user, sessions, otps, outbox, redis>>

-----------------------------------------------------------------------------
(* The lockout throttle (Redis) *)

\* Allowed: below the limit, or Redis did not answer.
Allowed(key) == throttle[key] < MaxFailures \/ RedisMayFail
RecordFailure(key) ==
  \/ throttle' = [throttle EXCEPT ![key] = IF @ < MaxFailures THEN @ + 1 ELSE @]
  \/ RedisMayFail /\ UNCHANGED throttle
Reset(key) ==
  \/ throttle' = [throttle EXCEPT ![key] = 0]
  \/ RedisMayFail /\ UNCHANGED throttle

-----------------------------------------------------------------------------
(* Time *)

SessionExpires(s) ==
  /\ TimePasses
  /\ Issued(s) /\ ~sessions[s].expired
  /\ sessions' = [sessions EXCEPT ![s].expired = TRUE]
  /\ UNCHANGED <<user, otps, outbox, redis, req, tx>>

\* Every code lives otpTTL, so codes expire in the order they were issued.
CodeExpires(c) ==
  /\ TimePasses
  /\ otps[c].status # "unused" /\ ~otps[c].expired
  /\ \A d \in Codes : d < c => otps[d].expired
  /\ otps' = [otps EXCEPT ![c].expired = TRUE]
  /\ UNCHANGED <<user, sessions, outbox, redis, req, tx>>

LockoutExpires(key) ==
  /\ TimePasses
  /\ throttle[key] > 0
  /\ throttle' = [throttle EXCEPT ![key] = 0]
  /\ UNCHANGED <<user, sessions, otps, outbox, blacklist, req, tx>>
=============================================================================
