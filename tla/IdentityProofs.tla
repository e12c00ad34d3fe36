--------------------------- MODULE IdentityProofs ---------------------------
(***************************************************************************)
(* For any number of requests, sessions and codes: type correctness of     *)
(* Identity, and the safety properties that rest on its transactions, its  *)
(* row locks and its version guard.                                        *)
(***************************************************************************)
EXTENDS Identity, TLAPS

(* The inductive invariant: what holds of each request (ControlOf to        *)
(* RedeemingOf), what the row locks give (Locks), and what the committed    *)
(* rows satisfy (ParentRevoked, Trail, CodesOnce).                          *)

\* Which use cases reach the statements that several of them share.
ControlOf(p) ==
  /\ req[p].pc = "update" => req[p].op \in PasswordOps \cup {"set_role"}
  /\ req[p].pc \in {"scan", "revoke_all"} => req[p].op \in PasswordOps
  /\ req[p].pc = "consume" => req[p].op \in {"reset_password", "verify_email"}
  /\ req[p].pc = "commit" => req[p].op \in PasswordOps \cup
       {"register", "refresh", "set_role", "verify_email"}

\* The requests that hold a User aggregate, and that the row exists for them.
HasUser(p) ==
  \/ req[p].pc \in {"clear", "verify", "consume", "update", "mark", "scan",
                    "revoke_all"}
  \/ req[p].op \in {"login", "refresh"} /\ req[p].pc = "issue"
  \/ req[p].op = "refresh" /\ req[p].pc = "revoke"
  \/ req[p].op # "register" /\ req[p].pc = "commit"

LoadedOf(p) ==
  /\ HasUser(p) => req[p].u \in UserRow /\ user \in UserRow
  /\ req[p].pc = "promote" => user \in UserRow

\* What an open transaction may have buffered where.
BufferedOf(p) ==
  /\ tx[p].user # None => req[p].pc \in {"scan", "revoke_all", "commit"}
  /\ tx[p].revoke # {} => \/ req[p].pc = "commit"
                          \/ req[p].op = "refresh" /\ req[p].pc = "issue"
  /\ tx[p].create # None => req[p].op = "refresh" /\ req[p].pc = "commit"
  /\ tx[p].consume # 0 =>
       /\ tx[p].consume = req[p].code
       /\ req[p].pc \in {"update", "mark", "scan", "revoke_all", "commit"}

\* A refresh that is past its Revoke has the presented session revoked, in
\* its own transaction or for good; the ids of new sessions are unused.
RotationOf(p) ==
  /\ req[p].sid # None => Issued(req[p].sid)
  /\ req[p].op = "refresh" /\ req[p].pc \in {"read_user", "revoke", "issue", "commit"}
       => req[p].sid # None
  /\ req[p].op = "logout" /\ req[p].pc = "revoke" => req[p].sid # None
  /\ req[p].op = "refresh" /\ req[p].pc \in {"issue", "commit"}
       => \/ req[p].sid \in tx[p].revoke
          \/ sessions[req[p].sid].status = "revoked"
  /\ tx[p].create # None => ~Issued(tx[p].create)
  /\ \A s \in tx[p].revoke : Issued(s)

\* The version identifies the row: an aggregate whose version is current
\* differs from the row only in what its own use case changed, and a buffered
\* row is the current one with that change applied.
OptimisticOf(p) ==
  /\ HasUser(p) => req[p].u.version <= user.version
  /\ HasUser(p) /\ req[p].u.version = user.version /\ req[p].op \in PasswordOps
       => req[p].u.hash = user.hash + 1 /\ req[p].u.role = user.role
  /\ HasUser(p) /\ req[p].u.version = user.version /\ req[p].op = "set_role"
       => req[p].u.hash = user.hash
  /\ tx[p].user # None /\ req[p].op = "register"
       => user = None /\ tx[p].user.hash = 1
  /\ tx[p].user # None /\ req[p].op # "register" =>
       /\ tx[p].user.version = user.version + 1
       /\ req[p].op \in PasswordOps => /\ req[p].u.version = user.version
                                       /\ tx[p].user.hash = user.hash + 1
       /\ req[p].op \notin PasswordOps => tx[p].user.hash = user.hash
       /\ req[p].op # "set_role" => tx[p].user.role = user.role
  /\ \/ req[p].pc \in {"scan", "revoke_all"}
     \/ req[p].pc = "commit" /\ req[p].op \in PasswordOps
     => tx[p].user # None

\* A reset request that verified a code which has been consumed since holds
\* an aggregate older than the row; one that goes on consumes it itself.
RedeemingOf(p) ==
  /\ req[p].code # 0 => /\ req[p].op \in {"reset_password", "verify_email"}
                        /\ otps[req[p].code].status # "unused"
                        /\ otps[req[p].code].purpose = PurposeOf(req[p].op)
  /\ req[p].op = "reset_password" /\ req[p].pc \in
       {"consume", "update", "scan", "revoke_all", "commit"} =>
         /\ req[p].code # 0
         /\ otps[req[p].code].status = "consumed"
              => req[p].u.version < user.version
  /\ req[p].op = "reset_password" /\ req[p].pc \in
       {"update", "scan", "revoke_all", "commit"} =>
         \/ tx[p].consume = req[p].code
         \/ otps[req[p].code].status = "consumed"
  /\ req[p].pc = "consume" => req[p].code # 0

RequestInv(p) ==
  /\ ControlOf(p) /\ LoadedOf(p) /\ BufferedOf(p)
  /\ RotationOf(p) /\ OptimisticOf(p) /\ RedeemingOf(p)

\* A row is held by one transaction at a time.
Locks ==
  \A p, q \in Requests :
    p # q => /\ tx[p].user = None \/ tx[q].user = None
             /\ tx[p].create = None \/ tx[p].create # tx[q].create

Trail == /\ PasswordTrail
         /\ user = None => outbox["password_changed"] = 0

CodesOnce ==
  \A c \in Codes : otps[c].purpose = "password_reset" =>
    /\ otps[c].uses <= 1
    /\ otps[c].uses = 1 => otps[c].status = "consumed"

IInv == /\ TypeOK
        /\ \A p \in Requests : RequestInv(p)
        /\ Locks /\ ParentRevoked /\ Trail /\ CodesOnce

-----------------------------------------------------------------------------
(* What the assignments of the model do to req and tx *)

\* The record a request starts from and ends in, and an empty transaction.
LEMMA BlankTypes == Start \in Request /\ Done \in Request /\ NoTx \in Tx
  BY IdentityAssumption DEF Start, Done, Request, UserRow, Statuses, NoTx, Tx, Pcs

\* Nothing changes in req but the record of p.
OthersKept(p) == \A q \in Requests \ {p} : req'[q] = req[q]

\* Goto moves p and keeps its data.
LEMMA GotoFacts ==
  ASSUME TypeOK, NEW p \in Requests, NEW pc \in Pcs, Goto(p, pc)
  PROVE  /\ req' \in [Requests -> Request] /\ OthersKept(p)
         /\ req'[p].pc = pc /\ req'[p].op = req[p].op /\ req'[p].u = req[p].u
         /\ req'[p].sid = req[p].sid /\ req'[p].code = req[p].code
<1>1. req[p] \in Request
  BY DEF TypeOK
<1>2. [req[p] EXCEPT !.pc = pc] \in Request
  BY <1>1 DEF Request
<1>3. req' = [req EXCEPT ![p] = [req[p] EXCEPT !.pc = pc]]
  BY DEF Goto, TypeOK
<1>4. req'[p] = [req[p] EXCEPT !.pc = pc]
  BY <1>3 DEF TypeOK
<1>5. /\ req'[p].pc = pc /\ req'[p].op = req[p].op /\ req'[p].u = req[p].u
      /\ req'[p].sid = req[p].sid /\ req'[p].code = req[p].code
  BY <1>1, <1>4 DEF Request
<1>6. QED
  BY <1>2, <1>3, <1>5 DEF TypeOK, OthersKept

\* Load also stores the aggregate.
LEMMA LoadFacts ==
  ASSUME TypeOK, NEW p \in Requests, NEW pc \in Pcs, NEW u \in UserRow,
         Load(p, u, pc)
  PROVE  /\ req' \in [Requests -> Request] /\ OthersKept(p)
         /\ req'[p].pc = pc /\ req'[p].op = req[p].op /\ req'[p].u = u
         /\ req'[p].sid = req[p].sid /\ req'[p].code = req[p].code
<1>1. req[p] \in Request
  BY DEF TypeOK
<1>2. [req[p] EXCEPT !.u = u, !.pc = pc] \in Request
  BY <1>1 DEF Request
<1>3. req' = [req EXCEPT ![p] = [req[p] EXCEPT !.u = u, !.pc = pc]]
  BY DEF Load, TypeOK
<1>4. req'[p] = [req[p] EXCEPT !.u = u, !.pc = pc]
  BY <1>3 DEF TypeOK
<1>5. /\ req'[p].pc = pc /\ req'[p].op = req[p].op /\ req'[p].u = u
      /\ req'[p].sid = req[p].sid /\ req'[p].code = req[p].code
  BY <1>1, <1>4 DEF Request
<1>6. QED
  BY <1>2, <1>3, <1>5 DEF TypeOK, OthersKept

\* Present also stores the session the caller presented.
LEMMA PresentFacts ==
  ASSUME TypeOK, NEW p \in Requests, NEW pc \in Pcs, NEW s \in Sessions,
         Present(p, s, pc)
  PROVE  /\ req' \in [Requests -> Request] /\ OthersKept(p)
         /\ req'[p].pc = pc /\ req'[p].op = req[p].op /\ req'[p].u = req[p].u
         /\ req'[p].sid = s /\ req'[p].code = req[p].code
<1>1. req[p] \in Request
  BY DEF TypeOK
<1>2. [req[p] EXCEPT !.sid = s, !.pc = pc] \in Request
  BY <1>1 DEF Request
<1>3. req' = [req EXCEPT ![p] = [req[p] EXCEPT !.sid = s, !.pc = pc]]
  BY DEF Present, TypeOK
<1>4. req'[p] = [req[p] EXCEPT !.sid = s, !.pc = pc]
  BY <1>3 DEF TypeOK
<1>5. /\ req'[p].pc = pc /\ req'[p].op = req[p].op /\ req'[p].u = req[p].u
      /\ req'[p].sid = s /\ req'[p].code = req[p].code
  BY <1>1, <1>4 DEF Request
<1>6. QED
  BY <1>2, <1>3, <1>5 DEF TypeOK, OthersKept

\* Redeem also stores the code the caller presented.
LEMMA RedeemFacts ==
  ASSUME TypeOK, NEW p \in Requests, NEW pc \in Pcs, NEW c \in Codes,
         Redeem(p, c, pc)
  PROVE  /\ req' \in [Requests -> Request] /\ OthersKept(p)
         /\ req'[p].pc = pc /\ req'[p].op = req[p].op /\ req'[p].u = req[p].u
         /\ req'[p].sid = req[p].sid /\ req'[p].code = c
<1>1. req[p] \in Request /\ c \in 0..MaxCodes
  BY IdentityAssumption DEF TypeOK, Codes
<1>2. [req[p] EXCEPT !.code = c, !.pc = pc] \in Request
  BY <1>1 DEF Request
<1>3. req' = [req EXCEPT ![p] = [req[p] EXCEPT !.code = c, !.pc = pc]]
  BY DEF Redeem, TypeOK
<1>4. req'[p] = [req[p] EXCEPT !.code = c, !.pc = pc]
  BY <1>3 DEF TypeOK
<1>5. /\ req'[p].pc = pc /\ req'[p].op = req[p].op /\ req'[p].u = req[p].u
      /\ req'[p].sid = req[p].sid /\ req'[p].code = c
  BY <1>1, <1>4 DEF Request
<1>6. QED
  BY <1>2, <1>3, <1>5 DEF TypeOK, OthersKept

\* Begin starts p on an operation with nothing loaded.
LEMMA BeginFacts ==
  ASSUME TypeOK, NEW p \in Requests, NEW op, NEW pc \in Pcs, Begin(p, op, pc)
  PROVE  /\ req' \in [Requests -> Request] /\ OthersKept(p)
         /\ req[p].pc = "idle"
         /\ req'[p].pc = pc /\ req'[p].op = op
         /\ req'[p].sid = None /\ req'[p].code = 0
<1> DEFINE r == [Start EXCEPT !.op = op, !.pc = pc,
                              !.before = {s \in Sessions : Issued(s)}]
<1>1. r \in Request
  BY BlankTypes DEF Request, Begin, Start
<1>2. req' = [req EXCEPT ![p] = r] /\ req[p] = Start
  BY DEF Begin
<1>3. req'[p] = r
  BY <1>2 DEF TypeOK
<1>4. r.pc = pc /\ r.op = op /\ r.sid = None /\ r.code = 0 /\ Start.pc = "idle"
  BY DEF Start
<1> HIDE DEF r
<1>5. QED
  BY <1>1, <1>2, <1>3, <1>4 DEF TypeOK, OthersKept

\* Finish clears the record of p.
LEMMA FinishFacts ==
  ASSUME TypeOK, NEW p \in Requests, Finish(p)
  PROVE  /\ req' \in [Requests -> Request] /\ OthersKept(p)
         /\ req'[p].pc = "done" /\ req'[p].op = "none"
         /\ req'[p].sid = None /\ req'[p].code = 0
<1>1. req'[p] = Done /\ OthersKept(p)
  BY DEF Finish, TypeOK, OthersKept
<1>2. Done.pc = "done" /\ Done.op = "none" /\ Done.sid = None /\ Done.code = 0
  BY DEF Done, Start
<1>3. QED
  BY <1>1, <1>2, BlankTypes DEF Finish, TypeOK

-----------------------------------------------------------------------------
(* Steps that write no row and no transaction *)

\* If only the record of p changes, what p satisfies afterwards is all there
\* is to show.
LEMMA LocalStep ==
  ASSUME IInv, NEW p \in Requests, OthersKept(p), RequestInv(p)',
         req' \in [Requests -> Request],
         throttle' \in [ThrottleKeys -> 0..MaxFailures],
         blacklist' \subseteq Sessions,
         UNCHANGED <<user, sessions, otps, outbox, tx>>
  PROVE  IInv'
<1>1. TypeOK'
  BY DEF IInv, TypeOK
<1>2. ASSUME NEW q \in Requests PROVE RequestInv(q)'
  <2>1. CASE q = p
    BY <2>1
  <2>2. CASE q # p
    <3>1. req'[q] = req[q] /\ RequestInv(q)
      BY <2>2 DEF OthersKept, IInv
    <3>2. QED
      BY <3>1 DEF RequestInv, ControlOf, LoadedOf, HasUser, BufferedOf,
                  RotationOf, Issued, OptimisticOf, RedeemingOf
  <2>3. QED
    BY <2>1, <2>2
<1>3. Locks' /\ ParentRevoked' /\ Trail' /\ CodesOnce'
  BY DEF IInv, Locks, ParentRevoked, Trail, PasswordTrail, CodesOnce
<1>4. QED
  BY <1>1, <1>2, <1>3 DEF IInv

\* A request that is not in a transaction has buffered nothing.
LEMMA NothingBuffered ==
  ASSUME IInv, NEW p \in Requests,
         req[p].pc \notin {"issue", "update", "mark", "scan", "revoke_all", "commit"}
  PROVE  tx[p].user = None /\ tx[p].revoke = {} /\ tx[p].create = None
         /\ tx[p].consume = 0
  BY DEF IInv, RequestInv, BufferedOf

\* Beginning and finishing, wherever the transaction is empty.
LEMMA BeginStep ==
  ASSUME IInv, NEW p \in Requests, NEW op,
         NEW pc \in {"insert", "throttle", "read"}, Begin(p, op, pc),
         UNCHANGED <<user, sessions, otps, outbox, redis, tx>>
  PROVE  IInv'
<1>1. pc \in Pcs /\ TypeOK
  BY DEF Pcs, IInv
<1>2. /\ req' \in [Requests -> Request] /\ OthersKept(p) /\ req[p].pc = "idle"
      /\ req'[p].pc = pc /\ req'[p].op = op
      /\ req'[p].sid = None /\ req'[p].code = 0
  BY <1>1, BeginFacts
<1>3. RequestInv(p)'
  BY <1>2, NothingBuffered
     DEF RequestInv, ControlOf, LoadedOf, HasUser, BufferedOf,
         RotationOf, Issued, OptimisticOf, RedeemingOf
<1>4. QED
  BY <1>2, <1>3, LocalStep DEF IInv, TypeOK, redis

\* Finishing outside a transaction; only Redis may change with it.
LEMMA FinishStep ==
  ASSUME IInv, NEW p \in Requests, Finish(p),
         req[p].pc \notin {"issue", "update", "mark", "scan", "revoke_all", "commit"},
         throttle' \in [ThrottleKeys -> 0..MaxFailures],
         blacklist' \subseteq Sessions,
         UNCHANGED <<user, sessions, otps, outbox, tx>>
  PROVE  IInv'
<1>1. /\ req' \in [Requests -> Request] /\ OthersKept(p)
      /\ req'[p].pc = "done" /\ req'[p].op = "none"
      /\ req'[p].sid = None /\ req'[p].code = 0
  BY FinishFacts DEF IInv
<1>2. RequestInv(p)'
  BY <1>1, NothingBuffered
     DEF RequestInv, ControlOf, LoadedOf, HasUser, BufferedOf,
         RotationOf, Issued, OptimisticOf, RedeemingOf
<1>3. QED
  BY <1>1, <1>2, LocalStep DEF IInv, TypeOK

\* Moving on to a point where no row need have been loaded.
LEMMA GotoStep ==
  ASSUME IInv, NEW p \in Requests,
         req[p].pc \in {"throttle", "read", "verify", "send"},
         req[p].op \notin {"refresh", "logout"},
         NEW pc \in {"read", "fail", "insert", "send", "publish"},
         Goto(p, pc), UNCHANGED <<user, sessions, otps, outbox, redis, tx>>
  PROVE  IInv'
<1>1. pc \in Pcs /\ TypeOK
  BY DEF Pcs, IInv
<1>2. /\ req' \in [Requests -> Request] /\ OthersKept(p)
      /\ req'[p].pc = pc /\ req'[p].op = req[p].op
      /\ req'[p].sid = req[p].sid /\ req'[p].code = req[p].code
  BY <1>1, GotoFacts
<1>3. RequestInv(p)'
  BY <1>2, NothingBuffered
     DEF IInv, RequestInv, ControlOf, LoadedOf, HasUser, BufferedOf,
         RotationOf, Issued, OptimisticOf, RedeemingOf
<1>4. QED
  BY <1>2, <1>3, LocalStep DEF IInv, TypeOK, redis

\* The lockout counters stay counters.
LEMMA ThrottleTypes ==
  ASSUME TypeOK, NEW key \in ThrottleKeys, RecordFailure(key) \/ Reset(key)
  PROVE  throttle' \in [ThrottleKeys -> 0..MaxFailures]
<1>1. CASE RecordFailure(key)
  BY <1>1, IdentityAssumption DEF TypeOK, RecordFailure
<1>2. CASE Reset(key)
  BY <1>2, IdentityAssumption DEF TypeOK, Reset
<1>3. QED
  BY <1>1, <1>2

\* Reading the user: the aggregate is the row, but for the use case's own
\* change.
LEMMA LoadStep ==
  ASSUME IInv, NEW p \in Requests, req[p].pc \in {"read", "read_user"},
         NEW u \in UserRow, user \in UserRow, u.version = user.version,
         req[p].op \in PasswordOps => u.hash = user.hash + 1 /\ u.role = user.role,
         req[p].op = "set_role" => u.hash = user.hash,
         NEW pc \in {"clear", "revoke", "update", "verify"},
         pc = "update" => req[p].op \in {"change_password", "set_role"},
         pc = "revoke" => req[p].op = "refresh" /\ req[p].pc = "read_user",
         Load(p, u, pc), UNCHANGED <<user, sessions, otps, outbox, redis, tx>>
  PROVE  IInv'
<1>1. pc \in Pcs /\ TypeOK
  BY DEF Pcs, IInv
<1>2. /\ req' \in [Requests -> Request] /\ OthersKept(p)
      /\ req'[p].pc = pc /\ req'[p].op = req[p].op /\ req'[p].u = u
      /\ req'[p].sid = req[p].sid /\ req'[p].code = req[p].code
  BY <1>1, LoadFacts
<1>3. u.version \in Nat
  BY DEF UserRow
<1>4. RequestInv(p)'
  BY <1>2, <1>3, NothingBuffered
     DEF IInv, RequestInv, ControlOf, LoadedOf, HasUser, BufferedOf,
         RotationOf, Issued, OptimisticOf, RedeemingOf, PasswordOps
<1>5. QED
  BY <1>2, <1>4, LocalStep DEF IInv, TypeOK, redis

\* A row that is there is a users row.
LEMMA RowTypes ==
  ASSUME TypeOK, user # None
  PROVE  /\ user \in UserRow
         /\ WithNewHash(user) \in UserRow
         /\ WithNewHash(user).version = user.version
         /\ WithNewHash(user).hash = user.hash + 1
         /\ WithNewHash(user).role = user.role
  BY DEF TypeOK, WithNewHash, UserRow

\* Login up to the point where it issues the pair.
LEMMA LoginSteps ==
  ASSUME IInv, NEW p \in Requests,
         \/ LoginBegin(p) \/ LoginAllowed(p) \/ LoginRead(p)
         \/ LoginRecordFailure(p) \/ LoginReset(p)
  PROVE  IInv'
<1> TypeOK
  BY DEF IInv
<1>1. CASE LoginBegin(p)
  BY <1>1, BeginStep DEF LoginBegin
<1>2. CASE LoginAllowed(p)
  <2>1. CASE Goto(p, "read")
    BY <1>2, <2>1, GotoStep DEF LoginAllowed, At
  <2>2. CASE Finish(p)
    BY <1>2, <2>2, FinishStep DEF LoginAllowed, At, TypeOK, redis
  <2>3. QED
    BY <1>2, <2>1, <2>2 DEF LoginAllowed
<1>3. CASE LoginRead(p)
  <2>1. CASE Goto(p, "fail")
    BY <1>3, <2>1, GotoStep DEF LoginRead, At
  <2>2. CASE Finish(p)
    BY <1>3, <2>2, FinishStep DEF LoginRead, At, TypeOK, redis
  <2>3. CASE user # None /\ Load(p, user, "clear")
    BY <1>3, <2>3, RowTypes, LoadStep DEF LoginRead, At, PasswordOps
  <2>4. QED
    BY <1>3, <2>1, <2>2, <2>3 DEF LoginRead
<1>4. CASE LoginRecordFailure(p)
  <2>1. throttle' \in [ThrottleKeys -> 0..MaxFailures]
    BY <1>4, ThrottleTypes DEF LoginRecordFailure, ThrottleKeys
  <2>2. QED
    BY <1>4, <2>1, FinishStep DEF LoginRecordFailure, At, TypeOK
<1>5. CASE LoginReset(p)
  <2>1. throttle' \in [ThrottleKeys -> 0..MaxFailures]
    BY <1>5, ThrottleTypes DEF LoginReset, ThrottleKeys
  <2>2. /\ req' \in [Requests -> Request] /\ OthersKept(p)
        /\ req'[p].pc = "issue" /\ req'[p].op = req[p].op /\ req'[p].u = req[p].u
        /\ req'[p].sid = req[p].sid /\ req'[p].code = req[p].code
    BY <1>5, GotoFacts DEF LoginReset, Pcs
  <2>3. RequestInv(p)'
    BY <1>5, <2>2, NothingBuffered
       DEF LoginReset, At, IInv, RequestInv, ControlOf, LoadedOf, HasUser,
           BufferedOf, RotationOf, Issued, OptimisticOf, RedeemingOf, PasswordOps
  <2>4. QED
    BY <1>5, <2>1, <2>2, <2>3, LocalStep DEF LoginReset, TypeOK
<1>6. QED
  BY <1>1, <1>2, <1>3, <1>4, <1>5

\* Refresh up to its transaction.
LEMMA RefreshReads ==
  ASSUME IInv, NEW p \in Requests,
         RefreshBegin(p) \/ RefreshRead(p) \/ RefreshReadUser(p)
  PROVE  IInv'
<1> TypeOK
  BY DEF IInv
<1>1. CASE RefreshBegin(p)
  BY <1>1, BeginStep DEF RefreshBegin
<1>2. CASE RefreshRead(p)
  <2>1. CASE Finish(p)
    BY <1>2, <2>1, FinishStep DEF RefreshRead, At, TypeOK, redis
  <2>2. ASSUME NEW s \in Sessions, IsActive(s), Present(p, s, "read_user")
        PROVE  IInv'
    <3>1. /\ req' \in [Requests -> Request] /\ OthersKept(p)
          /\ req'[p].pc = "read_user" /\ req'[p].op = req[p].op
          /\ req'[p].sid = s /\ req'[p].code = req[p].code
      BY <2>2, PresentFacts DEF Pcs
    <3>2. req[p].op = "refresh" /\ req[p].pc = "read" /\ UNCHANGED <<sessions, tx>>
      BY <1>2 DEF RefreshRead, At
    <3>3. Issued(s)' /\ s # None
      BY <2>2, <3>2, IdentityAssumption DEF IsActive, Issued
    <3>4. RequestInv(p)'
      BY <3>1, <3>2, <3>3, NothingBuffered
         DEF IInv, RequestInv, ControlOf, LoadedOf,
             HasUser, BufferedOf, RotationOf, OptimisticOf, RedeemingOf
    <3>5. QED
      BY <1>2, <3>1, <3>4, LocalStep DEF RefreshRead, TypeOK, redis
  <2>3. QED
    BY <1>2, <2>1, <2>2 DEF RefreshRead
<1>3. CASE RefreshReadUser(p)
  <2>1. CASE Finish(p)
    BY <1>3, <2>1, FinishStep DEF RefreshReadUser, At, TypeOK, redis
  <2>2. CASE user # None /\ Load(p, user, "revoke")
    BY <1>3, <2>2, RowTypes, LoadStep DEF RefreshReadUser, At, PasswordOps
  <2>3. QED
    BY <1>3, <2>1, <2>2 DEF RefreshReadUser
<1>4. QED
  BY <1>1, <1>2, <1>3

\* Logout but for its Revoke, which writes a session.
LEMMA LogoutSteps ==
  ASSUME IInv, NEW p \in Requests,
         LogoutBegin(p) \/ LogoutRead(p) \/ LogoutBlacklist(p)
  PROVE  IInv'
<1> TypeOK
  BY DEF IInv
<1>1. CASE LogoutBegin(p)
  BY <1>1, BeginStep DEF LogoutBegin
<1>2. CASE LogoutRead(p)
  <2>1. CASE Goto(p, "blacklist")
    <3>1. /\ req' \in [Requests -> Request] /\ OthersKept(p)
          /\ req'[p].pc = "blacklist" /\ req'[p].op = req[p].op
          /\ req'[p].sid = req[p].sid /\ req'[p].code = req[p].code
      BY <2>1, GotoFacts DEF Pcs
    <3>2. RequestInv(p)'
      BY <1>2, <3>1, NothingBuffered
         DEF LogoutRead, At, IInv, RequestInv, ControlOf, LoadedOf,
             HasUser, BufferedOf, RotationOf, Issued, OptimisticOf, RedeemingOf
    <3>3. QED
      BY <1>2, <3>1, <3>2, LocalStep DEF LogoutRead, TypeOK, redis
  <2>2. ASSUME NEW s \in Sessions, Issued(s), Present(p, s, "revoke")
        PROVE  IInv'
    <3>1. /\ req' \in [Requests -> Request] /\ OthersKept(p)
          /\ req'[p].pc = "revoke" /\ req'[p].op = req[p].op
          /\ req'[p].sid = s /\ req'[p].code = req[p].code
      BY <2>2, PresentFacts DEF Pcs
    <3>2. req[p].op = "logout" /\ req[p].pc = "read" /\ UNCHANGED <<sessions, tx>>
      BY <1>2 DEF LogoutRead, At
    <3>3. Issued(s)' /\ s # None
      BY <2>2, <3>2, IdentityAssumption DEF Issued
    <3>4. RequestInv(p)'
      BY <3>1, <3>2, <3>3, NothingBuffered
         DEF IInv, RequestInv, ControlOf, LoadedOf,
             HasUser, BufferedOf, RotationOf, OptimisticOf, RedeemingOf
    <3>5. QED
      BY <1>2, <3>1, <3>4, LocalStep DEF LogoutRead, TypeOK, redis
  <2>3. QED
    BY <1>2, <2>1, <2>2 DEF LogoutRead
<1>3. CASE LogoutBlacklist(p)
  <2>1. blacklist' \subseteq Sessions
    BY <1>3 DEF LogoutBlacklist, TypeOK
  <2>2. QED
    BY <1>3, <2>1, FinishStep DEF LogoutBlacklist, At, TypeOK
<1>4. QED
  BY <1>1, <1>2, <1>3

\* The reads of ChangePassword, SetUserRole and the seeder.
LEMMA WriterReads ==
  ASSUME IInv, NEW p \in Requests,
         \/ ChangePasswordBegin(p) \/ ChangePasswordRead(p)
         \/ SetUserRoleBegin(p) \/ SetUserRoleRead(p)
         \/ SeedBegin(p) \/ SeedRead(p) \/ RegisterBegin(p)
  PROVE  IInv'
<1> TypeOK
  BY DEF IInv
<1>1. CASE ChangePasswordBegin(p)
  BY <1>1, BeginStep DEF ChangePasswordBegin
<1>2. CASE ChangePasswordRead(p)
  <2>1. CASE Finish(p)
    BY <1>2, <2>1, FinishStep DEF ChangePasswordRead, At, TypeOK, redis
  <2>2. CASE user # None /\ Load(p, WithNewHash(user), "update")
    BY <1>2, <2>2, RowTypes, LoadStep DEF ChangePasswordRead, At
  <2>3. QED
    BY <1>2, <2>1, <2>2 DEF ChangePasswordRead
<1>3. CASE SetUserRoleBegin(p)
  BY <1>3, BeginStep DEF SetUserRoleBegin
<1>4. CASE SetUserRoleRead(p)
  <2>1. CASE Finish(p)
    BY <1>4, <2>1, FinishStep DEF SetUserRoleRead, At, TypeOK, redis
  <2>2. ASSUME NEW role \in Roles, user # None,
               Load(p, [user EXCEPT !.role = role], "update")
        PROVE  IInv'
    <3> DEFINE u == [user EXCEPT !.role = role]
    <3>1. user \in UserRow
      BY <2>2 DEF TypeOK
    <3>2. u \in UserRow /\ u.version = user.version /\ u.hash = user.hash
      BY <3>1 DEF UserRow
    <3> HIDE DEF u
    <3>3. Load(p, u, "update")
      BY <2>2 DEF u
    <3>4. QED
      BY <1>4, <3>1, <3>2, <3>3, LoadStep DEF SetUserRoleRead, At, PasswordOps
  <2>3. QED
    BY <1>4, <2>1, <2>2 DEF SetUserRoleRead
<1>5. CASE SeedBegin(p)
  BY <1>5, BeginStep DEF SeedBegin
<1>6. CASE SeedRead(p)
  <2>1. CASE user = None
    BY <1>6, <2>1, GotoStep DEF SeedRead, At
  <2>2. CASE user # None
    <3>1. /\ req' \in [Requests -> Request] /\ OthersKept(p)
          /\ req'[p].pc = "promote" /\ req'[p].op = req[p].op
          /\ req'[p].sid = req[p].sid /\ req'[p].code = req[p].code
      BY <1>6, <2>2, GotoFacts DEF SeedRead, Pcs
    <3>2. RequestInv(p)'
      BY <1>6, <2>2, <3>1, RowTypes, NothingBuffered
         DEF SeedRead, At, IInv, RequestInv, ControlOf, LoadedOf,
             HasUser, BufferedOf, RotationOf, Issued, OptimisticOf, RedeemingOf
    <3>3. QED
      BY <1>6, <3>1, <3>2, LocalStep DEF SeedRead, TypeOK, redis
  <2>3. QED
    BY <2>1, <2>2
<1>7. CASE RegisterBegin(p)
  BY <1>7, BeginStep DEF RegisterBegin
<1>8. QED
  BY <1>1, <1>2, <1>3, <1>4, <1>5, <1>6, <1>7

\* The one-time-code flows up to Consume, but for the insert of a code.
LEMMA CodeReads ==
  ASSUME IInv, NEW p \in Requests,
         \/ RequestCodeBegin(p) \/ RequestCodeRead(p) \/ SendOTP(p)
         \/ ResetPasswordBegin(p) \/ ResetPasswordAllowed(p)
         \/ ResetPasswordRead(p) \/ ResetPasswordVerify(p)
         \/ ResetPasswordRecordFailure(p) \/ ResetPasswordReset(p)
         \/ VerifyEmailBegin(p) \/ VerifyEmailRead(p) \/ VerifyEmailVerify(p)
  PROVE  IInv'
<1> TypeOK
  BY DEF IInv
<1>1. CASE RequestCodeBegin(p)
  BY <1>1, BeginStep DEF RequestCodeBegin
<1>2. CASE RequestCodeRead(p)
  <2>1. CASE Finish(p)
    BY <1>2, <2>1, FinishStep DEF RequestCodeRead, TypeOK, redis
  <2>2. CASE Goto(p, "issue")
    <3>1. /\ req' \in [Requests -> Request] /\ OthersKept(p)
          /\ req'[p].pc = "issue" /\ req'[p].op = req[p].op
          /\ req'[p].sid = req[p].sid /\ req'[p].code = req[p].code
      BY <2>2, GotoFacts DEF Pcs
    <3>2. RequestInv(p)'
      BY <1>2, <3>1, NothingBuffered
         DEF RequestCodeRead, IInv, RequestInv, ControlOf, LoadedOf,
             HasUser, BufferedOf, RotationOf, Issued, OptimisticOf, RedeemingOf
    <3>3. QED
      BY <1>2, <3>1, <3>2, LocalStep DEF RequestCodeRead, TypeOK, redis
  <2>3. QED
    BY <1>2, <2>1, <2>2 DEF RequestCodeRead
<1>3. CASE SendOTP(p)
  <2>1. CASE Finish(p)
    BY <1>3, <2>1, FinishStep DEF SendOTP, TypeOK, redis
  <2>2. CASE Goto(p, "publish")
    BY <1>3, <2>2, GotoStep DEF SendOTP
  <2>3. QED
    BY <1>3, <2>1, <2>2 DEF SendOTP
<1>4. CASE ResetPasswordBegin(p)
  BY <1>4, BeginStep DEF ResetPasswordBegin
<1>5. CASE ResetPasswordAllowed(p)
  <2>1. CASE Goto(p, "read")
    BY <1>5, <2>1, GotoStep DEF ResetPasswordAllowed, At
  <2>2. CASE Finish(p)
    BY <1>5, <2>2, FinishStep DEF ResetPasswordAllowed, At, TypeOK, redis
  <2>3. QED
    BY <1>5, <2>1, <2>2 DEF ResetPasswordAllowed
<1>6. CASE ResetPasswordRead(p)
  <2>1. CASE Goto(p, "fail")
    BY <1>6, <2>1, GotoStep DEF ResetPasswordRead, At
  <2>2. CASE user # None /\ Load(p, WithNewHash(user), "verify")
    BY <1>6, <2>2, RowTypes, LoadStep DEF ResetPasswordRead, At
  <2>3. QED
    BY <1>6, <2>1, <2>2 DEF ResetPasswordRead
<1>7. CASE ResetPasswordVerify(p)
  <2>1. CASE Goto(p, "fail")
    BY <1>7, <2>1, GotoStep DEF ResetPasswordVerify, At
  <2>2. ASSUME NEW c \in Codes, GetActive(c, "password_reset"),
               Redeem(p, c, "consume")
        PROVE  IInv'
    <3>1. /\ req' \in [Requests -> Request] /\ OthersKept(p)
          /\ req'[p].pc = "consume" /\ req'[p].op = req[p].op
          /\ req'[p].u = req[p].u
          /\ req'[p].sid = req[p].sid /\ req'[p].code = c
      BY <2>2, RedeemFacts DEF Pcs
    <3>2. c # 0 /\ otps[c].status = "live" /\ otps[c].purpose = "password_reset"
      BY <2>2, IdentityAssumption DEF GetActive, LiveCode, Codes
    <3>3. RequestInv(p)'
      BY <1>7, <3>1, <3>2, NothingBuffered
         DEF ResetPasswordVerify, At, IInv, RequestInv, ControlOf, LoadedOf,
             HasUser, BufferedOf, RotationOf, Issued, OptimisticOf,
             RedeemingOf, PurposeOf
    <3>4. QED
      BY <1>7, <3>1, <3>3, LocalStep DEF ResetPasswordVerify, TypeOK, redis
  <2>3. QED
    BY <1>7, <2>1, <2>2 DEF ResetPasswordVerify
<1>8. CASE ResetPasswordRecordFailure(p)
  <2>1. throttle' \in [ThrottleKeys -> 0..MaxFailures]
    BY <1>8, ThrottleTypes DEF ResetPasswordRecordFailure, ThrottleKeys
  <2>2. QED
    BY <1>8, <2>1, FinishStep DEF ResetPasswordRecordFailure, At, TypeOK
<1>9. CASE ResetPasswordReset(p)
  <2>1. throttle' \in [ThrottleKeys -> 0..MaxFailures]
    BY <1>9, ThrottleTypes DEF ResetPasswordReset, ThrottleKeys
  <2>2. QED
    BY <1>9, <2>1, FinishStep DEF ResetPasswordReset, At, TypeOK
<1>10. CASE VerifyEmailBegin(p)
  BY <1>10, BeginStep DEF VerifyEmailBegin
<1>11. CASE VerifyEmailRead(p)
  <2>1. CASE Finish(p)
    BY <1>11, <2>1, FinishStep DEF VerifyEmailRead, At, TypeOK, redis
  <2>2. CASE user # None /\ Load(p, user, "verify")
    BY <1>11, <2>2, RowTypes, LoadStep DEF VerifyEmailRead, At, PasswordOps
  <2>3. QED
    BY <1>11, <2>1, <2>2 DEF VerifyEmailRead
<1>12. CASE VerifyEmailVerify(p)
  <2>1. CASE Finish(p)
    BY <1>12, <2>1, FinishStep DEF VerifyEmailVerify, At, TypeOK, redis
  <2>2. ASSUME NEW c \in Codes, GetActive(c, "email_verify"),
               Redeem(p, c, "consume")
        PROVE  IInv'
    <3>1. /\ req' \in [Requests -> Request] /\ OthersKept(p)
          /\ req'[p].pc = "consume" /\ req'[p].op = req[p].op
          /\ req'[p].u = req[p].u
          /\ req'[p].sid = req[p].sid /\ req'[p].code = c
      BY <2>2, RedeemFacts DEF Pcs
    <3>2. c # 0 /\ otps[c].status = "live" /\ otps[c].purpose = "email_verify"
      BY <2>2, IdentityAssumption DEF GetActive, LiveCode, Codes
    <3>3. RequestInv(p)'
      BY <1>12, <3>1, <3>2, NothingBuffered
         DEF VerifyEmailVerify, At, IInv, RequestInv, ControlOf, LoadedOf,
             HasUser, BufferedOf, RotationOf, Issued, OptimisticOf,
             RedeemingOf, PurposeOf
    <3>4. QED
      BY <1>12, <3>1, <3>3, LocalStep DEF VerifyEmailVerify, TypeOK, redis
  <2>3. QED
    BY <1>12, <2>1, <2>2 DEF VerifyEmailVerify
<1>13. QED
  BY <1>1, <1>2, <1>3, <1>4, <1>5, <1>6, <1>7, <1>8, <1>9, <1>10, <1>11, <1>12

-----------------------------------------------------------------------------
(* Statements inside a transaction: they write no committed row *)

\* Buffer replaces the transaction of p and no other.
LEMMA BufferFacts ==
  ASSUME TypeOK, NEW p \in Requests, NEW t \in Tx, Buffer(p, t)
  PROVE  /\ tx' \in [Requests -> Tx] /\ tx'[p] = t
         /\ \A q \in Requests \ {p} : tx'[q] = tx[q]
  BY DEF TypeOK, Buffer

\* If only p's record and transaction change, what is left to show is p's own
\* invariant and that the rows it has written now were free.
LEMMA TxStep ==
  ASSUME IInv, NEW p \in Requests, OthersKept(p), RequestInv(p)',
         req' \in [Requests -> Request],
         tx' \in [Requests -> Tx],
         \A q \in Requests \ {p} : tx'[q] = tx[q],
         \A q \in Requests \ {p} :
           /\ tx'[p].user = None \/ tx[q].user = None
           /\ tx'[p].create = None \/ tx'[p].create # tx[q].create,
         UNCHANGED <<user, sessions, otps, outbox, redis>>
  PROVE  IInv'
<1>1. TypeOK'
  BY DEF IInv, TypeOK, redis
<1>2. ASSUME NEW q \in Requests PROVE RequestInv(q)'
  <2>1. CASE q = p
    BY <2>1
  <2>2. CASE q # p
    <3>1. req'[q] = req[q] /\ tx'[q] = tx[q] /\ RequestInv(q)
      BY <2>2 DEF OthersKept, IInv
    <3>2. QED
      BY <3>1 DEF RequestInv, ControlOf, LoadedOf, HasUser, BufferedOf,
                  RotationOf, Issued, OptimisticOf, RedeemingOf
  <2>3. QED
    BY <2>1, <2>2
<1>3. Locks'
  <2> SUFFICES ASSUME NEW q \in Requests, NEW r \in Requests, q # r
               PROVE  /\ tx'[q].user = None \/ tx'[r].user = None
                      /\ tx'[q].create = None \/ tx'[q].create # tx'[r].create
    BY DEF Locks
  <2>1. CASE q # p /\ r # p
    BY <2>1 DEF IInv, Locks
  <2>2. CASE q = p
    BY <2>2
  <2>3. CASE r = p
    BY <2>3
  <2>4. QED
    BY <2>1, <2>2, <2>3
<1>4. ParentRevoked' /\ Trail' /\ CodesOnce'
  BY DEF IInv, ParentRevoked, Trail, PasswordTrail, CodesOnce
<1>5. QED
  BY <1>1, <1>2, <1>3, <1>4 DEF IInv

\* Rolling back, from any point: Fail, and the version guard of Update.
LEMMA RollbackStep ==
  ASSUME IInv, NEW p \in Requests, Buffer(p, NoTx), Finish(p),
         UNCHANGED <<user, sessions, otps, outbox, redis>>
  PROVE  IInv'
<1>1. /\ req' \in [Requests -> Request] /\ OthersKept(p)
      /\ req'[p].pc = "done" /\ req'[p].op = "none"
      /\ req'[p].sid = None /\ req'[p].code = 0
  BY FinishFacts DEF IInv
<1>2. /\ tx' \in [Requests -> Tx] /\ tx'[p] = NoTx
      /\ \A q \in Requests \ {p} : tx'[q] = tx[q]
  BY BufferFacts, BlankTypes DEF IInv
<1>3. NoTx.user = None /\ NoTx.revoke = {} /\ NoTx.create = None /\ NoTx.consume = 0
  BY DEF NoTx
<1>4. RequestInv(p)'
  BY <1>1, <1>2, <1>3
     DEF RequestInv, ControlOf, LoadedOf, HasUser, BufferedOf,
         RotationOf, Issued, OptimisticOf, RedeemingOf
<1>5. QED
  BY <1>1, <1>2, <1>3, <1>4, TxStep

\* Register's insert: the row is free and absent, or the request is over.
LEMMA RegisterInsertStep ==
  ASSUME IInv, NEW p \in Requests, RegisterInsert(p)
  PROVE  IInv'
<1> TypeOK
  BY DEF IInv
<1>1. CASE Finish(p) /\ UNCHANGED tx
  BY <1>1, FinishStep DEF RegisterInsert, At, TypeOK, redis
<1>2. CASE user = None /\ Goto(p, "commit")
           /\ Buffer(p, [tx[p] EXCEPT !.user = NewUser("user")])
  <2> DEFINE t == [tx[p] EXCEPT !.user = NewUser("user")]
  <2>1. NewUser("user") \in UserRow /\ NewUser("user").hash = 1
    BY IdentityAssumption DEF NewUser, UserRow, Statuses
  <2>2. tx[p] \in Tx
    BY DEF TypeOK
  <2>3. /\ t \in Tx /\ t.user = NewUser("user") /\ t.revoke = tx[p].revoke
        /\ t.create = tx[p].create /\ t.consume = tx[p].consume
    BY <2>1, <2>2 DEF Tx
  <2> HIDE DEF t
  <2>4. /\ tx' \in [Requests -> Tx] /\ tx'[p] = t
        /\ \A q \in Requests \ {p} : tx'[q] = tx[q]
    BY <1>2, <2>3, BufferFacts DEF t
  <2>5. /\ req' \in [Requests -> Request] /\ OthersKept(p)
        /\ req'[p].pc = "commit" /\ req'[p].op = req[p].op
        /\ req'[p].sid = req[p].sid /\ req'[p].code = req[p].code
    BY <1>2, GotoFacts DEF Pcs
  <2>6. req[p].op = "register" /\ req[p].pc = "insert" /\ UserFree(p)
        /\ UNCHANGED <<user, sessions, otps, outbox, redis>>
    BY DEF RegisterInsert, At
  <2>7. tx[p].revoke = {} /\ tx[p].create = None /\ tx[p].consume = 0
    BY <2>6, NothingBuffered
  <2>8. RequestInv(p)'
    BY <1>2, <2>1, <2>3, <2>4, <2>5, <2>6, <2>7
       DEF IInv, RequestInv, ControlOf, LoadedOf, HasUser, BufferedOf,
           RotationOf, Issued, OptimisticOf, RedeemingOf, PasswordOps
  <2>9. QED
    BY <2>3, <2>4, <2>5, <2>6, <2>7, <2>8, TxStep DEF UserFree
<1>3. QED
  BY <1>1, <1>2 DEF RegisterInsert

\* A users row with two columns replaced is a users row.  (The set of Booleans
\* is a parameter: the SMT backend reasons about it only as a set.)
LEMMA RowUpdate ==
  ASSUME NEW B, NEW u \in [hash : Nat, role : Roles, status : Statuses,
                           verified : B, version : Nat],
         NEW v \in Nat, NEW b \in B
  PROVE  LET w == [u EXCEPT !.version = v, !.verified = b]
         IN  /\ w \in [hash : Nat, role : Roles, status : Statuses,
                       verified : B, version : Nat]
             /\ w.version = v /\ w.hash = u.hash /\ w.role = u.role
  OBVIOUS

\* Refresh's Revoke: the presented session is in the transaction, or somebody
\* else revoked it for good.
LEMMA RefreshRevokeStep ==
  ASSUME IInv, NEW p \in Requests, RefreshRevoke(p)
  PROVE  IInv'
<1> DEFINE t == [tx[p] EXCEPT !.revoke =
                   {s \in {req[p].sid} : sessions[s].status = "live"}]
<1>1. /\ req[p].op = "refresh" /\ req[p].pc = "revoke" /\ Goto(p, "issue")
      /\ Buffer(p, t) /\ UNCHANGED <<user, sessions, otps, outbox, redis>>
  BY DEF RefreshRevoke, At
<1>2. req[p].sid \in Sessions /\ Issued(req[p].sid)
  BY <1>1 DEF IInv, TypeOK, Request, RequestInv, RotationOf
<1>3. sessions[req[p].sid].status \in {"live", "revoked"}
  BY <1>2 DEF IInv, TypeOK, SessionRow, Issued
<1>4. /\ t \in Tx /\ t.user = tx[p].user /\ t.create = tx[p].create
      /\ t.consume = tx[p].consume /\ \A s \in t.revoke : s = req[p].sid
      /\ sessions[req[p].sid].status = "live" => req[p].sid \in t.revoke
  <2>1. tx[p] \in Tx
    BY DEF IInv, TypeOK
  <2>2. QED
    BY <1>2, <2>1 DEF Tx
<1> HIDE DEF t
<1>5. /\ tx' \in [Requests -> Tx] /\ tx'[p] = t
      /\ \A q \in Requests \ {p} : tx'[q] = tx[q]
  BY <1>1, <1>4, BufferFacts DEF IInv
<1>6. /\ req' \in [Requests -> Request] /\ OthersKept(p)
      /\ req'[p].pc = "issue" /\ req'[p].op = req[p].op /\ req'[p].u = req[p].u
      /\ req'[p].sid = req[p].sid /\ req'[p].code = req[p].code
  BY <1>1, GotoFacts DEF Pcs, IInv
<1>7. tx[p].user = None /\ tx[p].create = None /\ tx[p].consume = 0
  BY <1>1, NothingBuffered
<1>8. RequestInv(p)'
  BY <1>1, <1>2, <1>3, <1>4, <1>5, <1>6, <1>7
     DEF IInv, RequestInv, ControlOf, LoadedOf, HasUser, BufferedOf,
         RotationOf, Issued, OptimisticOf, RedeemingOf, PasswordOps
<1>9. QED
  BY <1>1, <1>4, <1>5, <1>6, <1>7, <1>8, TxStep

\* Refresh's insert: its id is fresh.
LEMMA RefreshIssueStep ==
  ASSUME IInv, NEW p \in Requests, RefreshIssuePair(p)
  PROVE  IInv'
<1>1. PICK n \in Sessions : Fresh(n) /\ Buffer(p, [tx[p] EXCEPT !.create = n])
  BY DEF RefreshIssuePair
<1> DEFINE t == [tx[p] EXCEPT !.create = n]
<1>2. /\ req[p].op = "refresh" /\ req[p].pc = "issue" /\ Goto(p, "commit")
      /\ Buffer(p, t) /\ UNCHANGED <<user, sessions, otps, outbox, redis>>
  BY <1>1 DEF RefreshIssuePair, At
<1>3. /\ t \in Tx /\ t.user = tx[p].user /\ t.create = n
      /\ t.consume = tx[p].consume /\ t.revoke = tx[p].revoke
  <2>1. tx[p] \in Tx
    BY DEF IInv, TypeOK
  <2>2. QED
    BY <2>1 DEF Tx
<1> HIDE DEF t
<1>4. /\ tx' \in [Requests -> Tx] /\ tx'[p] = t
      /\ \A q \in Requests \ {p} : tx'[q] = tx[q]
  BY <1>2, <1>3, BufferFacts DEF IInv
<1>5. /\ req' \in [Requests -> Request] /\ OthersKept(p)
      /\ req'[p].pc = "commit" /\ req'[p].op = req[p].op /\ req'[p].u = req[p].u
      /\ req'[p].sid = req[p].sid /\ req'[p].code = req[p].code
  BY <1>2, GotoFacts DEF Pcs, IInv
<1>6. tx[p].user = None /\ tx[p].consume = 0
  BY <1>2 DEF IInv, RequestInv, BufferedOf
<1>7. ~Issued(n) /\ \A q \in Requests : tx[q].create # n
  BY <1>1 DEF Fresh
<1>8. RequestInv(p)'
  BY <1>2, <1>3, <1>4, <1>5, <1>6, <1>7
     DEF IInv, RequestInv, ControlOf, LoadedOf, HasUser, BufferedOf,
         RotationOf, Issued, OptimisticOf, RedeemingOf, PasswordOps
<1>9. QED
  BY <1>2, <1>3, <1>4, <1>5, <1>6, <1>7, <1>8, TxStep

\* Update: the version guard says that the aggregate was read from the row it
\* is about to replace.
LEMMA UpdateUserStep ==
  ASSUME IInv, NEW p \in Requests, UpdateUser(p)
  PROVE  IInv'
<1>1. CASE Buffer(p, NoTx) /\ Finish(p)
  BY <1>1, RollbackStep DEF UpdateUser
<1>2. CASE ~(Buffer(p, NoTx) /\ Finish(p))
  <2> DEFINE row == [req[p].u EXCEPT !.version = @ + 1, !.verified = user.verified]
             t == [tx[p] EXCEPT !.user = row]
             pc == IF req[p].op = "set_role" THEN "commit" ELSE "scan"
  <2>1. /\ req[p].pc = "update" /\ UserFree(p) /\ user # None
        /\ user.version = req[p].u.version /\ Buffer(p, t) /\ Goto(p, pc)
        /\ UNCHANGED <<user, sessions, otps, outbox, redis>>
    BY <1>2 DEF UpdateUser
  <2>2. req[p].op \in PasswordOps \cup {"set_role"} /\ HasUser(p)
    BY <2>1 DEF IInv, RequestInv, ControlOf, HasUser
  <2>3. req[p].u \in UserRow /\ user \in UserRow
    BY <2>2 DEF IInv, RequestInv, LoadedOf
  <2>4. /\ row \in UserRow /\ row.version = user.version + 1
        /\ row.hash = req[p].u.hash /\ row.role = req[p].u.role
    <3>1. user.verified \in BOOLEAN
      BY <2>3, Zenon DEF UserRow
    <3>2. user.version \in Nat /\ req[p].u.version \in Nat
      BY <2>3 DEF UserRow
    <3>3. user.version + 1 \in Nat
      BY <3>2
    <3>4. row = [req[p].u EXCEPT !.version = user.version + 1,
                                 !.verified = user.verified]
      BY <2>1, Zenon
    <3> HIDE DEF row
    <3>5. QED
      BY <2>3, <3>1, <3>3, <3>4, RowUpdate, Zenon DEF UserRow
  <2>5. row # None
    BY <2>4, IdentityAssumption DEF UserRow
  <2> HIDE DEF row
  <2>6. /\ t \in Tx /\ t.user = row /\ t.create = tx[p].create
        /\ t.consume = tx[p].consume /\ t.revoke = tx[p].revoke
    <3>1. tx[p] \in Tx
      BY DEF IInv, TypeOK
    <3>2. QED
      BY <2>4, <3>1 DEF Tx
  <2> HIDE DEF t
  <2>7. /\ tx' \in [Requests -> Tx] /\ tx'[p] = t
        /\ \A q \in Requests \ {p} : tx'[q] = tx[q]
    BY <2>1, <2>6, BufferFacts DEF IInv
  <2>8. /\ req' \in [Requests -> Request] /\ OthersKept(p)
        /\ req'[p].pc = pc /\ req'[p].op = req[p].op /\ req'[p].u = req[p].u
        /\ req'[p].sid = req[p].sid /\ req'[p].code = req[p].code
    BY <2>1, GotoFacts DEF Pcs, IInv
  <2>9. tx[p].revoke = {} /\ tx[p].create = None
    BY <2>1 DEF IInv, RequestInv, BufferedOf
  <2>10. /\ req[p].op \in PasswordOps
              => req[p].u.hash = user.hash + 1 /\ req[p].u.role = user.role
         /\ req[p].op = "set_role" => req[p].u.hash = user.hash
    BY <2>1, <2>2 DEF IInv, RequestInv, OptimisticOf
  <2>11. /\ ControlOf(p)' /\ LoadedOf(p)' /\ BufferedOf(p)'
    BY <2>1, <2>2, <2>3, <2>6, <2>7, <2>8, <2>9
       DEF IInv, RequestInv, ControlOf, LoadedOf, HasUser, BufferedOf, PasswordOps
  <2>12. RotationOf(p)' /\ RedeemingOf(p)'
    BY <2>1, <2>2, <2>6, <2>7, <2>8, <2>9
       DEF IInv, RequestInv, RotationOf, Issued, RedeemingOf, PasswordOps
  <2>13. OptimisticOf(p)'
    BY <2>1, <2>2, <2>4, <2>5, <2>6, <2>7, <2>8, <2>10
       DEF IInv, RequestInv, OptimisticOf, HasUser, PasswordOps
  <2>14. QED
    BY <2>1, <2>6, <2>7, <2>8, <2>9, <2>11, <2>12, <2>13, TxStep
       DEF UserFree, RequestInv
<1>3. QED
  BY <1>1, <1>2

\* The two halves of RevokeAllRefreshTokensForUser.
LEMMA RevokeAllSteps ==
  ASSUME IInv, NEW p \in Requests, RevokeAllScan(p) \/ RevokeAllForUser(p)
  PROVE  IInv'
<1>1. PICK t \in Tx, pc \in {"revoke_all", "commit"} :
        /\ t.user = tx[p].user /\ t.create = tx[p].create
        /\ t.consume = tx[p].consume /\ \A s \in t.revoke : Issued(s)
        /\ pc = "revoke_all" => t.revoke = tx[p].revoke
        /\ Buffer(p, t) /\ Goto(p, pc)
  <2>1. tx[p] \in Tx
    BY DEF IInv, TypeOK
  <2>2. CASE RevokeAllScan(p)
    <3> DEFINE t == [tx[p] EXCEPT !.scan =
                       {s \in Sessions : sessions[s].status = "live"}]
    <3>1. /\ t \in Tx /\ t.user = tx[p].user /\ t.create = tx[p].create
          /\ t.consume = tx[p].consume /\ t.revoke = tx[p].revoke
      BY <2>1 DEF Tx
    <3>2. \A s \in tx[p].revoke : Issued(s)
      BY DEF IInv, RequestInv, RotationOf
    <3>3. QED
      BY <2>2, <3>1, <3>2 DEF RevokeAllScan
  <2>3. CASE RevokeAllForUser(p)
    <3> DEFINE t == [tx[p] EXCEPT !.revoke =
                       {s \in tx[p].scan : sessions[s].status = "live"}]
    <3>1. /\ t \in Tx /\ t.user = tx[p].user /\ t.create = tx[p].create
          /\ t.consume = tx[p].consume
          /\ t.revoke = {s \in tx[p].scan : sessions[s].status = "live"}
      BY <2>1 DEF Tx
    <3>2. QED
      BY <2>3, <3>1 DEF RevokeAllForUser, Issued
  <2>4. QED
    BY <2>2, <2>3
<1>2. /\ req[p].pc \in {"scan", "revoke_all"}
      /\ UNCHANGED <<user, sessions, otps, outbox, redis>>
  BY DEF RevokeAllScan, RevokeAllForUser
<1>3. req[p].op \in PasswordOps /\ tx[p].revoke = {} /\ tx[p].create = None
  BY <1>2 DEF IInv, RequestInv, ControlOf, BufferedOf
<1>4. /\ tx' \in [Requests -> Tx] /\ tx'[p] = t
      /\ \A q \in Requests \ {p} : tx'[q] = tx[q]
  BY <1>1, BufferFacts DEF IInv
<1>5. /\ req' \in [Requests -> Request] /\ OthersKept(p)
      /\ req'[p].pc = pc /\ req'[p].op = req[p].op /\ req'[p].u = req[p].u
      /\ req'[p].sid = req[p].sid /\ req'[p].code = req[p].code
  BY <1>1, GotoFacts DEF Pcs, IInv
<1>6. RequestInv(p)'
  BY <1>1, <1>2, <1>3, <1>4, <1>5
     DEF IInv, RequestInv, ControlOf, LoadedOf, HasUser, BufferedOf,
         RotationOf, Issued, OptimisticOf, RedeemingOf, PasswordOps
<1>7. \A q \in Requests \ {p} : tx[p].user = None \/ tx[q].user = None
  BY DEF IInv, Locks
<1>8. QED
  BY <1>1, <1>2, <1>3, <1>4, <1>5, <1>6, <1>7, TxStep

\* Consume: the code is in the transaction, or somebody else consumed it.
LEMMA ConsumeStep ==
  ASSUME IInv, NEW p \in Requests, Consume(p)
  PROVE  IInv'
<1> DEFINE pc == IF req[p].op = "reset_password" THEN "update" ELSE "mark"
<1>1. /\ req[p].pc = "consume" /\ Goto(p, pc)
      /\ UNCHANGED <<user, sessions, otps, outbox, redis>>
  BY DEF Consume
<1>2. /\ req[p].op \in {"reset_password", "verify_email"}
      /\ req[p].code \in Codes /\ req[p].code \in 0..MaxCodes
      /\ req[p].code # 0 /\ otps[req[p].code].status # "unused"
  <2>1. req[p].code # 0 /\ otps[req[p].code].status # "unused"
        /\ req[p].op \in {"reset_password", "verify_email"}
    BY <1>1 DEF IInv, RequestInv, RedeemingOf
  <2>2. req[p].code \in 0..MaxCodes
    BY DEF IInv, TypeOK, Request
  <2>3. QED
    BY <2>1, <2>2, IdentityAssumption DEF Codes
<1>3. otps[req[p].code].status \in {"live", "consumed"}
  BY <1>2 DEF IInv, TypeOK, CodeRow
<1>4. tx[p].user = None /\ tx[p].revoke = {} /\ tx[p].create = None
      /\ tx[p].consume = 0
  BY <1>1, NothingBuffered
<1>5. /\ tx' \in [Requests -> Tx]
      /\ \A q \in Requests \ {p} : tx'[q] = tx[q]
      /\ tx'[p].user = None /\ tx'[p].revoke = {} /\ tx'[p].create = None
      /\ \/ tx'[p].consume = req[p].code
         \/ tx'[p].consume = 0 /\ otps[req[p].code].status = "consumed"
  <2>1. CASE otps[req[p].code].status = "live"
    <3> DEFINE t == [tx[p] EXCEPT !.consume = req[p].code]
    <3>1. tx[p] \in Tx
      BY DEF IInv, TypeOK
    <3>2. /\ t \in Tx /\ t.user = tx[p].user /\ t.create = tx[p].create
          /\ t.revoke = tx[p].revoke /\ t.consume = req[p].code
      BY <1>2, <3>1 DEF Tx
    <3> HIDE DEF t
    <3>3. Buffer(p, t)
      BY <2>1 DEF Consume, t
    <3>4. QED
      BY <1>4, <3>2, <3>3, BufferFacts DEF IInv
  <2>2. CASE otps[req[p].code].status # "live"
    BY <1>3, <1>4, <2>2 DEF Consume, IInv, TypeOK
  <2>3. QED
    BY <2>1, <2>2
<1>6. /\ req' \in [Requests -> Request] /\ OthersKept(p)
      /\ req'[p].pc = pc /\ req'[p].op = req[p].op /\ req'[p].u = req[p].u
      /\ req'[p].sid = req[p].sid /\ req'[p].code = req[p].code
  BY <1>1, GotoFacts DEF Pcs, IInv
<1>7. RequestInv(p)'
  BY <1>1, <1>2, <1>5, <1>6
     DEF IInv, RequestInv, ControlOf, LoadedOf, HasUser, BufferedOf,
         RotationOf, Issued, OptimisticOf, RedeemingOf, PasswordOps
<1>8. QED
  BY <1>1, <1>5, <1>6, <1>7, TxStep

\* MarkEmailVerified: the row, read and written by one statement.
LEMMA MarkEmailVerifiedStep ==
  ASSUME IInv, NEW p \in Requests, MarkEmailVerified(p)
  PROVE  IInv'
<1> DEFINE row == [user EXCEPT !.verified = TRUE, !.version = @ + 1]
           t == [tx[p] EXCEPT !.user = row]
<1>1. /\ req[p].op = "verify_email" /\ req[p].pc = "mark" /\ UserFree(p)
      /\ UNCHANGED tx \/ Buffer(p, t)
      /\ Goto(p, "commit") /\ UNCHANGED <<user, sessions, otps, outbox, redis>>
  BY DEF MarkEmailVerified, At
<1>2. HasUser(p) /\ req[p].u \in UserRow /\ user \in UserRow
  BY <1>1 DEF IInv, RequestInv, LoadedOf, HasUser
<1>3. /\ row \in UserRow /\ row.version = user.version + 1
      /\ row.hash = user.hash /\ row.role = user.role
  <2>1. user.version + 1 \in Nat
    BY <1>2 DEF UserRow
  <2>2. row = [user EXCEPT !.version = user.version + 1, !.verified = TRUE]
    BY <1>2 DEF UserRow
  <2> HIDE DEF row
  <2>3. TRUE \in BOOLEAN
    OBVIOUS
  <2>4. QED
    BY <1>2, <2>1, <2>2, <2>3, RowUpdate, Zenon DEF UserRow
<1> HIDE DEF row
<1>4. tx[p].user = None /\ tx[p].revoke = {} /\ tx[p].create = None
  BY <1>1 DEF IInv, RequestInv, BufferedOf
<1>5. /\ tx' \in [Requests -> Tx]
      /\ \A q \in Requests \ {p} : tx'[q] = tx[q]
      /\ tx'[p].user \in {None, row} /\ tx'[p].revoke = {}
      /\ tx'[p].create = None /\ tx'[p].consume = tx[p].consume
  <2>1. CASE UNCHANGED tx
    BY <1>4, <2>1 DEF IInv, TypeOK
  <2>2. CASE Buffer(p, t)
    <3>1. tx[p] \in Tx
      BY DEF IInv, TypeOK
    <3>2. /\ t \in Tx /\ t.user = row /\ t.create = tx[p].create
          /\ t.revoke = tx[p].revoke /\ t.consume = tx[p].consume
      BY <1>3, <3>1 DEF Tx
    <3> HIDE DEF t
    <3>3. QED
      BY <1>4, <2>2, <3>2, BufferFacts DEF IInv
  <2>3. QED
    BY <1>1, <2>1, <2>2
<1>6. /\ req' \in [Requests -> Request] /\ OthersKept(p)
      /\ req'[p].pc = "commit" /\ req'[p].op = req[p].op /\ req'[p].u = req[p].u
      /\ req'[p].sid = req[p].sid /\ req'[p].code = req[p].code
  BY <1>1, GotoFacts DEF Pcs, IInv
<1>7. ControlOf(p)' /\ LoadedOf(p)' /\ BufferedOf(p)' /\ RotationOf(p)'
      /\ RedeemingOf(p)'
  BY <1>1, <1>2, <1>5, <1>6
     DEF IInv, RequestInv, ControlOf, LoadedOf, HasUser, BufferedOf,
         RotationOf, Issued, RedeemingOf, PasswordOps
<1>8. OptimisticOf(p)'
  BY <1>1, <1>2, <1>3, <1>5, <1>6
     DEF IInv, RequestInv, OptimisticOf, HasUser, PasswordOps
<1>9. QED
  BY <1>1, <1>4, <1>5, <1>6, <1>7, <1>8, TxStep DEF UserFree, RequestInv

-----------------------------------------------------------------------------
(* Steps that write rows *)

\* What a step may do to the rows without disturbing the other requests:
\* sessions are never un-issued nor un-revoked and ids of open inserts stay
\* unused; ...
SessionsGrow(p) ==
  \A s \in Sessions :
    /\ Issued(s) => Issued(s)'
    /\ sessions[s].status = "revoked" => sessions'[s].status = "revoked"
    /\ (\E q \in Requests \ {p} : tx[q].create = s) => ~Issued(s)'

\* ... the row is left alone or, when no other transaction holds it, gets a
\* higher version; ...
UserGrows(p) ==
  \/ user' = user
  \/ /\ UserFree(p) /\ user' \in UserRow
     /\ user \in UserRow => user'.version > user.version

\* ... and an issued code keeps its purpose, and is consumed for good, a
\* password-reset code only together with a new version of the row.
CodesGrow ==
  \A c \in Codes : otps[c].status # "unused" =>
    /\ otps'[c].status # "unused" /\ otps'[c].purpose = otps[c].purpose
    /\ otps[c].status = "consumed" => otps'[c].status = "consumed"
    /\ otps'[c].purpose = "password_reset" /\ otps'[c].status = "consumed" =>
         \/ otps[c].status = "consumed"
         \/ user \in UserRow /\ user'.version > user.version

\* Then a request that did not take the step keeps its invariant.
LEMMA OthersStep ==
  ASSUME IInv, NEW p, NEW q \in Requests \ {p}, req'[q] = req[q], tx'[q] = tx[q],
         SessionsGrow(p), UserGrows(p), CodesGrow
  PROVE  RequestInv(q)'
<1>1. req[q] \in Request /\ tx[q] \in Tx /\ RequestInv(q)
  BY DEF IInv, TypeOK
<1>2. req[q].sid \in Sessions \cup {None} /\ req[q].code \in Codes \cup {0}
  BY <1>1, IdentityAssumption DEF Request, Codes
<1>3. tx[q].revoke \subseteq Sessions /\ tx[q].create \in Sessions \cup {None}
  BY <1>1 DEF Tx
<1>4. ControlOf(q)' /\ BufferedOf(q)'
  BY <1>1 DEF RequestInv, ControlOf, BufferedOf
<1>5. None \notin UserRow
  BY IdentityAssumption DEF UserRow
<1>6. HasUser(q)' <=> HasUser(q)
  BY DEF HasUser
<1>7. user' = user \/ (user' \in UserRow /\ tx[q].user = None
                       /\ (user \in UserRow => user'.version > user.version))
  BY DEF UserGrows, UserFree
<1>8. LoadedOf(q)'
  BY <1>1, <1>6, <1>7 DEF RequestInv, LoadedOf
<1>9. RotationOf(q)'
  <2>1. tx[q].create # None => ~Issued(tx[q].create)'
    BY <1>3 DEF SessionsGrow
  <2>2. \A s \in tx[q].revoke : Issued(s)'
    BY <1>1, <1>3 DEF SessionsGrow, RequestInv, RotationOf
  <2>3. req[q].sid # None => Issued(req[q].sid)'
    BY <1>1, <1>2 DEF SessionsGrow, RequestInv, RotationOf
  <2>4. req[q].sid \in Sessions /\ sessions[req[q].sid].status = "revoked"
          => sessions'[req[q].sid].status = "revoked"
    BY DEF SessionsGrow
  <2>5. QED
    BY <1>1, <1>2, <2>1, <2>2, <2>3, <2>4 DEF RequestInv, RotationOf
<1>10. HasUser(q) => /\ req[q].u.version \in Nat /\ user.version \in Nat
                     /\ user'.version \in Nat
  BY <1>1, <1>7 DEF RequestInv, LoadedOf, UserRow
<1>11. OptimisticOf(q)'
  <2>1. CASE user' = user
    BY <1>1, <1>6, <2>1 DEF RequestInv, OptimisticOf
  <2>2. CASE tx[q].user = None /\ user \in UserRow /\ user'.version > user.version
    BY <1>1, <1>6, <1>10, <2>2 DEF RequestInv, OptimisticOf
  <2>3. CASE tx[q].user = None /\ user \notin UserRow
    BY <1>1, <1>6, <2>3 DEF RequestInv, OptimisticOf, LoadedOf
  <2>4. QED
    BY <1>7, <2>1, <2>2, <2>3
<1>12. RedeemingOf(q)'
  <2>1. req[q].code # 0 =>
          /\ req[q].op \in {"reset_password", "verify_email"}
          /\ otps'[req[q].code].status # "unused"
          /\ otps'[req[q].code].purpose = PurposeOf(req[q].op)
    BY <1>1, <1>2 DEF RequestInv, RedeemingOf, CodesGrow
  <2>2. ASSUME req[q].op = "reset_password",
               req[q].pc \in {"consume", "update", "scan", "revoke_all", "commit"}
        PROVE  /\ req[q].code # 0
               /\ otps'[req[q].code].status = "consumed"
                    => req[q].u.version < user'.version
    <3>1. /\ req[q].code \in Codes /\ req[q].code # 0
          /\ otps[req[q].code].status # "unused"
          /\ otps[req[q].code].purpose = "password_reset"
          /\ otps[req[q].code].status = "consumed"
               => req[q].u.version < user.version
      BY <1>1, <1>2, <2>2 DEF RequestInv, RedeemingOf, PurposeOf
    <3>2. HasUser(q) /\ req[q].u.version <= user.version
      BY <1>1, <2>2 DEF HasUser, RequestInv, OptimisticOf
    <3>3. user \in UserRow /\ (user' = user \/ user'.version > user.version)
      BY <1>1, <1>7, <3>2 DEF RequestInv, LoadedOf
    <3>4. otps'[req[q].code].status = "consumed" =>
            otps[req[q].code].status = "consumed" \/ user'.version > user.version
      BY <3>1 DEF CodesGrow
    <3>5. QED
      BY <1>10, <3>1, <3>2, <3>3, <3>4
  <2>3. ASSUME req[q].op = "reset_password",
               req[q].pc \in {"update", "scan", "revoke_all", "commit"}
        PROVE  \/ tx[q].consume = req[q].code
               \/ otps'[req[q].code].status = "consumed"
    <3>1. req[q].code \in Codes /\ otps[req[q].code].status # "unused"
      BY <1>1, <1>2, <2>3 DEF RequestInv, RedeemingOf
    <3>2. tx[q].consume = req[q].code \/ otps[req[q].code].status = "consumed"
      BY <1>1, <2>3 DEF RequestInv, RedeemingOf
    <3>3. QED
      BY <3>1, <3>2 DEF CodesGrow
  <2>4. req[q].pc = "consume" => req[q].code # 0
    BY <1>1 DEF RequestInv, RedeemingOf
  <2>5. QED
    BY <2>1, <2>2, <2>3, <2>4 DEF RedeemingOf
<1>13. QED
  BY <1>4, <1>8, <1>9, <1>11, <1>12 DEF RequestInv

\* A step that writes sessions only: Login's insert, Logout's Revoke, expiry.
LEMMA SessionsStep ==
  ASSUME IInv, NEW p, OthersKept(p), p \in Requests => RequestInv(p)',
         req' \in [Requests -> Request], sessions' \in [Sessions -> SessionRow],
         SessionsGrow(p),
         \A s \in Sessions : sessions'[s].parent \in {None, sessions[s].parent},
         UNCHANGED <<user, otps, outbox, redis, tx>>
  PROVE  IInv'
<1>1. TypeOK'
  BY DEF IInv, TypeOK, redis
<1>2. UserGrows(p) /\ CodesGrow
  BY DEF UserGrows, CodesGrow
<1>3. ASSUME NEW q \in Requests PROVE RequestInv(q)'
  <2>1. CASE q = p
    BY <2>1
  <2>2. CASE q # p
    BY <1>2, <2>2, OthersStep DEF OthersKept
  <2>3. QED
    BY <2>1, <2>2
<1>4. ParentRevoked'
  <2> SUFFICES ASSUME NEW s \in Sessions, sessions'[s].parent # None
               PROVE  sessions'[sessions'[s].parent].status = "revoked"
    BY DEF ParentRevoked
  <2>1. sessions'[s].parent = sessions[s].parent
    OBVIOUS
  <2>2. sessions[s].parent \in Sessions
    BY <2>1 DEF IInv, TypeOK, SessionRow
  <2>3. sessions[sessions[s].parent].status = "revoked"
    BY <2>1 DEF IInv, ParentRevoked
  <2>4. QED
    BY <2>1, <2>2, <2>3 DEF SessionsGrow
<1>5. Locks' /\ Trail' /\ CodesOnce'
  BY DEF IInv, Locks, Trail, PasswordTrail, CodesOnce
<1>6. QED
  BY <1>1, <1>3, <1>4, <1>5 DEF IInv

\* A request with nothing buffered that is over satisfies its invariant
\* whatever the rows are.
LEMMA DoneInv ==
  ASSUME NEW p \in Requests, req'[p].pc = "done", req'[p].op = "none",
         req'[p].sid = None, req'[p].code = 0,
         tx'[p].user = None, tx'[p].revoke = {}, tx'[p].create = None,
         tx'[p].consume = 0
  PROVE  RequestInv(p)'
  BY DEF RequestInv, ControlOf, LoadedOf, HasUser, BufferedOf, RotationOf,
         Issued, OptimisticOf, RedeemingOf

\* Login's insert: a fresh id with no parent.
LEMMA LoginIssueStep ==
  ASSUME IInv, NEW p \in Requests, LoginIssuePair(p)
  PROVE  IInv'
<1> DEFINE row == [status |-> "live", expired |-> FALSE,
                   parent |-> None, hash |-> req[p].u.hash]
<1>1. PICK n \in Sessions : Fresh(n) /\ sessions' = [sessions EXCEPT ![n] = row]
  BY DEF LoginIssuePair
<1>2. /\ req[p].op = "login" /\ req[p].pc = "issue" /\ Finish(p)
      /\ UNCHANGED <<user, otps, outbox, redis, tx>>
  BY DEF LoginIssuePair, At
<1>3. req[p].u.hash \in Nat
  BY <1>2 DEF IInv, RequestInv, LoadedOf, HasUser, UserRow
<1>4. row \in SessionRow
  BY <1>3, Zenon DEF SessionRow
<1>5. row.status = "live" /\ row.parent = None
  OBVIOUS
<1> HIDE DEF row
<1>6. sessions \in [Sessions -> SessionRow]
  BY DEF IInv, TypeOK
<1>7. /\ sessions' \in [Sessions -> SessionRow] /\ sessions'[n] = row
      /\ \A s \in Sessions \ {n} : sessions'[s] = sessions[s]
  BY <1>1, <1>4, <1>6
<1>8. ~Issued(n) /\ \A q \in Requests : tx[q].create # n
  BY <1>1 DEF Fresh
<1>9. SessionsGrow(p)
  <2> SUFFICES ASSUME NEW s \in Sessions
               PROVE  /\ Issued(s) => Issued(s)'
                      /\ sessions[s].status = "revoked" => sessions'[s].status = "revoked"
                      /\ (\E q \in Requests \ {p} : tx[q].create = s) => ~Issued(s)'
    BY DEF SessionsGrow
  <2>1. CASE s = n
    BY <1>8, <2>1 DEF Issued
  <2>2. CASE s # n
    <3>1. sessions'[s] = sessions[s]
      BY <1>7, <2>2
    <3>2. \A q \in Requests \ {p} : tx[q].create = s => ~Issued(s)
      BY IdentityAssumption DEF IInv, RequestInv, RotationOf
    <3>3. QED
      BY <3>1, <3>2 DEF Issued
  <2>3. QED
    BY <2>1, <2>2
<1>10. /\ req' \in [Requests -> Request] /\ OthersKept(p)
       /\ req'[p].pc = "done" /\ req'[p].op = "none"
       /\ req'[p].sid = None /\ req'[p].code = 0
  BY <1>2, FinishFacts DEF IInv
<1>11. tx[p].user = None /\ tx[p].revoke = {} /\ tx[p].create = None
       /\ tx[p].consume = 0
  BY <1>2 DEF IInv, RequestInv, BufferedOf
<1>12. RequestInv(p)'
  BY <1>2, <1>10, <1>11, DoneInv
<1>13. \A s \in Sessions : sessions'[s].parent \in {None, sessions[s].parent}
  BY <1>5, <1>7
<1>14. QED
  BY <1>2, <1>7, <1>9, <1>10, <1>12, <1>13, SessionsStep

\* Logout's Revoke: a session that was issued stays issued.
LEMMA LogoutRevokeStep ==
  ASSUME IInv, NEW p \in Requests, LogoutRevoke(p)
  PROVE  IInv'
<1> DEFINE n == req[p].sid
           row == [sessions[n] EXCEPT !.status = "revoked"]
<1>1. /\ req[p].op = "logout" /\ req[p].pc = "revoke" /\ Goto(p, "blacklist")
      /\ sessions' = [sessions EXCEPT ![n].status = "revoked"]
      /\ UNCHANGED <<user, otps, outbox, redis, tx>>
  BY DEF LogoutRevoke, At
<1>2. n \in Sessions /\ Issued(n) /\ n # None
  BY <1>1 DEF IInv, TypeOK, Request, RequestInv, RotationOf
<1>3. sessions \in [Sessions -> SessionRow]
  BY DEF IInv, TypeOK
<1>4. row \in SessionRow /\ row.status = "revoked"
      /\ row.parent = sessions[n].parent
  BY <1>2, <1>3 DEF SessionRow
<1>5. sessions' = [sessions EXCEPT ![n] = row]
  BY <1>1, <1>2, <1>3
<1> HIDE DEF row, n
<1>6. /\ sessions' \in [Sessions -> SessionRow] /\ sessions'[n] = row
      /\ \A s \in Sessions \ {n} : sessions'[s] = sessions[s]
  BY <1>2, <1>3, <1>4, <1>5
<1>7. SessionsGrow(p)
  <2> SUFFICES ASSUME NEW s \in Sessions
               PROVE  /\ Issued(s) => Issued(s)'
                      /\ sessions[s].status = "revoked" => sessions'[s].status = "revoked"
                      /\ (\E q \in Requests \ {p} : tx[q].create = s) => ~Issued(s)'
    BY DEF SessionsGrow
  <2>1. \A q \in Requests \ {p} : tx[q].create = s => ~Issued(s)
    BY IdentityAssumption DEF IInv, RequestInv, RotationOf
  <2>2. CASE s = n
    BY <1>2, <1>4, <1>6, <2>1, <2>2 DEF Issued
  <2>3. CASE s # n
    BY <1>6, <2>1, <2>3 DEF Issued
  <2>4. QED
    BY <2>2, <2>3
<1>8. /\ req' \in [Requests -> Request] /\ OthersKept(p)
      /\ req'[p].pc = "blacklist" /\ req'[p].op = req[p].op
      /\ req'[p].sid = n /\ req'[p].code = req[p].code
  BY <1>1, GotoFacts DEF Pcs, IInv, n
<1>9. tx[p].user = None /\ tx[p].revoke = {} /\ tx[p].create = None
      /\ tx[p].consume = 0
  BY <1>1, NothingBuffered
<1>10. RequestInv(p)'
  BY <1>1, <1>2, <1>4, <1>6, <1>8, <1>9
     DEF IInv, RequestInv, ControlOf, LoadedOf, HasUser, BufferedOf,
         RotationOf, Issued, OptimisticOf, RedeemingOf
<1>11. \A s \in Sessions : sessions'[s].parent \in {None, sessions[s].parent}
  BY <1>4, <1>6
<1>12. QED
  BY <1>1, <1>6, <1>7, <1>8, <1>10, <1>11, SessionsStep

\* A step that writes codes only, and may publish an event that is not of a
\* password change.
LEMMA CodesStep ==
  ASSUME IInv, NEW p, OthersKept(p), p \in Requests => RequestInv(p)',
         req' \in [Requests -> Request], otps' \in [Codes -> CodeRow],
         outbox' \in [Subjects -> Nat],
         outbox'["password_changed"] = outbox["password_changed"],
         \A c \in Codes :
           \/ otps'[c] = otps[c]
           \/ /\ otps[c].status = "unused"
              /\ otps'[c].status = "live" /\ otps'[c].uses = 0
           \/ /\ otps'[c].status = otps[c].status
              /\ otps'[c].purpose = otps[c].purpose
              /\ otps'[c].uses = otps[c].uses,
         UNCHANGED <<user, sessions, redis, tx>>
  PROVE  IInv'
<1>1. TypeOK'
  BY DEF IInv, TypeOK, redis
<1>2. UserGrows(p) /\ CodesGrow
  BY DEF UserGrows, CodesGrow
<1>3. SessionsGrow(p)
  BY IdentityAssumption DEF SessionsGrow, IInv, RequestInv, RotationOf, Issued
<1>4. ASSUME NEW q \in Requests PROVE RequestInv(q)'
  <2>1. CASE q = p
    BY <2>1
  <2>2. CASE q # p
    BY <1>2, <1>3, <2>2, OthersStep DEF OthersKept
  <2>3. QED
    BY <2>1, <2>2
<1>5. CodesOnce'
  BY DEF IInv, CodesOnce
<1>6. Locks' /\ Trail' /\ ParentRevoked'
  BY DEF IInv, Locks, Trail, PasswordTrail, ParentRevoked
<1>7. QED
  BY <1>1, <1>4, <1>5, <1>6 DEF IInv

\* The insert of a new code.
LEMMA IssueStep ==
  ASSUME IInv, NEW p \in Requests, Issue(p)
  PROVE  IInv'
<1> DEFINE row == [status |-> "live", expired |-> FALSE,
                   purpose |-> PurposeOf(req[p].op), uses |-> 0]
<1>1. PICK n \in Codes : NextCode(n) /\ otps' = [otps EXCEPT ![n] = row]
  BY DEF Issue
<1>2. /\ req[p].op \in {"request_reset", "request_verify"}
      /\ req[p].pc = "issue" /\ Goto(p, "send")
      /\ UNCHANGED <<user, sessions, outbox, redis, tx>>
  BY DEF Issue
<1>3. row \in CodeRow
  <2>1. PurposeOf(req[p].op) \in Purposes /\ 0 \in Nat
    BY DEF PurposeOf, Purposes
  <2>2. QED
    BY <2>1, Zenon DEF CodeRow
<1>4. row.status = "live" /\ row.uses = 0
  OBVIOUS
<1> HIDE DEF row
<1>5. otps \in [Codes -> CodeRow] /\ outbox \in [Subjects -> Nat]
  BY DEF IInv, TypeOK
<1>6. /\ otps' \in [Codes -> CodeRow] /\ otps'[n] = row
      /\ \A c \in Codes \ {n} : otps'[c] = otps[c]
  BY <1>1, <1>3, <1>5
<1>7. otps[n].status = "unused"
  BY <1>1 DEF NextCode
<1>8. /\ req' \in [Requests -> Request] /\ OthersKept(p)
      /\ req'[p].pc = "send" /\ req'[p].op = req[p].op
      /\ req'[p].sid = req[p].sid /\ req'[p].code = req[p].code
  BY <1>2, GotoFacts DEF Pcs, IInv
<1>9. /\ tx[p].user = None /\ tx[p].revoke = {} /\ tx[p].create = None
      /\ tx[p].consume = 0 /\ req[p].code = 0
  BY <1>2 DEF IInv, RequestInv, BufferedOf, RedeemingOf
<1>10. RequestInv(p)'
  BY <1>2, <1>8, <1>9
     DEF IInv, RequestInv, ControlOf, LoadedOf, HasUser, BufferedOf,
         RotationOf, Issued, OptimisticOf, RedeemingOf
<1>11. \A c \in Codes :
         \/ otps'[c] = otps[c]
         \/ /\ otps[c].status = "unused"
            /\ otps'[c].status = "live" /\ otps'[c].uses = 0
  BY <1>4, <1>6, <1>7
<1>12. QED
  BY <1>2, <1>5, <1>6, <1>8, <1>10, <1>11, CodesStep

\* The event of a reset request, outside any transaction.
LEMMA PublishResetStep ==
  ASSUME IInv, NEW p \in Requests, PublishResetRequested(p)
  PROVE  IInv'
<1>1. /\ req[p].pc = "publish" /\ Finish(p)
      /\ UNCHANGED <<user, sessions, otps, redis, tx>>
  BY DEF PublishResetRequested, At
<1>2. otps \in [Codes -> CodeRow] /\ outbox \in [Subjects -> Nat]
  BY DEF IInv, TypeOK
<1>3. /\ outbox' \in [Subjects -> Nat]
      /\ outbox'["password_changed"] = outbox["password_changed"]
  BY <1>2 DEF PublishResetRequested, Publish, Subjects
<1>4. /\ req' \in [Requests -> Request] /\ OthersKept(p)
      /\ req'[p].pc = "done" /\ req'[p].op = "none"
      /\ req'[p].sid = None /\ req'[p].code = 0
  BY <1>1, FinishFacts DEF IInv
<1>5. RequestInv(p)'
  BY <1>1, <1>4, NothingBuffered, DoneInv
<1>6. QED
  BY <1>1, <1>2, <1>3, <1>4, <1>5, CodesStep

\* A users row with a new role and version is a users row.
LEMMA RowPromote ==
  ASSUME NEW B, NEW u \in [hash : Nat, role : Roles, status : Statuses,
                           verified : B, version : Nat],
         NEW v \in Nat, NEW role \in Roles
  PROVE  LET w == [u EXCEPT !.role = role, !.version = v]
         IN  /\ w \in [hash : Nat, role : Roles, status : Statuses,
                       verified : B, version : Nat]
             /\ w.version = v /\ w.hash = u.hash
  OBVIOUS

\* The seeder: its statement waits for the row, and raises the version.
LEMMA SeedSteps ==
  ASSUME IInv, NEW p \in Requests, SeedPromote(p) \/ SeedInsert(p)
  PROVE  IInv'
<1>1. /\ req[p].pc \in {"promote", "insert"} /\ UserFree(p) /\ Finish(p)
      /\ UNCHANGED <<sessions, otps, outbox, redis, tx>>
  BY DEF SeedPromote, SeedInsert, At
<1>2. \/ user' = user
      \/ /\ user' \in UserRow
         /\ \/ user = None /\ user'.hash = 1
            \/ /\ user \in UserRow /\ user'.hash = user.hash
               /\ user'.version = user.version + 1
  <2>1. CASE SeedPromote(p)
    <3> DEFINE w == [user EXCEPT !.role = "admin", !.version = @ + 1]
    <3>1. user \in UserRow /\ user' = w
      BY <2>1 DEF SeedPromote, At, IInv, RequestInv, LoadedOf
    <3>2. "admin" \in Roles
      BY IdentityAssumption
    <3>3. w \in UserRow /\ w.hash = user.hash /\ w.version = user.version + 1
      <4>1. user.version + 1 \in Nat
        BY <3>1 DEF UserRow
      <4>2. w = [user EXCEPT !.role = "admin", !.version = user.version + 1]
        BY <3>1 DEF UserRow
      <4> HIDE DEF w
      <4>3. QED
        BY <3>1, <3>2, <4>1, <4>2, RowPromote, Zenon DEF UserRow
    <3>4. QED
      BY <3>1, <3>3
  <2>2. CASE SeedInsert(p) /\ user = None
    <3>1. NewUser("admin").hash = 1
      BY DEF NewUser
    <3>2. NewUser("admin") \in UserRow
      BY IdentityAssumption DEF NewUser, UserRow, Statuses
    <3>3. QED
      BY <2>2, <3>1, <3>2 DEF SeedInsert
  <2>3. CASE SeedInsert(p) /\ user # None
    BY <2>3 DEF SeedInsert
  <2>4. QED
    BY <2>1, <2>2, <2>3
<1>3. None \notin UserRow /\ \A u \in UserRow : u.version \in Nat
  BY IdentityAssumption DEF UserRow
<1>4. UserGrows(p)
  BY <1>1, <1>2, <1>3 DEF UserGrows
<1>5. CodesGrow
  BY <1>1 DEF CodesGrow
<1>6. SessionsGrow(p)
  BY <1>1, IdentityAssumption
     DEF SessionsGrow, IInv, RequestInv, RotationOf, Issued
<1>7. /\ req' \in [Requests -> Request] /\ OthersKept(p)
      /\ req'[p].pc = "done" /\ req'[p].op = "none"
      /\ req'[p].sid = None /\ req'[p].code = 0
  BY <1>1, FinishFacts DEF IInv
<1>8. RequestInv(p)'
  BY <1>1, <1>7, NothingBuffered, DoneInv
<1>9. ASSUME NEW q \in Requests PROVE RequestInv(q)'
  <2>1. CASE q = p
    BY <1>8, <2>1
  <2>2. CASE q # p
    BY <1>1, <1>4, <1>5, <1>6, <1>7, <2>2, OthersStep DEF OthersKept
  <2>3. QED
    BY <2>1, <2>2
<1>10. TypeOK'
  BY <1>1, <1>2, <1>7 DEF IInv, TypeOK, redis
<1>11. Locks' /\ ParentRevoked' /\ CodesOnce'
  BY <1>1 DEF IInv, Locks, ParentRevoked, CodesOnce
<1>12. Trail'
  BY <1>1, <1>2, <1>3 DEF IInv, Trail, PasswordTrail
<1>13. QED
  BY <1>9, <1>10, <1>11, <1>12 DEF IInv

\* A session row stays one when it expires (B stands for BOOLEAN).
LEMMA ExpiredRow ==
  ASSUME NEW B, NEW b \in B,
         NEW r \in [status : {"unused", "live", "revoked"}, expired : B,
                    parent : Sessions \cup {None}, hash : Nat]
  PROVE  [r EXCEPT !.expired = b] \in
           [status : {"unused", "live", "revoked"}, expired : B,
            parent : Sessions \cup {None}, hash : Nat]
  OBVIOUS

\* The same for a code.
LEMMA ExpiredCode ==
  ASSUME NEW B, NEW b \in B,
         NEW r \in [status : {"unused", "live", "consumed"}, expired : B,
                    purpose : Purposes, uses : Nat]
  PROVE  [r EXCEPT !.expired = b] \in
           [status : {"unused", "live", "consumed"}, expired : B,
            purpose : Purposes, uses : Nat]
  OBVIOUS

\* Expiry of a session, a code or a lockout.
LEMMA ExpirySteps ==
  ASSUME IInv, Expiry
  PROVE  IInv'
<1>1. PICK p : p \notin Requests
  BY NoSetContainsEverything
<1>2. UNCHANGED <<user, outbox, blacklist, req, tx>>
  BY DEF Expiry, SessionExpires, CodeExpires, LockoutExpires, redis
<1>3. OthersKept(p) /\ req' \in [Requests -> Request]
  BY <1>2 DEF OthersKept, IInv, TypeOK
<1>4. ASSUME NEW n \in Sessions, SessionExpires(n) PROVE IInv'
  <2> DEFINE row == [sessions[n] EXCEPT !.expired = TRUE]
  <2>1. sessions \in [Sessions -> SessionRow]
    BY DEF IInv, TypeOK
  <2>2. row.status = sessions[n].status /\ row.parent = sessions[n].parent
    BY <2>1 DEF SessionRow
  <2>3. row \in SessionRow
    <3>1. sessions[n] \in SessionRow /\ TRUE \in BOOLEAN
      BY <2>1
    <3>2. QED
      BY <3>1, ExpiredRow, Zenon DEF SessionRow
  <2>4. sessions' = [sessions EXCEPT ![n] = row]
    BY <1>4, <2>1 DEF SessionExpires
  <2> HIDE DEF row
  <2>5. sessions' \in [Sessions -> SessionRow] /\ sessions'[n] = row
        /\ \A s \in Sessions \ {n} : sessions'[s] = sessions[s]
    BY <2>1, <2>3, <2>4
  <2>6. \A s \in Sessions : /\ sessions'[s].status = sessions[s].status
                            /\ sessions'[s].parent = sessions[s].parent
    BY <2>2, <2>5
  <2>7. SessionsGrow(p)
    BY <2>6, IdentityAssumption
       DEF SessionsGrow, IInv, RequestInv, RotationOf, Issued
  <2>8. QED
    BY <1>1, <1>2, <1>3, <1>4, <2>5, <2>6, <2>7, SessionsStep
       DEF SessionExpires
<1>5. ASSUME NEW n \in Codes, CodeExpires(n) PROVE IInv'
  <2> DEFINE row == [otps[n] EXCEPT !.expired = TRUE]
  <2>1. otps \in [Codes -> CodeRow] /\ outbox \in [Subjects -> Nat]
    BY DEF IInv, TypeOK
  <2>2. row.status = otps[n].status /\ row.purpose = otps[n].purpose
        /\ row.uses = otps[n].uses
    BY <2>1 DEF CodeRow
  <2>3. row \in CodeRow
    <3>1. otps[n] \in CodeRow /\ TRUE \in BOOLEAN
      BY <2>1
    <3>2. QED
      BY <3>1, ExpiredCode, Zenon DEF CodeRow
  <2>4. otps' = [otps EXCEPT ![n] = row]
    BY <1>5, <2>1 DEF CodeExpires
  <2> HIDE DEF row
  <2>5. otps' \in [Codes -> CodeRow] /\ otps'[n] = row
        /\ \A c \in Codes \ {n} : otps'[c] = otps[c]
    BY <2>1, <2>3, <2>4
  <2>6. \A c \in Codes : /\ otps'[c].status = otps[c].status
                         /\ otps'[c].purpose = otps[c].purpose
                         /\ otps'[c].uses = otps[c].uses
    BY <2>2, <2>5
  <2>7. QED
    BY <1>1, <1>2, <1>3, <1>5, <2>1, <2>5, <2>6, CodesStep DEF CodeExpires
<1>6. ASSUME NEW k \in ThrottleKeys, LockoutExpires(k) PROVE IInv'
  <2>1. throttle' \in [ThrottleKeys -> 0..MaxFailures]
    BY <1>6, IdentityAssumption DEF LockoutExpires, IInv, TypeOK
  <2>2. UNCHANGED <<sessions, otps>>
    BY <1>6 DEF LockoutExpires
  <2>3. TypeOK'
    BY <1>2, <2>1, <2>2 DEF IInv, TypeOK
  <2>4. \A q \in Requests : RequestInv(q)'
    BY <1>2, <2>2
       DEF IInv, RequestInv, ControlOf, LoadedOf, HasUser, BufferedOf,
           RotationOf, Issued, OptimisticOf, RedeemingOf
  <2>5. Locks' /\ ParentRevoked' /\ Trail' /\ CodesOnce'
    BY <1>2, <2>2 DEF IInv, Locks, ParentRevoked, Trail, PasswordTrail, CodesOnce
  <2>6. QED
    BY <2>3, <2>4, <2>5 DEF IInv
<1>7. QED
  BY <1>4, <1>5, <1>6 DEF Expiry

-----------------------------------------------------------------------------
(* COMMIT: all of a transaction's writes at once *)

\* The users row a commit leaves.
LEMMA CommitUser ==
  ASSUME IInv, NEW p \in Requests, Commit(p)
  PROVE  /\ user' \in UserRow \cup {None} /\ UserGrows(p)
         /\ tx[p].user # None /\ user \in UserRow =>
              user' = tx[p].user /\ user'.version > user.version
<1>1. /\ req[p].pc = "commit"
      /\ user' = IF tx[p].user = None THEN user ELSE tx[p].user
  BY DEF Commit
<1>2. tx[p].user \in UserRow \cup {None} /\ user \in UserRow \cup {None}
  BY DEF IInv, TypeOK, Tx
<1>3. None \notin UserRow /\ \A u \in UserRow : u.version \in Nat
  BY IdentityAssumption DEF UserRow
<1>4. tx[p].user # None => UserFree(p)
  BY DEF IInv, Locks, UserFree
<1>5. tx[p].user # None /\ user \in UserRow => tx[p].user.version = user.version + 1
  BY <1>3 DEF IInv, RequestInv, OptimisticOf
<1>6. QED
  BY <1>1, <1>2, <1>3, <1>4, <1>5 DEF UserGrows

\* The sessions a commit leaves: the inserted one is new, the revoked ones are
\* revoked, the rest stays.
LEMMA CommitSessions ==
  ASSUME IInv, NEW p \in Requests, Commit(p)
  PROVE  /\ sessions' \in [Sessions -> SessionRow]
         /\ SessionsGrow(p) /\ ParentRevoked'
<1> DEFINE n == tx[p].create
           row == [status |-> "live", expired |-> FALSE,
                   parent |-> req[p].sid, hash |-> req[p].u.hash]
<1>1. /\ req[p].pc = "commit"
      /\ sessions' = [s \in Sessions |->
           IF s = n THEN row
           ELSE IF s \in tx[p].revoke
             THEN [sessions[s] EXCEPT !.status = "revoked"]
           ELSE sessions[s]]
  BY DEF Commit
<1>2. sessions \in [Sessions -> SessionRow] /\ tx[p] \in Tx /\ req[p] \in Request
  BY DEF IInv, TypeOK
<1>3. /\ n \in Sessions \cup {None} /\ tx[p].revoke \subseteq Sessions
      /\ req[p].sid \in Sessions \cup {None}
  BY <1>2 DEF Tx, Request
<1>4. n # None => /\ req[p].op = "refresh" /\ ~Issued(n)
                  /\ \A q \in Requests \ {p} : tx[q].create # n
  BY <1>1 DEF IInv, RequestInv, BufferedOf, RotationOf, Locks
<1>5. n # None => req[p].u.hash \in Nat
  BY <1>1, <1>4 DEF IInv, RequestInv, LoadedOf, HasUser, UserRow
<1>6. n # None => row \in SessionRow
  BY <1>3, <1>5, Zenon DEF SessionRow
<1>7. row.status = "live" /\ row.parent = req[p].sid
  OBVIOUS
<1> HIDE DEF row
<1>8. \A s \in tx[p].revoke :
        LET r == [sessions[s] EXCEPT !.status = "revoked"]
        IN  r \in SessionRow /\ r.status = "revoked" /\ r.parent = sessions[s].parent
  BY <1>2, <1>3 DEF SessionRow
<1>9. \A s \in Sessions :
        /\ sessions'[s] \in SessionRow
        /\ s = n => sessions'[s] = row
        /\ s # n => sessions'[s].parent = sessions[s].parent
        /\ s # n /\ s \in tx[p].revoke => sessions'[s].status = "revoked"
        /\ s # n /\ s \notin tx[p].revoke => sessions'[s] = sessions[s]
  <2> SUFFICES ASSUME NEW s \in Sessions
               PROVE  /\ sessions'[s] \in SessionRow
                      /\ s = n => sessions'[s] = row
                      /\ s # n => sessions'[s].parent = sessions[s].parent
                      /\ s # n /\ s \in tx[p].revoke => sessions'[s].status = "revoked"
                      /\ s # n /\ s \notin tx[p].revoke => sessions'[s] = sessions[s]
    OBVIOUS
  <2> HIDE DEF n
  <2>1. CASE s = n
    <3>1. n # None
      BY <2>1, IdentityAssumption
    <3>2. QED
      BY <1>1, <1>6, <2>1, <3>1
  <2>2. CASE s # n /\ s \in tx[p].revoke
    BY <1>1, <1>8, <2>2
  <2>3. CASE s # n /\ s \notin tx[p].revoke
    BY <1>1, <1>2, <2>3
  <2>4. QED
    BY <2>1, <2>2, <2>3
<1>10. sessions' \in [Sessions -> SessionRow]
  <2>1. sessions' = [s \in Sessions |-> sessions'[s]]
    BY <1>1
  <2>2. QED
    BY <1>9, <2>1
<1>11. \A s \in tx[p].revoke : Issued(s)
  BY DEF IInv, RequestInv, RotationOf
<1>12. \A s \in Sessions : sessions[s].status = "revoked"
         => s # n /\ sessions'[s].status = "revoked"
  BY <1>4, <1>9, IdentityAssumption DEF Issued
<1>13. SessionsGrow(p)
  <2> SUFFICES ASSUME NEW s \in Sessions
               PROVE  /\ Issued(s) => Issued(s)'
                      /\ (\E q \in Requests \ {p} : tx[q].create = s) => ~Issued(s)'
    BY <1>12 DEF SessionsGrow
  <2>1. \A q \in Requests \ {p} : tx[q].create = s => ~Issued(s) /\ s # n
    BY <1>4, IdentityAssumption DEF IInv, RequestInv, RotationOf
  <2>2. Issued(s) => Issued(s)'
    BY <1>7, <1>9 DEF Issued
  <2>3. ~Issued(s) /\ s # n => ~Issued(s)'
    BY <1>9, <1>11 DEF Issued
  <2>4. QED
    BY <2>1, <2>2, <2>3
<1>14. ParentRevoked'
  <2> SUFFICES ASSUME NEW s \in Sessions, sessions'[s].parent # None
               PROVE  sessions'[sessions'[s].parent].status = "revoked"
    BY DEF ParentRevoked
  <2>1. CASE s = n
    <3>1. n # None /\ sessions'[s].parent = req[p].sid /\ req[p].sid \in Sessions
      BY <1>3, <1>7, <1>9, <2>1, IdentityAssumption
    <3>2. /\ Issued(req[p].sid)
          /\ \/ req[p].sid \in tx[p].revoke
             \/ sessions[req[p].sid].status = "revoked"
      BY <1>1, <1>4, <3>1, IdentityAssumption DEF IInv, RequestInv, RotationOf
    <3>3. req[p].sid # n
      BY <1>4, <3>1, <3>2
    <3>4. QED
      BY <1>9, <1>12, <3>1, <3>2, <3>3
  <2>2. CASE s # n
    <3>1. sessions'[s].parent = sessions[s].parent
      BY <1>9, <2>2
    <3>2. sessions[s].parent \in Sessions
      BY <1>2, <3>1 DEF SessionRow
    <3>3. sessions[sessions[s].parent].status = "revoked"
      BY <3>1 DEF IInv, ParentRevoked
    <3>4. QED
      BY <1>12, <3>1, <3>2, <3>3
  <2>3. QED
    BY <2>1, <2>2
<1>15. QED
  BY <1>10, <1>13, <1>14

\* A code with a new status and count is a code (B stands for BOOLEAN).
LEMMA CodeUpdate ==
  ASSUME NEW B, NEW st \in {"unused", "live", "consumed"}, NEW n \in Nat,
         NEW r \in [status : {"unused", "live", "consumed"}, expired : B,
                    purpose : Purposes, uses : Nat]
  PROVE  [r EXCEPT !.status = st, !.uses = n] \in
           [status : {"unused", "live", "consumed"}, expired : B,
            purpose : Purposes, uses : Nat]
  OBVIOUS

\* The codes a commit leaves.  A reset that commits has a current aggregate,
\* so its code was not consumed before: this is why it counts once.
LEMMA CommitCodes ==
  ASSUME IInv, NEW p \in Requests, Commit(p)
  PROVE  otps' \in [Codes -> CodeRow] /\ CodesGrow /\ CodesOnce'
<1>1. /\ req[p].pc = "commit"
      /\ otps' = [c \in Codes |->
           [otps[c] EXCEPT !.status = IF c = tx[p].consume THEN "consumed" ELSE @,
                           !.uses = IF c = req[p].code THEN @ + 1 ELSE @]]
  BY DEF Commit
<1>2. otps \in [Codes -> CodeRow]
  BY DEF IInv, TypeOK
<1>3. \A c \in Codes :
        /\ otps'[c] \in CodeRow /\ otps'[c].purpose = otps[c].purpose
        /\ c = tx[p].consume => otps'[c].status = "consumed"
        /\ c # tx[p].consume => otps'[c].status = otps[c].status
        /\ c = req[p].code => otps'[c].uses = otps[c].uses + 1
        /\ c # req[p].code => otps'[c].uses = otps[c].uses
  <2> SUFFICES ASSUME NEW c \in Codes
               PROVE  /\ otps'[c] \in CodeRow /\ otps'[c].purpose = otps[c].purpose
                      /\ c = tx[p].consume => otps'[c].status = "consumed"
                      /\ c # tx[p].consume => otps'[c].status = otps[c].status
                      /\ c = req[p].code => otps'[c].uses = otps[c].uses + 1
                      /\ c # req[p].code => otps'[c].uses = otps[c].uses
    OBVIOUS
  <2> DEFINE st == IF c = tx[p].consume THEN "consumed" ELSE otps[c].status
             n == IF c = req[p].code THEN otps[c].uses + 1 ELSE otps[c].uses
  <2>1. otps[c] \in CodeRow
    BY <1>2
  <2>2. otps[c].uses \in Nat /\ otps[c].status \in {"unused", "live", "consumed"}
    BY <2>1 DEF CodeRow
  <2>3. st \in {"unused", "live", "consumed"} /\ n \in Nat
    BY <2>2
  <2>4. otps'[c] = [otps[c] EXCEPT !.status = st, !.uses = n]
    BY <1>1, <2>1 DEF CodeRow
  <2> HIDE DEF st, n
  <2>5. otps'[c] \in CodeRow /\ otps'[c].purpose = otps[c].purpose
        /\ otps'[c].status = st /\ otps'[c].uses = n
    <3>1. otps'[c].purpose = otps[c].purpose
          /\ otps'[c].status = st /\ otps'[c].uses = n
      BY <2>1, <2>4 DEF CodeRow
    <3>2. [otps[c] EXCEPT !.status = st, !.uses = n] \in CodeRow
      BY <2>1, <2>3, CodeUpdate, Zenon DEF CodeRow
    <3>3. QED
      BY <2>4, <3>1, <3>2
  <2>6. QED
    BY <2>5 DEF st, n
<1>4. otps' \in [Codes -> CodeRow]
  <2>1. otps' = [c \in Codes |-> otps'[c]]
    BY <1>1
  <2>2. QED
    BY <1>3, <2>1
<1>5. ASSUME NEW c \in Codes, c = req[p].code, otps[c].purpose = "password_reset"
      PROVE  /\ req[p].op = "reset_password" /\ otps[c].status # "consumed"
             /\ tx[p].consume = c /\ tx[p].user # None /\ user \in UserRow
  <2>1. c # 0
    BY IdentityAssumption DEF Codes
  <2>2. req[p].op = "reset_password"
    BY <1>5, <2>1 DEF IInv, RequestInv, RedeemingOf, PurposeOf
  <2>3. /\ tx[p].user # None /\ user \in UserRow
        /\ req[p].u.version = user.version
    BY <1>1, <2>2
       DEF IInv, RequestInv, OptimisticOf, LoadedOf, HasUser, PasswordOps
  <2>4. user.version \in Nat
    BY <2>3 DEF UserRow
  <2>5. otps[c].status # "consumed"
    <3>1. otps[c].status = "consumed" => req[p].u.version < user.version
      BY <1>1, <1>5, <2>2 DEF IInv, RequestInv, RedeemingOf
    <3>2. QED
      BY <2>3, <2>4, <3>1
  <2>6. tx[p].consume = c
    BY <1>1, <1>5, <2>2, <2>5 DEF IInv, RequestInv, RedeemingOf
  <2>7. QED
    BY <2>2, <2>3, <2>5, <2>6
<1>6. \A c \in Codes : c = tx[p].consume => c = req[p].code
  BY IdentityAssumption DEF IInv, RequestInv, BufferedOf, Codes
<1>7. CodesGrow
  <2> SUFFICES ASSUME NEW c \in Codes, otps[c].status # "unused"
               PROVE  /\ otps'[c].status # "unused"
                      /\ otps'[c].purpose = otps[c].purpose
                      /\ otps[c].status = "consumed" => otps'[c].status = "consumed"
                      /\ otps'[c].purpose = "password_reset"
                         /\ otps'[c].status = "consumed" =>
                           \/ otps[c].status = "consumed"
                           \/ user \in UserRow /\ user'.version > user.version
    BY DEF CodesGrow
  <2>1. CASE c = tx[p].consume
    <3>1. otps[c].purpose = "password_reset" => tx[p].user # None /\ user \in UserRow
      BY <1>5, <1>6, <2>1
    <3>2. QED
      BY <1>3, <2>1, <3>1, CommitUser
  <2>2. CASE c # tx[p].consume
    BY <1>3, <2>2
  <2>3. QED
    BY <2>1, <2>2
<1>8. CodesOnce'
  <2> SUFFICES ASSUME NEW c \in Codes, otps'[c].purpose = "password_reset"
               PROVE  /\ otps'[c].uses <= 1
                      /\ otps'[c].uses = 1 => otps'[c].status = "consumed"
    BY DEF CodesOnce
  <2>1. /\ otps[c].uses \in Nat /\ otps[c].uses <= 1
        /\ otps[c].uses = 1 => otps[c].status = "consumed"
    BY <1>2, <1>3 DEF IInv, CodesOnce, CodeRow
  <2>2. CASE c = req[p].code
    BY <1>3, <1>5, <2>1, <2>2
  <2>3. CASE c # req[p].code
    BY <1>3, <1>6, <2>1, <2>3
  <2>4. QED
    BY <2>2, <2>3
<1>9. QED
  BY <1>4, <1>7, <1>8

\* The password hash and its events advance together.
LEMMA CommitTrail ==
  ASSUME IInv, NEW p \in Requests, Commit(p)
  PROVE  outbox' \in [Subjects -> Nat] /\ Trail'
<1>1. /\ req[p].pc = "commit"
      /\ user' = IF tx[p].user = None THEN user ELSE tx[p].user
      /\ outbox' = [e \in Subjects |->
           IF e \in EventOf(req[p].op) THEN outbox[e] + 1 ELSE outbox[e]]
  BY DEF Commit
<1>2. outbox \in [Subjects -> Nat] /\ tx[p].user \in UserRow \cup {None}
      /\ user \in UserRow \cup {None}
  BY DEF IInv, TypeOK, Tx
<1>3. outbox' \in [Subjects -> Nat]
  BY <1>1, <1>2
<1>4. /\ req[p].op \in PasswordOps
           => outbox'["password_changed"] = outbox["password_changed"] + 1
      /\ req[p].op \notin PasswordOps
           => outbox'["password_changed"] = outbox["password_changed"]
  BY <1>1 DEF Subjects, EventOf, PasswordOps
<1>5. None \notin UserRow /\ \A u \in UserRow : u.hash \in Nat
  BY IdentityAssumption DEF UserRow
<1>6. outbox["password_changed"] \in Nat
  BY <1>2 DEF Subjects
<1>7. Trail
  BY DEF IInv
<1>8. CASE req[p].op = "register"
  <2>1. tx[p].user # None => user = None /\ tx[p].user.hash = 1
    BY <1>8 DEF IInv, RequestInv, OptimisticOf
  <2>2. QED
    BY <1>1, <1>3, <1>4, <1>6, <1>7, <1>8, <2>1 DEF Trail, PasswordTrail, PasswordOps
<1>9. CASE req[p].op \in PasswordOps
  <2>1. /\ user \in UserRow /\ tx[p].user # None
        /\ tx[p].user.hash = user.hash + 1
    BY <1>1, <1>9
       DEF IInv, RequestInv, OptimisticOf, LoadedOf, HasUser, PasswordOps
  <2>2. QED
    BY <1>1, <1>3, <1>4, <1>5, <1>6, <1>7, <1>9, <2>1 DEF Trail, PasswordTrail
<1>10. CASE req[p].op \notin PasswordOps /\ req[p].op # "register"
  <2>1. /\ user \in UserRow
        /\ tx[p].user # None => tx[p].user.hash = user.hash
    BY <1>1, <1>10 DEF IInv, RequestInv, OptimisticOf, LoadedOf, HasUser
  <2>2. QED
    BY <1>1, <1>3, <1>4, <1>5, <1>6, <1>7, <1>10, <2>1 DEF Trail, PasswordTrail
<1>11. QED
  BY <1>8, <1>9, <1>10

\* Commit, from its four parts.
LEMMA CommitStep ==
  ASSUME IInv, NEW p \in Requests, Commit(p)
  PROVE  IInv'
<1>1. /\ req[p].pc = "commit" /\ Buffer(p, NoTx) /\ UNCHANGED redis
      /\ Goto(p, "clear_after") \/ Finish(p)
  BY DEF Commit
<1>2. /\ tx' \in [Requests -> Tx] /\ tx'[p] = NoTx
      /\ \A q \in Requests \ {p} : tx'[q] = tx[q]
  BY <1>1, BufferFacts, BlankTypes DEF IInv
<1>3. NoTx.user = None /\ NoTx.revoke = {} /\ NoTx.create = None /\ NoTx.consume = 0
  BY DEF NoTx
<1>4. req' \in [Requests -> Request] /\ OthersKept(p) /\ RequestInv(p)'
  <2>1. CASE Finish(p)
    BY <1>2, <1>3, <2>1, FinishFacts, DoneInv DEF IInv
  <2>2. CASE Goto(p, "clear_after")
    <3>1. /\ req' \in [Requests -> Request] /\ OthersKept(p)
          /\ req'[p].pc = "clear_after" /\ req'[p].op = req[p].op
          /\ req'[p].sid = req[p].sid /\ req'[p].code = req[p].code
      BY <2>2, GotoFacts DEF Pcs, IInv
    <3>2. req[p].sid # None => Issued(req[p].sid)'
      <4>1. req[p].sid # None => req[p].sid \in Sessions /\ Issued(req[p].sid)
        BY DEF IInv, TypeOK, Request, RequestInv, RotationOf
      <4>2. QED
        BY <3>1, <4>1, CommitSessions DEF SessionsGrow, Issued
    <3>3. req[p].code # 0 =>
            /\ req[p].op \in {"reset_password", "verify_email"}
            /\ otps'[req[p].code].status # "unused"
            /\ otps'[req[p].code].purpose = PurposeOf(req[p].op)
      <4>1. req[p].code # 0 => req[p].code \in Codes
        BY IdentityAssumption DEF IInv, TypeOK, Request, Codes
      <4>2. req[p].code # 0 =>
              /\ req[p].op \in {"reset_password", "verify_email"}
              /\ otps[req[p].code].status # "unused"
              /\ otps[req[p].code].purpose = PurposeOf(req[p].op)
        BY DEF IInv, RequestInv, RedeemingOf
      <4>3. QED
        BY <4>1, <4>2, CommitCodes DEF CodesGrow
    <3>4. RequestInv(p)'
      BY <1>2, <1>3, <3>1, <3>2, <3>3
         DEF RequestInv, ControlOf, LoadedOf, HasUser, BufferedOf,
             RotationOf, Issued, OptimisticOf, RedeemingOf
    <3>5. QED
      BY <3>1, <3>4
  <2>3. QED
    BY <1>1, <2>1, <2>2
<1>5. ASSUME NEW q \in Requests PROVE RequestInv(q)'
  <2>1. CASE q = p
    BY <1>4, <2>1
  <2>2. CASE q # p
    BY <1>2, <1>4, <2>2, CommitUser, CommitSessions, CommitCodes, OthersStep
       DEF OthersKept
  <2>3. QED
    BY <2>1, <2>2
<1>6. TypeOK'
  BY <1>1, <1>2, <1>4, CommitUser, CommitSessions, CommitCodes, CommitTrail
     DEF IInv, TypeOK, redis
<1>7. Locks'
  <2> SUFFICES ASSUME NEW q \in Requests, NEW r \in Requests, q # r
               PROVE  /\ tx'[q].user = None \/ tx'[r].user = None
                      /\ tx'[q].create = None \/ tx'[q].create # tx'[r].create
    BY DEF Locks
  <2>1. CASE q = p \/ r = p
    BY <1>2, <1>3, <2>1
  <2>2. CASE q # p /\ r # p
    BY <1>2, <2>2 DEF IInv, Locks
  <2>3. QED
    BY <2>1, <2>2
<1>8. QED
  BY <1>5, <1>6, <1>7, CommitSessions, CommitCodes, CommitTrail DEF IInv

-----------------------------------------------------------------------------
(* The theorems *)

\* Nothing runs yet, and what earlier requests left is consistent.
LEMMA InitInv == Init => IInv
<1> SUFFICES ASSUME Init PROVE IInv
  OBVIOUS
<1>1. /\ req = [p \in Requests |-> Start] /\ tx = [p \in Requests |-> NoTx]
      /\ outbox = [e \in Subjects |-> 0]
  BY DEF Init
<1>2. \A p \in Requests : /\ req[p].pc = "idle" /\ req[p].op = "none"
                          /\ req[p].sid = None /\ req[p].code = 0
                          /\ tx[p].user = None /\ tx[p].revoke = {}
                          /\ tx[p].create = None /\ tx[p].consume = 0
  BY <1>1 DEF Start, NoTx
<1>3. user \in UserRow \cup {None} /\ (user # None => user.hash = 1)
  <2>1. ASSUME NEW st \in Statuses
        PROVE  LET u == [NewUser("user") EXCEPT !.status = st]
               IN  u \in UserRow /\ u.hash = 1
    BY IdentityAssumption DEF NewUser, UserRow
  <2>2. \/ user = None
        \/ \E st \in Statuses : user = [NewUser("user") EXCEPT !.status = st]
    BY Zenon DEF Init
  <2>3. CASE user = None
    BY <2>3
  <2>4. ASSUME NEW st \in Statuses, user = [NewUser("user") EXCEPT !.status = st]
        PROVE  user \in UserRow /\ user.hash = 1
    BY <2>1, <2>4
  <2>5. QED
    BY <2>2, <2>3, <2>4
<1>4. sessions \in [Sessions -> SessionRow]
      /\ \A s \in Sessions : sessions[s].parent = None
  <2>1. ASSUME NEW st \in {"unused", "live"}
        PROVE  [status |-> st, expired |-> FALSE, parent |-> None, hash |-> 1]
                 \in SessionRow
    <3>1. 1 \in Nat
      OBVIOUS
    <3>2. QED
      BY <3>1, Zenon DEF SessionRow
  <2>2. sessions = [s \in Sessions |->
          [status |-> IF s \in InitSessions /\ user # None THEN "live" ELSE "unused",
           expired |-> FALSE, parent |-> None, hash |-> 1]]
    BY DEF Init
  <2>3. \A s \in Sessions : sessions[s] \in SessionRow /\ sessions[s].parent = None
    <3> SUFFICES ASSUME NEW s \in Sessions
                 PROVE  sessions[s] \in SessionRow /\ sessions[s].parent = None
      OBVIOUS
    <3> DEFINE st == IF s \in InitSessions /\ user # None THEN "live" ELSE "unused"
    <3>1. st \in {"unused", "live"}
      OBVIOUS
    <3>2. sessions[s] = [status |-> st, expired |-> FALSE, parent |-> None, hash |-> 1]
      BY <2>2
    <3> HIDE DEF st
    <3>3. sessions[s] \in SessionRow
      BY <2>1, <3>1, <3>2
    <3>4. QED
      BY <3>2, <3>3
  <2>4. QED
    BY <2>2, <2>3
<1>5. otps \in [Codes -> CodeRow] /\ \A c \in Codes : otps[c].uses = 0
  <2>1. ASSUME NEW st \in {"unused", "live"}, NEW pu \in Purposes
        PROVE  [status |-> st, expired |-> FALSE, purpose |-> pu, uses |-> 0]
                 \in CodeRow
    <3>1. 0 \in Nat
      OBVIOUS
    <3>2. QED
      BY <3>1, Zenon DEF CodeRow
  <2>2. otps = [c \in Codes |->
          IF c \in DOMAIN InitCodes /\ user # None
            THEN [status |-> "live", expired |-> FALSE,
                  purpose |-> InitCodes[c], uses |-> 0]
            ELSE [status |-> "unused", expired |-> FALSE,
                  purpose |-> "password_reset", uses |-> 0]]
    BY DEF Init
  <2>3. ASSUME NEW c \in Codes
        PROVE  otps[c] \in CodeRow /\ otps[c].uses = 0
    <3>1. CASE c \in DOMAIN InitCodes /\ user # None
      <4>1. InitCodes[c] \in Purposes
        BY <3>1, InitAssumption
      <4>2. otps[c] = [status |-> "live", expired |-> FALSE,
                       purpose |-> InitCodes[c], uses |-> 0]
        BY <2>2, <3>1
      <4>3. otps[c] \in CodeRow
        BY <2>1, <4>1, <4>2
      <4>4. QED
        BY <4>2, <4>3
    <3>2. CASE ~(c \in DOMAIN InitCodes /\ user # None)
      <4>1. otps[c] = [status |-> "unused", expired |-> FALSE,
                       purpose |-> "password_reset", uses |-> 0]
        BY <2>2, <3>2
      <4>2. "password_reset" \in Purposes
        BY DEF Purposes
      <4>3. otps[c] \in CodeRow
        BY <2>1, <4>1, <4>2
      <4>4. QED
        BY <4>1, <4>3
    <3>3. QED
      BY <3>1, <3>2
  <2>4. QED
    BY <2>2, <2>3
<1>6. TypeOK
  BY <1>1, <1>3, <1>4, <1>5, BlankTypes, IdentityAssumption DEF Init, TypeOK
<1>7. \A p \in Requests : RequestInv(p)
  BY <1>2 DEF RequestInv, ControlOf, LoadedOf, HasUser, BufferedOf, RotationOf,
              Issued, OptimisticOf, RedeemingOf
<1>8. Locks
  BY <1>2 DEF Locks
<1>9. ParentRevoked
  BY <1>4 DEF ParentRevoked
<1>10. Trail
  BY <1>1, <1>3 DEF Trail, PasswordTrail, Subjects
<1>11. CodesOnce
  BY <1>5 DEF CodesOnce
<1>12. QED
  BY <1>6, <1>7, <1>8, <1>9, <1>10, <1>11 DEF IInv

\* Every step keeps the invariant.
LEMMA StepInv == IInv /\ [Next]_vars => IInv'
<1> SUFFICES ASSUME IInv, [Next]_vars PROVE IInv'
  OBVIOUS
<1>1. ASSUME NEW p \in Requests, SessionStep(p) PROVE IInv'
  BY <1>1, RegisterInsertStep, LoginSteps, LoginIssueStep, RefreshReads,
     RefreshRevokeStep, RefreshIssueStep, LogoutSteps, LogoutRevokeStep,
     WriterReads, SeedSteps DEF SessionStep
<1>2. ASSUME NEW p \in Requests, OTPStep(p) PROVE IInv'
  BY <1>2, CodeReads, IssueStep, PublishResetStep, ConsumeStep,
     MarkEmailVerifiedStep DEF OTPStep
<1>3. ASSUME NEW p \in Requests, UpdateUser(p) PROVE IInv'
  BY <1>3, UpdateUserStep
<1>4. ASSUME NEW p \in Requests, RevokeAllScan(p) \/ RevokeAllForUser(p) PROVE IInv'
  BY <1>4, RevokeAllSteps
<1>5. ASSUME NEW p \in Requests, Commit(p) PROVE IInv'
  BY <1>5, CommitStep
<1>6. ASSUME NEW p \in Requests, Fail(p) PROVE IInv'
  BY <1>6, RollbackStep DEF Fail
<1>7. CASE Expiry
  BY <1>7, ExpirySteps
<1>8. CASE UNCHANGED vars
  <2>1. TypeOK' /\ Locks' /\ ParentRevoked' /\ Trail' /\ CodesOnce'
    BY <1>8 DEF vars, redis, IInv, TypeOK, Locks, ParentRevoked, Trail,
                PasswordTrail, CodesOnce
  <2>2. \A q \in Requests : RequestInv(q)'
    BY <1>8 DEF vars, IInv, RequestInv, ControlOf, LoadedOf, HasUser, BufferedOf,
                RotationOf, Issued, OptimisticOf, RedeemingOf
  <2>3. QED
    BY <2>1, <2>2 DEF IInv
<1>9. QED
  BY <1>1, <1>2, <1>3, <1>4, <1>5, <1>6, <1>7, <1>8 DEF Next, Terminating

\* The inductive invariant holds in every reachable state.
THEOREM Invariance == Spec => []IInv
  BY InitInv, StepInv, PTL DEF Spec

\* Type correctness: every row, request and transaction keeps its shape,
\* whatever fails and however the requests interleave.
THEOREM TypeCorrect == Spec => []TypeOK
<1>1. IInv => TypeOK
  BY DEF IInv
<1>2. QED
  BY <1>1, Invariance, PTL

\* Rotation (refresh.go): a session and its successor are never both live.
THEOREM ParentRevokedHolds == Spec => []ParentRevoked
<1>1. IInv => ParentRevoked
  BY DEF IInv
<1>2. QED
  BY <1>1, Invariance, PTL

\* Reset codes (otp.go): the version guard makes a password-reset code single
\* use although Consume ignores how many rows it matched.
THEOREM ResetCodeSingleUseHolds == Spec => []ResetCodeSingleUse
<1>1. IInv => ResetCodeSingleUse
  BY DEF IInv, CodesOnce, ResetCodeSingleUse
<1>2. QED
  BY <1>1, Invariance, PTL

\* The password hash (user_repository.go): no stale aggregate ever puts an old
\* hash back, so the row agrees with the events announced.
THEOREM PasswordTrailHolds == Spec => []PasswordTrail
<1>1. IInv => PasswordTrail
  BY DEF IInv, Trail
<1>2. QED
  BY <1>1, Invariance, PTL

\* The role (user_repository.go): no stale aggregate ever puts an old role
\* back, so only SetUserRole, with its event, and the seeder change it.
THEOREM RoleWritesAnnouncedHolds == Spec => RoleWritesAnnounced
<1> DEFINE Announced == user # None /\ user'.role # user.role
              => \/ outbox'["role_changed"] = outbox["role_changed"] + 1
                 \/ \E p \in Requests : SeedPromote(p)
<1>1. ASSUME IInv, [Next]_vars PROVE [Announced]_vars
  <2>1. CASE user' = user
    BY <2>1
  <2>2. ASSUME NEW p \in Requests, Commit(p) PROVE Announced
    <3> SUFFICES ASSUME user # None, user'.role # user.role
                 PROVE  outbox'["role_changed"] = outbox["role_changed"] + 1
      OBVIOUS
    <3>1. tx[p].user # None /\ user' = tx[p].user /\ req[p].pc = "commit"
      BY <2>2 DEF Commit
    <3>2. req[p].op = "set_role"
      BY <1>1, <3>1 DEF IInv, RequestInv, OptimisticOf
    <3>3. QED
      BY <2>2, <3>2 DEF Commit, EventOf, Subjects
  <2>3. ASSUME NEW p \in Requests, SeedPromote(p) PROVE Announced
    BY <2>3
  <2>4. ASSUME NEW p \in Requests, SeedInsert(p) PROVE Announced
    BY <2>4 DEF SeedInsert
  <2>5. \/ user' = user
        \/ \E p \in Requests : Commit(p) \/ SeedPromote(p) \/ SeedInsert(p)
    BY <1>1 DEF Next, SessionStep, OTPStep, Expiry, Terminating, vars,
       RegisterBegin, RegisterInsert, LoginBegin, LoginAllowed, LoginRead,
       LoginRecordFailure, LoginReset, LoginIssuePair, RefreshBegin,
       RefreshRead, RefreshReadUser, RefreshRevoke, RefreshIssuePair,
       LogoutBegin, LogoutRead, LogoutRevoke, LogoutBlacklist,
       ChangePasswordBegin, ChangePasswordRead, SetUserRoleBegin,
       SetUserRoleRead, SeedBegin, SeedRead, RequestCodeBegin,
       RequestCodeRead, Issue, SendOTP, PublishResetRequested,
       ResetPasswordBegin, ResetPasswordAllowed, ResetPasswordRead,
       ResetPasswordVerify, ResetPasswordRecordFailure, Consume,
       ResetPasswordReset, VerifyEmailBegin, VerifyEmailRead,
       VerifyEmailVerify, MarkEmailVerified, UpdateUser, RevokeAllScan,
       RevokeAllForUser, Fail, SessionExpires, CodeExpires, LockoutExpires
  <2>6. QED
    BY <2>1, <2>2, <2>3, <2>4, <2>5
<1>2. QED
  BY <1>1, Invariance, PTL DEF Spec, RoleWritesAnnounced

-----------------------------------------------------------------------------
(* The sessions a password change or reset ends *)

\* The sessions that existed when p began are issued; once p has scanned, each
\* of them is in its scan or revoked, and once it has revoked, each of them is
\* in its transaction or revoked.
SweptOf(p) ==
  /\ \A s \in req[p].before : Issued(s)
  /\ req[p].op \in PasswordOps /\ req[p].pc = "revoke_all" =>
       \A s \in req[p].before : s \in tx[p].scan \/ sessions[s].status = "revoked"
  /\ req[p].op \in PasswordOps /\ req[p].pc = "commit" =>
       \A s \in req[p].before : s \in tx[p].revoke \/ sessions[s].status = "revoked"

Swept == \A p \in Requests : SweptOf(p)

\* What a step of p other than its RevokeAll does to its own record: it moves
\* on with what it had, ends, or begins, and to its commit only if it is no
\* password operation.
Moves(p) ==
  \/ \E pc \in Pcs \ {"revoke_all", "commit"} :
       \/ Goto(p, pc)
       \/ \E u : Load(p, u, pc)
       \/ \E s : Present(p, s, pc)
       \/ \E c : Redeem(p, c, pc)
       \/ \E op : Begin(p, op, pc)
  \/ req[p].op \notin PasswordOps /\ Goto(p, "commit")
  \/ Finish(p)

\* The transaction of p is the only one that may change.
Buffers(p) == UNCHANGED tx \/ \E t : Buffer(p, t)

\* The sessions that existed are still issued, and the revoked ones revoked.
Remembered == \A s \in Sessions :
  /\ Issued(s) => Issued(s)'
  /\ sessions[s].status = "revoked" => sessions'[s].status = "revoked"

LEMMA MovesKeep ==
  ASSUME TypeOK, NEW p \in Requests, Moves(p)
  PROVE  /\ OthersKept(p)
         /\ req'[p].before \subseteq req[p].before \cup {s \in Sessions : Issued(s)}
         /\ req'[p].op \in PasswordOps => req'[p].pc \notin {"revoke_all", "commit"}
<1>1. req \in [Requests -> Request] /\ req[p] \in Request
  BY DEF TypeOK
<1>2. ASSUME NEW pc \in Pcs,
             \/ Goto(p, pc)
             \/ \E u : Load(p, u, pc)
             \/ \E s : Present(p, s, pc)
             \/ \E c : Redeem(p, c, pc)
      PROVE  /\ OthersKept(p) /\ req'[p].before = req[p].before
             /\ req'[p].pc = pc /\ req'[p].op = req[p].op
  <2>1. CASE Goto(p, pc)
    BY <1>1, <2>1 DEF Goto, OthersKept, Request
  <2>2. CASE \E u : Load(p, u, pc)
    BY <1>1, <2>2 DEF Load, OthersKept, Request
  <2>3. CASE \E s : Present(p, s, pc)
    BY <1>1, <2>3 DEF Present, OthersKept, Request
  <2>4. CASE \E c : Redeem(p, c, pc)
    BY <1>1, <2>4 DEF Redeem, OthersKept, Request
  <2> QED
    BY <1>2, <2>1, <2>2, <2>3, <2>4
<1>3. CASE Finish(p)
  <2>1. req'[p] = Done /\ OthersKept(p)
    BY <1>1, <1>3 DEF Finish, OthersKept
  <2> QED
    BY <2>1 DEF Done, Start
<1>4. ASSUME NEW op, NEW pc \in Pcs, Begin(p, op, pc)
      PROVE  /\ OthersKept(p) /\ req'[p].pc = pc
             /\ req'[p].before = {s \in Sessions : Issued(s)}
  <2> DEFINE r == [Start EXCEPT !.op = op, !.pc = pc, !.before = {s \in Sessions : Issued(s)}]
  <2>1. req' = [req EXCEPT ![p] = r]
    BY <1>4 DEF Begin
  <2>2. r.pc = pc /\ r.before = {s \in Sessions : Issued(s)}
    BY DEF Start
  <2> HIDE DEF r
  <2> QED
    BY <1>1, <2>1, <2>2 DEF OthersKept
<1>5. ASSUME NEW pc \in Pcs \ {"revoke_all", "commit"},
             \/ Goto(p, pc)
             \/ \E u : Load(p, u, pc)
             \/ \E s : Present(p, s, pc)
             \/ \E c : Redeem(p, c, pc)
             \/ \E op : Begin(p, op, pc)
      PROVE  /\ OthersKept(p) /\ req'[p].pc \notin {"revoke_all", "commit"}
             /\ req'[p].before \subseteq req[p].before \cup {s \in Sessions : Issued(s)}
  BY <1>2, <1>4, <1>5
<1>6. ASSUME req[p].op \notin PasswordOps, Goto(p, "commit")
      PROVE  OthersKept(p) /\ req'[p].before = req[p].before /\ req'[p].op = req[p].op
  BY <1>2, <1>6 DEF Pcs
<1> QED
  BY <1>3, <1>5, <1>6 DEF Moves

\* Then every request keeps its share.
LEMMA SweptKept ==
  ASSUME IInv, Swept, Remembered, NEW p \in Requests, Moves(p), Buffers(p)
  PROVE  Swept'
<1>1. /\ OthersKept(p)
      /\ req'[p].before \subseteq req[p].before \cup {s \in Sessions : Issued(s)}
      /\ req'[p].op \in PasswordOps => req'[p].pc \notin {"revoke_all", "commit"}
  BY MovesKeep DEF IInv
<1>2. \A q \in Requests : req[q].before \subseteq Sessions
  BY DEF IInv, TypeOK, Request
<1>3. \A q \in Requests \ {p} : tx'[q] = tx[q]
  BY DEF Buffers, Buffer, IInv, TypeOK
<1>4. ASSUME NEW q \in Requests PROVE SweptOf(q)'
  <2>1. CASE q = p
    <3>1. \A s \in req'[p].before : s \in Sessions /\ Issued(s)
      BY <1>1, <1>2 DEF Swept, SweptOf
    <3> QED
      BY <1>1, <2>1, <3>1 DEF SweptOf, Remembered, Issued
  <2>2. CASE q # p
    <3>1. req'[q] = req[q] /\ tx'[q] = tx[q] /\ SweptOf(q) /\ req[q].before \subseteq Sessions
      BY <1>1, <1>2, <1>3, <2>2 DEF OthersKept, Swept
    <3> QED
      BY <3>1 DEF SweptOf, Remembered, Issued
  <2> QED
    BY <2>1, <2>2
<1> QED
  BY <1>4 DEF Swept

\* Nothing but sessions and time.
LEMMA SweptStill ==
  ASSUME IInv, Swept, Remembered, UNCHANGED <<req, tx>>
  PROVE  Swept'
<1>1. \A q \in Requests : req[q].before \subseteq Sessions
  BY DEF IInv, TypeOK, Request
<1> QED
  BY <1>1 DEF Swept, SweptOf, Remembered, Issued

LEMMA RememberedSame ==
  ASSUME UNCHANGED sessions
  PROVE  Remembered
  BY DEF Remembered, Issued

-----------------------------------------------------------------------------

\* The ways a request moves.
LEMMA MovesBy ==
  ASSUME NEW p \in Requests
  PROVE  /\ Finish(p) => Moves(p)
         /\ \A pc \in Pcs \ {"revoke_all", "commit"} :
              /\ Goto(p, pc) => Moves(p)
              /\ \A u : Load(p, u, pc) => Moves(p)
              /\ \A s : Present(p, s, pc) => Moves(p)
              /\ \A c : Redeem(p, c, pc) => Moves(p)
              /\ \A op : Begin(p, op, pc) => Moves(p)
         /\ req[p].op \notin PasswordOps /\ Goto(p, "commit") => Moves(p)
<1>1. "commit" \in Pcs
  BY DEF Pcs
<1>2. Finish(p) => Moves(p)
  BY DEF Moves
<1>3. req[p].op \notin PasswordOps /\ Goto(p, "commit") => Moves(p)
  BY <1>1 DEF Moves
<1>4. ASSUME NEW pc \in Pcs \ {"revoke_all", "commit"}
      PROVE  /\ Goto(p, pc) => Moves(p)
             /\ \A u : Load(p, u, pc) => Moves(p)
             /\ \A s : Present(p, s, pc) => Moves(p)
             /\ \A c : Redeem(p, c, pc) => Moves(p)
             /\ \A op : Begin(p, op, pc) => Moves(p)
  <2>1. Goto(p, pc) => Moves(p)
    BY DEF Moves
  <2>2. ASSUME NEW u, Load(p, u, pc) PROVE Moves(p)
    BY <2>2 DEF Moves
  <2>3. ASSUME NEW s, Present(p, s, pc) PROVE Moves(p)
    BY <2>3 DEF Moves
  <2>4. ASSUME NEW c, Redeem(p, c, pc) PROVE Moves(p)
    BY <2>4 DEF Moves
  <2>5. ASSUME NEW op, Begin(p, op, pc) PROVE Moves(p)
    BY <2>5 DEF Moves
  <2> QED
    BY <2>1, <2>2, <2>3, <2>4, <2>5
<1> QED
  BY <1>2, <1>3, <1>4

\* The steps of each use case move their request on.
LEMMA SessionMoves ==
  ASSUME NEW p \in Requests, SessionStep(p)
  PROVE  Moves(p) /\ Buffers(p)
<1>1. CASE RegisterBegin(p)
  BY <1>1, MovesBy DEF RegisterBegin, Buffers, Pcs
<1>2. CASE RegisterInsert(p)
  BY <1>2, MovesBy DEF RegisterInsert, Buffers, Pcs, At, PasswordOps
<1>3. CASE LoginBegin(p)
  BY <1>3, MovesBy DEF LoginBegin, Buffers, Pcs
<1>4. CASE LoginAllowed(p)
  BY <1>4, MovesBy DEF LoginAllowed, Buffers, Pcs
<1>5. CASE LoginRead(p)
  BY <1>5, MovesBy DEF LoginRead, Buffers, Pcs
<1>6. CASE LoginRecordFailure(p)
  BY <1>6, MovesBy DEF LoginRecordFailure, Buffers, Pcs
<1>7. CASE LoginReset(p)
  BY <1>7, MovesBy DEF LoginReset, Buffers, Pcs
<1>8. CASE LoginIssuePair(p)
  BY <1>8, MovesBy DEF LoginIssuePair, Buffers, Pcs
<1>9. CASE RefreshBegin(p)
  BY <1>9, MovesBy DEF RefreshBegin, Buffers, Pcs
<1>10. CASE RefreshRead(p)
  BY <1>10, MovesBy DEF RefreshRead, Buffers, Pcs
<1>11. CASE RefreshReadUser(p)
  BY <1>11, MovesBy DEF RefreshReadUser, Buffers, Pcs
<1>12. CASE RefreshRevoke(p)
  BY <1>12, MovesBy DEF RefreshRevoke, Buffers, Pcs
<1>13. CASE RefreshIssuePair(p)
  BY <1>13, MovesBy DEF RefreshIssuePair, Buffers, Pcs, At, PasswordOps
<1>14. CASE LogoutBegin(p)
  BY <1>14, MovesBy DEF LogoutBegin, Buffers, Pcs
<1>15. CASE LogoutRead(p)
  BY <1>15, MovesBy DEF LogoutRead, Buffers, Pcs
<1>16. CASE LogoutRevoke(p)
  BY <1>16, MovesBy DEF LogoutRevoke, Buffers, Pcs
<1>17. CASE LogoutBlacklist(p)
  BY <1>17, MovesBy DEF LogoutBlacklist, Buffers, Pcs
<1>18. CASE ChangePasswordBegin(p)
  BY <1>18, MovesBy DEF ChangePasswordBegin, Buffers, Pcs
<1>19. CASE ChangePasswordRead(p)
  BY <1>19, MovesBy DEF ChangePasswordRead, Buffers, Pcs
<1>20. CASE SetUserRoleBegin(p)
  BY <1>20, MovesBy DEF SetUserRoleBegin, Buffers, Pcs
<1>21. CASE SetUserRoleRead(p)
  BY <1>21, MovesBy DEF SetUserRoleRead, Buffers, Pcs
<1>22. CASE SeedBegin(p)
  BY <1>22, MovesBy DEF SeedBegin, Buffers, Pcs
<1>23. CASE SeedRead(p)
  BY <1>23, MovesBy DEF SeedRead, Buffers, Pcs
<1>24. CASE SeedPromote(p)
  BY <1>24, MovesBy DEF SeedPromote, Buffers, Pcs
<1>25. CASE SeedInsert(p)
  BY <1>25, MovesBy DEF SeedInsert, Buffers, Pcs
<1> QED
  BY <1>1, <1>2, <1>3, <1>4, <1>5, <1>6, <1>7, <1>8, <1>9,
     <1>10, <1>11, <1>12, <1>13, <1>14, <1>15, <1>16, <1>17, <1>18, <1>19,
     <1>20, <1>21, <1>22, <1>23, <1>24, <1>25 DEF SessionStep

LEMMA CodeMoves ==
  ASSUME NEW p \in Requests, OTPStep(p)
  PROVE  Moves(p) /\ Buffers(p)
<1>1. CASE RequestCodeBegin(p)
  BY <1>1, MovesBy DEF RequestCodeBegin, Buffers, Pcs
<1>2. CASE RequestCodeRead(p)
  BY <1>2, MovesBy DEF RequestCodeRead, Buffers, Pcs
<1>3. CASE Issue(p)
  BY <1>3, MovesBy DEF Issue, Buffers, Pcs
<1>4. CASE SendOTP(p)
  BY <1>4, MovesBy DEF SendOTP, Buffers, Pcs
<1>5. CASE PublishResetRequested(p)
  BY <1>5, MovesBy DEF PublishResetRequested, Buffers, Pcs
<1>6. CASE ResetPasswordBegin(p)
  BY <1>6, MovesBy DEF ResetPasswordBegin, Buffers, Pcs
<1>7. CASE ResetPasswordAllowed(p)
  BY <1>7, MovesBy DEF ResetPasswordAllowed, Buffers, Pcs
<1>8. CASE ResetPasswordRead(p)
  BY <1>8, MovesBy DEF ResetPasswordRead, Buffers, Pcs
<1>9. CASE ResetPasswordVerify(p)
  BY <1>9, MovesBy DEF ResetPasswordVerify, Buffers, Pcs
<1>10. CASE ResetPasswordRecordFailure(p)
  BY <1>10, MovesBy DEF ResetPasswordRecordFailure, Buffers, Pcs
<1>11. CASE Consume(p)
  BY <1>11, MovesBy DEF Consume, Buffers, Pcs
<1>12. CASE ResetPasswordReset(p)
  BY <1>12, MovesBy DEF ResetPasswordReset, Buffers, Pcs
<1>13. CASE VerifyEmailBegin(p)
  BY <1>13, MovesBy DEF VerifyEmailBegin, Buffers, Pcs
<1>14. CASE VerifyEmailRead(p)
  BY <1>14, MovesBy DEF VerifyEmailRead, Buffers, Pcs
<1>15. CASE VerifyEmailVerify(p)
  BY <1>15, MovesBy DEF VerifyEmailVerify, Buffers, Pcs
<1>16. CASE MarkEmailVerified(p)
  BY <1>16, MovesBy DEF MarkEmailVerified, Buffers, Pcs, At, PasswordOps
<1> QED
  BY <1>1, <1>2, <1>3, <1>4, <1>5, <1>6, <1>7, <1>8, <1>9,
     <1>10, <1>11, <1>12, <1>13, <1>14, <1>15, <1>16 DEF OTPStep

LEMMA SharedMoves ==
  ASSUME NEW p \in Requests, UpdateUser(p) \/ Commit(p) \/ Fail(p)
  PROVE  Moves(p) /\ Buffers(p)
<1>1. CASE UpdateUser(p)
  BY <1>1, MovesBy DEF UpdateUser, Buffers, Pcs, At, PasswordOps
<1>2. CASE Commit(p)
  BY <1>2, MovesBy DEF Commit, Buffers, Pcs
<1>3. CASE Fail(p)
  BY <1>3, MovesBy DEF Fail, Buffers, Pcs
<1> QED
  BY <1>1, <1>2, <1>3

\* No step forgets a session or brings a revoked one back.
LEMMA StepRemembers ==
  ASSUME IInv, [Next]_vars
  PROVE  Remembered
<1>1. sessions \in [Sessions -> SessionRow]
  BY DEF IInv, TypeOK
<1>2. ASSUME NEW p \in Requests, LoginIssuePair(p) PROVE Remembered
  <2>1. PICK n \in Sessions : /\ Fresh(n)
                              /\ \A s \in Sessions \ {n} : sessions'[s] = sessions[s]
    BY <1>1, <1>2 DEF LoginIssuePair
  <2>2. ~Issued(n) /\ sessions[n].status # "revoked"
    BY <2>1 DEF Fresh, Issued
  <2> QED
    BY <2>1, <2>2 DEF Remembered, Issued
<1>3. ASSUME NEW p \in Requests, LogoutRevoke(p) PROVE Remembered
  <2>1. sessions' = [sessions EXCEPT ![req[p].sid].status = "revoked"]
    BY <1>3 DEF LogoutRevoke
  <2>2. ASSUME NEW s \in Sessions PROVE sessions'[s] = sessions[s] \/ sessions'[s].status = "revoked"
    BY <1>1, <2>1 DEF SessionRow
  <2> QED
    BY <2>2 DEF Remembered, Issued
<1>4. ASSUME NEW p \in Requests, Commit(p) PROVE Remembered
  BY <1>4, CommitSessions DEF SessionsGrow, Remembered
<1>5. ASSUME NEW n \in Sessions, SessionExpires(n) PROVE Remembered
  <2>1. sessions' = [sessions EXCEPT ![n].expired = TRUE]
    BY <1>5 DEF SessionExpires
  <2>2. ASSUME NEW s \in Sessions PROVE sessions'[s].status = sessions[s].status
    BY <1>1, <2>1 DEF SessionRow
  <2> QED
    BY <2>2 DEF Remembered, Issued
<1>6. \/ UNCHANGED sessions
      \/ \E p \in Requests : LoginIssuePair(p) \/ LogoutRevoke(p) \/ Commit(p)
      \/ \E s \in Sessions : SessionExpires(s)
  BY DEF Next, SessionStep, OTPStep, Expiry, Terminating, vars,
     RegisterBegin, RegisterInsert, LoginBegin, LoginAllowed, LoginRead,
     LoginRecordFailure, LoginReset, RefreshBegin,
     RefreshRead, RefreshReadUser, RefreshRevoke, RefreshIssuePair,
     LogoutBegin, LogoutRead, LogoutBlacklist,
     ChangePasswordBegin, ChangePasswordRead, SetUserRoleBegin,
     SetUserRoleRead, SeedBegin, SeedRead, SeedPromote, SeedInsert, RequestCodeBegin,
     RequestCodeRead, Issue, SendOTP, PublishResetRequested,
     ResetPasswordBegin, ResetPasswordAllowed, ResetPasswordRead,
     ResetPasswordVerify, ResetPasswordRecordFailure, Consume,
     ResetPasswordReset, VerifyEmailBegin, VerifyEmailRead,
     VerifyEmailVerify, MarkEmailVerified, UpdateUser, RevokeAllScan,
     RevokeAllForUser, Fail, CodeExpires, LockoutExpires
<1>7. UNCHANGED sessions => Remembered
  BY RememberedSame
<1> QED
  BY <1>2, <1>3, <1>4, <1>5, <1>6, <1>7

\* RevokeAll: what the scan misses is revoked, and what it found and is not
\* live any more when the locks are granted has been revoked by their holders.
LEMMA RevokeAllSweeps ==
  ASSUME IInv, Swept, NEW p \in Requests, RevokeAllScan(p) \/ RevokeAllForUser(p)
  PROVE  Swept'
<1>1. /\ req \in [Requests -> Request] /\ tx \in [Requests -> Tx] /\ req[p] \in Request /\ tx[p] \in Tx
      /\ sessions \in [Sessions -> SessionRow] /\ req[p].before \subseteq Sessions
  BY DEF IInv, TypeOK, Request
<1>2. UNCHANGED sessions
  BY DEF RevokeAllScan, RevokeAllForUser
<1>3. \A q \in Requests \ {p} : req'[q] = req[q] /\ tx'[q] = tx[q]
  BY <1>1 DEF RevokeAllScan, RevokeAllForUser, Goto, Buffer
<1>4. \A s \in req[p].before : sessions[s].status \in {"live", "revoked"}
  BY <1>1 DEF Swept, SweptOf, Issued, SessionRow
<1>5. CASE RevokeAllScan(p)
  <2>1. req'[p].pc = "revoke_all" /\ req'[p].before = req[p].before
    BY <1>1, <1>5 DEF RevokeAllScan, Goto, Request
  <2>2. tx'[p].scan = {s \in Sessions : sessions[s].status = "live"}
    BY <1>1, <1>5 DEF RevokeAllScan, Buffer, Tx
  <2>3. SweptOf(p)'
    BY <1>1, <1>2, <1>4, <2>1, <2>2 DEF SweptOf, Swept, Issued
  <2> QED
    BY <1>2, <1>3, <2>3 DEF Swept, SweptOf, Issued
<1>6. CASE RevokeAllForUser(p)
  <2>1. req'[p].pc = "commit" /\ req'[p].before = req[p].before /\ req'[p].op = req[p].op
    BY <1>1, <1>6 DEF RevokeAllForUser, Goto, Request
  <2>2. tx'[p].revoke = {s \in tx[p].scan : sessions[s].status = "live"}
    BY <1>1, <1>6 DEF RevokeAllForUser, Buffer, Tx
  <2>3. req[p].op \in PasswordOps =>
          \A s \in req[p].before : s \in tx[p].scan \/ sessions[s].status = "revoked"
    BY <1>6 DEF RevokeAllForUser, Swept, SweptOf
  <2>4. SweptOf(p)'
    BY <1>2, <1>4, <2>1, <2>2, <2>3 DEF SweptOf, Swept, Issued
  <2> QED
    BY <1>2, <1>3, <2>4 DEF Swept, SweptOf, Issued
<1> QED
  BY <1>5, <1>6

LEMMA SweptInductive == IInv /\ Swept /\ [Next]_vars => Swept'
<1> SUFFICES ASSUME IInv, Swept, [Next]_vars PROVE Swept'
  OBVIOUS
<1>1. Remembered
  BY StepRemembers
<1>2. ASSUME NEW p \in Requests, SessionStep(p) \/ OTPStep(p) \/ UpdateUser(p) \/ Commit(p) \/ Fail(p)
      PROVE  Swept'
  BY <1>1, <1>2, SessionMoves, CodeMoves, SharedMoves, SweptKept
<1>3. ASSUME NEW p \in Requests, RevokeAllScan(p) \/ RevokeAllForUser(p) PROVE Swept'
  BY <1>3, RevokeAllSweeps
<1>4. CASE Expiry \/ Terminating \/ UNCHANGED vars
  <2>1. UNCHANGED <<req, tx>>
    BY <1>4 DEF Expiry, SessionExpires, CodeExpires, LockoutExpires, Terminating, vars
  <2> QED
    BY <1>1, <2>1, SweptStill
<1> QED
  BY <1>2, <1>3, <1>4 DEF Next

\* Password changes and resets (change_password.go, otp.go): whatever the
\* other requests hold locked or rotate meanwhile, when one commits every
\* session that existed when it began is revoked.
THEOREM EarlierSessionsDieHolds == Spec => EarlierSessionsDie
<1> DEFINE Die == \A p \in Requests :
             Commit(p) /\ req[p].op \in PasswordOps
               => \A s \in req[p].before : sessions'[s].status = "revoked"
<1>1. Init => Swept
  BY DEF Init, Swept, SweptOf, Start
<1>2. ASSUME IInv, Swept, [Next]_vars PROVE [Die]_vars
  <2> SUFFICES ASSUME NEW p \in Requests, Commit(p), req[p].op \in PasswordOps, NEW s \in req[p].before
               PROVE  sessions'[s].status = "revoked"
    OBVIOUS
  <2>1. /\ req[p].pc = "commit" /\ s \in Sessions /\ sessions \in [Sessions -> SessionRow]
    BY <1>2 DEF Commit, IInv, TypeOK, Request
  <2>2. Issued(s) /\ (s \in tx[p].revoke \/ sessions[s].status = "revoked")
    BY <1>2, <2>1 DEF Swept, SweptOf
  <2>3. s # tx[p].create
    <3>1. tx[p].create # None => ~Issued(tx[p].create)
      BY <1>2 DEF IInv, RequestInv, RotationOf
    <3> QED
      BY <2>1, <2>2, <3>1, IdentityAssumption
  <2>4. sessions'[s] = IF s \in tx[p].revoke THEN [sessions[s] EXCEPT !.status = "revoked"]
                       ELSE sessions[s]
    BY <2>1, <2>3 DEF Commit
  <2>5. [sessions[s] EXCEPT !.status = "revoked"].status = "revoked"
    BY <2>1 DEF SessionRow
  <2> QED
    BY <2>2, <2>4, <2>5
<1>3. Spec => []Swept
  BY <1>1, SweptInductive, Invariance, PTL DEF Spec
<1> QED
  BY <1>2, <1>3, Invariance, PTL DEF Spec, EarlierSessionsDie
=============================================================================
