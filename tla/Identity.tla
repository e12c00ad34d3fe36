------------------------------ MODULE Identity ------------------------------
(***************************************************************************)
(* The identity service: every use case of IdentitySessions and            *)
(* IdentityOTP interleaving over the rows of IdentityDB.                   *)
(***************************************************************************)
EXTENDS IdentitySessions, IdentityOTP

CONSTANTS InitSessions,  \* live sessions earlier logins left behind
          InitCodes      \* purposes of the codes already issued, oldest first

ASSUME InitAssumption == /\ InitSessions \subseteq Sessions
                         /\ InitCodes \in [DOMAIN InitCodes -> Purposes]
                         /\ DOMAIN InitCodes \subseteq Codes

\* Either nothing is registered, or an account is, with the sessions and
\* codes that earlier, finished requests created.
Init ==
  /\ user \in {None} \cup {[NewUser("user") EXCEPT !.status = st] : st \in Statuses}
  /\ sessions = [s \in Sessions |->
       [status |-> IF s \in InitSessions /\ user # None THEN "live" ELSE "unused",
        expired |-> FALSE, parent |-> None, hash |-> 1]]
  /\ otps = [c \in Codes |->
       IF c \in DOMAIN InitCodes /\ user # None
         THEN [status |-> "live", expired |-> FALSE,
               purpose |-> InitCodes[c], uses |-> 0]
         ELSE [status |-> "unused", expired |-> FALSE,
               purpose |-> "password_reset", uses |-> 0]]
  /\ outbox = [e \in Subjects |-> 0]
  /\ throttle = [k \in ThrottleKeys |-> 0]
  /\ blacklist = {}
  /\ req = [p \in Requests |-> Start]
  /\ tx = [p \in Requests |-> NoTx]

\* What a request does once it has begun.
Step(p) ==
  /\ req[p].pc # "idle"
  /\ \/ SessionStep(p) \/ OTPStep(p)
     \/ UpdateUser(p) \/ RevokeAllScan(p) \/ RevokeAllForUser(p) \/ Commit(p)

Expiry == \/ \E s \in Sessions : SessionExpires(s)
          \/ \E c \in Codes : CodeExpires(c)
          \/ \E k \in ThrottleKeys : LockoutExpires(k)

\* Every request has run: the instance stops here.
Terminating == /\ \A p \in Requests : req[p].pc = "done"
               /\ UNCHANGED vars

Next ==
  \/ \E p \in Requests :
       \/ SessionStep(p) \/ OTPStep(p)
       \/ UpdateUser(p) \/ RevokeAllScan(p) \/ RevokeAllForUser(p) \/ Commit(p)
       \/ Fail(p)
  \/ Expiry
  \/ Terminating

Spec == Init /\ [][Next]_vars

\* A request that has begun keeps being scheduled, and PostgreSQL grants a
\* free row lock; nothing obliges a request to begin, to fail or time to pass.
FairSpec == Spec /\ \A p \in Requests : WF_vars(Step(p))
-----------------------------------------------------------------------------
(* What holds *)

PasswordOps == {"change_password", "reset_password"}

\* The audit trail agrees with the row: the users row carries the hash of the
\* last password change that was announced.  users.Update writes EVERY column
\* from an aggregate read earlier (user_repository.go), so a role change whose
\* read is stale would put an old password back; the version guard in
\* UpdateUser is what forbids it.
PasswordTrail ==
  user # None => user.hash = 1 + outbox["password_changed"]

\* A role never changes silently: a step that changes the role of a registered
\* account commits a role_changed event with it, unless it is the seeder,
\* which writes none.  A password change with a stale read would otherwise
\* demote or promote the account.
RoleWritesAnnounced ==
  [][ user # None /\ user'.role # user.role
        => \/ outbox'["role_changed"] = outbox["role_changed"] + 1
           \/ \E p \in Requests : SeedPromote(p) ]_vars

\* "never the reverse (two live tokens)" (refresh.go): whatever fails and
\* whoever races, a session and a session it was rotated into are never both
\* live.
ParentRevoked ==
  \A s \in Sessions :
    sessions[s].parent # None => sessions[sessions[s].parent].status = "revoked"

\* A password-reset code changes the password at most once, although Consume
\* ignores the number of rows it touched: two requests that both verified the
\* code read the user before that, so the second one's version is stale.
ResetCodeSingleUse ==
  \A c \in Codes : otps[c].purpose = "password_reset" => otps[c].uses <= 1

\* When a password change or reset commits, every session that existed when
\* the request began is revoked, also one another request held locked.
EarlierSessionsDie ==
  [][ \A p \in Requests :
        Commit(p) /\ req[p].op \in PasswordOps
          => \A s \in req[p].before : sessions'[s].status = "revoked" ]_vars

\* Every request that begins ends: row locks are always taken in the order
\* code, user, sessions, and every way out of a transaction releases them.
RequestsFinish ==
  \A p \in Requests : req[p].pc # "idle" ~> req[p].pc = "done"

-----------------------------------------------------------------------------
(* What the comments say and the code does not do *)

\* refresh.go: "whichever party (victim or thief) uses it second presents a
\* revoked token and is thrown out": one refresh token has one successor.
SecondUserThrownOut ==
  \A s, t \in Sessions :
    /\ sessions[s].parent # None
    /\ sessions[s].parent = sessions[t].parent
    => s = t

\* change_password.go: "revokes every session": no live session was issued
\* under an earlier password.
PasswordChangeEndsSessions ==
  \A s \in Sessions :
    sessions[s].status = "live" => sessions[s].hash = user.hash

\* domain/otp.go: "OTP is one single-use, expiring code".
CodeSingleUse == \A c \in Codes : otps[c].uses <= 1

\* identity.sql: "The newest live code wins; issuing a new code supersedes
\* older ones": a code that GetActive returns has no later one issued.
NewerSupersedes ==
  \A c \in Codes, purpose \in Purposes :
    GetActive(c, purpose) =>
      \A d \in Codes : /\ d > c
                       /\ otps[d].purpose = purpose
                       => otps[d].status = "unused"

\* docs/02-architecture.md: "A use case writes an outbox row in the same
\* transaction as the state change": once all requests are over, every reset
\* code issued has its event.
ResetRequestsAnnounced ==
  (\A p \in Requests : req[p].pc = "done") =>
    Cardinality({c \in Codes \ DOMAIN InitCodes :
                   /\ otps[c].status # "unused"
                   /\ otps[c].purpose = "password_reset"})
      = outbox["password_reset_requested"]
=============================================================================
