---------------------------- MODULE IdentityOTP ----------------------------
(***************************************************************************)
(* OTPService (otp.go): the four one-time-code flows.  Requesting a code   *)
(* runs without a transaction; redeeming one consumes it and applies its   *)
(* effect in one transaction, after checking it outside.                   *)
(***************************************************************************)
EXTENDS IdentityDB

(* RequestPasswordReset, RequestEmailVerification: read the user, issue,    *)
(* send; the reset flow then publishes its event.                           *)

RequestCodeBegin(p) ==
  /\ \E op \in {"request_reset", "request_verify"} : Begin(p, op, "read")
  /\ UNCHANGED <<user, sessions, otps, outbox, redis, tx>>

RequestCodeRead(p) ==
  /\ req[p].op \in {"request_reset", "request_verify"} /\ req[p].pc = "read"
  /\ IF user # None THEN Goto(p, "issue") ELSE Finish(p)
  /\ UNCHANGED <<user, sessions, otps, outbox, redis, tx>>

PurposeOf(op) == IF op \in {"request_reset", "reset_password"}
                   THEN "password_reset" ELSE "email_verify"

\* issue: the insert commits by itself.
Issue(p) ==
  /\ req[p].op \in {"request_reset", "request_verify"} /\ req[p].pc = "issue"
  /\ \E c \in Codes :
       /\ NextCode(c)
       /\ otps' = [otps EXCEPT ![c] =
            [status |-> "live", expired |-> FALSE,
             purpose |-> PurposeOf(req[p].op), uses |-> 0]]
  /\ Goto(p, "send")
  /\ UNCHANGED <<user, sessions, outbox, redis, tx>>

\* Notifier.SendOTP; an error ends the request (Fail).
SendOTP(p) ==
  /\ req[p].op \in {"request_reset", "request_verify"} /\ req[p].pc = "send"
  /\ IF req[p].op = "request_reset" THEN Goto(p, "publish") ELSE Finish(p)
  /\ UNCHANGED <<user, sessions, otps, outbox, redis, tx>>

PublishResetRequested(p) ==
  /\ At(p, "request_reset", "publish")
  /\ Publish("password_reset_requested")
  /\ Finish(p)
  /\ UNCHANGED <<user, sessions, otps, redis, tx>>

-----------------------------------------------------------------------------
(* ResetPassword: Allowed; GetByEmail; verify; tx { Consume; Update;        *)
(* RevokeAll; Publish }; Reset.                                             *)

ResetPasswordBegin(p) ==
  /\ Begin(p, "reset_password", "throttle")
  /\ UNCHANGED <<user, sessions, otps, outbox, redis, tx>>

ResetPasswordAllowed(p) ==
  /\ At(p, "reset_password", "throttle")
  /\ \/ Allowed("otp") /\ Goto(p, "read")
     \/ throttle["otp"] >= MaxFailures /\ Finish(p)   \* ErrAccountLocked
  /\ UNCHANGED <<user, sessions, otps, outbox, redis, tx>>

\* The user is loaded BEFORE the code is checked.
ResetPasswordRead(p) ==
  /\ At(p, "reset_password", "read")
  /\ \/ /\ user # None
        /\ Load(p, WithNewHash(user), "verify")
     \/ Goto(p, "fail")   \* unknown email, failed read
  /\ UNCHANGED <<user, sessions, otps, outbox, redis, tx>>

\* verify: the caller presents the newest live code, or not.
ResetPasswordVerify(p) ==
  /\ At(p, "reset_password", "verify")
  /\ \/ \E c \in Codes :
          /\ GetActive(c, "password_reset")
          /\ Redeem(p, c, "consume")
     \/ Goto(p, "fail")   \* ErrInvalidOTP
  /\ UNCHANGED <<user, sessions, otps, outbox, redis, tx>>

ResetPasswordRecordFailure(p) ==
  /\ At(p, "reset_password", "fail")
  /\ RecordFailure("otp")
  /\ Finish(p)
  /\ UNCHANGED <<user, sessions, otps, outbox, blacklist, tx>>

\* Mutant: the user is loaded again inside the transaction.
ConsumeThenReload(p) ==
  /\ req[p].pc = "consume"
  /\ CodeFree(p, req[p].code)
  /\ IF otps[req[p].code].status = "live"
       THEN Buffer(p, [tx[p] EXCEPT !.consume = req[p].code])
       ELSE UNCHANGED tx
  /\ Load(p, WithNewHash(user),
          IF req[p].op = "reset_password" THEN "update" ELSE "mark")
  /\ UNCHANGED <<user, sessions, otps, outbox, redis>>

\* OTPRepository.Consume, first statement of both transactions: it waits for
\* the row, and matching no row is not an error.
Consume(p) ==
  /\ req[p].pc = "consume"
  /\ CodeFree(p, req[p].code)
  /\ IF otps[req[p].code].status = "live"
       THEN Buffer(p, [tx[p] EXCEPT !.consume = req[p].code])
       ELSE UNCHANGED tx
  /\ Goto(p, IF req[p].op = "reset_password" THEN "update" ELSE "mark")
  /\ UNCHANGED <<user, sessions, otps, outbox, redis>>

\* After the commit: throttle.Reset.
ResetPasswordReset(p) ==
  /\ At(p, "reset_password", "clear_after")
  /\ Reset("otp")
  /\ Finish(p)
  /\ UNCHANGED <<user, sessions, otps, outbox, blacklist, tx>>

-----------------------------------------------------------------------------
(* VerifyEmail: GetByID; verify; tx { Consume; MarkEmailVerified; Publish } *)

VerifyEmailBegin(p) ==
  /\ Begin(p, "verify_email", "read")
  /\ UNCHANGED <<user, sessions, otps, outbox, redis, tx>>

VerifyEmailRead(p) ==
  /\ At(p, "verify_email", "read")
  /\ IF user # None
       THEN Load(p, user, "verify")
       ELSE Finish(p)
  /\ UNCHANGED <<user, sessions, otps, outbox, redis, tx>>

VerifyEmailVerify(p) ==
  /\ At(p, "verify_email", "verify")
  /\ \/ \E c \in Codes :
          /\ GetActive(c, "email_verify")
          /\ Redeem(p, c, "consume")
     \/ Finish(p)   \* ErrInvalidOTP
  /\ UNCHANGED <<user, sessions, otps, outbox, redis, tx>>

\* SetEmailVerified: unguarded by version, a no-op on a verified row.
MarkEmailVerified(p) ==
  /\ At(p, "verify_email", "mark")
  /\ UserFree(p)
  /\ IF user.verified
       THEN UNCHANGED tx
       ELSE Buffer(p, [tx[p] EXCEPT !.user =
                         [user EXCEPT !.verified = TRUE, !.version = @ + 1]])
  /\ Goto(p, "commit")
  /\ UNCHANGED <<user, sessions, otps, outbox, redis>>

-----------------------------------------------------------------------------
OTPStep(p) ==
  \/ RequestCodeBegin(p) \/ RequestCodeRead(p) \/ Issue(p) \/ SendOTP(p)
  \/ PublishResetRequested(p)
  \/ ResetPasswordBegin(p) \/ ResetPasswordAllowed(p) \/ ResetPasswordRead(p)
  \/ ResetPasswordVerify(p) \/ ResetPasswordRecordFailure(p)
  \/ Consume(p) \/ ResetPasswordReset(p)
  \/ VerifyEmailBegin(p) \/ VerifyEmailRead(p) \/ VerifyEmailVerify(p)
  \/ MarkEmailVerified(p)
=============================================================================
