------------------------------ MODULE CoreRPC ------------------------------
(***************************************************************************)
(* A unary call in the core service: the generated dispatch, the           *)
(* interceptor chain of grpcserver.New with the trusted-header             *)
(* interceptor, the handlers' guards, and the way back out through the     *)
(* error mapping.  What a use case does is in the modules of the services; *)
(* here it commits its work, or fails before or after that.                *)
(***************************************************************************)
EXTENDS Requests

CONSTANTS
  Admins,      \* principals whose role or token type is admin
  PolicySets   \* the rule sets the engine may have loaded

\* A loaded policy: does its pattern cover (note, update), and for whom does
\* its condition evaluate to true (an evaluation error is not true).
Policies == [effect : {"allow", "deny"}, covers : BOOLEAN, holds : SUBSET Principals]

ASSUME CoreAssumption == /\ Admins \subseteq Principals
                         /\ PolicySets \subseteq Seq(Policies)

VARIABLES
  policies,   \* Checker.policies
  rpc,        \* how far the call is
  meta,       \* its incoming metadata: who it is for, and the request id
  method,     \* the method called: [pkg, rpc], and how its message decodes
  principal,  \* auth.FromContext
  coreId,     \* grpcserver.RequestIDFromContext
  result,     \* the status it ends with
  effect      \* the use case has committed its work, or read its result

coreVars == <<policies, rpc, meta, method, principal, coreId, result, effect>>

-----------------------------------------------------------------------------
(* The service descriptors of the generated code *)

IdentityMethods ==
  {"Register", "Login", "Refresh", "Logout", "GetProfile", "ChangePassword",
   "SetUserRole", "RequestPasswordReset", "ResetPassword", "RequestEmailVerification",
   "VerifyEmail", "CreateAPIKey", "ListAPIKeys", "RevokeAPIKey", "ValidateAPIKey"}
ExampleMethods == {"CreateNote", "GetNote", "UpdateNote", "ListNotes"}
AuthzMethods == {"Check", "ListPolicies", "UpsertPolicy", "DeletePolicy"}
AuditMethods == {"ListAuditLog"}

Registered(m) == \/ m.pkg = "identity" /\ m.rpc \in IdentityMethods
                 \/ m.pkg = "example" /\ m.rpc \in ExampleMethods
                 \/ m.pkg = "authz" /\ m.rpc \in AuthzMethods
                 \/ m.pkg = "audit" /\ m.rpc \in AuditMethods

-----------------------------------------------------------------------------
(* Checker.Decide *)

Matches(p, who) == p.covers /\ who \in p.holds

\* Mutant: the first matching rule decides.
FirstMatch(rules, who) ==
  LET scan[i \in 1..(Len(rules) + 1)] ==
        IF i > Len(rules) THEN FALSE
        ELSE IF Matches(rules[i], who) THEN rules[i].effect = "allow"
        ELSE scan[i + 1]
  IN scan[1]

\* A matching deny ends the scan; an allow is only remembered.
Decide(rules, who) ==
  LET after[i \in 0..Len(rules)] ==
        IF i = 0 THEN "nothing"
        ELSE IF after[i - 1] = "denied" \/ ~Matches(rules[i], who) THEN after[i - 1]
        ELSE IF rules[i].effect = "deny" THEN "denied" ELSE "allowed"
  IN after[Len(rules)] = "allowed"

-----------------------------------------------------------------------------
(* apperror and errormap.go *)

Kinds == {"InvalidInput", "NotFound", "AlreadyExists", "Unauthenticated",
          "PermissionDenied", "Conflict", "RateLimited", "Internal"}

toGRPCCode(kind) == CASE kind = "InvalidInput" -> "InvalidArgument"
                      [] kind = "Conflict" -> "Aborted"
                      [] kind = "RateLimited" -> "ResourceExhausted"
                      [] OTHER -> kind

\* What a use case, or the handler for it, may fail with before its work is
\* done.
classify(m) ==
  CASE m.pkg = "identity" -> Kinds
    [] m.pkg = "example" -> {"NotFound", "Conflict", "InvalidInput", "Internal"}
    [] m.rpc = "UpsertPolicy" -> {"InvalidInput", "Internal"}
    [] m.rpc = "DeletePolicy" -> {"NotFound", "Internal"}
    [] m.rpc \in {"ListPolicies", "ListAuditLog"} -> {"Internal"}
    [] OTHER -> {}

CoreCodes == {toGRPCCode(k) : k \in Kinds} \cup {"OK", "Unimplemented"}

-----------------------------------------------------------------------------

Method == [pkg : Packages, rpc : STRING, body : Bodies]
NoCall == [pkg |-> "none", rpc |-> "none", body |-> "valid"]

CoreTypeOK ==
  /\ policies \in PolicySets
  /\ rpc \in [Calls -> {"none", "received", "guarded", "running", "committed", "returned"}]
  /\ meta \in [Calls -> [who : Principals \cup {NoOne}, id : {"client", "none"}]]
  /\ method \in [Calls -> Method \cup {NoCall}]
  /\ principal \in [Calls -> Principals \cup {NoOne}]
  /\ coreId \in [Calls -> {"none", "client", "core"}]
  /\ result \in [Calls -> CoreCodes \cup {"none"}]
  /\ effect \in [Calls -> BOOLEAN]

CoreInit ==
  /\ policies \in PolicySets
  /\ rpc = [c \in Calls |-> "none"]
  /\ meta = [c \in Calls |-> [who |-> NoOne, id |-> "none"]]
  /\ method = [c \in Calls |-> NoCall]
  /\ principal = [c \in Calls |-> NoOne]
  /\ coreId = [c \in Calls |-> "none"]
  /\ result = [c \in Calls |-> "none"]
  /\ effect = [c \in Calls |-> FALSE]

Return(c, code) == /\ rpc' = [rpc EXCEPT ![c] = "returned"]
                   /\ result' = [result EXCEPT ![c] = code]

\* errorMappingInterceptor: an application error becomes the status of its kind.
FailWith(c, kind) == Return(c, toGRPCCode(kind))

\* The request's headers and message arrive.
Receive(c, md, m) ==
  /\ rpc[c] = "none"
  /\ rpc' = [rpc EXCEPT ![c] = "received"]
  /\ meta' = [meta EXCEPT ![c] = md]
  /\ method' = [method EXCEPT ![c] = m]
  /\ UNCHANGED <<policies, principal, coreId, result, effect>>

\* An unknown method, or a message that does not decode, ends the call before
\* any interceptor runs.
Reject(c) ==
  /\ rpc[c] = "received"
  /\ \/ ~Registered(method[c]) /\ Return(c, "Unimplemented")
     \/ Registered(method[c]) /\ method[c].body = "garbled" /\ Return(c, "Internal")
  /\ UNCHANGED <<policies, meta, method, principal, coreId, effect>>

\* requestIDInterceptor and TrustedHeaderInterceptor: what the caller sent, or an
\* id of one's own.
RequestId(c) == IF meta[c].id = "none" THEN "core" ELSE meta[c].id
PrincipalFromMetadata(c) == meta[c].who

\* recovery, requestID, logging, errorMap, timeout, validation and the trusted
\* headers, outermost first.
Intercept(c) ==
  /\ rpc[c] = "received" /\ Registered(method[c]) /\ method[c].body # "garbled"
  /\ coreId' = [coreId EXCEPT ![c] = RequestId(c)]
  /\ \/ method[c].body = "invalid" /\ FailWith(c, "InvalidInput") /\ UNCHANGED principal
     \/ /\ method[c].body = "valid"
        /\ rpc' = [rpc EXCEPT ![c] = "guarded"]
        /\ principal' = [principal EXCEPT ![c] = PrincipalFromMetadata(c)]
        /\ UNCHANGED result
  /\ UNCHANGED <<policies, meta, method, effect>>

(* The guards of the handlers: the kind of error they give, or "none" *)

requirePrincipal(who) == IF who = NoOne THEN "Unauthenticated" ELSE "none"

requireAdmin(who) == IF who # NoOne /\ who \notin Admins THEN "PermissionDenied"
                     ELSE requirePrincipal(who)

PublicMethods == {"Register", "Login", "Refresh", "Logout", "RequestPasswordReset",
                  "ResetPassword", "ValidateAPIKey"}

IdentityGuard(m, who) == IF m \in PublicMethods THEN "none"
                         ELSE IF m = "SetUserRole" THEN requireAdmin(who)
                         ELSE requirePrincipal(who)

\* An update also needs the policies' consent.
ExampleGuard(m, who) ==
  IF who # NoOne /\ m = "UpdateNote" /\ ~Decide(policies, who) THEN "PermissionDenied"
  ELSE requirePrincipal(who)

AuthzGuard(m, who) == IF m = "Check" THEN requirePrincipal(who) ELSE requireAdmin(who)

AuditGuard(who) == requireAdmin(who)

GuardError(c) ==
  LET m == method[c]
      who == principal[c]
  IN CASE m.pkg = "identity" -> IdentityGuard(m.rpc, who)
       [] m.pkg = "example" -> ExampleGuard(m.rpc, who)
       [] m.pkg = "authz" -> AuthzGuard(m.rpc, who)
       [] OTHER -> AuditGuard(who)

Guard(c) ==
  /\ rpc[c] = "guarded"
  /\ \/ GuardError(c) # "none" /\ FailWith(c, GuardError(c))
     \/ /\ GuardError(c) = "none"
        /\ rpc' = [rpc EXCEPT ![c] = "running"]
        /\ UNCHANGED result
  /\ UNCHANGED <<policies, meta, method, principal, coreId, effect>>

\* The use case commits its transaction or its one statement, or has read what
\* was asked for.
Commit(c) ==
  /\ rpc[c] = "running"
  /\ rpc' = [rpc EXCEPT ![c] = "committed"]
  /\ effect' = [effect EXCEPT ![c] = TRUE]
  /\ UNCHANGED <<policies, meta, method, principal, coreId, result>>

Succeed(c) ==
  /\ rpc[c] = "committed"
  /\ Return(c, "OK")
  /\ UNCHANGED <<policies, meta, method, principal, coreId, effect>>

\* It fails before that, with an error classify knows or with any other.
FailBefore(c) ==
  /\ rpc[c] = "running"
  /\ \E kind \in classify(method[c]) : FailWith(c, kind)
  /\ UNCHANGED <<policies, meta, method, principal, coreId, effect>>

\* Mutant: what fails after the commit is classified like what fails before it.
FailsAsBefore(c) ==
  /\ rpc[c] = "committed"
  /\ \E kind \in classify(method[c]) : FailWith(c, kind)
  /\ UNCHANGED <<policies, meta, method, principal, coreId, effect>>

\* The answer to the commit is lost, or a later step fails: the mail of a code,
\* the blacklist of a logout, the reload of the policies.  All are Internal.
FailAfter(c) ==
  /\ rpc[c] = "committed"
  /\ FailWith(c, "Internal")
  /\ UNCHANGED <<policies, meta, method, principal, coreId, effect>>

\* A panic unwinds past logging and error mapping to the recovery interceptor.
PanicRun(c) ==
  /\ rpc[c] \in {"guarded", "running", "committed"}
  /\ Return(c, "Internal")
  /\ UNCHANGED <<policies, meta, method, principal, coreId, effect>>

CoreStep(c) == \/ Reject(c) \/ Intercept(c) \/ Guard(c) \/ Commit(c) \/ Succeed(c)
               \/ FailBefore(c) \/ FailAfter(c) \/ PanicRun(c)
=============================================================================
