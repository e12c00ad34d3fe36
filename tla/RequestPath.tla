---------------------------- MODULE RequestPath ----------------------------
(***************************************************************************)
(* A request's way from the gateway's connection through the edge chain    *)
(* and the proxy into the core service and back.                           *)
(***************************************************************************)
EXTENDS Edge, CoreRPC

vars == <<edgeVars, coreVars>>

TypeOK == EdgeTypeOK /\ CoreTypeOK

Init == EdgeInit /\ CoreInit

\* transparentHandler opens the upstream call and pumps the message into it.
StartCall(c) ==
  /\ ProxyCalls(c)
  /\ Receive(c, direct(c), [pkg |-> shape[c].pkg, rpc |-> shape[c].rpc, body |-> shape[c].body])

\* The upstream's status is the call's.
FinishCall(c) == rpc[c] = "returned" /\ RelayStatus(c, result[c]) /\ UNCHANGED coreVars

EdgeOnly(A) == A /\ UNCHANGED coreVars
CoreOnly(A) == A /\ UNCHANGED edgeVars

Step(c) ==
  \/ EdgeOnly(Arrive(c)) \/ EdgeOnly(Tick(c))
  \/ EdgeOnly(OuterStep(c)) \/ EdgeOnly(ChainStep(c)) \/ EdgeOnly(EdgeFault(c))
  \/ EdgeOnly(CallCancelled(c))
  \/ StartCall(c) \/ FinishCall(c)
  \/ CoreOnly(CoreStep(c))

Next == \E c \in Calls : Step(c)

Spec == Init /\ [][Next]_vars

\* The context of the call's handler in the core service is done: the gateway
\* has ended the call, or its deadline (the gateway's, sent along) has passed.
Abandoned(c) == inner[c] = "ended" \/ CtxDone(c)

\* Time passes, the waiting goroutine takes what is ready and responses are
\* written; middlewares return, and the proxied call ends once its context has.
\* The core service owes nothing while the context lives: a handler may hang on
\* a lock or a query until then, and returns afterwards.
FairSpec ==
  /\ Spec
  /\ \A c \in Calls :
       /\ WF_vars(EdgeOnly(Tick(c)))
       /\ WF_vars(EdgeOnly(OuterStep(c)))
       /\ WF_vars(EdgeOnly(ChainStep(c)) \/ StartCall(c))
       /\ WF_vars(EdgeOnly(CallCancelled(c)))
       /\ WF_vars(Abandoned(c) /\ CoreOnly(CoreStep(c)))

-----------------------------------------------------------------------------

\* What the client is told is true of the call: see RpcContract.  Whatever is
\* not a refusal of either service leaves the outcome open.
Refusals == {"204", "301", "308", "401", "403", "415", "429", "Unimplemented",
             "InvalidArgument", "NotFound", "AlreadyExists", "Unauthenticated",
             "PermissionDenied", "Aborted", "ResourceExhausted"}

Verdict(a) == IF a = "none" THEN "none"
              ELSE IF a = "OK" THEN "ok"
              ELSE IF a \in Refusals THEN "refused" ELSE "unknown"

Contract == INSTANCE RpcContract WITH verdict <- [c \in Calls |-> Verdict(answer[c])]

\* The request path implements the contract: an answer that says the call was
\* refused is never followed, or preceded, by its effect, although the timeout
\* answers for a chain that is still running and the core service may commit
\* after its caller has gone (TimeoutHandler, transparentHandler, classify).
KeepsContract == Contract!Spec

\* The core service acts for the owner of the token the gateway verified, or
\* for nobody: identity headers a client writes itself never get that far
\* (Authenticator.Middleware, direct, withPrincipalFromMetadata).
ActsAsTokenOwner ==
  \A c \in Calls : principal[c] # NoOne => shape[c].token = "good" /\ principal[c] = shape[c].sub

\* An update runs only under a rule set in which some matching rule allows it
\* and no matching rule, wherever it stands, denies it (Decide).
DenyOverrides ==
  \A c \in Calls :
    effect[c] /\ method[c].rpc = "UpdateNote" =>
      LET matching == {i \in DOMAIN policies : Matches(policies[i], principal[c])} IN
      /\ \E i \in matching : policies[i].effect = "allow"
      /\ \A i \in matching : policies[i].effect # "deny"

\* A gzip writer serves one response at a time and none while it is pooled
\* (gzipResponseWriter).
WritersUnshared ==
  \A c \in Calls : writer[c] # NoOne =>
    writer[c] \notin pool /\ \A d \in Calls \ {c} : writer[d] # writer[c]

\* Every request is answered or abandoned, and leaves neither a goroutine of
\* the gateway nor a handler of the core service behind, even if the core
\* service never answers by itself (Timeout, timeoutInterceptor).
Over(c) == /\ conn[c] = "done"
           /\ inner[c] \in {"none", "ended", "panicked"}
           /\ rpc[c] \in {"none", "returned"}
EveryCallEnds == \A c \in Calls : conn[c] # "idle" ~> Over(c)

\* middleware.go: "Timeout bounds total handling time with a 503 on overrun".
OverrunAnswered == \A c \in Calls : conn[c] = "done" /\ status[c] = "503" => answer[c] = "503"

\* request_id.go: the id is stored "so every layer logs the same correlation
\* id".
OneCorrelationId == \A c \in Calls : coreId[c] \in {"none", EdgeRequestId(c)}
=============================================================================
