------------------------- MODULE RequestPathProofs -------------------------
(***************************************************************************)
(* Proofs that the request path implements RpcContract, that the core      *)
(* service acts only for the owner of a verified token, that a rule which  *)
(* denies wins over all that allow, and that gzip writers are never        *)
(* shared: for any calls, requests, principals, rules and timeouts.        *)
(***************************************************************************)
EXTENDS RequestPath, WellFoundedInduction, TLAPS

\* How far the two goroutines and the call to the core service are, relative
\* to each other: the core service knows of a call only once the proxy has it.
Progress == \A c \in Calls :
  /\ conn[c] = "idle" => inner[c] = "none"
  /\ conn[c] # "done" => answer[c] = "none"
  /\ inner[c] \in {"none", "panicked"} \cup Chain => rpc[c] = "none"

\* The effect happens between "running" and "committed", and a result that
\* refuses the call or says it succeeded is true.
Effects == \A c \in Calls :
  /\ rpc[c] \in {"none", "received", "guarded", "running"} => ~effect[c]
  /\ rpc[c] = "committed" => effect[c]
  /\ rpc[c] = "returned" => /\ result[c] = "OK" => effect[c]
                            /\ result[c] \in Refusals => ~effect[c]

\* The call has had no effect and never will: the core service refused it, or
\* the gateway ended it before there was a call.
Settled(c) == /\ ~effect[c]
              /\ \/ rpc[c] = "returned"
                 \/ /\ rpc[c] = "none" /\ conn[c] # "idle"
                    /\ inner[c] \in {"none", "ended"}

\* A response that says the call succeeded or was refused is true.
TrueOf(c, s) == /\ s = "OK" => effect[c]
                /\ s \in Refusals => Settled(c)

\* True are the buffered response, the picked one and the client's.
Told == \A c \in Calls : TrueOf(c, resp[c]) /\ TrueOf(c, status[c]) /\ TrueOf(c, answer[c])

\* From the authenticator on, a call carries the identity of its token.
Identified == \A c \in Calls :
  /\ inner[c] \in {"endpoint", "proxy", "remote"} => headers[c] = VerifiedIdentity(c)
  /\ rpc[c] # "none" => meta[c].who = VerifiedIdentity(c)
  /\ principal[c] \in {NoOne, VerifiedIdentity(c)}

\* The inductive invariant.
IInv == TypeOK /\ Progress /\ Effects /\ Told /\ Identified

-----------------------------------------------------------------------------

\* The codes of the core service are gRPC codes, and none of its error kinds
\* maps to OK.
LEMMA CodeFacts ==
  /\ CoreCodes \subseteq Codes
  /\ \A k \in Kinds : toGRPCCode(k) \in CoreCodes \ {"OK", "none"}
  /\ toGRPCCode("Internal") = "Internal"
  /\ \A m : classify(m) \subseteq Kinds
<1>1. \A k \in Kinds : toGRPCCode(k) \in Codes \ {"OK", "none"}
  BY DEF Kinds, toGRPCCode, Codes
<1>2. \A m : classify(m) \subseteq Kinds
  BY DEF Kinds, classify
<1>3. toGRPCCode("Internal") = "Internal"
  BY DEF toGRPCCode
<1>4. CoreCodes \subseteq Codes
  BY <1>1 DEF CoreCodes, Codes
<1> QED
  BY <1>1, <1>2, <1>3, <1>4 DEF CoreCodes

\* A guard's error is none or a kind.
LEMMA GuardErrors == \A c : GuardError(c) \in Kinds \cup {"none"}
  BY DEF GuardError, IdentityGuard, ExampleGuard, AuthzGuard, AuditGuard, requireAdmin,
         requirePrincipal, Kinds

\* The inductive invariant holds initially.
LEMMA Initial == Init => IInv
<1> SUFFICES ASSUME Init PROVE IInv
  OBVIOUS
<1> USE DEF Init
<1>1. shape \in [Calls -> RequestShapes]
  BY EdgeAssumption DEF EdgeInit
<1>2. headers \in [Calls -> Identities]
  BY <1>1 DEF EdgeInit, RequestShapes
<1>3. EdgeTypeOK
  BY <1>1, <1>2 DEF EdgeInit, EdgeTypeOK
<1>4. CoreTypeOK
  <2>1. [who |-> NoOne, id |-> "none"] \in [who : Principals \cup {NoOne}, id : {"client", "none"}]
    OBVIOUS
  <2> QED
    BY <2>1 DEF CoreInit, CoreTypeOK
<1>5. Progress /\ Effects /\ Identified
  BY DEF EdgeInit, CoreInit, Progress, Effects, Identified, Chain
<1>6. Told
  BY DEF EdgeInit, Told, TrueOf, Refusals
<1> QED
  BY <1>3, <1>4, <1>5, <1>6 DEF IInv, TypeOK

-----------------------------------------------------------------------------
(* The gateway's steps *)

\* Picking a true response preserves the invariant.
LEMMA Selecting ==
  ASSUME IInv, NEW c \in Calls, NEW s \in Responses \cup {"none"}, TrueOf(c, s),
         Select(c, s), UNCHANGED coreVars
  PROVE  IInv'
<1> USE DEF Select, WriteHeader, coreVars
<1>1. writer' \in [Calls -> Writers \cup {NoOne}] /\ pool' \subseteq Writers
  BY DEF IInv, TypeOK, EdgeTypeOK, TakeWriter
<1>2. TypeOK'
  BY <1>1 DEF IInv, TypeOK, EdgeTypeOK, CoreTypeOK
<1>3. Progress' /\ Effects'
  BY DEF IInv, TypeOK, EdgeTypeOK, Progress, Effects
<1>4. Told'
  BY DEF IInv, TypeOK, EdgeTypeOK, Told, TrueOf, Settled
<1>5. Identified'
  BY DEF IInv, Identified, VerifiedIdentity
<1> QED
  BY <1>2, <1>3, <1>4, <1>5 DEF IInv

\* So does buffering one: what ends a call that is not yet the core service's
\* may refuse it.
LEMMA Responding ==
  ASSUME IInv, NEW c \in Calls, NEW from \in Chain \cup {"remote"}, NEW s \in Responses \cup {"none"},
         Respond(c, from, s), UNCHANGED coreVars,
         s = "OK" => effect[c],
         s \in Refusals => from \in Chain \/ (rpc[c] = "returned" /\ ~effect[c])
  PROVE  IInv'
<1> USE DEF Respond, coreVars
<1>1. TypeOK'
  BY DEF IInv, TypeOK, EdgeTypeOK, CoreTypeOK
<1>2. conn[c] # "idle" /\ inner[c] \notin {"none", "ended"}
  BY DEF IInv, Progress, Chain
<1>3. Progress' /\ Effects'
  BY <1>2 DEF IInv, TypeOK, EdgeTypeOK, Progress, Effects, Chain
<1>4. s \in Refusals => Settled(c)'
  BY <1>2 DEF IInv, TypeOK, EdgeTypeOK, Settled, Progress, Effects
<1>5. \A d \in Calls : Settled(d) => Settled(d)'
  BY DEF IInv, TypeOK, EdgeTypeOK, Settled
<1>6. Told'
  BY <1>4, <1>5 DEF IInv, TypeOK, EdgeTypeOK, Told, TrueOf
<1>7. Identified'
  BY DEF IInv, TypeOK, EdgeTypeOK, Identified, VerifiedIdentity
<1> QED
  BY <1>1, <1>3, <1>6, <1>7 DEF IInv

\* And passing the request on, from the authenticator with its identity.
LEMMA Passing ==
  ASSUME IInv, NEW c \in Calls, NEW from \in Chain, NEW to \in Chain \cup {"panicked"},
         Pass(c, from, to), UNCHANGED coreVars,
         headers' \in [Calls -> Identities],
         \A d \in Calls \ {c} : headers'[d] = headers[d],
         to \in {"endpoint", "proxy"} => headers'[c] = VerifiedIdentity(c)
  PROVE  IInv'
<1> USE DEF Pass, coreVars
<1>1. TypeOK'
  BY DEF IInv, TypeOK, EdgeTypeOK, CoreTypeOK
<1>2. conn[c] # "idle" /\ inner[c] \notin {"none", "ended"}
  BY DEF IInv, Progress, Chain
<1>3. Progress' /\ Effects'
  BY <1>2 DEF IInv, TypeOK, EdgeTypeOK, Progress, Effects, Chain
<1>4. \A d \in Calls : Settled(d) => Settled(d)'
  BY <1>2 DEF IInv, TypeOK, EdgeTypeOK, Settled
<1>5. Told'
  BY <1>4 DEF IInv, Told, TrueOf
<1>6. Identified'
  BY DEF IInv, TypeOK, EdgeTypeOK, Identified, VerifiedIdentity, Chain
<1> QED
  BY <1>1, <1>3, <1>5, <1>6 DEF IInv

\* Whom a token names is an identity.
LEMMA Names ==
  ASSUME IInv, NEW c \in Calls
  PROVE  VerifiedIdentity(c) \in Identities
  BY DEF IInv, TypeOK, EdgeTypeOK, RequestShapes, VerifiedIdentity, Identities

\* The connection's goroutine.
LEMMA ConnectionSteps ==
  ASSUME IInv, NEW c \in Calls, UNCHANGED coreVars,
         Arrive(c) \/ Tick(c) \/ OuterStep(c) \/ Disconnect(c)
  PROVE  IInv'
<1>1. CASE Arrive(c) /\ OuterAnswer(c) # "none"
  <2> USE DEF Arrive, WriteHeader, coreVars
  <2>1. /\ conn[c] = "idle" /\ inner[c] = "none" /\ rpc[c] = "none" /\ ~effect[c]
        /\ UNCHANGED <<shape, inner, headers, resp, answer, age>>
        /\ OuterAnswer(c) \in Responses \ {"OK"}
    BY <1>1 DEF IInv, Progress, Effects, OuterAnswer, Responses, HTTPErrors
  <2>2. /\ conn' = [conn EXCEPT ![c] = "writing"]
        /\ status' = [status EXCEPT ![c] = OuterAnswer(c)]
    BY <1>1
  <2>3. writer' \in [Calls -> Writers \cup {NoOne}] /\ pool' \subseteq Writers
    BY <1>1 DEF IInv, TypeOK, EdgeTypeOK, TakeWriter
  <2>4. TypeOK'
    BY <2>1, <2>2, <2>3 DEF IInv, TypeOK, EdgeTypeOK, CoreTypeOK
  <2>5. Progress' /\ Effects'
    BY <2>1, <2>2 DEF IInv, TypeOK, EdgeTypeOK, Progress, Effects
  <2>6. Settled(c)' /\ \A d \in Calls : Settled(d) => Settled(d)'
    BY <2>1, <2>2 DEF IInv, TypeOK, EdgeTypeOK, Settled
  <2>7. Told'
    BY <2>1, <2>2, <2>6 DEF IInv, TypeOK, EdgeTypeOK, Told, TrueOf
  <2>8. Identified'
    BY <2>1 DEF IInv, Identified, VerifiedIdentity
  <2> QED
    BY <2>4, <2>5, <2>7, <2>8 DEF IInv
<1>2. CASE Arrive(c) /\ OuterAnswer(c) = "none"
  <2>1. /\ conn[c] = "idle" /\ inner[c] = "none" /\ rpc[c] = "none" /\ ~effect[c]
        /\ conn' = [conn EXCEPT ![c] = "waiting"]
        /\ inner' = [inner EXCEPT ![c] = "limits"]
        /\ UNCHANGED <<shape, headers, resp, status, answer, writer, pool, age, coreVars>>
    BY <1>2 DEF Arrive, IInv, Progress, Effects
  <2>2. TypeOK'
    BY <2>1 DEF IInv, TypeOK, EdgeTypeOK, CoreTypeOK, Chain, coreVars
  <2>3. Progress' /\ Effects'
    BY <2>1 DEF IInv, TypeOK, EdgeTypeOK, Progress, Effects, Chain, coreVars
  <2>4. \A d \in Calls : Settled(d) => Settled(d)'
    BY <2>1 DEF IInv, TypeOK, EdgeTypeOK, Settled, coreVars
  <2>5. Told'
    BY <2>1, <2>4 DEF IInv, Told, TrueOf, coreVars
  <2>6. Identified'
    BY <2>1 DEF IInv, TypeOK, EdgeTypeOK, Identified, VerifiedIdentity, coreVars
  <2> QED
    BY <2>2, <2>3, <2>5, <2>6 DEF IInv
<1>3. CASE Tick(c)
  <2>1. TypeOK'
    BY <1>3 DEF Tick, IInv, TypeOK, EdgeTypeOK, CoreTypeOK, coreVars
  <2> QED
    BY <1>3, <2>1 DEF Tick, coreVars, IInv, Progress, Effects, Told, TrueOf, Settled,
                      Identified, VerifiedIdentity
<1>4. CASE InnerDone(c)
  <2>1. resp[c] \in Responses \cup {"none"} /\ TrueOf(c, resp[c])
    BY DEF IInv, TypeOK, EdgeTypeOK, Told
  <2> QED
    BY <1>4, <2>1, Selecting DEF InnerDone
<1>5. CASE Rethrow(c) \/ TimedOut(c)
  <2>1. \A s \in {"500", "503"} : s \in Responses /\ TrueOf(c, s)
    BY DEF Responses, HTTPErrors, TrueOf, Refusals
  <2> QED
    BY <1>5, <2>1, Selecting DEF Rethrow, TimedOut
<1>6. CASE EndAnswer(c)
  <2> USE <1>6 DEF EndAnswer, coreVars
  <2>1. TypeOK'
    BY DEF IInv, TypeOK, EdgeTypeOK, CoreTypeOK
  <2>2. Progress' /\ Effects'
    BY DEF IInv, TypeOK, EdgeTypeOK, Progress, Effects
  <2>3. \A d \in Calls : Settled(d) => Settled(d)'
    BY DEF IInv, TypeOK, EdgeTypeOK, Settled
  <2>4. answer'[c] \in {"cut", status[c]} /\ \A d \in Calls : d # c => answer'[d] = answer[d]
    BY DEF IInv, TypeOK, EdgeTypeOK
  <2>5. Told'
    BY <2>3, <2>4 DEF IInv, Told, TrueOf, Refusals
  <2>6. Identified'
    BY DEF IInv, Identified, VerifiedIdentity
  <2> QED
    BY <2>1, <2>2, <2>5, <2>6 DEF IInv
<1>7. CASE Disconnect(c)
  <2> USE <1>7 DEF Disconnect, coreVars
  <2>1. TypeOK'
    BY DEF IInv, TypeOK, EdgeTypeOK, CoreTypeOK
  <2>2. Progress' /\ Effects'
    BY DEF IInv, TypeOK, EdgeTypeOK, Progress, Effects
  <2>3. \A d \in Calls : Settled(d) => Settled(d)'
    BY DEF IInv, TypeOK, EdgeTypeOK, Settled
  <2>4. Told'
    BY <2>3 DEF IInv, TypeOK, EdgeTypeOK, Told, TrueOf, Refusals
  <2>5. Identified'
    BY DEF IInv, Identified, VerifiedIdentity
  <2> QED
    BY <2>1, <2>2, <2>4, <2>5 DEF IInv
<1> QED
  BY <1>1, <1>2, <1>3, <1>4, <1>5, <1>6, <1>7 DEF OuterStep

\* The inner goroutine.
LEMMA InnerSteps ==
  ASSUME IInv, NEW c \in Calls, UNCHANGED coreVars,
         ChainStep(c) \/ PanicInner(c) \/ ClientBreaks(c) \/ UpstreamLost(c) \/ CallCancelled(c)
  PROVE  IInv'
<1> USE DEF Chain
<1>1. /\ {"401", "403", "415", "429", "Unimplemented", "Unavailable", "Internal", "Canceled"} \subseteq Responses
      /\ {"Unavailable", "Internal", "Canceled"} \cap Refusals = {}
  BY DEF Responses, HTTPErrors, Codes, Refusals
<1>2. headers \in [Calls -> Identities]
  BY DEF IInv, TypeOK, EdgeTypeOK
<1>3. inner[c] \in {"endpoint", "proxy"} => headers[c] = VerifiedIdentity(c)
  BY DEF IInv, Identified
<1>4. CASE Limits(c)
  BY <1>1, <1>2, <1>4, Passing, Responding DEF Limits
<1>5. CASE CSRF(c)
  BY <1>1, <1>2, <1>5, Passing, Responding DEF CSRF
<1>6. CASE Pass(c, "auth", "endpoint") /\ headers' = [headers EXCEPT ![c] = VerifiedIdentity(c)]
  <2>1. /\ headers' \in [Calls -> Identities] /\ headers'[c] = VerifiedIdentity(c)
        /\ \A d \in Calls \ {c} : headers'[d] = headers[d]
    BY <1>2, <1>6, Names
  <2> QED
    BY <1>6, <2>1, Passing
<1>7. CASE Respond(c, "auth", "401")
  BY <1>1, <1>7, Responding
<1>8. CASE PerEndpoint(c)
  <2>1. CASE Pass(c, "endpoint", "proxy") /\ UNCHANGED headers
    BY <1>2, <1>3, <2>1, Passing DEF Pass
  <2>2. CASE Respond(c, "endpoint", "429")
    BY <1>1, <2>2, Responding
  <2> QED
    BY <1>8, <2>1, <2>2 DEF PerEndpoint
<1>9. CASE ProxyRefuses(c)
  BY <1>1, <1>9, Responding DEF ProxyRefuses
<1>10. CASE PanicInner(c)
  BY <1>2, <1>10, Passing DEF PanicInner
<1>11. CASE ClientBreaks(c) \/ UpstreamLost(c) \/ CallCancelled(c)
  BY <1>1, <1>11, Responding DEF ClientBreaks, UpstreamLost, CallCancelled
<1> QED
  BY <1>4, <1>5, <1>6, <1>7, <1>8, <1>9, <1>10, <1>11 DEF ChainStep, Authenticate

-----------------------------------------------------------------------------
(* The steps both services take part in, and the core service's *)

\* The proxy hands the request over with the identity in its headers.
LEMMA Starting ==
  ASSUME IInv, NEW c \in Calls, StartCall(c)
  PROVE  IInv'
<1> DEFINE m == [pkg |-> shape[c].pkg, rpc |-> shape[c].rpc, body |-> shape[c].body]
<1>1. m \in Method
  BY DEF IInv, TypeOK, EdgeTypeOK, RequestShapes, Method
<1>2. /\ direct(c) \in [who : Principals \cup {NoOne}, id : {"client", "none"}]
      /\ direct(c).who = VerifiedIdentity(c)
  BY DEF StartCall, ProxyCalls, Pass, direct, IInv, TypeOK, EdgeTypeOK, Identified, Identities
<1>3. /\ inner[c] = "proxy" /\ inner' = [inner EXCEPT ![c] = "remote"]
      /\ rpc[c] = "none" /\ rpc' = [rpc EXCEPT ![c] = "received"]
      /\ meta' = [meta EXCEPT ![c] = direct(c)]
      /\ method' = [method EXCEPT ![c] = m]
      /\ UNCHANGED <<shape, conn, headers, resp, status, answer, writer, pool, age>>
      /\ UNCHANGED <<policies, principal, coreId, result, effect>>
  BY DEF StartCall, ProxyCalls, Pass, Receive
<1> HIDE DEF m
<1>4. TypeOK'
  BY <1>1, <1>2, <1>3 DEF IInv, TypeOK, EdgeTypeOK, CoreTypeOK
<1>5. Progress' /\ Effects'
  BY <1>3 DEF IInv, TypeOK, EdgeTypeOK, CoreTypeOK, Progress, Effects, Chain
<1>6. \A d \in Calls : Settled(d) => Settled(d)'
  BY <1>3 DEF IInv, TypeOK, EdgeTypeOK, CoreTypeOK, Settled
<1>7. Told'
  BY <1>3, <1>6 DEF IInv, Told, TrueOf
<1>8. Identified'
  BY <1>2, <1>3 DEF IInv, TypeOK, EdgeTypeOK, CoreTypeOK, Identified, VerifiedIdentity
<1> QED
  BY <1>4, <1>5, <1>7, <1>8 DEF IInv

\* The gateway takes the core service's status for the call's.
LEMMA Finishing ==
  ASSUME IInv, NEW c \in Calls, FinishCall(c)
  PROVE  IInv'
<1>1. result[c] \in Responses \cup {"none"}
  BY CodeFacts DEF IInv, TypeOK, CoreTypeOK, Responses
<1>2. /\ rpc[c] = "returned" /\ result[c] = "OK" => effect[c]
      /\ result[c] \in Refusals => ~effect[c]
  BY DEF FinishCall, IInv, Effects
<1> QED
  BY <1>1, <1>2, Responding DEF FinishCall, RelayStatus

\* A handler that returns says nothing false.
LEMMA Returning ==
  ASSUME IInv, NEW c \in Calls, NEW code \in CoreCodes, Return(c, code), UNCHANGED edgeVars,
         rpc[c] \notin {"none", "returned"},
         code = "OK" => effect[c], code \in Refusals => ~effect[c],
         UNCHANGED <<policies, meta, method, effect>>,
         principal' \in [Calls -> Principals \cup {NoOne}],
         \A d \in Calls : principal'[d] \in {principal[d], NoOne, VerifiedIdentity(d)},
         coreId' \in [Calls -> {"none", "client", "core"}]
  PROVE  IInv'
<1> USE DEF Return, edgeVars
<1>1. TypeOK'
  BY DEF IInv, TypeOK, EdgeTypeOK, CoreTypeOK
<1>2. Progress' /\ Effects'
  BY DEF IInv, TypeOK, CoreTypeOK, Progress, Effects
<1>3. \A d \in Calls : Settled(d) => Settled(d)'
  BY DEF IInv, TypeOK, CoreTypeOK, Settled
<1>4. Told'
  BY <1>3 DEF IInv, Told, TrueOf
<1>5. Identified'
  BY DEF IInv, TypeOK, CoreTypeOK, Identified, VerifiedIdentity
<1> QED
  BY <1>1, <1>2, <1>4, <1>5 DEF IInv

\* One that goes on has answered nothing yet.
LEMMA GoingOn ==
  ASSUME IInv, NEW c \in Calls, NEW pc \in {"guarded", "running", "committed"},
         rpc[c] \in {"received", "guarded", "running"},
         rpc' = [rpc EXCEPT ![c] = pc], UNCHANGED edgeVars,
         effect' = [effect EXCEPT ![c] = (pc = "committed")],
         UNCHANGED <<policies, meta, method, result>>,
         principal' \in [Calls -> Principals \cup {NoOne}],
         \A d \in Calls : principal'[d] \in {principal[d], NoOne, VerifiedIdentity(d)},
         coreId' \in [Calls -> {"none", "client", "core"}]
  PROVE  IInv'
<1> USE DEF edgeVars
<1>1. TypeOK'
  BY DEF IInv, TypeOK, EdgeTypeOK, CoreTypeOK
<1>2. inner[c] \notin {"none", "panicked"} \cup Chain /\ ~effect[c] /\ ~Settled(c)
  BY DEF IInv, Progress, Effects, Settled
<1>3. Progress' /\ Effects'
  BY <1>2 DEF IInv, TypeOK, CoreTypeOK, Progress, Effects
<1>4. \A d \in Calls : /\ Settled(d) => Settled(d)'
                       /\ effect[d] => effect'[d]
  BY <1>2 DEF IInv, TypeOK, CoreTypeOK, Settled
<1>5. Told'
  BY <1>4 DEF IInv, Told, TrueOf
<1>6. Identified'
  BY DEF IInv, TypeOK, CoreTypeOK, Identified, VerifiedIdentity
<1> QED
  BY <1>1, <1>3, <1>5, <1>6 DEF IInv

\* The core service's steps preserve the invariant.
LEMMA CoreSteps ==
  ASSUME IInv, NEW c \in Calls, CoreStep(c), UNCHANGED edgeVars
  PROVE  IInv'
<1>1. /\ principal \in [Calls -> Principals \cup {NoOne}]
      /\ coreId \in [Calls -> {"none", "client", "core"}]
      /\ effect \in [Calls -> BOOLEAN]
      /\ meta[c].who \in Principals \cup {NoOne} /\ meta[c].id \in {"client", "none"}
  BY DEF IInv, TypeOK, CoreTypeOK
<1>2. {"OK", "Unimplemented", "Internal"} \subseteq CoreCodes /\ {"OK", "Internal"} \cap Refusals = {}
  BY DEF CoreCodes, Kinds, toGRPCCode, Refusals
<1>3. /\ rpc[c] \in {"received", "guarded", "running"} => ~effect[c]
      /\ rpc[c] = "committed" => effect[c]
      /\ rpc[c] # "none" => meta[c].who = VerifiedIdentity(c)
  BY DEF IInv, Effects, Identified
<1>4. ASSUME NEW kind \in Kinds
      PROVE  toGRPCCode(kind) \in CoreCodes /\ toGRPCCode(kind) # "OK"
  BY CodeFacts
<1>5. CASE Reject(c)
  BY <1>1, <1>2, <1>3, <1>5, Returning DEF Reject
<1>6. CASE Intercept(c)
  <2>1. coreId' \in [Calls -> {"none", "client", "core"}] /\ rpc[c] = "received"
    BY <1>1, <1>6 DEF Intercept, RequestId
  <2>2. CASE FailWith(c, "InvalidInput") /\ UNCHANGED principal
    <3>1. "InvalidInput" \in Kinds
      BY DEF Kinds
    <3> QED
      BY <1>1, <1>3, <1>4, <1>6, <2>1, <2>2, <3>1, Returning DEF Intercept, FailWith
  <2>3. CASE /\ rpc' = [rpc EXCEPT ![c] = "guarded"]
             /\ principal' = [principal EXCEPT ![c] = PrincipalFromMetadata(c)]
             /\ UNCHANGED result
    <3>1. /\ principal' \in [Calls -> Principals \cup {NoOne}]
          /\ \A d \in Calls : principal'[d] \in {principal[d], NoOne, VerifiedIdentity(d)}
      BY <1>1, <1>3, <2>1, <2>3 DEF PrincipalFromMetadata
    <3>2. effect' = [effect EXCEPT ![c] = ("guarded" = "committed")]
      BY <1>1, <1>3, <1>6, <2>1 DEF Intercept
    <3> QED
      BY <1>6, <2>1, <2>3, <3>1, <3>2, GoingOn DEF Intercept
  <2> QED
    BY <1>6, <2>2, <2>3 DEF Intercept
<1>7. CASE Guard(c)
  <2>1. CASE GuardError(c) # "none" /\ FailWith(c, GuardError(c))
    <3>1. GuardError(c) \in Kinds
      BY <2>1, GuardErrors
    <3> QED
      BY <1>1, <1>3, <1>4, <1>7, <2>1, <3>1, Returning DEF Guard, FailWith
  <2>2. CASE rpc' = [rpc EXCEPT ![c] = "running"] /\ UNCHANGED result
    <3>1. effect' = [effect EXCEPT ![c] = ("running" = "committed")]
      BY <1>1, <1>3, <1>7 DEF Guard
    <3> QED
      BY <1>1, <1>7, <2>2, <3>1, GoingOn DEF Guard
  <2> QED
    BY <1>7, <2>1, <2>2 DEF Guard
<1>8. CASE Commit(c)
  <2>1. effect' = [effect EXCEPT ![c] = ("committed" = "committed")]
    BY <1>8 DEF Commit
  <2> QED
    BY <1>1, <1>8, <2>1, GoingOn DEF Commit
<1>9. CASE Succeed(c)
  BY <1>1, <1>2, <1>3, <1>9, Returning DEF Succeed
<1>10. CASE FailBefore(c)
  <2>1. PICK kind \in Kinds : FailWith(c, kind)
    BY <1>10, CodeFacts DEF FailBefore
  <2> QED
    BY <1>1, <1>3, <1>4, <1>10, <2>1, Returning DEF FailBefore, FailWith
<1>11. CASE FailAfter(c)
  BY <1>1, <1>2, <1>11, CodeFacts, Returning DEF FailAfter, FailWith
<1>12. CASE PanicRun(c)
  BY <1>1, <1>2, <1>12, Returning DEF PanicRun
<1> QED
  BY <1>5, <1>6, <1>7, <1>8, <1>9, <1>10, <1>11, <1>12 DEF CoreStep

-----------------------------------------------------------------------------
(* The theorems *)

\* Every step preserves the inductive invariant.
LEMMA Inductive == IInv /\ [Next]_vars => IInv'
<1> SUFFICES ASSUME IInv, [Next]_vars PROVE IInv'
  OBVIOUS
<1>1. ASSUME NEW c \in Calls, Step(c) PROVE IInv'
  <2>1. CASE EdgeOnly(Arrive(c)) \/ EdgeOnly(Tick(c)) \/ EdgeOnly(OuterStep(c))
    BY <2>1, ConnectionSteps DEF EdgeOnly
  <2>2. CASE EdgeOnly(ChainStep(c)) \/ EdgeOnly(CallCancelled(c))
    BY <2>2, InnerSteps DEF EdgeOnly
  <2>3. CASE EdgeOnly(EdgeFault(c))
    BY <2>3, ConnectionSteps, InnerSteps DEF EdgeOnly, EdgeFault
  <2>4. CASE StartCall(c) \/ FinishCall(c)
    BY <2>4, Starting, Finishing
  <2>5. CASE CoreOnly(CoreStep(c))
    BY <2>5, CoreSteps DEF CoreOnly
  <2> QED
    BY <1>1, <2>1, <2>2, <2>3, <2>4, <2>5 DEF Step
<1>2. CASE UNCHANGED vars
  BY <1>2 DEF vars, edgeVars, coreVars, IInv, TypeOK, EdgeTypeOK, CoreTypeOK, Progress,
              Effects, Told, TrueOf, Settled, Identified, VerifiedIdentity
<1> QED
  BY <1>1, <1>2 DEF Next

\* The inductive invariant holds in every reachable state.
THEOREM Invariance == Spec => []IInv
  BY Initial, Inductive, PTL DEF Spec

\* The variables of both services keep their types.
THEOREM TypeCorrect == Spec => []TypeOK
<1>1. IInv => TypeOK
  BY DEF IInv
<1> QED
  BY <1>1, Invariance, PTL

\* The core service acts for the owner of a token the gateway verified, or for
\* nobody, whatever headers clients send (Authenticator.Middleware, direct,
\* withPrincipalFromMetadata).
THEOREM TokenOwner == Spec => []ActsAsTokenOwner
<1>1. IInv => ActsAsTokenOwner
  BY DEF IInv, Identified, ActsAsTokenOwner, VerifiedIdentity
<1> QED
  BY <1>1, Invariance, PTL

\* No gzip writer serves two responses, or one while it is pooled
\* (gzipResponseWriter.WriteHeader and close).
THEOREM WritersKept == Spec => []WritersUnshared
<1>1. Init => WritersUnshared
  BY DEF Init, EdgeInit, WritersUnshared
<1>2. ASSUME TypeOK, WritersUnshared, NEW c \in Calls, NEW s, TakeWriter(c, s)
      PROVE  WritersUnshared'
  BY <1>2 DEF TypeOK, EdgeTypeOK, WritersUnshared, TakeWriter
<1>3. ASSUME TypeOK, WritersUnshared, NEW c \in Calls, EndAnswer(c)
      PROVE  WritersUnshared'
  BY <1>3 DEF TypeOK, EdgeTypeOK, WritersUnshared, EndAnswer
<1>4. ASSUME WritersUnshared, UNCHANGED <<writer, pool>>
      PROVE  WritersUnshared'
  BY <1>4 DEF WritersUnshared
<1>5. TypeOK /\ WritersUnshared /\ [Next]_vars => WritersUnshared'
  <2> SUFFICES ASSUME TypeOK, WritersUnshared, [Next]_vars PROVE WritersUnshared'
    OBVIOUS
  <2>1. ASSUME NEW c \in Calls, Arrive(c) \/ Tick(c) \/ OuterStep(c) PROVE WritersUnshared'
    BY <1>2, <1>3, <1>4, <2>1
       DEF Arrive, Tick, OuterStep, InnerDone, Rethrow, TimedOut, Select, WriteHeader
  <2>2. ASSUME NEW c \in Calls, ChainStep(c) \/ EdgeFault(c) \/ CallCancelled(c)
        PROVE  UNCHANGED <<writer, pool>>
    BY <2>2 DEF ChainStep, Limits, CSRF, Authenticate, PerEndpoint, ProxyRefuses, EdgeFault,
                Disconnect, PanicInner, ClientBreaks, UpstreamLost, CallCancelled, Pass, Respond
  <2>3. ASSUME NEW c \in Calls, StartCall(c) \/ FinishCall(c) \/ UNCHANGED edgeVars
        PROVE  UNCHANGED <<writer, pool>>
    BY <2>3 DEF StartCall, ProxyCalls, FinishCall, RelayStatus, Pass, Respond, edgeVars
  <2>4. CASE UNCHANGED vars
    BY <1>4, <2>4 DEF vars, edgeVars
  <2> QED
    BY <1>4, <2>1, <2>2, <2>3, <2>4 DEF Next, Step, EdgeOnly, CoreOnly
<1> QED
  BY <1>1, <1>5, TypeCorrect, PTL DEF Spec

-----------------------------------------------------------------------------
(* The policies *)

\* A set of natural numbers has a least element.
LEMMA NatLeast == \A T \in SUBSET Nat : T # {} => \E m \in T : \A n \in T : m <= n
<1> SUFFICES ASSUME NEW T \in SUBSET Nat, T # {} PROVE \E m \in T : \A n \in T : m <= n
  OBVIOUS
<1> DEFINE R == OpToRel(<, Nat)
<1>0. IsWellFoundedOn(R, Nat)
  BY NatLessThanWellFounded
<1>1. \A a, b \in Nat : <<a, b>> \in R <=> a < b
  BY DEF OpToRel
<1> HIDE DEF R
<1>2. \E x \in T : \A y \in T : ~ (<<y, x>> \in R)
  BY <1>0, WFMin
<1>3. PICK x \in T : \A y \in T : ~ (<<y, x>> \in R)
  BY <1>2
<1>4. \A n \in T : x \in Nat /\ n \in Nat /\ ~(n < x)
  BY <1>1, <1>3
<1> QED
  BY <1>4

\* What the first i rules come to.
After(rules, who, i) ==
  IF \E j \in 1..i : Matches(rules[j], who) /\ rules[j].effect = "deny" THEN "denied"
  ELSE IF \E j \in 1..i : Matches(rules[j], who) THEN "allowed" ELSE "nothing"

\* One turn of the loop.
Turned(rules, who, f) ==
  [i \in 0..Len(rules) |->
        IF i = 0 THEN "nothing"
        ELSE IF f[i - 1] = "denied" \/ ~Matches(rules[i], who) THEN f[i - 1]
        ELSE IF rules[i].effect = "deny" THEN "denied" ELSE "allowed"]

\* The scan of Decide finds out whether some matching rule allows and none
\* denies, in whatever order they stand.
LEMMA DecideMeans ==
  ASSUME NEW rules \in Seq(Policies), NEW who, Decide(rules, who)
  PROVE  LET matching == {i \in DOMAIN rules : Matches(rules[i], who)} IN
         /\ \E i \in matching : rules[i].effect = "allow"
         /\ \A i \in matching : rules[i].effect # "deny"
<1> DEFINE n == Len(rules)
           closed == [i \in 0..n |-> After(rules, who, i)]
           after == CHOOSE f : f = Turned(rules, who, f)
<1>1. n \in Nat
  OBVIOUS
<1>2. After(rules, who, 0) = "nothing"
  BY DEF After
<1>3. ASSUME NEW i \in 1..n
      PROVE  After(rules, who, i) =
               IF After(rules, who, i - 1) = "denied" \/ ~Matches(rules[i], who)
               THEN After(rules, who, i - 1)
               ELSE IF rules[i].effect = "deny" THEN "denied" ELSE "allowed"
  <2>1. \A j : j \in 1..i <=> j \in 1..(i - 1) \/ j = i
    BY <1>1
  <2> QED
    BY <2>1 DEF After
<1>4. closed = Turned(rules, who, closed)
  <2>1. \A i \in 0..n : i # 0 => i \in 1..n /\ i - 1 \in 0..n
    BY <1>1
  <2> QED
    BY <1>2, <1>3, <2>1 DEF Turned
<1>5. after = Turned(rules, who, after)
  <2> HIDE DEF closed
  <2> QED
    BY <1>4, Zenon
<1>6. Decide(rules, who) = (after[n] = "allowed")
  BY DEF Decide, Turned
<1> HIDE DEF after, closed
<1>7. \A i \in 0..n : after[i] = After(rules, who, i)
  <2> SUFFICES ASSUME NEW k \in 0..n, after[k] # After(rules, who, k) PROVE FALSE
    OBVIOUS
  <2> DEFINE T == {i \in 0..n : after[i] # After(rules, who, i)}
  <2>1. PICK i \in T : \A j \in T : i <= j
    <3>1. T \in SUBSET Nat /\ T # {}
      BY <1>1
    <3> HIDE DEF T
    <3> QED
      BY <3>1, NatLeast
  <2>2. i \in 0..n /\ after[i] # After(rules, who, i)
    BY <2>1
  <2>3. i # 0
    BY <1>2, <1>5, <2>2 DEF Turned
  <2>4. i \in 1..n /\ i - 1 \in 0..n /\ i - 1 < i
    BY <1>1, <2>2, <2>3
  <2>5. after[i - 1] = After(rules, who, i - 1)
    BY <2>1, <2>4
  <2>6. after[i] = IF after[i - 1] = "denied" \/ ~Matches(rules[i], who) THEN after[i - 1]
                   ELSE IF rules[i].effect = "deny" THEN "denied" ELSE "allowed"
    BY <1>5, <2>2, <2>3 DEF Turned
  <2> QED
    BY <1>3, <2>2, <2>4, <2>5, <2>6
<1>8. After(rules, who, n) = "allowed"
  <2>1. n \in 0..n
    BY <1>1
  <2>2. after[n] = "allowed"
    BY <1>6
  <2> QED
    BY <1>7, <2>1, <2>2
<1>9. /\ \E i \in 1..n : Matches(rules[i], who)
      /\ \A i \in 1..n : Matches(rules[i], who) => rules[i].effect # "deny"
  BY <1>8 DEF After
<1>10. \A i \in 1..n : rules[i].effect \in {"allow", "deny"}
  <2>1. \A i \in 1..n : rules[i] \in Policies
    OBVIOUS
  <2> QED
    BY <2>1 DEF Policies
<1> QED
  BY <1>9, <1>10

\* A handler runs for a registered method, and an update only with the
\* policies' consent, also after it has returned.
Permitted == \A c \in Calls :
  /\ rpc[c] \in {"guarded", "running", "committed"} => Registered(method[c])
  /\ rpc[c] \in {"running", "committed"} \/ effect[c] =>
       (method[c].rpc = "UpdateNote" => Decide(policies, principal[c]))

\* Neither service's steps touch what Permitted is about, but for these.
LEMMA PermittedStep ==
  ASSUME IInv, Permitted, NEW c \in Calls, StartCall(c) \/ CoreStep(c)
  PROVE  Permitted'
<1>1. /\ rpc \in [Calls -> {"none", "received", "guarded", "running", "committed", "returned"}]
      /\ effect \in [Calls -> BOOLEAN]
      /\ DOMAIN principal = Calls /\ DOMAIN method = Calls
  BY DEF IInv, TypeOK, CoreTypeOK
<1>2. \A d \in Calls : effect[d] => rpc[d] \in {"committed", "returned"}
  BY <1>1 DEF IInv, Effects
<1>3. UNCHANGED policies
  BY DEF StartCall, Receive, CoreStep, Reject, Intercept, Guard, Commit, Succeed, FailBefore,
         FailAfter, PanicRun
<1>4. ASSUME NEW d \in Calls, d # c
      PROVE  /\ rpc'[d] = rpc[d] /\ effect'[d] = effect[d]
             /\ principal'[d] = principal[d] /\ method'[d] = method[d]
  BY <1>1, <1>4 DEF StartCall, Receive, CoreStep, Reject, Intercept, Guard, Commit, Succeed,
         FailBefore, FailAfter, PanicRun, FailWith, Return
<1> SUFFICES /\ rpc'[c] \in {"guarded", "running", "committed"} => Registered(method'[c])
             /\ rpc'[c] \in {"running", "committed"} \/ effect'[c] =>
                  (method'[c].rpc = "UpdateNote" => Decide(policies, principal'[c]))
  BY <1>3, <1>4 DEF Permitted
<1>5. CASE StartCall(c)
  <2>1. rpc[c] = "none" /\ rpc'[c] = "received" /\ effect'[c] = effect[c]
    BY <1>1, <1>5 DEF StartCall, Receive
  <2> QED
    BY <1>2, <2>1
<1>6. CASE Intercept(c)
  <2>1. /\ rpc[c] = "received" /\ Registered(method[c]) /\ rpc'[c] \in {"guarded", "returned"}
        /\ effect'[c] = effect[c] /\ method'[c] = method[c]
    BY <1>1, <1>6 DEF Intercept, FailWith, Return
  <2> QED
    BY <1>2, <2>1
<1>7. CASE Guard(c)
  <2>1. /\ rpc[c] = "guarded" /\ effect'[c] = effect[c]
        /\ method'[c] = method[c] /\ principal'[c] = principal[c]
        /\ \/ rpc'[c] = "returned"
           \/ rpc'[c] = "running" /\ GuardError(c) = "none"
    BY <1>1, <1>7 DEF Guard, FailWith, Return
  <2>2. Registered(method[c])
    BY <2>1 DEF Permitted
  <2>3. method[c].rpc = "UpdateNote" => method[c].pkg = "example"
    BY <2>2 DEF Registered, IdentityMethods, AuthzMethods, AuditMethods
  <2>4. method[c].rpc = "UpdateNote" /\ GuardError(c) = "none" => Decide(policies, principal[c])
    BY <2>3 DEF GuardError, ExampleGuard, requirePrincipal
  <2> QED
    BY <1>2, <2>1, <2>2, <2>4
<1>8. CASE Commit(c)
  <2>1. /\ rpc[c] = "running" /\ method'[c] = method[c] /\ principal'[c] = principal[c]
    BY <1>8 DEF Commit
  <2> QED
    BY <2>1 DEF Permitted
<1>9. CASE Reject(c) \/ Succeed(c) \/ FailBefore(c) \/ FailAfter(c) \/ PanicRun(c)
  <2>1. /\ rpc'[c] = "returned" /\ effect'[c] = effect[c]
        /\ method'[c] = method[c] /\ principal'[c] = principal[c]
    BY <1>1, <1>9 DEF Reject, Succeed, FailBefore, FailAfter, PanicRun, FailWith, Return
  <2> QED
    BY <2>1 DEF Permitted
<1> QED
  BY <1>5, <1>6, <1>7, <1>8, <1>9 DEF CoreStep

\* No note is updated against a rule that denies it, or without one that
\* allows it, whatever the order and the number of the rules (Decide).
THEOREM DenyOverridesHolds == Spec => []DenyOverrides
<1>1. Init => Permitted
  BY DEF Init, CoreInit, Permitted
<1>2. IInv /\ Permitted /\ [Next]_vars => Permitted'
  <2> SUFFICES ASSUME IInv, Permitted, [Next]_vars PROVE Permitted'
    OBVIOUS
  <2>1. CASE UNCHANGED coreVars
    BY <2>1 DEF coreVars, Permitted
  <2>2. ASSUME NEW c \in Calls, Step(c), ~StartCall(c), ~CoreStep(c) PROVE UNCHANGED coreVars
    BY <2>2 DEF Step, EdgeOnly, CoreOnly, FinishCall
  <2> QED
    BY <2>1, <2>2, PermittedStep DEF Next, vars
<1>3. IInv /\ Permitted => DenyOverrides
  <2> SUFFICES ASSUME IInv, Permitted, NEW c \in Calls, effect[c], method[c].rpc = "UpdateNote"
               PROVE  LET matching == {i \in DOMAIN policies : Matches(policies[i], principal[c])} IN
                      /\ \E i \in matching : policies[i].effect = "allow"
                      /\ \A i \in matching : policies[i].effect # "deny"
    BY DEF DenyOverrides
  <2>1. policies \in Seq(Policies)
    BY CoreAssumption DEF IInv, TypeOK, CoreTypeOK
  <2>2. Decide(policies, principal[c])
    BY DEF Permitted
  <2> QED
    BY <2>1, <2>2, DecideMeans
<1> QED
  BY <1>1, <1>2, <1>3, Invariance, PTL DEF Spec

-----------------------------------------------------------------------------
(* The contract *)

\* An answer is given once, and is true of the call.
LEMMA Answering ==
  ASSUME IInv, NEW c \in Calls, EndAnswer(c) \/ Disconnect(c), UNCHANGED coreVars
  PROVE  [Contract!Next]_(Contract!contractVars)
<1> DEFINE verdict == [d \in Calls |-> Verdict(answer[d])]
           v == Verdict(answer'[c])
<1>1. /\ answer[c] = "none" /\ answer \in [Calls -> Responses \cup {"none", "cut", "gone"}]
      /\ TrueOf(c, status[c])
  BY DEF EndAnswer, Disconnect, IInv, TypeOK, EdgeTypeOK, Progress, Told
<1>2. /\ answer'[c] \in {"cut", "gone", status[c]}
      /\ answer' = [answer EXCEPT ![c] = answer'[c]]
      /\ UNCHANGED effect
  BY <1>1 DEF EndAnswer, Disconnect, coreVars
<1>3. v \in {"none", "ok", "refused", "unknown"}
  BY DEF Verdict
<1>4. /\ v = "ok" => effect[c]
      /\ v = "refused" => ~effect[c]
  BY <1>1, <1>2 DEF Verdict, TrueOf, Settled, Refusals
<1>5. verdict[c] = "none" /\ verdict' = [verdict EXCEPT ![c] = v]
  BY <1>1, <1>2 DEF Verdict
<1> HIDE DEF v
<1>6. CASE v = "none"
  <2>1. verdict' = verdict
    BY <1>5, <1>6
  <2> QED
    BY <1>2, <2>1 DEF Contract!contractVars
<1>7. CASE v # "none"
  <2>1. Contract!Answer(c, v)
    BY <1>2, <1>4, <1>5 DEF Contract!Answer
  <2> QED
    BY <1>3, <1>7, <2>1 DEF Contract!Next
<1> QED
  BY <1>6, <1>7

\* Every step is a step of the contract or leaves effects and answers alone.
LEMMA ContractStep == IInv /\ [Next]_vars => [Contract!Next]_(Contract!contractVars)
<1> SUFFICES ASSUME IInv, [Next]_vars PROVE [Contract!Next]_(Contract!contractVars)
  OBVIOUS
<1>1. ASSUME UNCHANGED <<effect, answer>> PROVE UNCHANGED Contract!contractVars
  BY <1>1 DEF Contract!contractVars
<1>2. ASSUME NEW c \in Calls, Commit(c), UNCHANGED edgeVars PROVE Contract!Next
  <2>1. rpc[c] = "running" /\ ~effect[c] /\ TrueOf(c, answer[c])
    BY <1>2 DEF Commit, IInv, Effects, Told
  <2>2. Verdict(answer[c]) # "refused"
    BY <2>1 DEF Verdict, TrueOf, Settled
  <2>3. Contract!TakeEffect(c)
    BY <1>2, <2>1, <2>2 DEF Commit, edgeVars, Contract!TakeEffect
  <2> QED
    BY <2>3 DEF Contract!Next
<1>3. ASSUME NEW c \in Calls, CoreStep(c), UNCHANGED edgeVars, ~Commit(c)
      PROVE  UNCHANGED <<effect, answer>>
  BY <1>3 DEF CoreStep, Reject, Intercept, Guard, Succeed, FailBefore, FailAfter, PanicRun, edgeVars
<1>4. ASSUME NEW c \in Calls, EdgeOnly(OuterStep(c)), ~EndAnswer(c)
      PROVE  UNCHANGED <<effect, answer>>
  BY <1>4 DEF EdgeOnly, OuterStep, InnerDone, Rethrow, TimedOut, Select, WriteHeader, coreVars
<1>5. ASSUME NEW c \in Calls, EdgeOnly(Arrive(c)) \/ EdgeOnly(Tick(c)) \/ EdgeOnly(ChainStep(c))
                              \/ EdgeOnly(CallCancelled(c))
      PROVE  UNCHANGED <<effect, answer>>
  BY <1>5 DEF EdgeOnly, Arrive, Tick, WriteHeader, ChainStep, Limits, CSRF, Authenticate,
              PerEndpoint, ProxyRefuses, CallCancelled, Pass, Respond, coreVars
<1>6. ASSUME NEW c \in Calls, EdgeOnly(EdgeFault(c)), ~Disconnect(c)
      PROVE  UNCHANGED <<effect, answer>>
  BY <1>6 DEF EdgeOnly, EdgeFault, PanicInner, ClientBreaks, UpstreamLost, Pass, Respond, coreVars
<1>7. ASSUME NEW c \in Calls, StartCall(c) \/ FinishCall(c)
      PROVE  UNCHANGED <<effect, answer>>
  BY <1>7 DEF StartCall, ProxyCalls, Receive, FinishCall, RelayStatus, Pass, Respond, coreVars
<1>8. ASSUME NEW c \in Calls, Step(c) PROVE [Contract!Next]_(Contract!contractVars)
  <2>1. CASE EdgeOnly(EndAnswer(c)) \/ EdgeOnly(Disconnect(c))
    BY <2>1, Answering DEF EdgeOnly
  <2>2. CASE CoreOnly(Commit(c))
    BY <1>2, <2>2 DEF CoreOnly
  <2>3. CASE /\ ~EdgeOnly(EndAnswer(c)) /\ ~EdgeOnly(Disconnect(c)) /\ ~CoreOnly(Commit(c))
    BY <1>1, <1>3, <1>4, <1>5, <1>6, <1>7, <1>8, <2>3 DEF Step, EdgeOnly, CoreOnly
  <2> QED
    BY <2>1, <2>2, <2>3
<1>9. CASE UNCHANGED vars
  BY <1>1, <1>9 DEF vars, edgeVars, coreVars
<1> QED
  BY <1>8, <1>9 DEF Next

\* The request path implements the contract, for any calls and timeouts: no
\* answer that refuses a call is preceded or followed by its effect, and none
\* that reports success comes without it (TimeoutHandler, transparentHandler,
\* classify, toGRPCCode).
THEOREM ContractKept == Spec => KeepsContract
<1>1. Init => Contract!Init
  BY DEF Init, EdgeInit, CoreInit, Verdict, Contract!Init
<1> QED
  BY <1>1, ContractStep, Invariance, PTL DEF Spec, KeepsContract, Contract!Spec
=============================================================================
