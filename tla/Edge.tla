-------------------------------- MODULE Edge --------------------------------
(***************************************************************************)
(* gateway/internal/edge: the middleware chain of BuildHandler around the  *)
(* gRPC-Web bridge, in production mode.                                    *)
(*                                                                         *)
(* http.TimeoutHandler splits a request in two: the connection's goroutine *)
(* waits (conn) while another runs the rest of the chain (inner) into a    *)
(* buffer (resp).  What the client gets is what the waiting goroutine      *)
(* picks; the inner one may still be running by then.                      *)
(***************************************************************************)
EXTENDS Requests, FiniteSets

CONSTANTS
  Shapes,          \* the requests each call may be
  Writers,         \* gzip writers
  HandlerTimeout,  \* Server.HandlerTimeout, in ticks
  WriteTimeout     \* Server.WriteTimeout, from the same moment, in ticks

ASSUME EdgeAssumption ==
  /\ Shapes \in [Calls -> SUBSET RequestShapes]
  /\ NoOne \notin Writers
  /\ Cardinality(Writers) >= Cardinality(Calls)
  /\ HandlerTimeout \in Nat /\ WriteTimeout \in Nat

VARIABLES
  shape,    \* the request
  conn,     \* the connection's goroutine: "idle", "waiting", "writing", "done"
  inner,    \* the middleware the inner goroutine is about to run
  headers,  \* the identity in the request's headers
  resp,     \* the inner goroutine's buffered response
  status,   \* the response picked for the client
  answer,   \* what the client got
  writer,   \* the gzip writer of the response
  pool,     \* gzipWriterPool
  age       \* ticks since the request's headers were read

edgeVars == <<shape, conn, inner, headers, resp, status, answer, writer, pool, age>>

Chain == {"limits", "csrf", "auth", "endpoint", "proxy"}

HTTPErrors == {"204", "301", "308", "401", "403", "415", "429", "500", "503"}
Responses == HTTPErrors \cup Codes

EdgeTypeOK ==
  /\ shape \in [Calls -> RequestShapes]
  /\ conn \in [Calls -> {"idle", "waiting", "writing", "done"}]
  /\ inner \in [Calls -> {"none", "remote", "ended", "panicked"} \cup Chain]
  /\ headers \in [Calls -> Identities]
  /\ resp \in [Calls -> Responses \cup {"none"}]
  /\ status \in [Calls -> Responses \cup {"none"}]
  /\ answer \in [Calls -> Responses \cup {"none", "cut", "gone"}]
  /\ writer \in [Calls -> Writers \cup {NoOne}]
  /\ pool \subseteq Writers
  /\ age \in [Calls -> Nat]

EdgeInit ==
  /\ shape \in {s \in [Calls -> UNION {Shapes[c] : c \in Calls}] :
                  \A c \in Calls : s[c] \in Shapes[c]}
  /\ conn = [c \in Calls |-> "idle"]
  /\ inner = [c \in Calls |-> "none"]
  /\ headers = [c \in Calls |-> shape[c].spoof]
  /\ resp = [c \in Calls |-> "none"]
  /\ status = [c \in Calls |-> "none"]
  /\ answer = [c \in Calls |-> "none"]
  /\ writer = [c \in Calls |-> NoOne]
  /\ pool = {}
  /\ age = [c \in Calls |-> 0]

-----------------------------------------------------------------------------
(* gzip.go *)

\* Text responses of the inner chain (http.Error) are compressed.  The bare 503
\* of the timeout and a preflight's 204 have no content type, and redirects and
\* the 500 of Recovery are written outside Gzip.
isCompressible(c, s) == /\ shape[c].zip /\ ~shape[c].web
                        /\ s \in {"401", "403", "415", "429"}

\* Mutant: a pooled writer stays in the pool.
CopiesWriter(c, s) ==
  IF isCompressible(c, s)
  THEN \E w \in Writers : /\ w \in pool \/ \A d \in Calls : writer[d] # w
                          /\ writer' = [writer EXCEPT ![c] = w]
                          /\ UNCHANGED pool
  ELSE UNCHANGED <<writer, pool>>

\* gzipResponseWriter.WriteHeader: an idle writer, or a new one.
TakeWriter(c, s) ==
  IF isCompressible(c, s)
  THEN \E w \in Writers : /\ w \in pool \/ \A d \in Calls : writer[d] # w
                          /\ writer' = [writer EXCEPT ![c] = w]
                          /\ pool' = pool \ {w}
  ELSE UNCHANGED <<writer, pool>>

\* The response's headers go out.
WriteHeader(c, s) ==
  /\ conn' = [conn EXCEPT ![c] = "writing"]
  /\ status' = [status EXCEPT ![c] = s]
  /\ TakeWriter(c, s)
  /\ UNCHANGED answer

\* gzipResponseWriter.close, and the server's flush to the connection, which
\* fails once the write deadline has passed.
EndAnswer(c) ==
  /\ conn[c] = "writing"
  /\ conn' = [conn EXCEPT ![c] = "done"]
  /\ answer' = [answer EXCEPT ![c] = IF age[c] >= WriteTimeout THEN "cut" ELSE status[c]]
  /\ pool' = pool \cup ({writer[c]} \ {NoOne})
  /\ writer' = [writer EXCEPT ![c] = NoOne]
  /\ UNCHANGED <<shape, inner, headers, resp, status, age>>

-----------------------------------------------------------------------------
(* The connection's goroutine *)

\* RequestID keeps or mints an id but leaves the request's headers alone;
\* HTTPSRedirect and a CORS preflight answer by themselves.
OuterAnswer(c) ==
  IF ~shape[c].secure THEN IF shape[c].method = "GET" THEN "301" ELSE "308"
  ELSE IF shape[c].method = "OPTIONS" THEN "204" ELSE "none"

Arrive(c) ==
  /\ conn[c] = "idle"
  /\ \/ /\ OuterAnswer(c) # "none"
        /\ WriteHeader(c, OuterAnswer(c))
        /\ UNCHANGED inner
     \/ /\ OuterAnswer(c) = "none"
        /\ conn' = [conn EXCEPT ![c] = "waiting"]
        /\ inner' = [inner EXCEPT ![c] = "limits"]
        /\ UNCHANGED <<status, answer, writer, pool>>
  /\ UNCHANGED <<shape, headers, resp, age>>

\* http.TimeoutHandler waits for one of: the inner goroutine is done, it
\* panicked (re-raised here, for Recovery), the timer fired, the client left.
Select(c, s) == /\ conn[c] = "waiting"
                /\ WriteHeader(c, s)
                /\ UNCHANGED <<shape, inner, headers, resp, age>>

InnerDone(c) == inner[c] = "ended" /\ Select(c, resp[c])
Rethrow(c) == inner[c] = "panicked" /\ Select(c, "500")
TimedOut(c) == age[c] >= HandlerTimeout /\ Select(c, "503")

Disconnect(c) ==
  /\ conn[c] = "waiting"
  /\ conn' = [conn EXCEPT ![c] = "done"]
  /\ answer' = [answer EXCEPT ![c] = "gone"]
  /\ UNCHANGED <<shape, inner, headers, resp, status, writer, pool, age>>

\* Time passes for a request that is being handled.  The timer is not late, and
\* writing a response takes no time.
Tick(c) ==
  /\ conn[c] = "waiting" /\ age[c] < HandlerTimeout
  /\ age' = [age EXCEPT ![c] = @ + 1]
  /\ UNCHANGED <<shape, conn, inner, headers, resp, status, answer, writer, pool>>

\* Mutant: only the client's leaving cancels the inner goroutine's context.
OnlyDisconnect(c) == answer[c] = "gone"

\* The context of the inner goroutine is done.
CtxDone(c) == conn[c] \in {"writing", "done"} \/ age[c] >= HandlerTimeout

-----------------------------------------------------------------------------
(* The inner goroutine *)

Pass(c, from, to) == /\ inner[c] = from
                     /\ inner' = [inner EXCEPT ![c] = to]
                     /\ UNCHANGED <<shape, conn, resp, status, answer, writer, pool, age>>

\* The handler returns and its response is in the buffer.
Respond(c, from, s) ==
  /\ inner[c] = from
  /\ inner' = [inner EXCEPT ![c] = "ended"]
  /\ resp' = [resp EXCEPT ![c] = s]
  /\ UNCHANGED <<shape, conn, headers, status, answer, writer, pool, age>>

\* RateLimiter.Global and PerIP, whose counters are modules of their own.
Limits(c) == \/ Pass(c, "limits", "csrf") /\ UNCHANGED headers
             \/ Respond(c, "limits", "429")

\* Safe methods, bearer requests (even with a token that will not verify),
\* gRPC-Web and a matching pair pass.
CSRFExempt(c) == \/ shape[c].method \in {"GET", "OPTIONS"}
                 \/ shape[c].token # "none"
                 \/ shape[c].web
                 \/ shape[c].csrf = "match"

CSRF(c) == \/ CSRFExempt(c) /\ Pass(c, "csrf", "auth") /\ UNCHANGED headers
           \/ ~CSRFExempt(c) /\ Respond(c, "csrf", "403")

\* Mutant: the client's identity headers are only replaced, never stripped.
KeepsHeaders(c) == IF shape[c].token = "good" THEN shape[c].sub ELSE headers[c]

\* stripIdentityHeaders, bearerToken, Verify, injectIdentityHeaders.
VerifiedIdentity(c) == IF shape[c].token = "good" THEN shape[c].sub ELSE NoOne

\* A verified token may be on the blacklist (TokenRevocation says when); one
\* that does not verify makes the request anonymous.
Authenticate(c) ==
  \/ /\ Pass(c, "auth", "endpoint")
     /\ headers' = [headers EXCEPT ![c] = VerifiedIdentity(c)]
  \/ shape[c].token = "good" /\ Respond(c, "auth", "401")

EndpointLimits == {"Login", "Register", "RequestPasswordReset", "ResetPassword",
                   "RequestEmailVerification", "VerifyEmail", "ValidateAPIKey"}

PerEndpoint(c) ==
  \/ Pass(c, "endpoint", "proxy") /\ UNCHANGED headers
  \/ shape[c].rpc \in EndpointLimits /\ Respond(c, "endpoint", "429")

\* A panic of a middleware or of what it calls.
PanicInner(c) == inner[c] \in Chain \ {"proxy"} /\ Pass(c, inner[c], "panicked") /\ UNCHANGED headers

-----------------------------------------------------------------------------
(* proxy.go, and what forward.go makes of a call (see Forward) *)

IsGrpcWeb(c) == shape[c].method = "POST" /\ shape[c].web

\* routes: packages of the core service.
resolve(c) == shape[c].pkg # "other"

\* Anything but gRPC-Web is refused by grpc.Server.ServeHTTP (405, 415 or 505);
\* a method no route knows, or an upstream that is down, ends the call here.
ProxyRefuses(c) ==
  \/ ~IsGrpcWeb(c) /\ Respond(c, "proxy", "415")
  \/ IsGrpcWeb(c) /\ ~resolve(c) /\ Respond(c, "proxy", "Unimplemented")
  \/ IsGrpcWeb(c) /\ resolve(c) /\ Respond(c, "proxy", "Unavailable")

\* direct: the metadata of the upstream call, from forwardableHeaders.
direct(c) == [who |-> headers[c], id |-> IF shape[c].rid THEN "client" ELSE "none"]

ProxyCalls(c) == /\ IsGrpcWeb(c) /\ resolve(c)
                 /\ Pass(c, "proxy", "remote") /\ UNCHANGED headers

\* The call's outcome: the upstream's status, Internal when the client's body
\* broke off, Unavailable when the connection to the backend did, Canceled
\* when the context ended first.
RelayStatus(c, s) == Respond(c, "remote", s)
ClientBreaks(c) == Respond(c, "remote", "Internal")
UpstreamLost(c) == Respond(c, "remote", "Unavailable")
CallCancelled(c) == CtxDone(c) /\ Respond(c, "remote", "Canceled")

\* The correlation id of the gateway's logs and of the response.
EdgeRequestId(c) == IF shape[c].rid THEN "client" ELSE "gateway"

\* Steps of one call that leave the core service alone.
OuterStep(c) == InnerDone(c) \/ Rethrow(c) \/ TimedOut(c) \/ EndAnswer(c)
ChainStep(c) == Limits(c) \/ CSRF(c) \/ Authenticate(c) \/ PerEndpoint(c) \/ ProxyRefuses(c)
EdgeFault(c) == Disconnect(c) \/ PanicInner(c) \/ ClientBreaks(c) \/ UpstreamLost(c)
=============================================================================
