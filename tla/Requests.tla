------------------------------ MODULE Requests ------------------------------
(* What gateway and core service both know of a request. *)
EXTENDS Naturals, Sequences

CONSTANTS
  Calls,       \* requests that may arrive
  Principals,  \* the (user, role, token type) triples tokens are issued for
  NoOne        \* no identity

ASSUME RequestAssumption == NoOne \notin Principals

Identities == Principals \cup {NoOne}

\* The packages of the services; the gateway routes all but "other".
Packages == {"identity", "example", "authz", "audit", "other"}
Bodies == {"valid", "invalid", "garbled"}

\* What the chain reads of a request.  web: the content type is gRPC-Web; zip:
\* gzip is accepted; token, sub: the bearer token and whom it names; csrf: the
\* double-submitted pair; spoof: identity headers the client wrote itself; rid:
\* it sent an X-Request-Id; body: does it decode and validate.
RequestShapes ==
  [method : {"GET", "POST", "OPTIONS"}, secure : BOOLEAN, web : BOOLEAN, zip : BOOLEAN,
   token : {"none", "bad", "good"}, sub : Principals,
   csrf : {"missing", "match", "mismatch"}, spoof : Identities, rid : BOOLEAN,
   pkg : Packages, rpc : STRING, body : Bodies]

\* The gRPC codes a call may come back with.
Codes == {"OK", "InvalidArgument", "NotFound", "AlreadyExists", "Unauthenticated",
          "PermissionDenied", "Aborted", "ResourceExhausted", "Unimplemented",
          "Internal", "Unavailable", "Canceled"}
=============================================================================
