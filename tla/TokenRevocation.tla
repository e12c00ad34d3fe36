-------------------------- MODULE TokenRevocation --------------------------
(***************************************************************************)
(* Revoking an access token: the identity service's blacklist adapter      *)
(* (RedisBlacklist in adapters.go), the Redis keys and channel between,    *)
(* and the gateways' Bloom filter and authentication middleware (bloom.go, *)
(* auth.go).                                                               *)
(*                                                                         *)
(* A token is its jti.  Its hashes are the constant Positions: tokens may  *)
(* share positions of the filter.                                          *)
(***************************************************************************)
EXTENDS Naturals

CONSTANTS Tokens, Gateways, Requests,
          Bits,       \* positions of the filter
          Positions,  \* the positions bloomHashes gives each token
          TTL,        \* access token lifetime, in clock ticks
          MaxFaults   \* bound on Redis errors, lost connections and restarts

ASSUME RevocationAssumption == /\ Positions \in [Tokens -> SUBSET Bits]
                               /\ TTL \in Nat \ {0}
                               /\ MaxFaults \in Nat

VARIABLES
  life,       \* ticks until each token expires
  revoke,     \* where the latest Revoke of each token stands
  keyLife,    \* ticks until the blacklist key of each token expires
  subscribed, \* gateways whose subscription is up
  inbox,      \* published to each gateway and not yet in its filter
  filter,     \* the filter of each gateway: the bits that are set
  heard,      \* history: tokens each gateway added to its present filter
  req,        \* the request each goroutine authenticates
  faults

vars == <<life, revoke, keyLife, subscribed, inbox, filter, heard, req, faults>>

\* told: the gateway had heard of the revocation when the request began.
Request == [pc : {"idle", "filter", "redis", "admitted", "rejected"}, at : Gateways, jti : Tokens,
            told : BOOLEAN]
Done == {"idle", "admitted", "rejected"}

TypeOK == /\ life \in [Tokens -> 0..TTL]
          /\ revoke \in [Tokens -> {"no", "set", "done"}]
          /\ keyLife \in [Tokens -> 0..TTL]
          /\ subscribed \in [Gateways -> BOOLEAN]
          /\ inbox \in [Gateways -> SUBSET Tokens]
          /\ filter \in [Gateways -> SUBSET Bits]
          /\ heard \in [Gateways -> SUBSET Tokens]
          /\ req \in [Requests -> Request]
          /\ faults \in 0..MaxFaults

\* Tokens of any age, gateways just subscribed, nothing revoked.
Init == /\ life \in [Tokens -> 1..TTL]
        /\ revoke = [j \in Tokens |-> "no"]
        /\ keyLife = [j \in Tokens |-> 0]
        /\ subscribed = [g \in Gateways |-> TRUE]
        /\ inbox = [g \in Gateways |-> {}]
        /\ filter = [g \in Gateways |-> {}]
        /\ heard = [g \in Gateways |-> {}]
        /\ req \in [Requests -> [pc : {"idle"}, at : Gateways, jti : Tokens,
                                 told : {FALSE}]]
        /\ faults = 0

Fault == faults < MaxFaults /\ faults' = faults + 1
Answer(r, answer) == req' = [req EXCEPT ![r].pc = answer]

-----------------------------------------------------------------------------
(* RedisBlacklist.Revoke *)

\* Mutant: the key is given a lifetime longer than an access token's.
RevokeSetLonger(j) ==
  /\ revoke[j] # "set"
  /\ keyLife' = [keyLife EXCEPT ![j] = TTL + 1]
  /\ revoke' = [revoke EXCEPT ![j] = "set"]
  /\ UNCHANGED <<life, subscribed, inbox, filter, heard, req, faults>>

\* SET with the full access lifetime.  An error ends the call with nothing
\* done; a token may be revoked again, and again.
RevokeSet(j) ==
  /\ revoke[j] # "set"
  /\ keyLife' = [keyLife EXCEPT ![j] = TTL]
  /\ revoke' = [revoke EXCEPT ![j] = "set"]
  /\ UNCHANGED <<life, subscribed, inbox, filter, heard, req, faults>>

\* PUBLISH reaches the subscriptions that are up.
RevokePublish(j) ==
  /\ revoke[j] = "set"
  /\ inbox' = [g \in Gateways |->
                 IF subscribed[g] THEN inbox[g] \cup {j} ELSE inbox[g]]
  /\ revoke' = [revoke EXCEPT ![j] = "done"]
  /\ UNCHANGED <<life, keyLife, subscribed, filter, heard, req, faults>>

\* The error of PUBLISH is dropped.
RevokePublishFails(j) ==
  /\ revoke[j] = "set" /\ Fault
  /\ revoke' = [revoke EXCEPT ![j] = "done"]
  /\ UNCHANGED <<life, keyLife, subscribed, inbox, filter, heard, req>>

-----------------------------------------------------------------------------
(* The subscription *)

\* Mutant: the word is assigned, not or-ed.
AddToFilterOverwrites(g, j) ==
  /\ j \in inbox[g]
  /\ inbox' = [inbox EXCEPT ![g] = @ \ {j}]
  /\ filter' = [filter EXCEPT ![g] = Positions[j]]
  /\ heard' = [heard EXCEPT ![g] = @ \cup {j}]
  /\ UNCHANGED <<life, revoke, keyLife, subscribed, req, faults>>

\* addToFilter, under the write lock.
AddToFilter(g, j) ==
  /\ j \in inbox[g]
  /\ inbox' = [inbox EXCEPT ![g] = @ \ {j}]
  /\ filter' = [filter EXCEPT ![g] = @ \cup Positions[j]]
  /\ heard' = [heard EXCEPT ![g] = @ \cup {j}]
  /\ UNCHANGED <<life, revoke, keyLife, subscribed, req, faults>>

\* The connection breaks; what was on its way is lost.
Disconnect(g) ==
  /\ subscribed[g] /\ Fault
  /\ subscribed' = [subscribed EXCEPT ![g] = FALSE]
  /\ inbox' = [inbox EXCEPT ![g] = {}]
  /\ UNCHANGED <<life, revoke, keyLife, filter, heard, req>>

\* Subscribe, or the client's reconnection: nothing is replayed.
Subscribe(g) ==
  /\ ~subscribed[g]
  /\ subscribed' = [subscribed EXCEPT ![g] = TRUE]
  /\ UNCHANGED <<life, revoke, keyLife, inbox, filter, heard, req, faults>>

\* NewTokenBlacklist in a new process: an empty filter.
Restart(g) ==
  /\ Fault
  /\ subscribed' = [subscribed EXCEPT ![g] = FALSE]
  /\ inbox' = [inbox EXCEPT ![g] = {}]
  /\ filter' = [filter EXCEPT ![g] = {}]
  /\ heard' = [heard EXCEPT ![g] = {}]
  /\ req' = [r \in Requests |-> IF req[r].at = g THEN [req[r] EXCEPT !.pc = "idle"] ELSE req[r]]
  /\ UNCHANGED <<life, revoke, keyLife>>

-----------------------------------------------------------------------------
(* Authenticator.Middleware and IsRevoked *)

\* Verify accepts the token.  (A request without a valid one goes on
\* anonymously and touches nothing.)
Verify(r, g, j) ==
  /\ req[r].pc \in Done /\ life[j] > 0
  /\ req' = [req EXCEPT ![r] = [pc |-> "filter", at |-> g, jti |-> j,
                                told |-> j \in heard[g]]]
  /\ UNCHANGED <<life, revoke, keyLife, subscribed, inbox, filter, heard, faults>>

InFilter(g, j) == Positions[j] \subseteq filter[g]

\* Definitely not revoked: the request goes through with its identity.
AdmitUnfiltered(r) ==
  /\ req[r].pc = "filter" /\ ~InFilter(req[r].at, req[r].jti)
  /\ Answer(r, "admitted")
  /\ UNCHANGED <<life, revoke, keyLife, subscribed, inbox, filter, heard, faults>>

\* Maybe revoked: ask Redis.
MaybeRevoked(r) ==
  /\ req[r].pc = "filter" /\ InFilter(req[r].at, req[r].jti)
  /\ req' = [req EXCEPT ![r].pc = "redis"]
  /\ UNCHANGED <<life, revoke, keyLife, subscribed, inbox, filter, heard, faults>>

AdmitCleared(r) ==
  /\ req[r].pc = "redis" /\ keyLife[req[r].jti] = 0
  /\ Answer(r, "admitted")
  /\ UNCHANGED <<life, revoke, keyLife, subscribed, inbox, filter, heard, faults>>

\* An error lets the request through.
AdmitOnError(r) ==
  /\ req[r].pc = "redis" /\ Fault
  /\ Answer(r, "admitted")
  /\ UNCHANGED <<life, revoke, keyLife, subscribed, inbox, filter, heard>>

\* Mutant: the filter's answer is taken for the truth.
RejectOnMaybe(r) ==
  /\ req[r].pc = "redis"
  /\ Answer(r, "rejected")
  /\ UNCHANGED <<life, revoke, keyLife, subscribed, inbox, filter, heard, faults>>

Reject(r) ==
  /\ req[r].pc = "redis" /\ keyLife[req[r].jti] > 0
  /\ Answer(r, "rejected")
  /\ UNCHANGED <<life, revoke, keyLife, subscribed, inbox, filter, heard, faults>>

-----------------------------------------------------------------------------

Minus(f) == [j \in Tokens |-> IF f[j] > 0 THEN f[j] - 1 ELSE 0]

Tick == /\ life' = Minus(life)
        /\ keyLife' = Minus(keyLife)
        /\ UNCHANGED <<revoke, subscribed, inbox, filter, heard, req, faults>>

Next == \/ \E j \in Tokens : RevokeSet(j) \/ RevokePublish(j) \/ RevokePublishFails(j)
        \/ \E g \in Gateways : \/ Disconnect(g) \/ Subscribe(g) \/ Restart(g)
                               \/ \E j \in Tokens : AddToFilter(g, j)
        \/ \E r \in Requests :
             \/ AdmitUnfiltered(r) \/ MaybeRevoked(r) \/ AdmitCleared(r)
             \/ AdmitOnError(r) \/ Reject(r)
             \/ \E g \in Gateways, j \in Tokens : Verify(r, g, j)
        \/ Tick

Spec == Init /\ [][Next]_vars

-----------------------------------------------------------------------------

\* Once a gateway has heard of a revocation, no request that begins there gets
\* through with the token while it is valid: neither a filter bit nor the
\* Redis key goes away before the token does.  Only a Redis error lets one in.
ToldMeansRejected ==
  [][\A r \in Requests :
       /\ req[r].pc \notin Done /\ req[r].told
       /\ req'[r].pc = "admitted" /\ faults' = faults
       => life[req[r].jti] = 0]_vars

\* A token nobody revoked is never refused, whatever its neighbours in the
\* filter: the filter's false positives end at Redis.
OnlyRevokedRejected ==
  \A r \in Requests : req[r].pc = "rejected" => revoke[req[r].jti] # "no"

\* bloom.go: "False positives cost one extra Redis check; false negatives are
\* impossible by construction": a blacklisted token whose message is not on its
\* way is in the filter.
NoFalseNegatives ==
  \A g \in Gateways, j \in Tokens :
    (revoke[j] = "done" /\ keyLife[j] > 0 /\ j \notin inbox[g]) => InFilter(g, j)
=============================================================================
