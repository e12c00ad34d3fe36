-------------------------- MODULE RevocationProofs --------------------------
(***************************************************************************)
(* Proofs about what is revoked through Redis: TokenRevocation for any     *)
(* tokens, gateways, requests, hash positions and token lifetime; ApiKeys  *)
(* for any clients and roles.                                              *)
(***************************************************************************)
EXTENDS MCRevocation, TLAPS

-----------------------------------------------------------------------------
(* The access tokens of TokenRevocation *)

\* A token whose revocation has got as far as a gateway, or is about to be
\* published, has a key that lives at least as long as the token.
Covered == \A j \in Tokens :
             (revoke[j] = "set" \/ \E g \in Gateways : j \in inbox[g] \cup heard[g])
               => life[j] <= keyLife[j]

\* The filter holds every position of every token heard of.
Filtered == \A g \in Gateways : \A j \in heard[g] : Positions[j] \subseteq filter[g]

\* A request that was told of a revocation runs in the process that heard it.
Told == \A r \in Requests :
          req[r].pc \notin Done /\ req[r].told => req[r].jti \in heard[req[r].at]

\* Keys are only ever set by Revoke.
Keyed == \A j \in Tokens : keyLife[j] > 0 => revoke[j] # "no"

\* The inductive invariant.
IInv == TypeOK /\ Covered /\ Filtered /\ Told /\ Keyed /\ OnlyRevokedRejected

\* The inductive invariant holds initially.
LEMMA Initial == Init => IInv
<1> SUFFICES ASSUME Init PROVE IInv
  OBVIOUS
<1> USE RevocationAssumption DEF Init
<1>0. req \in [Requests -> Request] /\ \A r \in Requests : req[r].pc = "idle"
  BY DEF Request
<1>1. TypeOK
  BY <1>0 DEF TypeOK
<1>2. Covered /\ Filtered /\ Keyed
  BY DEF Covered, Filtered, Keyed
<1>3. Told /\ OnlyRevokedRejected
  BY <1>0 DEF Told, OnlyRevokedRejected, Done
<1> QED
  BY <1>1, <1>2, <1>3 DEF IInv

\* Every step of the system preserves it.
LEMMA Inductive == IInv /\ [Next]_vars => IInv'
<1> SUFFICES ASSUME IInv, [Next]_vars PROVE IInv'
  OBVIOUS
<1> USE RevocationAssumption
<1> USE DEF IInv, TypeOK, Covered, Filtered, Told, Keyed, OnlyRevokedRejected,
            Request, Done, Fault, Answer
<1>1. ASSUME NEW j \in Tokens, RevokeSet(j) PROVE IInv'
  BY <1>1 DEF RevokeSet
<1>2. ASSUME NEW j \in Tokens, RevokePublish(j) PROVE IInv'
  BY <1>2 DEF RevokePublish
<1>3. ASSUME NEW j \in Tokens, RevokePublishFails(j) PROVE IInv'
  BY <1>3 DEF RevokePublishFails
<1>4. ASSUME NEW g \in Gateways, Disconnect(g) PROVE IInv'
  BY <1>4 DEF Disconnect
<1>5. ASSUME NEW g \in Gateways, Subscribe(g) PROVE IInv'
  BY <1>5 DEF Subscribe
<1>6. ASSUME NEW g \in Gateways, Restart(g) PROVE IInv'
  BY <1>6 DEF Restart
<1>7. ASSUME NEW g \in Gateways, NEW j \in Tokens, AddToFilter(g, j) PROVE IInv'
  BY <1>7 DEF AddToFilter
<1>8. ASSUME NEW r \in Requests, AdmitUnfiltered(r) PROVE IInv'
  BY <1>8 DEF AdmitUnfiltered
<1>9. ASSUME NEW r \in Requests, MaybeRevoked(r) PROVE IInv'
  BY <1>9 DEF MaybeRevoked
<1>10. ASSUME NEW r \in Requests, AdmitCleared(r) PROVE IInv'
  BY <1>10 DEF AdmitCleared
<1>11. ASSUME NEW r \in Requests, AdmitOnError(r) PROVE IInv'
  BY <1>11 DEF AdmitOnError
<1>12. ASSUME NEW r \in Requests, Reject(r) PROVE IInv'
  BY <1>12 DEF Reject
<1>13. ASSUME NEW r \in Requests, NEW g \in Gateways, NEW j \in Tokens, Verify(r, g, j)
       PROVE IInv'
  <2> DEFINE new == [pc |-> "filter", at |-> g, jti |-> j, told |-> j \in heard[g]]
  <2>1. /\ new \in Request
        /\ new.pc = "filter" /\ new.at = g /\ new.jti = j
        /\ new.told => j \in heard[g]
    <3>1. (j \in heard[g]) \in BOOLEAN
      BY SMT
    <3>2. new \in Request
      BY <3>1, Zenon
    <3> QED
      BY <3>2, Zenon
  <2> HIDE DEF new
  <2>2. /\ req' = [req EXCEPT ![r] = new]
        /\ UNCHANGED <<life, revoke, keyLife, subscribed, inbox, filter, heard, faults>>
    BY <1>13 DEF Verify, new
  <2> QED
    BY <2>1, <2>2
<1>14. CASE Tick
  BY <1>14 DEF Tick, Minus
<1>15. CASE UNCHANGED vars
  BY <1>15 DEF vars
<1> QED
  BY <1>1, <1>2, <1>3, <1>4, <1>5, <1>6, <1>7, <1>8, <1>9, <1>10, <1>11, <1>12,
     <1>13, <1>14, <1>15 DEF Next
\* Every reachable state satisfies the inductive invariant.
THEOREM Invariance == Spec => []IInv
  BY Initial, Inductive, PTL DEF Spec

\* The variables of the blacklist, the filters and the requests keep their
\* types.
THEOREM TypeCorrect == Spec => []TypeOK
<1>1. IInv => TypeOK
  BY DEF IInv
<1> QED
  BY Invariance, <1>1, PTL

\* IsRevoked and the middleware never refuse a token that nobody revoked,
\* whatever positions its hashes share with revoked ones.
THEOREM OnlyRevokedRejectedHolds == Spec => []OnlyRevokedRejected
<1>1. IInv => OnlyRevokedRejected
  BY DEF IInv
<1> QED
  BY Invariance, <1>1, PTL

\* Without a Redis error, a gateway that has heard of a revocation admits no
\* later request with that token during the token's life.
THEOREM ToldMeansRejectedHolds == Spec => ToldMeansRejected
<1> DEFINE Safe == \A r \in Requests :
       /\ req[r].pc \notin Done /\ req[r].told
       /\ req'[r].pc = "admitted" /\ faults' = faults
       => life[req[r].jti] = 0
<1>1. IInv /\ [Next]_vars => [Safe]_vars
  <2> SUFFICES ASSUME IInv, Next, NEW r \in Requests,
                      req[r].pc \notin Done, req[r].told,
                      req'[r].pc = "admitted", faults' = faults
               PROVE  life[req[r].jti] = 0
    OBVIOUS
  <2> USE DEF IInv, TypeOK, Request, Done, Answer
  <2>1. req[r].jti \in heard[req[r].at] /\ req[r].at \in Gateways /\ req[r].jti \in Tokens
    BY DEF Told
  <2>2. InFilter(req[r].at, req[r].jti)
    BY <2>1 DEF Filtered, InFilter
  <2>3. life[req[r].jti] <= keyLife[req[r].jti]
    BY <2>1 DEF Covered
  <2>4. AdmitUnfiltered(r) \/ AdmitCleared(r)
    BY DEF Next, RevokeSet, RevokePublish, RevokePublishFails, Disconnect, Subscribe,
           Restart, AddToFilter, Verify, AdmitUnfiltered, MaybeRevoked, AdmitCleared,
           AdmitOnError, Reject, Tick, Fault
  <2>5. ~AdmitUnfiltered(r)
    BY <2>2 DEF AdmitUnfiltered
  <2>6. keyLife[req[r].jti] = 0
    BY <2>4, <2>5 DEF AdmitCleared
  <2> QED
    BY <2>1, <2>3, <2>6
<1>2. Spec => [][Safe]_vars
  BY Invariance, <1>1, PTL DEF Spec
<1> QED
  BY <1>2 DEF ToldMeansRejected

-----------------------------------------------------------------------------
(* The API keys of ApiKeys *)

\* The two keys of a cached validation are set and deleted together, so the
\* reverse index leads Drop to every entry.
Indexed == cache.role # None => cache.byid

\* An entry for the revoked key came late, or the Revoke has yet to drop it,
\* or its Drop failed.
Dropped ==
  key = "revoked" /\ cache.role # None
    => \/ cache.late \/ kept
       \/ \E c \in Clients : call[c].pc \in {"find", "drop"}

\* While a call is sure of the key, the key is valid; a call that rejects is not.
Certain == \A c \in Clients : /\ call[c].sure => ApiKey!Truth # None
                              /\ call[c].pc = "reject" => ~call[c].sure

\* The inductive invariant.
KeyInv == ApiKey!TypeOK /\ Indexed /\ Dropped /\ Certain

\* The inductive invariant holds initially.
LEMMA KeyInitial == ApiKey!Init => KeyInv
<1> SUFFICES ASSUME ApiKey!Init PROVE KeyInv
  OBVIOUS
<1>1. cache \in ApiKey!Cache /\ cache.role = None /\ ApiKey!Idle \in ApiKey!Call
  BY DEF ApiKey!Init, ApiKey!NoCache, ApiKey!Cache, ApiKey!Idle, ApiKey!Call
<1>2. ApiKey!TypeOK
  <2>1. owner \in [active : BOOLEAN, role : Roles]
    BY DEF ApiKey!Init
  <2>2. kept \in BOOLEAN
    BY Zenon DEF ApiKey!Init
  <2> QED
    BY <1>1, <2>1, <2>2, KeyAssumption DEF ApiKey!Init, ApiKey!TypeOK
<1>3. \A c \in Clients : call[c].pc = "idle" /\ ~call[c].sure
  BY DEF ApiKey!Init, ApiKey!Idle
<1> QED
  BY <1>1, <1>2, <1>3 DEF KeyInv, Indexed, Dropped, Certain

\* Every step of a call, every change of the owner, an expiry and every
\* stutter preserve the inductive invariant.
LEMMA KeyInductive == KeyInv /\ [ApiKey!Next]_ApiKey!vars => KeyInv'
<1> SUFFICES ASSUME KeyInv, [ApiKey!Next]_ApiKey!vars PROVE KeyInv'
  OBVIOUS
<1> USE KeyAssumption
<1> USE DEF KeyInv, ApiKey!TypeOK, Indexed, Dropped, Certain, ApiKey!Truth,
            ApiKey!Cache, ApiKey!NoCache, ApiKey!Call, ApiKey!Idle,
            ApiKey!Goto, ApiKey!Done, ApiKey!Error, ApiKey!Doubt
<1>r. \A role \in Roles \cup {None}, byid, late \in BOOLEAN :
        [role |-> role, byid |-> byid, late |-> late] \in ApiKey!Cache
  OBVIOUS
<1>i. ApiKey!Idle \in ApiKey!Call /\ ApiKey!NoCache \in ApiKey!Cache
  OBVIOUS
<1>g. \A c \in Clients, pc \in {"accept", "find", "drop"} :
        [call[c] EXCEPT !.pc = pc] \in ApiKey!Call
  OBVIOUS
<1>s. \A c \in Clients, sure \in BOOLEAN :
        [call[c] EXCEPT !.pc = "lookup", !.sure = sure] \in ApiKey!Call
  OBVIOUS
<1>f. \A new \in ApiKey!Call : [new EXCEPT !.sure = FALSE] \in ApiKey!Call
  OBVIOUS
<1>t. call \in [Clients -> ApiKey!Call] /\ cache \in ApiKey!Cache /\ kept \in BOOLEAN
  OBVIOUS
<1>1. ASSUME NEW c \in Clients, ApiKey!CreateBegin(c) PROVE KeyInv'
  <2>1. ApiKey!TypeOK'
    BY <1>1 DEF ApiKey!CreateBegin
  <2>2. Indexed' /\ Certain'
    BY <1>1 DEF ApiKey!CreateBegin
  <2>3. Dropped'
    BY <1>1 DEF ApiKey!CreateBegin
  <2> QED
    BY <2>1, <2>2, <2>3
<1>2. ASSUME NEW c \in Clients, ApiKey!CreateCommit(c) PROVE KeyInv'
  <2>1. ApiKey!TypeOK'
    BY <1>2 DEF ApiKey!CreateCommit
  <2>2. Indexed' /\ Certain'
    BY <1>2 DEF ApiKey!CreateCommit
  <2>3. Dropped'
    BY <1>2 DEF ApiKey!CreateCommit
  <2> QED
    BY <2>1, <2>2, <2>3
<1>3. ASSUME NEW c \in Clients, ApiKey!ValidateBegin(c) PROVE KeyInv'
  <2>1. ApiKey!TypeOK'
    <3> DEFINE sure == ApiKey!Truth # None
               new == [call[c] EXCEPT !.pc = "lookup", !.sure = sure]
    <3>1. sure \in BOOLEAN
      BY Zenon
    <3> HIDE DEF sure
    <3>2. new \in ApiKey!Call
      BY <1>s, <3>1
    <3>3. call' = [call EXCEPT ![c] = new]
      BY <1>3 DEF ApiKey!ValidateBegin, sure
    <3> HIDE DEF new, ApiKey!Call
    <3>4. call' \in [Clients -> ApiKey!Call]
      BY <1>t, <3>2, <3>3
    <3> QED
      BY <1>3, <3>4 DEF ApiKey!ValidateBegin
  <2>2. Indexed' /\ Certain'
    BY <1>3 DEF ApiKey!ValidateBegin
  <2>3. Dropped'
    BY <1>3 DEF ApiKey!ValidateBegin
  <2> QED
    BY <2>1, <2>2, <2>3
<1>4. ASSUME NEW c \in Clients, ApiKey!Lookup(c) PROVE KeyInv'
  <2>1. ApiKey!TypeOK'
    BY <1>4 DEF ApiKey!Lookup
  <2>2. Indexed' /\ Certain'
    BY <1>4 DEF ApiKey!Lookup
  <2>3. Dropped'
    BY <1>4 DEF ApiKey!Lookup
  <2> QED
    BY <2>1, <2>2, <2>3
<1>5. ASSUME NEW c \in Clients, ApiKey!ReadKey(c) PROVE KeyInv'
  <2>1. ApiKey!TypeOK'
    BY <1>5 DEF ApiKey!ReadKey
  <2>2. Indexed' /\ Certain'
    BY <1>5 DEF ApiKey!ReadKey
  <2>3. Dropped'
    BY <1>5 DEF ApiKey!ReadKey
  <2> QED
    BY <2>1, <2>2, <2>3
<1>6. ASSUME NEW c \in Clients, ApiKey!ReadOwner(c) PROVE KeyInv'
  <2>1. ApiKey!TypeOK'
    BY <1>6 DEF ApiKey!ReadOwner
  <2>2. Indexed' /\ Certain'
    BY <1>6 DEF ApiKey!ReadOwner
  <2>3. Dropped'
    BY <1>6 DEF ApiKey!ReadOwner
  <2> QED
    BY <2>1, <2>2, <2>3
<1>7. ASSUME NEW c \in Clients, ApiKey!Store(c) PROVE KeyInv'
  <2>1. ApiKey!TypeOK'
    <3>1. cache' \in ApiKey!Cache
      <4> DEFINE late == key = "revoked"
      <4>1. call[c].role \in Roles \cup {None}
        OBVIOUS
      <4>2. late \in BOOLEAN
        BY Zenon
      <4>3. cache' = [role |-> call[c].role, byid |-> TRUE, late |-> late] \/ UNCHANGED cache
        BY <1>7 DEF ApiKey!Store
      <4> HIDE DEF late, ApiKey!Cache
      <4> QED
        BY <1>r, <1>t, <4>1, <4>2, <4>3
    <3>2. call' \in [Clients -> ApiKey!Call]
      BY <1>7 DEF ApiKey!Store
    <3> QED
      BY <1>7, <3>1, <3>2 DEF ApiKey!Store
  <2>2. Indexed' /\ Certain'
    BY <1>7 DEF ApiKey!Store
  <2>3. Dropped'
    <3>1. CASE UNCHANGED cache
      BY <1>7, <3>1 DEF ApiKey!Store
    <3>2. CASE cache' = [role |-> call[c].role, byid |-> TRUE, late |-> key = "revoked"]
      <4>1. key' = "revoked" => cache'.late
        BY <1>7, <3>2 DEF ApiKey!Store
      <4> QED
        BY <4>1
    <3> QED
      BY <1>7, <3>1, <3>2 DEF ApiKey!Store
  <2> QED
    BY <2>1, <2>2, <2>3
<1>8. ASSUME NEW c \in Clients, ApiKey!Accept(c) PROVE KeyInv'
  <2>1. ApiKey!TypeOK'
    BY <1>8 DEF ApiKey!Accept
  <2>2. Indexed' /\ Certain'
    BY <1>8 DEF ApiKey!Accept
  <2>3. Dropped'
    BY <1>8 DEF ApiKey!Accept
  <2> QED
    BY <2>1, <2>2, <2>3
<1>9. ASSUME NEW c \in Clients, ApiKey!Reject(c) PROVE KeyInv'
  <2>1. ApiKey!TypeOK'
    BY <1>9 DEF ApiKey!Reject
  <2>2. Indexed' /\ Certain'
    BY <1>9 DEF ApiKey!Reject
  <2>3. Dropped'
    BY <1>9 DEF ApiKey!Reject
  <2> QED
    BY <2>1, <2>2, <2>3
<1>10. ASSUME NEW c \in Clients, ApiKey!RevokeBegin(c) PROVE KeyInv'
  <2>1. ApiKey!TypeOK'
    BY <1>10 DEF ApiKey!RevokeBegin
  <2>2. Indexed' /\ Certain'
    BY <1>10 DEF ApiKey!RevokeBegin
  <2>3. Dropped'
    BY <1>10 DEF ApiKey!RevokeBegin
  <2> QED
    BY <2>1, <2>2, <2>3
<1>11. ASSUME NEW c \in Clients, ApiKey!RevokeCommit(c) PROVE KeyInv'
  <2>0. CASE key = "live"
    <3> DEFINE new == [call EXCEPT ![c].pc = "find"]
    <3>1. new \in [Clients -> ApiKey!Call] /\ new[c].pc = "find"
      BY <1>g, <1>t
    <3> HIDE DEF new, ApiKey!Call
    <3>2. call' = [d \in Clients |-> [new[d] EXCEPT !.sure = @ /\ FALSE]]
      BY <1>11, <2>0 DEF ApiKey!RevokeCommit, new
    <3>3. \A d \in Clients : call'[d] = [new[d] EXCEPT !.sure = FALSE]
      BY <3>2
    <3>4. call' \in [Clients -> ApiKey!Call]
      BY <1>f, <3>1, <3>2, <3>3
    <3>5. ASSUME NEW d \in Clients PROVE ~call'[d].sure /\ call'[d].pc = new[d].pc
      <4> DEFINE q == new[d]
      <4>1. q \in ApiKey!Call /\ call'[d] = [q EXCEPT !.sure = FALSE]
        BY <3>1, <3>3
      <4> HIDE DEF q
      <4>2. ~call'[d].sure /\ call'[d].pc = q.pc
        BY <4>1 DEF ApiKey!Call
      <4> QED
        BY <4>2 DEF q
    <3>6. key' = "revoked" /\ UNCHANGED <<owner, writes, cache, kept>>
      BY <1>11, <2>0 DEF ApiKey!RevokeCommit
    <3> QED
      BY <3>1, <3>4, <3>5, <3>6
  <2>1. CASE key # "live"
    <3>1. call' = [call EXCEPT ![c] = ApiKey!Idle] /\ UNCHANGED <<key, owner, writes, cache, kept>>
      BY <1>11, <2>1 DEF ApiKey!RevokeCommit
    <3>2. ~ApiKey!Idle.sure /\ ApiKey!Idle.pc = "idle"
      OBVIOUS
    <3>3. call[c].pc = "revoke"
      BY <1>11 DEF ApiKey!RevokeCommit
    <3> HIDE DEF ApiKey!Call, ApiKey!Cache, ApiKey!Idle, ApiKey!NoCache
    <3>4. call' \in [Clients -> ApiKey!Call]
      BY <1>t, <1>i, <3>1
    <3>5. \A d \in Clients : call'[d] = IF d = c THEN ApiKey!Idle ELSE call[d]
      BY <1>t, <3>1
    <3>6. ApiKey!TypeOK' /\ Indexed'
      BY <3>1, <3>4
    <3>7. Certain'
      BY <3>1, <3>2, <3>5
    <3>8. Dropped'
      BY <3>1, <3>2, <3>3, <3>5
    <3> QED
      BY <3>6, <3>7, <3>8
  <2> QED
    BY <2>0, <2>1
<1>12. ASSUME NEW c \in Clients, ApiKey!DropFind(c) PROVE KeyInv'
  <2>1. ApiKey!TypeOK'
    <3>1. kept' = kept \/ kept' = TRUE
      BY <1>12 DEF ApiKey!DropFind
    <3>2. kept' \in BOOLEAN
      BY <1>t, <3>1, Zenon
    <3> HIDE DEF ApiKey!Call, ApiKey!Cache, ApiKey!Idle, ApiKey!NoCache
    <3>3. call' \in [Clients -> ApiKey!Call] /\ cache' \in ApiKey!Cache
      BY <1>12, <1>t, <1>i, <1>g DEF ApiKey!DropFind
    <3> QED
      BY <1>12, <3>2, <3>3 DEF ApiKey!DropFind
  <2>2. Indexed' /\ Certain'
    BY <1>12 DEF ApiKey!DropFind
  <2>3. Dropped'
    BY <1>12 DEF ApiKey!DropFind
  <2> QED
    BY <2>1, <2>2, <2>3
<1>13. ASSUME NEW c \in Clients, ApiKey!DropDelete(c) PROVE KeyInv'
  <2>1. ApiKey!TypeOK'
    <3>1. kept' = kept \/ kept' = TRUE
      BY <1>13 DEF ApiKey!DropDelete
    <3>2. kept' \in BOOLEAN
      BY <1>t, <3>1, Zenon
    <3> HIDE DEF ApiKey!Call, ApiKey!Cache, ApiKey!Idle, ApiKey!NoCache
    <3>3. call' \in [Clients -> ApiKey!Call] /\ cache' \in ApiKey!Cache
      BY <1>13, <1>t, <1>i, <1>g DEF ApiKey!DropDelete
    <3> QED
      BY <1>13, <3>2, <3>3 DEF ApiKey!DropDelete
  <2>2. Indexed' /\ Certain'
    BY <1>13 DEF ApiKey!DropDelete
  <2>3. Dropped'
    BY <1>13 DEF ApiKey!DropDelete
  <2> QED
    BY <2>1, <2>2, <2>3
<1>14. ASSUME NEW c \in Clients, ApiKey!Die(c) PROVE KeyInv'
  <2>1. ApiKey!TypeOK'
    BY <1>14 DEF ApiKey!Die
  <2>2. Indexed' /\ Certain'
    BY <1>14 DEF ApiKey!Die
  <2>3. Dropped'
    BY <1>14 DEF ApiKey!Die
  <2> QED
    BY <2>1, <2>2, <2>3
<1>15. CASE ApiKey!OwnerChanges
  <2>1. ApiKey!TypeOK'
    BY <1>15 DEF ApiKey!OwnerChanges
  <2>2. Indexed' /\ Certain'
    BY <1>15 DEF ApiKey!OwnerChanges
  <2>3. Dropped'
    BY <1>15 DEF ApiKey!OwnerChanges
  <2> QED
    BY <2>1, <2>2, <2>3
<1>16. CASE ApiKey!CacheExpires
  BY <1>16 DEF ApiKey!CacheExpires
<1>17. CASE UNCHANGED ApiKey!vars
  BY <1>17 DEF ApiKey!vars
<1> QED
  BY <1>1, <1>2, <1>3, <1>4, <1>5, <1>6, <1>7, <1>8, <1>9, <1>10, <1>11, <1>12, <1>13, <1>14, <1>15, <1>16, <1>17 DEF ApiKey!Next, ApiKey!Step

\* Drop after Revoke: an entry for a revoked key that outlives every Revoke
\* comes from a Validate that stored late, or from a Drop that failed.
THEOREM KeyOnlyLateStoresSurviveHolds == ApiKey!Spec => []KeyOnlyLateStoresSurvive
<1>1. KeyInv => KeyOnlyLateStoresSurvive
  BY DEF KeyInv, Dropped, KeyOnlyLateStoresSurvive, ApiKey!OnlyLateStoresSurvive
<1> QED
  BY <1>1, KeyInitial, KeyInductive, PTL DEF ApiKey!Spec

\* Only positives are cached: a key that stays valid through a whole Validate
\* is not rejected by it, unless SQL fails that call.
THEOREM KeyValidAcceptedHolds == ApiKey!Spec => []KeyValidAccepted
<1>1. KeyInv => KeyValidAccepted
  BY DEF KeyInv, Certain, KeyValidAccepted, ApiKey!ValidKeyAccepted
<1> QED
  BY <1>1, KeyInitial, KeyInductive, PTL DEF ApiKey!Spec
=============================================================================
