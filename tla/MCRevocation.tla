---------------------------- MODULE MCRevocation ----------------------------
(***************************************************************************)
(* Instances for TLC of what is revoked through Redis: access tokens at    *)
(* the gateways and API keys in the identity service.  The two share no    *)
(* state, so a behaviour exercises one of them while the other stays as it *)
(* began.                                                                  *)
(***************************************************************************)
EXTENDS TokenRevocation, TLC

CONSTANTS t1, t2, g1, Clients, Roles, MaxWrites, Faults, None

VARIABLES credential, key, owner, writes, cache, call, kept

\* A cached role is told from no entry.
ASSUME KeyAssumption == None \notin Roles /\ Faults \in BOOLEAN /\ MaxWrites \in Nat

ApiKey == INSTANCE ApiKeys

\* Revoking t1 makes t2 a false positive; hearing of t2 must not clear t1.
Overlapping == (t1 :> {1, 2}) @@ (t2 :> {2})

MCRoles == {"user", "admin"}

keyVars == <<key, owner, writes, cache, call, kept>>
allVars == <<vars, keyVars, credential>>

\* The part that stays as it began begins in one way only.
RevocationInit ==
  /\ credential \in {"token", "key"}
  /\ Init
  /\ ApiKey!Init
  /\ credential = "token" => owner.role = "user"
  /\ credential = "key" => /\ life = [j \in Tokens |-> TTL]
                           /\ \A r \in Requests : req[r].jti = t1 /\ req[r].at = g1

TokenStep == credential = "token" /\ Next /\ UNCHANGED <<keyVars, credential>>
KeyStep == credential = "key" /\ ApiKey!Next /\ UNCHANGED <<vars, credential>>
KeyCallStep(c) == credential = "key" /\ ApiKey!Step(c) /\ UNCHANGED <<vars, credential>>
KeyExpires == credential = "key" /\ ApiKey!CacheExpires /\ UNCHANGED <<vars, credential>>

\* The fairness of ApiKeys' FairSpec.
RevocationSpec == /\ RevocationInit /\ [][TokenStep \/ KeyStep]_allVars
                  /\ \A c \in Clients : WF_allVars(KeyCallStep(c))
                  /\ WF_allVars(KeyExpires)

\* Types of both; in particular no blacklist key lives longer than an access
\* token, and a role in the cache of keys is one an owner can have.
TypesOK == TypeOK /\ ApiKey!TypeOK

\* Only positives are cached: see ValidKeyAccepted in ApiKeys.
KeyValidAccepted == ApiKey!ValidKeyAccepted

\* Revoke's Drop removes what was cached: see OnlyLateStoresSurvive in ApiKeys.
KeyOnlyLateStoresSurvive == ApiKey!OnlyLateStoresSurvive

\* The cache of keys ends up empty or right: see CacheConverges in ApiKeys.
KeyCacheConverges == ApiKey!CacheConverges
=============================================================================
