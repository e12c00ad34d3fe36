------------------------------ MODULE ApiKeys ------------------------------
(***************************************************************************)
(* One API key of one account: APIKeyService (api_key.go), its row, and    *)
(* the Redis cache of validated keys with its reverse index (adapters.go). *)
(* Clients call Create, Validate and Revoke again and again; the steps of  *)
(* their calls, one per statement or Redis command, interleave.            *)
(***************************************************************************)
EXTENDS Naturals, FiniteSets

CONSTANTS Clients,    \* goroutines serving calls about the key
          Roles,      \* role names in play
          MaxWrites,  \* bound on the changes to the owner's account
          Faults,     \* BOOLEAN: may calls die, and Redis and SQL fail
          None        \* no entry, rejected

VARIABLES
  key,     \* the identity.api_keys row: "absent", "live" or "revoked"
  owner,   \* the owner's users row: may sign in, and the role
  writes,  \* changes to owner so far
  cache,   \* Redis: apikey:cache:<hash> is the role, apikey:byid:<id> is set
  call,    \* what each client's call is doing
  kept     \* history: the Drop of the Revoke failed or died with its process

vars == <<key, owner, writes, cache, call, kept>>

\* late (history): stored after the key's revocation committed.
Cache == [role : Roles \cup {None}, byid : BOOLEAN, late : BOOLEAN]
NoCache == [role |-> None, byid |-> FALSE, late |-> FALSE]

\* role is the role the call will store or return; sure (history) means that
\* the key has been valid ever since the call began and no read of the call
\* failed.
Call == [pc : {"idle", "lookup", "read", "read_owner", "store", "accept", "reject",
               "insert", "revoke", "find", "drop"},
         role : Roles \cup {None}, sure : BOOLEAN]
Idle == [pc |-> "idle", role |-> None, sure |-> FALSE]

TypeOK == /\ key \in {"absent", "live", "revoked"}
          /\ owner \in [active : BOOLEAN, role : Roles]
          /\ writes \in 0..MaxWrites
          /\ cache \in Cache
          /\ call \in [Clients -> Call]
          /\ kept \in BOOLEAN

Init == /\ key = "absent"
        /\ owner \in [active : {TRUE}, role : Roles]
        /\ writes = 0
        /\ cache = NoCache
        /\ call = [c \in Clients |-> Idle]
        /\ kept = FALSE

\* What Validate ought to say: the owner's role, or nothing.
Truth == IF key = "live" /\ owner.active THEN owner.role ELSE None

\* A commit that invalidates the key ends every call's certainty.
Doubt(f, valid) == [c \in Clients |-> [f[c] EXCEPT !.sure = @ /\ valid]]
Goto(c, pc) == call' = [call EXCEPT ![c].pc = pc]
Done(c) == call' = [call EXCEPT ![c] = Idle]
Error(c) == Faults /\ call' = [call EXCEPT ![c].pc = "reject", ![c].sure = FALSE]

-----------------------------------------------------------------------------
(* Create: tx { insert; publish } *)

CreateBegin(c) == /\ call[c].pc = "idle" /\ key = "absent"
                  /\ Goto(c, "insert")
                  /\ UNCHANGED <<key, owner, writes, cache, kept>>

\* The key is new: only the first call of the model inserts this row.
CreateCommit(c) == /\ call[c].pc = "insert"
                   /\ key' = IF key = "absent" THEN "live" ELSE key
                   /\ Done(c)
                   /\ UNCHANGED <<owner, writes, cache, kept>>

-----------------------------------------------------------------------------
(* Validate: Lookup; GetByHash; GetByID; Store *)

ValidateBegin(c) ==
  /\ call[c].pc = "idle"
  /\ call' = [call EXCEPT ![c].pc = "lookup", ![c].sure = Truth # None]
  /\ UNCHANGED <<key, owner, writes, cache, kept>>

\* Mutant: a miss is taken for an answer.
LookupTrustsMiss(c) ==
  /\ call[c].pc = "lookup"
  /\ IF cache.role # None
       THEN call' = [call EXCEPT ![c].pc = "accept", ![c].role = cache.role]
       ELSE Goto(c, "reject")
  /\ UNCHANGED <<key, owner, writes, cache, kept>>

Lookup(c) ==
  /\ call[c].pc = "lookup"
  /\ \/ /\ cache.role # None
        /\ call' = [call EXCEPT ![c].pc = "accept", ![c].role = cache.role]
     \/ /\ cache.role = None \/ Faults
        /\ Goto(c, "read")
  /\ UNCHANGED <<key, owner, writes, cache, kept>>

\* Mutant: the loaded key's revocation is not looked at.
ReadKeyAny(c) ==
  /\ call[c].pc = "read"
  /\ \/ key # "absent" /\ Goto(c, "read_owner")
     \/ key = "absent" /\ Goto(c, "reject")
     \/ Error(c)
  /\ UNCHANGED <<key, owner, writes, cache, kept>>

\* GetByHash and IsActive; an error is ErrAPIKeyNotFound too.
ReadKey(c) ==
  /\ call[c].pc = "read"
  /\ \/ key = "live" /\ Goto(c, "read_owner")
     \/ key # "live" /\ Goto(c, "reject")
     \/ Error(c)
  /\ UNCHANGED <<key, owner, writes, cache, kept>>

\* GetByID and CanSignIn.
ReadOwner(c) ==
  /\ call[c].pc = "read_owner"
  /\ \/ /\ owner.active
        /\ call' = [call EXCEPT ![c].pc = "store", ![c].role = owner.role]
     \/ ~owner.active /\ Goto(c, "reject")
     \/ Error(c)
  /\ UNCHANGED <<key, owner, writes, cache, kept>>

\* Both SETs in one MULTI, or, when Redis fails, neither.
Store(c) ==
  /\ call[c].pc = "store"
  /\ \/ cache' = [role |-> call[c].role, byid |-> TRUE, late |-> key = "revoked"]
     \/ Faults /\ UNCHANGED cache
  /\ Goto(c, "accept")
  /\ UNCHANGED <<key, owner, writes, kept>>

Accept(c) == /\ call[c].pc = "accept"
             /\ Done(c)
             /\ UNCHANGED <<key, owner, writes, cache, kept>>

Reject(c) == /\ call[c].pc = "reject"
             /\ Done(c)
             /\ UNCHANGED <<key, owner, writes, cache, kept>>

-----------------------------------------------------------------------------
(* Revoke: tx { UPDATE ... WHERE revoked_at IS NULL; publish }; Drop *)

RevokeBegin(c) == /\ call[c].pc = "idle" /\ key # "absent"
                  /\ Goto(c, "revoke")
                  /\ UNCHANGED <<key, owner, writes, cache, kept>>

\* Mutant: the entry is left to its TTL.
RevokeWithoutDrop(c) ==
  /\ call[c].pc = "revoke"
  /\ key' = IF key = "live" THEN "revoked" ELSE key
  /\ call' = Doubt([call EXCEPT ![c] = Idle], key # "live")
  /\ UNCHANGED <<owner, writes, cache, kept>>

RevokeCommit(c) ==
  /\ call[c].pc = "revoke"
  /\ \/ /\ key = "live"
        /\ key' = "revoked"
        /\ call' = Doubt([call EXCEPT ![c].pc = "find"], FALSE)
     \/ /\ key # "live"   \* zero rows: ErrAPIKeyNotFound
        /\ Done(c)
        /\ UNCHANGED key
  /\ UNCHANGED <<owner, writes, cache, kept>>

\* Drop: GET of the reverse index ...
DropFind(c) ==
  /\ call[c].pc = "find"
  /\ \/ cache.byid /\ Goto(c, "drop") /\ UNCHANGED kept
     \/ ~cache.byid /\ Done(c) /\ UNCHANGED kept
     \/ Faults /\ Done(c) /\ kept' = TRUE
  /\ UNCHANGED <<key, owner, writes, cache>>

\* ... and DEL of both keys.
DropDelete(c) ==
  /\ call[c].pc = "drop"
  /\ \/ cache' = NoCache /\ UNCHANGED kept
     \/ Faults /\ kept' = TRUE /\ UNCHANGED cache
  /\ Done(c)
  /\ UNCHANGED <<key, owner, writes>>

-----------------------------------------------------------------------------
(* The rest of the system *)

\* The owner is disabled, enabled or given another role.
OwnerChanges ==
  /\ writes < MaxWrites
  /\ writes' = writes + 1
  /\ \E u \in [active : BOOLEAN, role : Roles] :
       /\ u # owner
       /\ owner' = u
       /\ call' = Doubt(call, u.active)
  /\ UNCHANGED <<key, cache, kept>>

\* apiKeyCacheTTL after the Store: both keys were set together and go together.
CacheExpires == /\ cache.byid
                /\ cache' = NoCache
                /\ UNCHANGED <<key, owner, writes, call, kept>>

\* The call is cancelled or its process dies.
Die(c) == /\ Faults
          /\ call[c].pc # "idle"
          /\ kept' = (kept \/ call[c].pc \in {"find", "drop"})
          /\ Done(c)
          /\ UNCHANGED <<key, owner, writes, cache>>

Step(c) == \/ CreateCommit(c)
           \/ Lookup(c) \/ ReadKey(c) \/ ReadOwner(c) \/ Store(c) \/ Accept(c) \/ Reject(c)
           \/ RevokeCommit(c) \/ DropFind(c) \/ DropDelete(c)

Next == \/ \E c \in Clients : \/ CreateBegin(c) \/ ValidateBegin(c) \/ RevokeBegin(c)
                              \/ Step(c) \/ Die(c)
        \/ OwnerChanges
        \/ CacheExpires

Spec == Init /\ [][Next]_vars

\* Calls that began keep being scheduled and Redis expires its keys; no call
\* has to begin or die.
FairSpec == /\ Spec
            /\ \A c \in Clients : WF_vars(Step(c))
            /\ WF_vars(CacheExpires)

-----------------------------------------------------------------------------

\* "Positives only" (api_key.go Validate): a key that is valid from the
\* beginning of a Validate to its end is never rejected unless SQL fails that
\* very call, also when it was created a moment ago or another call was just
\* refused.
ValidKeyAccepted == \A c \in Clients : call[c].pc = "reject" => ~call[c].sure

\* Revoke followed by Drop removes whatever was cached before the revocation
\* committed: once no Revoke is under way and unless its Drop failed, an entry
\* for the revoked key can only come from a Validate that read the row too
\* early and stored it late.
OnlyLateStoresSurvive ==
  /\ key = "revoked" /\ cache.role # None
  /\ \A c \in Clients : call[c].pc \notin {"find", "drop"}
  => cache.late \/ kept

\* Whatever is changed about the key or its owner, and whatever fails, the
\* cache ends up empty or right: no call revives an outdated entry.
CacheConverges == <>[](cache.role \in {None, Truth})
=============================================================================
