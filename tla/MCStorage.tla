----------------------------- MODULE MCStorage -----------------------------
(***************************************************************************)
(* Instances for TLC of how the core service stores and reads: the notes   *)
(* under optimistic locking, and the read-through cache.  The two share no *)
(* state, so a behaviour exercises one of them while the other stays as it *)
(* began.                                                                  *)
(***************************************************************************)
EXTENDS Notes, TLC

CONSTANTS Instances, Callers, L1TTL, L2TTL, HasL2, MaxFlight, MaxWrites, MaxMisses

VARIABLES part, source, over, l1, l2, flight, caller, purge, misses

\* Lifetimes may be zero; the row may never change.
ASSUME CacheAssumption == /\ L1TTL \in Nat /\ L2TTL \in Nat /\ MaxFlight \in Nat
                          /\ MaxWrites \in Nat /\ MaxMisses \in Nat

Cache == INSTANCE ReadThroughCache WITH MaxFaults <- MaxMisses, row <- source, faults <- misses

cacheVars == <<source, over, l1, l2, flight, caller, purge, misses>>
allVars == <<vars, cacheVars, part>>

AnyRequest == Permutations(Requests)

\* The part that stays as it began begins in one way only.
StorageInit == /\ part \in {"notes", "cache"}
               /\ Init /\ Cache!Init
               /\ part = "cache" => \A r \in Requests : /\ req[r].id = CHOOSE i \in Ids : TRUE
                                                        /\ req[r].body = CHOOSE b \in Bodies : TRUE

StorageNext == \/ part = "notes" /\ Next /\ UNCHANGED <<cacheVars, part>>
               \/ part = "cache" /\ Cache!Next /\ UNCHANGED <<vars, part>>

StorageSpec == StorageInit /\ [][StorageNext]_allVars

\* What the cache answers is not older than its lifetimes allow: see
\* StaleBounded in ReadThroughCache.
CacheStaleBounded == Cache!StaleBounded
=============================================================================
