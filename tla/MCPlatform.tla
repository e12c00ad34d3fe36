----------------------------- MODULE MCPlatform -----------------------------
(***************************************************************************)
(* Instances for TLC of the circuit breaker and of the policy cache of the *)
(* core service.  The two share no state, so a behaviour exercises one of  *)
(* them while the other stays as it began.                                 *)
(***************************************************************************)
EXTENDS Breaker

CONSTANTS Instances, Goroutines, TTL, MaxWrites, MaxFaults

VARIABLES part, db, cache, age, due, refreshing, task, faults

Policy == INSTANCE PolicyCache

policyVars == <<db, cache, age, due, refreshing, task, faults>>
allVars == <<vars, policyVars, part>>

Everything == {"ok", "error", "canceled", "panic"}

\* The part that stays as it began begins in one way only.
PlatformInit == /\ part \in {"breaker", "policy"}
                /\ Init /\ Policy!Init
                /\ part = "breaker" => \A i \in Instances : cache[i] = 1

OnBreaker(A) == part = "breaker" /\ A /\ UNCHANGED <<policyVars, part>>
OnPolicies(A) == part = "policy" /\ A /\ UNCHANGED <<vars, part>>

PlatformNext == OnBreaker(Next) \/ OnPolicies(Policy!Next)

\* The fairness of the FairSpec of Breaker and of PolicyCache.
PlatformSpec ==
  /\ PlatformInit /\ [][PlatformNext]_allVars
  /\ WF_allVars(OnBreaker(Tick))
  /\ \A c \in Callers :
       /\ WF_allVars(OnBreaker(Allow(c)))
       /\ WF_allVars(OnBreaker(\/ \E o \in Outcomes \ {"panic"} : Return(c, o)
                               \/ "panic" \in Outcomes /\ Panic(c)))
  /\ WF_allVars(OnPolicies(Policy!Tick))
  /\ \A g \in Goroutines : WF_allVars(OnPolicies(Policy!Step(g)))
  /\ \A i \in Instances :
       /\ SF_allVars(OnPolicies(Policy!FindStale(i)))
       /\ SF_allVars(OnPolicies(Policy!Decide(i) /\ Policy!Kick(i)))

\* The circuit closes for good once the dependency has recovered: see Recovers
\* in Breaker.
BreakerRecovers == part = "breaker" => Recovers

\* Every instance ends up with the last policies: see CatchesUp in PolicyCache.
PolicyCatchesUp == Policy!CatchesUp
=============================================================================
