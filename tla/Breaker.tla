------------------------------ MODULE Breaker ------------------------------
(***************************************************************************)
(* platform/breaker: the circuit breaker.  Each call of Do takes the mutex *)
(* twice, in allow and in recordSuccess or recordFailure; between the two  *)
(* the dependency runs, other calls come and go and time passes, so a      *)
(* result is recorded in whatever state the circuit is in by then.         *)
(***************************************************************************)
EXTENDS Naturals, FiniteSets

CONSTANTS Callers,           \* goroutines that call Do, each any number of times
          FailureThreshold,  \* Config.FailureThreshold, after defaults
          OpenTimeout,       \* Config.OpenTimeout, in clock ticks
          HalfOpenMax,       \* Config.HalfOpenMax
          Outcomes           \* how a call of fn may end in this instance

ASSUME BreakerAssumption ==
  /\ FailureThreshold \in Nat \ {0}
  /\ OpenTimeout \in Nat \ {0}
  /\ HalfOpenMax \in Nat \ {0}
  /\ Outcomes \subseteq {"ok", "error", "canceled", "panic"}

VARIABLES
  state,     \* Breaker.state
  failures,  \* Breaker.failures
  probes,    \* Breaker.probes
  elapsed,   \* now - openedAt, saturated at OpenTimeout
  call,      \* what each caller is doing: "idle", "called", "probing"
  healthy,   \* has the dependency recovered for good
  run,       \* history: failures recorded in a row since the circuit closed
  waited,    \* history: ticks since the circuit last left closed or half-open
  leaked     \* history: a probe has panicked

vars == <<state, failures, probes, elapsed, call, healthy, run, waited, leaked>>

TypeOK ==
  /\ state \in {"closed", "open", "half_open"}
  /\ failures \in 0..(FailureThreshold - 1)
  /\ probes \in 0..HalfOpenMax
  /\ elapsed \in 0..OpenTimeout
  /\ call \in [Callers -> {"idle", "called", "probing"}]
  /\ healthy \in BOOLEAN
  /\ run \in 0..FailureThreshold
  /\ waited \in 0..OpenTimeout
  /\ leaked \in BOOLEAN

\* New: closed; openedAt is the zero time, long ago.
Init ==
  /\ state = "closed" /\ failures = 0 /\ probes = 0 /\ elapsed = OpenTimeout
  /\ call = [c \in Callers |-> "idle"]
  /\ healthy = FALSE
  /\ run = 0
  /\ waited = OpenTimeout
  /\ leaked = FALSE

\* refresh: the state and the probe count it leaves.
TimedOut == state = "open" /\ elapsed >= OpenTimeout
Refreshed == IF TimedOut THEN "half_open" ELSE state
RefreshedProbes == IF TimedOut THEN 0 ELSE probes

\* State(): refresh under the mutex.
State ==
  /\ state' = Refreshed
  /\ probes' = RefreshedProbes
  /\ UNCHANGED <<failures, elapsed, call, healthy, run, waited, leaked>>

\* allow: refresh, then admit the call, as a probe when half-open, or reject.
Allow(c) ==
  /\ call[c] = "idle"
  /\ state' = Refreshed
  /\ \/ /\ Refreshed = "closed"
        /\ call' = [call EXCEPT ![c] = "called"]
        /\ probes' = RefreshedProbes
     \/ /\ Refreshed = "half_open" /\ RefreshedProbes < HalfOpenMax
        /\ call' = [call EXCEPT ![c] = "probing"]
        /\ probes' = RefreshedProbes + 1
     \/ /\ \/ Refreshed = "open"   \* ErrOpen
           \/ Refreshed = "half_open" /\ RefreshedProbes >= HalfOpenMax
        /\ probes' = RefreshedProbes
        /\ UNCHANGED call
  /\ UNCHANGED <<failures, elapsed, healthy, run, waited, leaked>>

\* Mutant: reopening does not stamp openedAt.
openWithoutStamp ==
  /\ state' = "open"
  /\ failures' = 0
  /\ probes' = 0
  /\ UNCHANGED elapsed

open ==
  /\ state' = "open"
  /\ elapsed' = 0
  /\ failures' = 0
  /\ probes' = 0

\* Mutant: the failure count survives the closing of the circuit.
recordSuccessKeepingFailures ==
  /\ state' = IF state = "half_open" THEN "closed" ELSE state
  /\ failures' = IF state = "half_open" THEN failures ELSE 0
  /\ run' = 0
  /\ UNCHANGED <<probes, elapsed, waited>>

recordSuccess ==
  /\ state' = IF state = "half_open" THEN "closed" ELSE state
  /\ failures' = 0
  /\ run' = 0
  /\ UNCHANGED <<probes, elapsed, waited>>

\* Mutant: a failed probe is counted like any other failure.
recordFailureNoReopen ==
  /\ IF failures + 1 >= FailureThreshold
       THEN open
       ELSE failures' = failures + 1 /\ UNCHANGED <<state, probes, elapsed>>
  /\ run' = IF state = "closed" THEN run + 1 ELSE run
  /\ waited' = IF state # "open" /\ state' = "open" THEN 0 ELSE waited

\* Mutant: the circuit opens one failure too late.
recordFailureOffByOne ==
  /\ IF state = "half_open" \/ failures + 1 > FailureThreshold
       THEN open
       ELSE failures' = failures + 1 /\ UNCHANGED <<state, probes, elapsed>>
  /\ run' = IF state = "closed" THEN run + 1 ELSE run
  /\ waited' = IF state # "open" /\ state' = "open" THEN 0 ELSE waited

\* A failure in the half-open state reopens; otherwise it counts, also while
\* the circuit is open.
recordFailure ==
  /\ IF state = "half_open" \/ failures + 1 >= FailureThreshold
       THEN open
       ELSE failures' = failures + 1 /\ UNCHANGED <<state, probes, elapsed>>
  /\ run' = IF state = "closed" THEN run + 1 ELSE run
  /\ waited' = IF state # "open" /\ state' = "open" THEN 0 ELSE waited

\* fn returned: an error other than context.Canceled is a failure, everything
\* else a success.  A dependency that has recovered returns no more errors.
Return(c, outcome) ==
  /\ call[c] # "idle"
  /\ outcome \in {"ok", "error", "canceled"}
  /\ healthy => outcome # "error"
  /\ call' = [call EXCEPT ![c] = "idle"]
  /\ IF outcome = "error" THEN recordFailure ELSE recordSuccess
  /\ UNCHANGED <<healthy, leaked>>

\* fn panicked: Do records nothing on its way up the stack.
Panic(c) ==
  /\ call[c] # "idle"
  /\ leaked' = (leaked \/ call[c] = "probing")
  /\ call' = [call EXCEPT ![c] = "idle"]
  /\ UNCHANGED <<state, failures, probes, elapsed, healthy, run, waited>>

\* Saturating at OpenTimeout: refresh only asks whether it has been reached.
Tick ==
  /\ elapsed' = IF elapsed < OpenTimeout THEN elapsed + 1 ELSE elapsed
  /\ waited' = IF waited < OpenTimeout THEN waited + 1 ELSE waited
  /\ UNCHANGED <<state, failures, probes, call, healthy, run, leaked>>

Heal ==
  /\ ~healthy
  /\ healthy' = TRUE
  /\ UNCHANGED <<state, failures, probes, elapsed, call, run, waited, leaked>>

Next ==
  \/ State \/ Tick \/ Heal
  \/ \E c \in Callers :
       \/ Allow(c)
       \/ \E outcome \in Outcomes \ {"panic"} : Return(c, outcome)
       \/ "panic" \in Outcomes /\ Panic(c)

Spec == Init /\ [][Next]_vars

\* The clock runs, every admitted call ends one way or another, and the
\* callers keep calling.
FairSpec ==
  /\ Spec
  /\ WF_vars(Tick)
  /\ \A c \in Callers :
       /\ WF_vars(Allow(c))
       /\ WF_vars(\/ \E outcome \in Outcomes \ {"panic"} : Return(c, outcome)
                  \/ "panic" \in Outcomes /\ Panic(c))

-----------------------------------------------------------------------------
(* What holds *)

\* Config.FailureThreshold is "the consecutive-failure count that opens the
\* circuit": a closed circuit opens only when that many failures were recorded
\* in a row since it closed.  Failures of calls admitted long ago that arrive
\* while the circuit is open must not count towards the next opening.
OpensOnRun ==
  [][ state = "closed" /\ state' = "open" => run' = FailureThreshold ]_vars

\* Every time the circuit opens, it admits nothing until OpenTimeout has
\* passed in full, also when a failed probe reopened it.
FullTimeout ==
  [][ \A c \in Callers :
        call[c] = "idle" /\ call'[c] # "idle" /\ state # "closed"
          => waited = OpenTimeout ]_vars

\* Every probe slot is taken, by calls that are over: one that panicked never
\* gives its slot back.
SlotsLeaked == /\ leaked
               /\ state = "half_open" /\ probes = HalfOpenMax
               /\ \A c \in Callers : call[c] = "idle"

\* Once the dependency has recovered the circuit closes, and stays closed,
\* unless panics have used up the probe slots: nothing else keeps it open.
Recovers == healthy ~> ([](state = "closed") \/ []SlotsLeaked)

-----------------------------------------------------------------------------
(* What the comments say and the code does not do *)

\* "HalfOpenMax caps concurrent probe calls in the half-open state."
ProbesCapped ==
  state = "half_open" =>
    Cardinality({c \in Callers : call[c] = "probing"}) <= HalfOpenMax

\* "then probes periodically": a circuit that does not close is probed again
\* and again.
ProbesPeriodically ==
  []<>(state = "closed" \/ \E c \in Callers : call[c] = "probing")
=============================================================================
