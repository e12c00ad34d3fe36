--------------------------- MODULE BreakerProofs ---------------------------
(***************************************************************************)
(* For every threshold, timeout, probe limit and set of callers: the type  *)
(* invariant of Breaker and its two safety properties.                     *)
(***************************************************************************)
EXTENDS Breaker, TLAPS

\* In the closed state the failure count is the run of failures since the
\* circuit closed; in the open state the clock that allow reads is no further
\* than the time since the circuit opened; in the half-open state the timeout
\* has passed.
CountsRun == state = "closed" => failures = run
ClockSound == /\ state = "open" => elapsed <= waited
              /\ state = "half_open" => waited = OpenTimeout

IInv == TypeOK /\ CountsRun /\ ClockSound

\* New starts in a state that satisfies the invariant.
LEMMA InitInv == Init => IInv
<1> SUFFICES ASSUME Init PROVE IInv
  OBVIOUS
<1>1. healthy \in BOOLEAN /\ leaked \in BOOLEAN
  BY Zenon DEF Init
<1>2. QED
  BY <1>1, BreakerAssumption DEF Init, IInv, TypeOK, CountsRun, ClockSound

\* One step of any caller, of the clock or of the dependency keeps it.
LEMMA StepInv == IInv /\ [Next]_vars => IInv'
<1> SUFFICES ASSUME IInv, [Next]_vars PROVE IInv'
  OBVIOUS
<1> USE BreakerAssumption DEF IInv, TypeOK, CountsRun, ClockSound
<1>1. CASE State
  BY <1>1 DEF State, Refreshed, RefreshedProbes, TimedOut
<1>2. CASE Tick
  BY <1>2 DEF Tick
<1>3. CASE Heal
  BY <1>3 DEF Heal
<1>4. ASSUME NEW c \in Callers, Allow(c) PROVE IInv'
  <2>1. call' \in [Callers -> {"idle", "called", "probing"}]
    BY <1>4 DEF Allow
  <2>2. probes' \in 0..HalfOpenMax
    BY <1>4 DEF Allow, Refreshed, RefreshedProbes, TimedOut
  <2>3. state' \in {"closed", "open", "half_open"} /\ CountsRun' /\ ClockSound'
    BY <1>4 DEF Allow, Refreshed, TimedOut
  <2>4. QED
    BY <1>4, <2>1, <2>2, <2>3 DEF Allow
<1>5. ASSUME NEW c \in Callers, NEW outcome \in Outcomes, Return(c, outcome)
      PROVE  IInv'
  <2>1. call' \in [Callers -> {"idle", "called", "probing"}]
    BY <1>5 DEF Return
  <2>2. CASE recordFailure
    BY <1>5, <2>1, <2>2 DEF Return, recordFailure, open
  <2>3. CASE recordSuccess
    BY <1>5, <2>1, <2>3 DEF Return, recordSuccess
  <2>4. QED
    BY <1>5, <2>2, <2>3 DEF Return
<1>6. ASSUME NEW c \in Callers, Panic(c) PROVE IInv'
  BY <1>6 DEF Panic
<1>7. CASE UNCHANGED vars
  BY <1>7 DEF vars
<1>8. QED
  BY <1>1, <1>2, <1>3, <1>4, <1>5, <1>6, <1>7 DEF Next

\* The invariant holds in every reachable state.
THEOREM Invariance == Spec => []IInv
  BY InitInv, StepInv, PTL DEF Spec

\* Type correctness: in particular the failure count stays below the
\* threshold and never more than HalfOpenMax probes are counted.
THEOREM TypeCorrect == Spec => []TypeOK
<1>1. IInv => TypeOK
  BY DEF IInv
<1>2. QED
  BY Invariance, <1>1, PTL

\* A closed circuit opens only on FailureThreshold consecutive failures
\* recorded since it closed, whatever late results arrived meanwhile.
THEOREM OpensOnRunHolds == Spec => OpensOnRun
<1>1. IInv /\ [Next]_vars =>
        [state = "closed" /\ state' = "open" => run' = FailureThreshold]_vars
  <2> SUFFICES ASSUME IInv, Next, state = "closed", state' = "open"
               PROVE  run' = FailureThreshold
    OBVIOUS
  <2> USE BreakerAssumption DEF IInv, TypeOK, CountsRun
  <2>1. ASSUME NEW c \in Callers, NEW outcome \in Outcomes, Return(c, outcome)
        PROVE  run' = FailureThreshold
    <3>1. recordFailure
      BY <2>1 DEF Return, recordSuccess
    <3>2. QED
      BY <3>1 DEF recordFailure
  <2>2. ASSUME NEW c \in Callers, Allow(c) PROVE FALSE
    BY <2>2 DEF Allow, Refreshed, TimedOut
  <2>3. QED
    BY <2>1, <2>2 DEF Next, State, Refreshed, TimedOut, Tick, Heal, Panic
<1>2. QED
  BY Invariance, <1>1, PTL DEF Spec, OpensOnRun

\* No call is admitted to a circuit that has not been open for the whole of
\* OpenTimeout.
THEOREM FullTimeoutHolds == Spec => FullTimeout
<1> DEFINE Quiet == \A c \in Callers :
             call[c] = "idle" /\ call'[c] # "idle" /\ state # "closed"
               => waited = OpenTimeout
<1>1. IInv /\ [Next]_vars => [Quiet]_vars
  <2> SUFFICES ASSUME IInv, Next,
                      NEW c \in Callers, call[c] = "idle", call'[c] # "idle",
                      state # "closed"
               PROVE  waited = OpenTimeout
    OBVIOUS
  <2> USE BreakerAssumption DEF IInv, TypeOK, ClockSound
  <2>1. ASSUME NEW d \in Callers, Allow(d) PROVE waited = OpenTimeout
    BY <2>1 DEF Allow, Refreshed, RefreshedProbes, TimedOut
  <2>2. ASSUME NEW d \in Callers, NEW outcome \in Outcomes, Return(d, outcome)
        PROVE  FALSE
    BY <2>2 DEF Return
  <2>3. ASSUME NEW d \in Callers, Panic(d) PROVE FALSE
    BY <2>3 DEF Panic
  <2>4. QED
    BY <2>1, <2>2, <2>3 DEF Next, State, Tick, Heal
<1>2. QED
  BY Invariance, <1>1, PTL DEF Spec, FullTimeout
=============================================================================
