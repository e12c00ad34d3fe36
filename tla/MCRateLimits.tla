---------------------------- MODULE MCRateLimits ----------------------------
(***************************************************************************)
(* Instances for TLC of what slows a client down: the gateway's in-memory  *)
(* ceiling and its windows in Redis, and the core service's lockout.  They *)
(* share no state, so a behaviour exercises one of them while the others   *)
(* stay as they began.                                                     *)
(***************************************************************************)
EXTENDS GlobalLimit

CONSTANTS Limit, Window, Lag, MaxTime, MaxCalls, MaxFaults,
          Logins, MaxFailures, Lockout, MaxMishaps

VARIABLES limiter, time, key, expire, calls, passed, faults,
          fails, ttl, login, recent, mishaps

\* A window has a length.
ASSUME SlidingAssumption ==
  /\ Limit \in Nat /\ Window \in Nat \ {0} /\ Lag \in Nat
  /\ MaxTime \in Nat /\ MaxCalls \in Nat /\ MaxFaults \in Nat

\* At least one attempt is allowed, and a lockout lasts.
ASSUME ThrottleAssumption ==
  /\ IsFiniteSet(Logins)
  /\ MaxFailures \in Nat \ {0} /\ Lockout \in Nat \ {0} /\ MaxMishaps \in Nat

Sliding == INSTANCE SlidingWindow WITH since <- passed
Throttle == INSTANCE LoginThrottle WITH
  Window <- Lockout, MaxFaults <- MaxMishaps, faults <- mishaps

slidingVars == <<time, key, expire, calls, passed, faults>>
throttleVars == <<fails, ttl, login, recent, mishaps>>
allVars == <<vars, slidingVars, throttleVars, limiter>>

LimitersInit == /\ limiter \in {"global", "sliding", "lockout"}
                /\ Init /\ Sliding!Init /\ Throttle!Init

OnGlobal(A) == limiter = "global" /\ A /\ UNCHANGED <<slidingVars, throttleVars, limiter>>
OnSliding(A) == limiter = "sliding" /\ A /\ UNCHANGED <<vars, throttleVars, limiter>>
OnLockout(A) == limiter = "lockout" /\ A /\ UNCHANGED <<vars, slidingVars, limiter>>

\* The bounded clock of the sliding window has run out.
SlidingOver == limiter = "sliding" /\ time = MaxTime /\ UNCHANGED allVars

LimitersNext == \/ \E r \in Requests : OnGlobal(Serve(r))
                \/ OnGlobal(Tick)
                \/ OnSliding(Sliding!Next)
                \/ SlidingOver
                \/ OnLockout(Throttle!Next)

\* The fairness of the FairSpec of GlobalLimit and of LoginThrottle.
LimitersSpec ==
  /\ LimitersInit /\ [][LimitersNext]_allVars
  /\ WF_allVars(OnGlobal(Tick))
  /\ \A r \in Requests : WF_allVars(OnGlobal(Serve(r)))
  /\ WF_allVars(OnLockout(Throttle!Tick))
  /\ \A l \in Logins : WF_allVars(OnLockout(Throttle!Verify(l) \/ Throttle!Record(l) \/ Throttle!Reset(l)))

\* A burst at a window boundary is limited: see BurstBounded in SlidingWindow.
SlidingBurstBounded == Sliding!BurstBounded

\* The in-memory ceiling never jams: while time passes and requests come, some
\* are let through again and again.
GlobalKeepsAdmitting == limiter = "global" => KeepsAdmitting

\* The lockout limits wrong guesses over every stretch of a window: see
\* GuessesBounded in LoginThrottle.
LoginGuessesBounded == Throttle!GuessesBounded

\* A lockout ends: see LockEnds in LoginThrottle.
LoginLockEnds == Throttle!LockEnds
=============================================================================
