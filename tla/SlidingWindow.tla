--------------------------- MODULE SlidingWindow ---------------------------
(***************************************************************************)
(* The Redis levels of the gateway's rate limiter (ratelimit.go): one      *)
(* caller's counters under the sliding-window script, shared by every      *)
(* gateway.  PerIP and PerEndpoint differ in the key and the limit only.   *)
(*                                                                         *)
(* Time is counted in ticks, Window of them to a window.  A gateway reads  *)
(* its clock, then Redis runs the script: the reading may be Lag ticks old *)
(* by then, on the way or because that gateway's clock runs behind.        *)
(***************************************************************************)
EXTENDS Naturals

CONSTANTS Limit,     \* requests per window
          Window,    \* windowMs, in ticks
          Lag,       \* bound on the age of a clock reading
          MaxTime,   \* bound on the clock
          MaxCalls,  \* bound on the requests of one tick
          MaxFaults  \* bound on failed scripts

VARIABLES
  time,      \* the true time
  key,       \* the counter of each window's key
  expire,    \* when each key disappears
  calls,     \* requests of this tick
  since,     \* history: requests the script let through from each tick on
  faults

vars == <<time, key, expire, calls, since, faults>>

Times == 0..MaxTime
Keys == 0..(MaxTime \div Window)

TypeOK == /\ time \in Times
          /\ key \in [Keys -> 0..((MaxTime + 1) * MaxCalls)]
          /\ expire \in [Keys -> 0..(MaxTime + 2 * Window)]
          /\ calls \in 0..MaxCalls
          /\ since \in [Times -> 0..((MaxTime + 1) * MaxCalls)]
          /\ faults \in 0..MaxFaults

Init == /\ time = 0
        /\ key = [k \in Keys |-> 0]
        /\ expire = [k \in Keys |-> 0]
        /\ calls = 0
        /\ since = [t \in Times |-> 0]
        /\ faults = 0

\* ARGV[1] * 2
KeyLife == 2 * Window

\* GET, or '0' for a key that is absent.
Get(k) == IF k \in Keys /\ time < expire[k] THEN key[k] ELSE 0

\* Mutant: a fixed window, whose predecessor does not count.
WeightedFixed(prev, curr, elapsed) == curr

\* math.floor(prev * weight + curr)
Weighted(prev, curr, elapsed) == (prev * (Window - elapsed)) \div Window + curr

\* The script for a request that read the clock at now: count it, start the
\* key's life with the first one, and weigh.
Script(now) ==
  LET k == now \div Window
      curr == Get(k) + 1
      prev == IF k = 0 THEN 0 ELSE Get(k - 1)
  IN /\ key' = [key EXCEPT ![k] = curr]
     /\ expire' = IF curr = 1 THEN [expire EXCEPT ![k] = time + KeyLife] ELSE expire
     /\ since' = IF Weighted(prev, curr, now % Window) <= Limit
                   THEN [t \in Times |-> IF t <= time THEN since[t] + 1 ELSE since[t]]
                   ELSE since

\* allow: a request the limiter decides on.
Allow ==
  /\ calls < MaxCalls
  /\ \E lag \in 0..Lag : lag <= time /\ Script(time - lag)
  /\ calls' = calls + 1
  /\ UNCHANGED <<time, faults>>

\* The answer is lost: the request is counted and let through unjudged.  (A
\* script that never ran lets it through and changes nothing.)
AllowUnanswered ==
  /\ calls < MaxCalls /\ faults < MaxFaults
  /\ \E lag \in 0..Lag : /\ lag <= time
                         /\ LET k == (time - lag) \div Window IN
                            /\ key' = [key EXCEPT ![k] = Get(k) + 1]
                            /\ expire' = IF Get(k) = 0
                                 THEN [expire EXCEPT ![k] = time + KeyLife] ELSE expire
  /\ calls' = calls + 1
  /\ faults' = faults + 1
  /\ UNCHANGED <<time, since>>

Tick ==
  /\ time < MaxTime
  /\ time' = time + 1
  /\ calls' = 0
  /\ UNCHANGED <<key, expire, since, faults>>

Next == Allow \/ AllowUnanswered \/ Tick

Spec == Init /\ [][Next]_vars

-----------------------------------------------------------------------------

\* With exact clocks, a burst is limited wherever it falls: in any stretch of
\* at most one window the caller gets no more than Limit, plus the share of
\* Limit that slides out meanwhile, rounded up.
BurstBounded == \A from \in 0..time : time - from < Window =>
  since[from] <= Limit + (Limit * (time - from) + Window - 1) \div Window

\* ratelimit.go: "Unlike a fixed window it cannot be gamed with a 2x burst at
\* the window boundary".
NoDoubleBurst == time > 0 => since[time - 1] < 2 * Limit
=============================================================================
