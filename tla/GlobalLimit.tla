---------------------------- MODULE GlobalLimit ----------------------------
(***************************************************************************)
(* The gateway's in-memory ceiling (ratelimit.go, Global): a fixed window  *)
(* of one second kept in two atomics, shared by every request's goroutine. *)
(* Each goroutine runs one request after the other; each atomic operation  *)
(* is a step.                                                              *)
(*                                                                         *)
(* Seconds are only compared for equality, so they are counted modulo      *)
(* Seconds; a number about to be reused is replaced by Old wherever it is  *)
(* still remembered.  A request is never stalled for a whole cycle.        *)
(***************************************************************************)
EXTENDS Integers, FiniteSets

CONSTANTS Requests,   \* goroutines serving requests
          PerSecond,  \* the configured ceiling
          Seconds     \* bound: length of the clock's cycle

ASSUME LimitAssumption == /\ PerSecond \in Nat \ {0}
                          /\ Seconds \in Nat /\ Seconds > 1
                          /\ IsFiniteSet(Requests)

VARIABLES
  clock,     \* the current second
  window,    \* globalWindow
  count,     \* globalCount, saturated one above the ceiling
  pc,        \* next statement of each request
  now,       \* local now
  seen,      \* local window
  admitted,  \* history: requests let through since globalCount was last stored
  fresh,     \* history: swaps won in this second by requests that began in it
  late       \* history: swaps won in this second by requests that began earlier

vars == <<clock, window, count, pc, now, seen, admitted, fresh, late>>

Old == -1
Times == Old..(Seconds - 1)

TypeOK == /\ clock \in 0..(Seconds - 1)
          /\ window \in Times
          /\ count \in 0..(PerSecond + 1)
          /\ pc \in [Requests -> {"idle", "load", "swap", "store", "add"}]
          /\ now \in [Requests -> Times]
          /\ seen \in [Requests -> Times]
          /\ admitted \in 0..PerSecond
          /\ fresh \in Nat
          /\ late \in Nat

\* A new limiter: the zero window is no second of the running clock.
Init == /\ clock = 0
        /\ window = Old
        /\ count = 0
        /\ pc = [r \in Requests |-> "idle"]
        /\ now = [r \in Requests |-> Old]
        /\ seen = [r \in Requests |-> Old]
        /\ admitted = 0
        /\ fresh = 0
        /\ late = 0

\* now := time.Now().Unix()
Begin(r) ==
  /\ pc[r] = "idle"
  /\ now' = [now EXCEPT ![r] = clock]
  /\ pc' = [pc EXCEPT ![r] = "load"]
  /\ UNCHANGED <<clock, window, count, seen, admitted, fresh, late>>

\* window := globalWindow.Load(), and the comparison with now.
Load(r) ==
  /\ pc[r] = "load"
  /\ seen' = [seen EXCEPT ![r] = window]
  /\ pc' = [pc EXCEPT ![r] = IF now[r] # window THEN "swap" ELSE "add"]
  /\ UNCHANGED <<clock, window, count, now, admitted, fresh, late>>

\* Mutant: a plain store in place of the compare-and-swap.
SwapBlindly(r) ==
  /\ pc[r] = "swap"
  /\ window' = now[r]
  /\ pc' = [pc EXCEPT ![r] = "store"]
  /\ IF now[r] = clock THEN fresh' = fresh + 1 /\ UNCHANGED late
                       ELSE late' = late + 1 /\ UNCHANGED fresh
  /\ UNCHANGED <<clock, count, now, seen, admitted>>

\* globalWindow.CompareAndSwap(window, now)
Swap(r) ==
  /\ pc[r] = "swap"
  /\ \/ /\ window = seen[r]
        /\ window' = now[r]
        /\ pc' = [pc EXCEPT ![r] = "store"]
        /\ IF now[r] = clock THEN fresh' = fresh + 1 /\ UNCHANGED late
                             ELSE late' = late + 1 /\ UNCHANGED fresh
     \/ /\ window # seen[r]
        /\ pc' = [pc EXCEPT ![r] = "add"]
        /\ UNCHANGED <<window, fresh, late>>
  /\ UNCHANGED <<clock, count, now, seen, admitted>>

\* Mutant: the winner of the swap goes straight to the count.
StoreNothing(r) ==
  /\ pc[r] = "store"
  /\ pc' = [pc EXCEPT ![r] = "add"]
  /\ UNCHANGED <<clock, window, count, now, seen, admitted, fresh, late>>

\* globalCount.Store(0)
Store(r) ==
  /\ pc[r] = "store"
  /\ count' = 0
  /\ admitted' = 0
  /\ pc' = [pc EXCEPT ![r] = "add"]
  /\ UNCHANGED <<clock, window, now, seen, fresh, late>>

\* Mutant: the ceiling is compared with the value before the addition.
AddOffByOne(r) ==
  /\ pc[r] = "add"
  /\ count' = IF count > PerSecond THEN count ELSE count + 1
  /\ admitted' = IF count <= PerSecond THEN admitted + 1 ELSE admitted
  /\ pc' = [pc EXCEPT ![r] = "idle"]
  /\ UNCHANGED <<clock, window, now, seen, fresh, late>>

\* globalCount.Add(1), and the answer: next, or too many requests.
Add(r) ==
  /\ pc[r] = "add"
  /\ count' = IF count > PerSecond THEN count ELSE count + 1
  /\ admitted' = IF count' <= PerSecond THEN admitted + 1 ELSE admitted
  /\ pc' = [pc EXCEPT ![r] = "idle"]
  /\ UNCHANGED <<clock, window, now, seen, fresh, late>>

\* The next second: its number is forgotten wherever it is remembered.
Tick ==
  LET next == (clock + 1) % Seconds
      Forget(t) == IF t = next THEN Old ELSE t
  IN /\ \A r \in Requests : pc[r] # "idle" => now[r] # next
     /\ clock' = next
     /\ window' = Forget(window)
     /\ now' = [r \in Requests |-> Forget(now[r])]
     /\ seen' = [r \in Requests |-> Forget(seen[r])]
     /\ fresh' = 0
     /\ late' = 0
     /\ UNCHANGED <<count, pc, admitted>>

Serve(r) == Begin(r) \/ Load(r) \/ Swap(r) \/ Store(r) \/ Add(r)

Next == (\E r \in Requests : Serve(r)) \/ Tick

Spec == Init /\ [][Next]_vars

\* Goroutines are scheduled, requests keep coming, and time passes.
FairSpec == Spec /\ WF_vars(Tick) /\ \A r \in Requests : WF_vars(Serve(r))

-----------------------------------------------------------------------------

\* Between two stores of zero no more than PerSecond requests are let through,
\* however their additions interleave with the reset.
CeilingHolds == admitted = IF count <= PerSecond THEN count ELSE PerSecond

\* The requests of one second reset the window once between them; only a
\* request that read the clock in an earlier second and swaps now can cause
\* another reset, and each such swap only one.
ResetsAccounted == fresh <= late + 1

\* The limiter never jams: while time passes and requests come, some are let
\* through again and again.
KeepsAdmitting == []<><<admitted' = admitted + 1>>_vars

\* ratelimit.go: "a CAS claims each new second's reset (exactly one goroutine
\* wins)".
OneWinnerPerSecond == fresh + late <= 1
=============================================================================
