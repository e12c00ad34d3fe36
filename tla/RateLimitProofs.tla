-------------------------- MODULE RateLimitProofs --------------------------
(***************************************************************************)
(* Proofs about what slows a client down: GlobalLimit for any number of    *)
(* requests, any ceiling and any cycle of seconds; SlidingWindow for any   *)
(* limit and any window; LoginThrottle for any number of attempts, any     *)
(* number of failures and any window.                                      *)
(***************************************************************************)
EXTENDS MCRateLimits, FiniteSetTheorems, TLAPS

-----------------------------------------------------------------------------
(* The in-memory ceiling of GlobalLimit *)

\* A request in flight remembers a real second, and one about to swap has
\* seen another second in the window.
Reading == \A r \in Requests : /\ pc[r] # "idle" => now[r] # Old
                               /\ pc[r] = "swap" => now[r] # seen[r]

\* A reset too many is always paid for by a late swap: as long as the window
\* is not the current second, the late ones cover all the others.
Paid == /\ ResetsAccounted
        /\ window # clock => fresh <= late

\* The inductive invariant.
IInv == TypeOK /\ CeilingHolds /\ Reading /\ Paid

\* The inductive invariant holds initially.
LEMMA Initial == Init => IInv
  BY LimitAssumption
     DEF Init, IInv, TypeOK, CeilingHolds, Reading, Paid, ResetsAccounted, Times, Old

\* Every step of a request, of the clock, and every stutter preserves it.
LEMMA Inductive == IInv /\ [Next]_vars => IInv'
<1> SUFFICES ASSUME IInv, [Next]_vars PROVE IInv'
  OBVIOUS
<1> USE LimitAssumption
<1> USE DEF IInv, TypeOK, CeilingHolds, Reading, Paid, ResetsAccounted, Times, Old
<1>1. ASSUME NEW r \in Requests, Begin(r) PROVE IInv'
  BY <1>1 DEF Begin
<1>2. ASSUME NEW r \in Requests, Load(r) PROVE IInv'
  BY <1>2 DEF Load
<1>3. ASSUME NEW r \in Requests, Swap(r) PROVE IInv'
  <2>1. CASE window = seen[r] /\ now[r] = clock
    BY <1>3, <2>1 DEF Swap
  <2>2. CASE window = seen[r] /\ now[r] # clock
    BY <1>3, <2>2 DEF Swap
  <2>3. CASE window # seen[r]
    BY <1>3, <2>3 DEF Swap
  <2> QED
    BY <2>1, <2>2, <2>3
<1>4. ASSUME NEW r \in Requests, Store(r) PROVE IInv'
  BY <1>4 DEF Store
<1>5. ASSUME NEW r \in Requests, Add(r) PROVE IInv'
  BY <1>5 DEF Add
<1>6. CASE Tick
  <2> DEFINE next == (clock + 1) % Seconds
  <2>1. next \in 0..(Seconds - 1)
    OBVIOUS
  <2> HIDE DEF next
  <2>2. /\ clock' = next
        /\ window' = IF window = next THEN Old ELSE window
        /\ \A r \in Requests : /\ now'[r] = IF now[r] = next THEN Old ELSE now[r]
                               /\ seen'[r] = IF seen[r] = next THEN Old ELSE seen[r]
                               /\ pc[r] # "idle" => now[r] # next
        /\ now' \in [Requests -> Times] /\ seen' \in [Requests -> Times]
        /\ fresh' = 0 /\ late' = 0
        /\ UNCHANGED <<count, pc, admitted>>
    BY <1>6 DEF Tick, next
  <2> QED
    BY <2>1, <2>2
<1>7. CASE UNCHANGED vars
  BY <1>7 DEF vars
<1> QED
  BY <1>1, <1>2, <1>3, <1>4, <1>5, <1>6, <1>7 DEF Next, Serve

\* Every reachable state satisfies the inductive invariant.
THEOREM Invariance == Spec => []IInv
  BY Initial, Inductive, PTL DEF Spec

\* The limiter's variables keep their types; in particular no more than
\* PerSecond requests are let through between two resets.
THEOREM TypeCorrect == Spec => []TypeOK
<1>1. IInv => TypeOK
  BY DEF IInv
<1> QED
  BY Invariance, <1>1, PTL

\* The ceiling of Global: the requests let through since the last store of
\* zero are exactly the first PerSecond additions.
THEOREM CeilingHoldsAlways == Spec => []CeilingHolds
<1>1. IInv => CeilingHolds
  BY DEF IInv
<1> QED
  BY Invariance, <1>1, PTL

\* The compare-and-swap of Global: beyond the first, each reset of a second
\* is caused by a request that read the clock before that second.
THEOREM ResetsAccountedHolds == Spec => []ResetsAccounted
<1>1. IInv => ResetsAccounted
  BY DEF IInv, Paid
<1> QED
  BY Invariance, <1>1, PTL

-----------------------------------------------------------------------------
(* The sliding window of SlidingWindow, with exact clocks *)

\* The current window, the tick it began, and the count of the one before.
Current == time \div Window
Began == Current * Window
Previous == IF Current = 0 THEN 0 ELSE key[Current - 1]

Counters == /\ time \in 0..MaxTime
            /\ key \in [Sliding!Keys -> Nat]
            /\ expire \in [Sliding!Keys -> Nat]
            /\ passed \in [Sliding!Times -> Nat]

\* A key belongs to a window that has begun, and outlives the next one.
Alive == \A k \in Sliding!Keys :
  key[k] > 0 => k * Window <= time /\ (k + 2) * Window <= expire[k]

\* Nothing has passed in the future; the requests of this window that passed
\* are counted, and the last of them was within the limit, weighed at an
\* earlier moment and so at this one.
ThisWindow ==
  /\ \A t \in Sliding!Times : t > time => passed[t] = 0
  /\ \A t \in Sliding!Times : Began <= t => passed[t] <= passed[Began]
  /\ passed[Began] <= key[Current]
  /\ passed[Began] = 0 \/ (Previous * (Window + Began - time)) \div Window
                             + passed[Began] <= Limit

\* The requests that passed in the window before were counted and limited.
LastWindow == \A t \in Sliding!Times :
  t < Began /\ Began <= t + Window => /\ passed[t] <= passed[Began] + Previous
                                      /\ passed[t] <= passed[Began] + Limit

\* The inductive invariant.
SlidingInv == Counters /\ Alive /\ ThisWindow /\ LastWindow

\* What the quotient is.
LEMMA Division == \A x \in Nat, w \in Nat \ {0} :
  /\ x \div w \in Nat /\ x % w \in Nat /\ x % w < w
  /\ x = w * (x \div w) + (x % w)
  OBVIOUS

\* A number within w of a multiple of w has that quotient.
LEMMA Quotient == \A q, x \in Nat, w \in Nat \ {0} :
  q * w <= x /\ x < q * w + w => x \div w = q
<1> SUFFICES ASSUME NEW q \in Nat, NEW x \in Nat, NEW w \in Nat \ {0},
                    q * w <= x, x < q * w + w
             PROVE  x \div w = q
  OBVIOUS
<1>1. \A r, s, y, v \in Int : v > 0 /\ y = v * r + s /\ 0 <= s /\ s < v => r = y \div v
  OBVIOUS
<1>2. x = w * q + (x - q * w) /\ 0 <= x - q * w /\ x - q * w < w /\ x - q * w \in Int
  OBVIOUS
<1> QED
  BY <1>1, <1>2

\* Products and quotients grow with their arguments.
LEMMA ProductGrows == \A x, y, z \in Nat : x <= y => x * z <= y * z /\ z * x <= z * y
  OBVIOUS

\* See ProductGrows.
LEMMA QuotientGrows == \A x, y \in Nat, w \in Nat \ {0} : x <= y => x \div w <= y \div w
<1> SUFFICES ASSUME NEW x \in Nat, NEW y \in Nat, NEW w \in Nat \ {0}, x <= y
             PROVE  x \div w <= y \div w
  OBVIOUS
<1> DEFINE p == x \div w
           q == y \div w
<1>1. p \in Nat /\ w * p <= x /\ q \in Nat /\ y < w * q + w
  BY Division
<1> HIDE DEF p, q
<1>2. ASSUME q + 1 <= p PROVE FALSE
  <2>1. w * (q + 1) <= w * p
    BY <1>1, <1>2, ProductGrows
  <2>2. w * (q + 1) = w * q + w /\ w * p \in Nat /\ w * q \in Nat
    BY <1>1
  <2> QED
    BY <1>1, <2>1, <2>2
<1>3. p <= q
  BY <1>1, <1>2
<1> QED
  BY <1>3 DEF p, q

\* Where the clock stands in its window.
LEMMA Clock ==
  ASSUME NEW t \in 0..MaxTime
  PROVE  /\ t \div Window \in Nat
         /\ (t \div Window) * Window \in Nat
         /\ (t \div Window) * Window <= t /\ t < (t \div Window) * Window + Window
         /\ t % Window = t - (t \div Window) * Window
         /\ t \div Window \in Sliding!Keys
         /\ \A k \in Sliding!Keys : k \in Nat
<1> USE SlidingAssumption
<1>1. t \in Nat /\ t <= MaxTime
  OBVIOUS
<1>2. /\ t \div Window \in Nat /\ t % Window \in Nat /\ t % Window < Window
      /\ t = Window * (t \div Window) + (t % Window)
  BY <1>1, Division
<1>3. Window * (t \div Window) = (t \div Window) * Window /\ (t \div Window) * Window \in Nat
  BY <1>2
<1>4. t \div Window <= MaxTime \div Window /\ MaxTime \div Window \in Nat
  BY <1>1, QuotientGrows, Division
<1>5. t \div Window \in Sliding!Keys /\ \A k \in Sliding!Keys : k \in Nat
  BY <1>2, <1>4 DEF Sliding!Keys
<1> QED
  BY <1>1, <1>2, <1>3, <1>5

\* The keys the script reads are those of this window and the last.
LEMMA Reads ==
  ASSUME Counters, Alive
  PROVE  /\ Sliding!Get(Current) = key[Current]
         /\ Current # 0 => Sliding!Get(Current - 1) = key[Current - 1]
         /\ Previous \in Nat /\ Current \in Sliding!Keys /\ Current \in Nat
         /\ Current # 0 => Current - 1 \in Sliding!Keys
<1> USE SlidingAssumption
<1>1. /\ Current \in Nat /\ Current \in Sliding!Keys
      /\ Current * Window \in Nat /\ time < Current * Window + Window
      /\ \A k \in Sliding!Keys : k \in Nat
  BY Clock DEF Counters, Current
<1>2. Current # 0 => Current - 1 \in Sliding!Keys
  BY <1>1 DEF Sliding!Keys
<1> DEFINE c == Current
<1> HIDE DEF c
<1>3. ASSUME NEW k \in Sliding!Keys, Current <= k + 1
      PROVE  Sliding!Get(k) = key[k]
  <2>1. k \in Nat /\ key[k] \in Nat /\ expire[k] \in Nat /\ time \in Nat
    BY <1>1 DEF Counters
  <2>2. Current * Window <= (k + 1) * Window
    BY <1>1, <1>3, <2>1, ProductGrows
  <2>3. (k + 1) * Window + Window = (k + 2) * Window /\ (k + 1) * Window \in Nat
    BY <2>1
  <2>4. key[k] > 0 => time < expire[k]
    BY <1>1, <2>1, <2>2, <2>3 DEF Alive
  <2> QED
    BY <2>1, <2>4 DEF Sliding!Get
<1>4. Sliding!Get(Current) = key[Current]
  BY <1>1, <1>3
<1>5. Current # 0 => Sliding!Get(Current - 1) = key[Current - 1]
  BY <1>1, <1>2, <1>3
<1>6. Previous \in Nat
  BY <1>1, <1>2 DEF Previous, Counters
<1> QED
  BY <1>1, <1>2, <1>4, <1>5, <1>6

\* Where the current window began.
LEMMA Here ==
  ASSUME Counters
  PROVE  /\ Began \in Nat /\ Began <= time /\ time < Began + Window
         /\ time % Window = time - Began /\ time \in Nat /\ time <= MaxTime
         /\ Began = Current * Window
         /\ \A k \in Sliding!Keys : k \in Nat /\ key[k] \in Nat /\ expire[k] \in Nat
         /\ \A t \in Sliding!Times : t \in Nat /\ passed[t] \in Nat
         /\ Sliding!Times = 0..MaxTime /\ Began \in Sliding!Times
<1>1. time \in 0..MaxTime /\ time \in Nat /\ time <= MaxTime
  BY SlidingAssumption DEF Counters
<1>2. Began = Current * Window /\ Began = (time \div Window) * Window
  BY DEF Began, Current
<1>3. /\ Began \in Nat /\ Began <= time /\ time < Began + Window
      /\ time % Window = time - Began
      /\ \A k \in Sliding!Keys : k \in Nat
  BY <1>1, <1>2, SlidingAssumption, Clock
<1>4. \A k \in Sliding!Keys : key[k] \in Nat /\ expire[k] \in Nat
  BY DEF Counters
<1>5. Sliding!Times = 0..MaxTime
  BY DEF Sliding!Times
<1>6. \A t \in Sliding!Times : t \in Nat /\ passed[t] \in Nat
  BY <1>5 DEF Counters
<1>7. Began \in Sliding!Times
  BY <1>1, <1>3, <1>5, SlidingAssumption
<1> QED
  BY <1>1, <1>2, <1>3, <1>4, <1>5, <1>6, <1>7

\* A request counted in this window: its key lives on, and what the counters
\* say of the requests that passed survives one more that passes within the
\* limit, or none.
LEMMA CountedNow ==
  ASSUME SlidingInv,
         key' = [key EXCEPT ![Current] = key[Current] + 1],
         expire' = IF key[Current] = 0
                     THEN [expire EXCEPT ![Current] = time + 2 * Window] ELSE expire,
         UNCHANGED time,
         \/ UNCHANGED passed
         \/ /\ passed' = [t \in Sliding!Times |->
                            IF t <= time THEN passed[t] + 1 ELSE passed[t]]
            /\ (Previous * (Window - (time % Window))) \div Window + (key[Current] + 1) <= Limit
  PROVE  SlidingInv'
<1> USE SlidingAssumption DEF SlidingInv
<1>1. /\ Current \in Nat /\ Current \in Sliding!Keys /\ Previous \in Nat
      /\ Current # 0 => Current - 1 \in Sliding!Keys
  BY Reads
<1>2. /\ Began \in Nat /\ Began <= time /\ time < Began + Window
      /\ time % Window = time - Began /\ time \in Nat /\ time <= MaxTime
      /\ \A k \in Sliding!Keys : k \in Nat
      /\ Began = Current * Window
  BY Here
<1>3. Current' = Current /\ Began' = Began
  BY DEF Current, Began
<1>4. Previous' = Previous
  BY <1>1, <1>3 DEF Previous, Counters
<1>5. /\ \A k \in Sliding!Keys : key[k] \in Nat /\ expire[k] \in Nat
      /\ \A t \in Sliding!Times : passed[t] \in Nat /\ t \in Nat
      /\ Began \in Sliding!Times /\ Sliding!Times = 0..MaxTime
  BY Here
<1>6. key'[Current] = key[Current] + 1 /\ \A k \in Sliding!Keys : key'[k] >= key[k]
  BY <1>1, <1>5 DEF Counters
<1>7. Counters'
  <2>1. key' \in [Sliding!Keys -> Nat]
    BY <1>1, <1>5 DEF Counters
  <2>2. expire' \in [Sliding!Keys -> Nat]
    BY <1>1, <1>2, <1>5 DEF Counters
  <2>3. passed' \in [Sliding!Times -> Nat]
    <3>1. passed \in [Sliding!Times -> Nat]
      BY DEF Counters
    <3>2. \A t \in Sliding!Times : (IF t <= time THEN passed[t] + 1 ELSE passed[t]) \in Nat
      BY <1>2, <1>5
    <3> QED
      BY <3>1, <3>2
  <2> QED
    BY <2>1, <2>2, <2>3 DEF Counters, Sliding!Keys, Sliding!Times
<1>8. Alive'
  <2> SUFFICES ASSUME NEW k \in Sliding!Keys, key'[k] > 0
               PROVE  k * Window <= time /\ (k + 2) * Window <= expire'[k]
    BY DEF Alive, Sliding!Keys
  <2>1. CASE k = Current /\ key[k] = 0
    <3>1. expire'[k] = time + 2 * Window
      BY <1>1, <2>1 DEF Counters
    <3>2. (k + 2) * Window = Began + 2 * Window /\ k * Window = Began
      BY <1>1, <1>2, <2>1
    <3> QED
      BY <1>2, <3>1, <3>2
  <2>2. CASE key[k] > 0
    <3>1. expire'[k] = expire[k]
      BY <1>1, <1>5, <2>2 DEF Counters
    <3> QED
      BY <2>2, <3>1 DEF Alive
  <2>3. CASE k # Current /\ key[k] = 0
    <3>1. key'[k] = key[k]
      BY <1>1, <2>3 DEF Counters
    <3> QED
      BY <2>3, <3>1
  <2> QED
    BY <1>5, <2>1, <2>2, <2>3
<1>9. CASE UNCHANGED passed
  <2>1. ThisWindow'
    BY <1>1, <1>3, <1>4, <1>5, <1>6, <1>9 DEF ThisWindow, Sliding!Times
  <2>2. LastWindow'
    BY <1>3, <1>4, <1>9 DEF LastWindow, Sliding!Times
  <2> QED
    BY <1>7, <1>8, <2>1, <2>2
<1>10. CASE /\ passed' = [t \in Sliding!Times |->
                            IF t <= time THEN passed[t] + 1 ELSE passed[t]]
            /\ (Previous * (Window - (time % Window))) \div Window + (key[Current] + 1) <= Limit
  <2>1. \A t \in Sliding!Times : /\ t <= time => passed'[t] = passed[t] + 1
                                 /\ t > time => passed'[t] = passed[t]
    BY <1>2, <1>5, <1>10
  <2>2. passed'[Began] = passed[Began] + 1
    BY <1>2, <1>5, <2>1
  <2>3. Window - (time % Window) = Window + Began - time
    BY <1>2
  <2> DEFINE weight == (Previous * (Window + Began - time)) \div Window
  <2>4. weight \in Nat /\ weight + (key[Current] + 1) <= Limit
    <3>1. Previous * (Window + Began - time) \in Nat
      BY <1>1, <1>2
    <3> QED
      BY <1>10, <2>3, <3>1, Division
  <2> HIDE DEF weight
  <2>5. passed[Began] <= key[Current] /\ key[Current] \in Nat /\ passed[Began] \in Nat
    BY <1>1, <1>5 DEF ThisWindow
  <2>6. weight + passed'[Began] <= Limit /\ passed'[Began] <= key'[Current]
    BY <1>6, <2>2, <2>4, <2>5
  <2>7. \A t \in Sliding!Times : t > time => passed'[t] = 0
    BY <2>1 DEF ThisWindow
  <2>8. ASSUME NEW t \in Sliding!Times, Began <= t PROVE passed'[t] <= passed'[Began]
    <3>1. passed[t] <= passed[Began]
      BY <2>8 DEF ThisWindow
    <3>2. passed'[t] = passed[t] + 1 \/ passed'[t] = passed[t]
      BY <1>2, <1>5, <2>1
    <3> QED
      BY <1>5, <2>2, <2>5, <3>1, <3>2
  <2>9. ThisWindow'
    BY <1>3, <1>4, <2>6, <2>7, <2>8 DEF ThisWindow, weight, Sliding!Times
  <2>10. LastWindow'
    <3> SUFFICES ASSUME NEW t \in Sliding!Times, t < Began, Began <= t + Window
                 PROVE  /\ passed'[t] <= passed'[Began] + Previous
                        /\ passed'[t] <= passed'[Began] + Limit
      BY <1>3, <1>4 DEF LastWindow, Sliding!Times
    <3>1. passed'[t] = passed[t] + 1
      BY <1>2, <1>5, <2>1
    <3>2. passed[t] <= passed[Began] + Previous /\ passed[t] <= passed[Began] + Limit
      BY DEF LastWindow
    <3>3. passed[t] \in Nat /\ passed[Began] \in Nat /\ Limit \in Nat
      BY <1>5, <2>5
    <3> QED
      BY <1>1, <2>2, <3>1, <3>2, <3>3
  <2> QED
    BY <1>7, <1>8, <2>9, <2>10
<1> QED
  BY <1>9, <1>10

\* A tick, within the window or into the next.
LEMMA Ticks ==
  ASSUME SlidingInv, Sliding!Tick
  PROVE  SlidingInv'
<1> USE SlidingAssumption DEF SlidingInv
<1>1. /\ Current \in Nat /\ Current \in Sliding!Keys /\ Previous \in Nat
      /\ Current # 0 => Current - 1 \in Sliding!Keys
  BY Reads
<1>2. /\ Began \in Nat /\ Began <= time /\ time < Began + Window
      /\ time \in Nat /\ time < MaxTime /\ time' = time + 1
      /\ \A k \in Sliding!Keys : k \in Nat
      /\ Began = Current * Window
  BY Here DEF Sliding!Tick
<1>3. UNCHANGED <<key, expire, passed>>
  BY DEF Sliding!Tick
<1>4. /\ \A k \in Sliding!Keys : key[k] \in Nat /\ expire[k] \in Nat
      /\ \A t \in Sliding!Times : passed[t] \in Nat /\ t \in Nat
      /\ Began \in Sliding!Times /\ Sliding!Times = 0..MaxTime
  BY Here
<1>5. Counters'
  BY <1>2, <1>3 DEF Counters, Sliding!Keys, Sliding!Times
<1>6. Alive'
  <2> SUFFICES ASSUME NEW k \in Sliding!Keys, key[k] > 0
               PROVE  k * Window <= time' /\ (k + 2) * Window <= expire[k]
    BY <1>3 DEF Alive, Sliding!Keys
  <2>1. k * Window <= time /\ (k + 2) * Window <= expire[k]
    BY DEF Alive
  <2>2. k * Window \in Nat
    BY <1>2
  <2> QED
    BY <1>2, <2>1, <2>2
<1>7. CASE time' < Began + Window
  <2>1. Current' = Current
    <3>1. time' \in Nat /\ Current * Window <= time' /\ time' < Current * Window + Window
      BY <1>1, <1>2, <1>7
    <3>2. time' \div Window = Current
      BY <1>1, <3>1, Quotient
    <3> QED
      BY <3>2 DEF Current
  <2>2. Began' = Began /\ Previous' = Previous
    BY <1>3, <2>1 DEF Began, Previous
  <2>3. (Previous * (Window + Began - time')) \div Window
          <= (Previous * (Window + Began - time)) \div Window
    <3> DEFINE m == Window + Began - time'
               n == Window + Began - time
    <3>1. m \in Nat /\ n \in Nat /\ m <= n
      BY <1>2, <1>7
    <3> HIDE DEF m, n
    <3>2. Previous * m <= Previous * n /\ Previous * m \in Nat /\ Previous * n \in Nat
      BY <1>1, <3>1, ProductGrows
    <3>3. (Previous * m) \div Window <= (Previous * n) \div Window
      BY <3>2, QuotientGrows
    <3> QED
      BY <3>3 DEF m, n
  <2>4. /\ (Previous * (Window + Began - time')) \div Window \in Nat
        /\ (Previous * (Window + Began - time)) \div Window \in Nat
    <3>1. Previous * (Window + Began - time') \in Nat /\ Previous * (Window + Began - time) \in Nat
      BY <1>1, <1>2, <1>7
    <3> QED
      BY <3>1, Division
  <2>5. ThisWindow'
    <3>1. \A t \in Sliding!Times : t > time' => passed'[t] = 0
      BY <1>2, <1>3, <1>4 DEF ThisWindow
    <3>2. passed[Began] = 0 \/ (Previous * (Window + Began - time')) \div Window
                                  + passed[Began] <= Limit
      <4> DEFINE v == (Previous * (Window + Began - time')) \div Window
                 w == (Previous * (Window + Began - time)) \div Window
      <4>1. passed[Began] = 0 \/ w + passed[Began] <= Limit
        BY DEF ThisWindow
      <4>2. v \in Nat /\ w \in Nat /\ v <= w /\ passed[Began] \in Nat
        BY <1>4, <2>3, <2>4
      <4> HIDE DEF v, w
      <4>3. passed[Began] = 0 \/ v + passed[Began] <= Limit
        BY <4>1, <4>2
      <4> QED
        BY <4>3 DEF v
    <3>3. /\ \A t \in Sliding!Times : Began <= t => passed[t] <= passed[Began]
          /\ passed[Began] <= key[Current]
      BY DEF ThisWindow
    <3> QED
      BY <1>3, <2>1, <2>2, <3>1, <3>2, <3>3 DEF ThisWindow, Sliding!Times
  <2>6. LastWindow'
    BY <1>3, <2>2 DEF LastWindow, Sliding!Times
  <2> QED
    BY <1>5, <1>6, <2>5, <2>6
<1>8. CASE time' = Began + Window
  <2>1. (Current + 1) * Window = Began + Window
    BY <1>1, <1>2
  <2>2. Current' = Current + 1
    <3>1. time' \in Nat /\ Current + 1 \in Nat
      BY <1>1, <1>2
    <3>2. (Current + 1) * Window <= time' /\ time' < (Current + 1) * Window + Window
      BY <1>2, <1>8, <2>1
    <3>3. time' \div Window = Current + 1
      BY <3>1, <3>2, Quotient
    <3> QED
      BY <3>3 DEF Current
  <2>3. Began' = time'
    BY <1>8, <2>1, <2>2 DEF Began
  <2>4. Previous' = key[Current]
    BY <1>1, <1>3, <2>2 DEF Previous
  <2>5. /\ time' \in Sliding!Times /\ passed[time'] = 0
        /\ \A t \in Sliding!Times : t > time => passed[t] = 0
    BY <1>2, <1>4 DEF ThisWindow
  <2>6. Current' \in Sliding!Keys
    <3>1. time' \in 0..MaxTime
      BY <1>2
    <3> QED
      BY <3>1, Clock DEF Current
  <2>7. ThisWindow'
    <3>1. /\ \A t \in Sliding!Times : t > time' => passed[t] = 0
          /\ \A t \in Sliding!Times : time' <= t => passed[t] <= passed[time']
      BY <1>2, <1>4, <2>5
    <3>2. passed[time'] <= key[Current']
      BY <1>4, <2>5, <2>6
    <3> QED
      BY <1>3, <2>3, <2>5, <3>1, <3>2 DEF ThisWindow, Sliding!Times
  <2>8. LastWindow'
    <3> SUFFICES ASSUME NEW t \in Sliding!Times, t < time', time' <= t + Window
                 PROVE  /\ passed[t] <= passed[time'] + key[Current]
                        /\ passed[t] <= passed[time'] + Limit
      BY <1>3, <2>3, <2>4 DEF LastWindow, Sliding!Times
    <3>1. Began <= t
      BY <1>2, <1>4, <1>8
    <3>2. passed[t] <= passed[Began] /\ passed[Began] <= key[Current]
      BY <3>1 DEF ThisWindow
    <3>3. passed[Began] <= Limit
      <4> DEFINE weight == (Previous * (Window + Began - time)) \div Window
      <4>1. Previous * (Window + Began - time) \in Nat
        BY <1>1, <1>2
      <4>2. weight \in Nat /\ (passed[Began] = 0 \/ weight + passed[Began] <= Limit)
        BY <4>1, Division DEF ThisWindow
      <4> HIDE DEF weight
      <4> QED
        BY <1>4, <4>2
    <3>4. passed[t] \in Nat /\ passed[Began] \in Nat /\ key[Current] \in Nat
      BY <1>1, <1>4
    <3> QED
      BY <2>5, <3>2, <3>3, <3>4
  <2> QED
    BY <1>5, <1>6, <2>7, <2>8
<1> QED
  BY <1>2, <1>7, <1>8

\* The inductive invariant holds initially.
LEMMA SlidingInitial == Sliding!Init => SlidingInv
<1> SUFFICES ASSUME Sliding!Init PROVE SlidingInv
  OBVIOUS
<1> USE SlidingAssumption
<1>1. Counters
  BY DEF Sliding!Init, Counters
<1>2. Alive
  BY DEF Sliding!Init, Alive
<1>3. /\ Began \in Sliding!Times /\ Current \in Sliding!Keys
      /\ Began \in Nat /\ Began <= time /\ time = 0
      /\ \A t \in Sliding!Times : t \in Nat /\ passed[t] = 0
  <2>1. Current \in Sliding!Keys
    BY <1>1, <1>2, Reads
  <2> QED
    BY <1>1, <2>1, Here DEF Sliding!Init
<1>4. ThisWindow
  BY <1>3 DEF ThisWindow, Sliding!Init
<1>5. LastWindow
  BY <1>3 DEF LastWindow
<1> QED
  BY <1>1, <1>2, <1>4, <1>5 DEF SlidingInv

\* Every step preserves it when a request reads the clock as it is.
LEMMA SlidingInductive ==
  Lag = 0 /\ SlidingInv /\ [Sliding!Next]_Sliding!vars => SlidingInv'
<1> SUFFICES ASSUME Lag = 0, SlidingInv, [Sliding!Next]_Sliding!vars
             PROVE  SlidingInv'
  OBVIOUS
<1> USE SlidingAssumption
<1>0. /\ time \in Nat
      /\ Sliding!Get(Current) = key[Current] /\ key[Current] \in Nat
      /\ Current # 0 => Sliding!Get(Current - 1) = key[Current - 1]
  BY Reads, Here DEF SlidingInv
<1>a. \A lag \in 0..Lag : time - lag = time
  BY <1>0
<1>1. CASE Sliding!Allow
  <2>1. Sliding!Script(time) /\ UNCHANGED time
    BY <1>a, <1>1 DEF Sliding!Allow
  <2>2. key' = [key EXCEPT ![Current] = key[Current] + 1]
    BY <1>0, <2>1 DEF Sliding!Script, Current
  <2>3. expire' = IF key[Current] = 0
                    THEN [expire EXCEPT ![Current] = time + 2 * Window] ELSE expire
    BY <1>0, <2>1 DEF Sliding!Script, Current, Sliding!KeyLife
  <2>4. \/ UNCHANGED passed
        \/ /\ passed' = [t \in Sliding!Times |->
                            IF t <= time THEN passed[t] + 1 ELSE passed[t]]
           /\ (Previous * (Window - (time % Window))) \div Window + (key[Current] + 1) <= Limit
    <3>1. Previous = IF Current = 0 THEN 0 ELSE Sliding!Get(Current - 1)
      BY <1>0 DEF Previous
    <3> QED
      BY <1>0, <2>1, <3>1 DEF Sliding!Script, Sliding!Weighted, Current
  <2> QED
    BY <2>1, <2>2, <2>3, <2>4, CountedNow
<1>2. CASE Sliding!AllowUnanswered
  <2>1. /\ key' = [key EXCEPT ![Current] = key[Current] + 1]
        /\ expire' = IF key[Current] = 0
                       THEN [expire EXCEPT ![Current] = time + 2 * Window] ELSE expire
        /\ UNCHANGED <<time, passed>>
    BY <1>0, <1>a, <1>2 DEF Sliding!AllowUnanswered, Current, Sliding!KeyLife
  <2> QED
    BY <2>1, CountedNow
<1>3. CASE Sliding!Tick
  BY <1>3, Ticks
<1>4. CASE UNCHANGED Sliding!vars
  <2>1. UNCHANGED <<time, key, expire, passed>>
    BY <1>4 DEF Sliding!vars
  <2>2. UNCHANGED <<Current, Began>>
    BY <2>1 DEF Current, Began
  <2>3. UNCHANGED Previous
    BY <2>1, <2>2 DEF Previous
  <2> QED
    BY <2>1, <2>2, <2>3
       DEF SlidingInv, Counters, Alive, ThisWindow, LastWindow, Sliding!Keys, Sliding!Times
<1> QED
  BY <1>1, <1>2, <1>3, <1>4 DEF Sliding!Next

\* What slides out of the last window while the clock moves on in this one:
\* of a requests that passed there, at most Limit and all counted, the weight
\* leaves out no more than the share of Limit that the stretch d stands for.
LEMMA Slides ==
  ASSUME NEW a \in Nat, NEW p \in Nat, NEW L \in Nat, NEW w \in Nat \ {0},
         NEW e \in Nat, NEW d \in Nat, a <= p, a <= L, e <= w, e <= d
  PROVE  a <= (p * (w - e)) \div w + (L * d + w - 1) \div w
<1> DEFINE f == (p * (w - e)) \div w
           g == (L * d + w - 1) \div w
           rest == w - e
<1>0. rest \in Nat /\ rest + e = w
  OBVIOUS
<1>1. f \in Nat /\ p * rest < w * f + w /\ p * rest \in Nat
  <2>1. p * rest \in Nat
    BY <1>0
  <2> QED
    BY <2>1, Division
<1>2. g \in Nat /\ L * d + w - 1 < w * g + w /\ L * d \in Nat
  <2>1. L * d \in Nat
    OBVIOUS
  <2>2. L * d + w - 1 \in Nat
    BY <2>1
  <2> QED
    BY <2>1, <2>2, Division
<1> HIDE DEF f, g, rest
<1>3. a * rest <= p * rest /\ a * e <= L * e /\ L * e <= L * d
  BY <1>0, ProductGrows
<1>4. a * rest + a * e = a * w
  BY <1>0
<1>5. /\ a * rest \in Nat /\ a * e \in Nat /\ L * e \in Nat /\ a * w \in Nat
      /\ w * f \in Nat /\ w * g \in Nat
  BY <1>0, <1>1, <1>2
<1>6. a * w < w * f + w * g + w
  <2>1. L * d <= w * g
    BY <1>2, <1>5
  <2> QED
    BY <1>1, <1>2, <1>3, <1>4, <1>5, <2>1
<1>7. ASSUME f + g + 1 <= a PROVE FALSE
  <2>1. (f + g + 1) * w <= a * w
    BY <1>1, <1>2, <1>7, ProductGrows
  <2>2. (f + g + 1) * w = w * f + w * g + w
    BY <1>1, <1>2
  <2> QED
    BY <1>5, <1>6, <2>1, <2>2
<1>8. a <= f + g
  BY <1>1, <1>2, <1>7
<1> QED
  BY <1>8 DEF f, g, rest

\* The sliding window: with exact clocks, in any stretch of at most a window
\* the script lets through no more than the limit and, rounded up, the share
\* of it that slides out meanwhile.
THEOREM SlidingBurstBoundedHolds ==
  Lag = 0 => (Sliding!Spec => []SlidingBurstBounded)
<1> USE SlidingAssumption
<1>1. ASSUME SlidingInv PROVE SlidingBurstBounded
  <2> SUFFICES ASSUME NEW from \in 0..time, time - from < Window
               PROVE  passed[from] <= Limit + (Limit * (time - from) + Window - 1) \div Window
    BY DEF SlidingBurstBounded, Sliding!BurstBounded
  <2>1. /\ Began \in Nat /\ Began <= time /\ time < Began + Window
        /\ time \in Nat /\ time <= MaxTime
        /\ \A t \in Sliding!Times : t \in Nat /\ passed[t] \in Nat
        /\ Sliding!Times = 0..MaxTime /\ Began \in Sliding!Times
    BY <1>1, Here DEF SlidingInv
  <2>2. /\ from \in Sliding!Times /\ from \in Nat /\ from <= time
        /\ passed[from] \in Nat /\ passed[Began] \in Nat
        /\ Limit \in Nat /\ Window \in Nat \ {0}
    BY <2>1
  <2>3. Previous \in Nat
    BY <1>1, Reads DEF SlidingInv
  <2> DEFINE d == time - from
             e == time - Began
             share == (Limit * d + Window - 1) \div Window
             weight == (Previous * (Window - e)) \div Window
  <2>4. d \in Nat /\ e \in Nat /\ e <= Window
    BY <2>1, <2>2
  <2>5. share \in Nat
    <3>1. Limit * d \in Nat
      BY <2>2, <2>4
    <3>2. Limit * d + Window - 1 \in Nat
      BY <2>2, <3>1
    <3> QED
      BY <2>2, <3>2, Division
  <2>6. weight \in Nat /\ (passed[Began] = 0 \/ weight + passed[Began] <= Limit)
    <3>1. Window - e = Window + Began - time
      BY <2>1, <2>2
    <3>2. Previous * (Window - e) \in Nat
      BY <2>2, <2>3, <2>4
    <3>3. weight \in Nat
      BY <2>2, <3>2, Division
    <3> QED
      BY <1>1, <3>1, <3>3 DEF SlidingInv, ThisWindow
  <2>7. CASE Began <= from
    <3>1. passed[from] <= passed[Began]
      BY <1>1, <2>2, <2>7 DEF SlidingInv, ThisWindow
    <3> HIDE DEF share, weight
    <3>2. passed[from] <= Limit + share
      BY <2>2, <2>5, <2>6, <3>1
    <3> QED
      BY <3>2 DEF share
  <2>8. CASE from < Began
    <3> DEFINE a == passed[from] - passed[Began]
    <3>1. passed[from] <= passed[Began] + Previous /\ passed[from] <= passed[Began] + Limit
      <4>1. Began <= from + Window
        BY <2>1, <2>2
      <4> QED
        BY <1>1, <2>2, <2>8, <4>1 DEF SlidingInv, LastWindow
    <3>2. CASE a \in Nat
      <4>1. a <= Previous /\ a <= Limit /\ e <= d
        BY <2>1, <2>2, <2>3, <2>8, <3>1
      <4> HIDE DEF a, d, e
      <4>2. a <= weight + share
        BY <2>2, <2>3, <2>4, <3>2, <4>1, Slides
      <4> HIDE DEF share, weight
      <4>3. passed[from] = passed[Began] + a
        BY <2>2 DEF a
      <4>4. passed[from] <= Limit + share
        BY <2>2, <2>5, <2>6, <3>1, <3>2, <4>1, <4>2, <4>3
      <4> QED
        BY <4>4 DEF share, d
    <3>3. CASE a \notin Nat
      <4>1. passed[from] <= passed[Began]
        BY <2>2, <3>3
      <4> HIDE DEF share, weight
      <4>2. passed[from] <= Limit + share
        BY <2>2, <2>5, <2>6, <4>1
      <4> QED
        BY <4>2 DEF share
    <3> QED
      BY <3>2, <3>3
  <2> QED
    BY <2>1, <2>2, <2>7, <2>8
<1> SUFFICES ASSUME Lag = 0 PROVE Sliding!Spec => []SlidingBurstBounded
  OBVIOUS
<1>2. SlidingInv => SlidingBurstBounded
  BY <1>1
<1>3. Sliding!Init => SlidingInv
  BY SlidingInitial
<1>4. SlidingInv /\ [Sliding!Next]_Sliding!vars => SlidingInv'
  BY SlidingInductive
<1> QED
  BY <1>2, <1>3, <1>4, PTL DEF Sliding!Spec

-----------------------------------------------------------------------------
(* The lockout of LoginThrottle *)

States == {"idle", "verify", "record", "reset"}

\* The attempts in one state.
In(s) == {l \in Logins : login[l] = s}
Count(s) == Cardinality(In(s))

\* The wrong guesses of any age have been counted, are about to be, or met a
\* failed command.  Those younger than the last count are not counted yet:
\* when the key expires, so does everything it had counted.
Counted == \A a \in Throttle!Ages :
  /\ recent[a] <= fails + Count("record") + mishaps
  /\ a < Lockout - ttl => recent[a] <= Count("record") + mishaps

\* With the guesses that have passed the check and are still to be made, the
\* bound is not exceeded either.
Allowance == \A a \in Throttle!Ages :
  recent[a] + Count("verify") <= MaxFailures - 1 + Cardinality(Logins) + mishaps

\* The inductive invariant.
ThrottleInv == Throttle!TypeOK /\ Counted /\ Allowance

\* Counts are numbers, and disjoint groups of attempts fit into Logins.
LEMMA Counts ==
  /\ Cardinality(Logins) \in Nat
  /\ \A s : IsFiniteSet(In(s)) /\ Count(s) \in Nat
  /\ \A s, t : s # t => Count(s) + Count(t) <= Cardinality(Logins)
  /\ \A s, t : s # t /\ In("idle") # {} /\ "idle" \notin {s, t}
                 => Count(s) + Count(t) <= Cardinality(Logins) - 1
<1>1. \A T \in SUBSET Logins : /\ IsFiniteSet(T) /\ Cardinality(T) \in Nat
                               /\ Cardinality(T) <= Cardinality(Logins)
                               /\ Cardinality(Logins) = Cardinality(T) => Logins = T
  BY ThrottleAssumption, FS_Subset, FS_CardinalityType
<1>2. Cardinality(Logins) \in Nat
  BY ThrottleAssumption, FS_CardinalityType
<1>3. \A s : In(s) \in SUBSET Logins
  BY DEF In
<1>4. \A s : IsFiniteSet(In(s)) /\ Count(s) \in Nat
  BY <1>1, <1>3 DEF Count
<1>5. ASSUME NEW s, NEW t, s # t
      PROVE  /\ Count(s) + Count(t) <= Cardinality(Logins)
             /\ In("idle") # {} /\ "idle" \notin {s, t}
                  => Count(s) + Count(t) <= Cardinality(Logins) - 1
  <2>1. In(s) \cap In(t) = {}
    BY <1>5 DEF In
  <2>2. Cardinality(In(s) \cup In(t)) = Count(s) + Count(t) - Cardinality(In(s) \cap In(t))
    BY <1>4, FS_Union DEF Count
  <2>3. Cardinality(In(s) \cup In(t)) = Count(s) + Count(t)
    <3>1. Cardinality(In(s) \cap In(t)) = 0
      BY <2>1, FS_EmptySet, Zenon
    <3> QED
      BY <1>4, <2>2, <3>1
  <2>4. In(s) \cup In(t) \in SUBSET Logins
    BY <1>3
  <2>5. In("idle") # {} /\ "idle" \notin {s, t} => In(s) \cup In(t) # Logins
    BY DEF In
  <2>6. /\ Cardinality(In(s) \cup In(t)) \in Nat
        /\ Cardinality(In(s) \cup In(t)) <= Cardinality(Logins)
        /\ Cardinality(Logins) = Cardinality(In(s) \cup In(t)) => Logins = In(s) \cup In(t)
    BY <1>1, <2>4
  <2>7. Count(s) \in Nat /\ Count(t) \in Nat
    BY <1>4
  <2> HIDE DEF Count
  <2> QED
    BY <1>2, <2>3, <2>5, <2>6, <2>7
<1> QED
  BY <1>2, <1>4, <1>5

\* An attempt that moves on leaves one state and enters another.
LEMMA Moving ==
  ASSUME login \in [Logins -> States], NEW l \in Logins, NEW to \in States,
         to # login[l], Throttle!Goto(l, to)
  PROVE  /\ login' \in [Logins -> States]
         /\ \A s : Count(s)' = IF s = to THEN Count(s) + 1
                               ELSE IF s = login[l] THEN Count(s) - 1 ELSE Count(s)
<1>1. login' \in [Logins -> States]
  BY DEF Throttle!Goto
<1>2. ASSUME NEW s
      PROVE  Count(s)' = IF s = to THEN Count(s) + 1
                         ELSE IF s = login[l] THEN Count(s) - 1 ELSE Count(s)
  <2>1. IsFiniteSet(In(s))
    BY Counts
  <2>2. CASE s = to
    <3>1. In(s)' = In(s) \cup {l} /\ l \notin In(s)
      BY <2>2 DEF In, Throttle!Goto
    <3> QED
      BY <2>1, <2>2, <3>1, FS_AddElement DEF Count
  <2>3. CASE s # to /\ s = login[l]
    <3>1. In(s)' = In(s) \ {l} /\ l \in In(s)
      BY <2>3 DEF In, Throttle!Goto
    <3> QED
      BY <2>1, <2>3, <3>1, FS_RemoveElement DEF Count
  <2>4. CASE s # to /\ s # login[l]
    <3>1. In(s)' = In(s)
      BY <2>4 DEF In, Throttle!Goto
    <3> QED
      BY <2>4, <3>1 DEF Count
  <2> QED
    BY <2>2, <2>3, <2>4
<1> QED
  BY <1>1, <1>2

\* The inductive invariant holds initially.
LEMMA ThrottleInitial == Throttle!Init => ThrottleInv
<1> SUFFICES ASSUME Throttle!Init PROVE ThrottleInv
  OBVIOUS
<1>1. Throttle!TypeOK
  BY ThrottleAssumption DEF Throttle!Init, Throttle!TypeOK, Throttle!Ages
<1>2. In("verify") = {}
  BY DEF Throttle!Init, In
<1>3. Count("verify") = 0
  BY <1>2, FS_EmptySet DEF Count
<1> QED
  BY <1>1, <1>3, Counts, ThrottleAssumption
     DEF ThrottleInv, Counted, Allowance, Throttle!Init, Throttle!Ages

\* Every step of an attempt, every tick and every stutter preserves it.
LEMMA ThrottleInductive == ThrottleInv /\ [Throttle!Next]_Throttle!vars => ThrottleInv'
<1> SUFFICES ASSUME ThrottleInv, [Throttle!Next]_Throttle!vars PROVE ThrottleInv'
  OBVIOUS
<1> DEFINE N == Cardinality(Logins)
           V == Count("verify")
           R == Count("record")
<1>0. /\ fails \in Nat /\ ttl \in 0..Lockout /\ mishaps \in 0..MaxMishaps
      /\ login \in [Logins -> States]
      /\ recent \in [Throttle!Ages -> Nat]
      /\ Throttle!Ages = 0..(Lockout - 1)
  BY DEF ThrottleInv, Throttle!TypeOK, Throttle!Ages, States
<1>a. N \in Nat /\ V \in Nat /\ R \in Nat
  BY Counts
<1>c. /\ fails \in Nat /\ ttl \in Nat /\ ttl <= Lockout /\ mishaps \in Nat
      /\ MaxFailures \in Nat /\ MaxFailures > 0 /\ Lockout \in Nat
  BY <1>0, ThrottleAssumption
<1>b. \A a \in Throttle!Ages :
        /\ recent[a] <= fails + R + mishaps
        /\ a < Lockout - ttl => recent[a] <= R + mishaps
        /\ recent[a] + V <= MaxFailures - 1 + N + mishaps
  BY DEF ThrottleInv, Counted, Allowance
<1> SUFFICES /\ Throttle!TypeOK'
             /\ \A a \in Throttle!Ages :
                  /\ recent'[a] <= fails' + R' + mishaps'
                  /\ a < Lockout - ttl' => recent'[a] <= R' + mishaps'
                  /\ recent'[a] + V' <= MaxFailures - 1 + N + mishaps'
  BY DEF ThrottleInv, Counted, Allowance, Throttle!Ages
<1> USE ThrottleAssumption
<1>1. ASSUME NEW l \in Logins, Throttle!Check(l)
      PROVE  /\ Throttle!TypeOK'
             /\ \A a \in Throttle!Ages :
                  /\ recent'[a] <= fails' + R' + mishaps'
                  /\ a < Lockout - ttl' => recent'[a] <= R' + mishaps'
                  /\ recent'[a] + V' <= MaxFailures - 1 + N + mishaps'
  <2>1. login[l] = "idle" /\ Throttle!Goto(l, "verify") /\ UNCHANGED <<fails, ttl, recent>>
    BY <1>1 DEF Throttle!Check
  <2>2. login' \in [Logins -> States] /\ V' = V + 1 /\ R' = R
    BY <1>0, <2>1, Moving DEF States
  <2>3. V + R <= N - 1
    <3>1. l \in In("idle")
      BY <2>1 DEF In
    <3> QED
      BY <3>1, Counts
  <2>4. \/ fails < MaxFailures /\ mishaps' = mishaps
        \/ mishaps < MaxMishaps /\ mishaps' = mishaps + 1
    BY <1>1 DEF Throttle!Check, Throttle!Fault
  <2>5. Throttle!TypeOK'
    BY <1>0, <2>1, <2>2, <2>4 DEF Throttle!TypeOK, Throttle!Ages, States
  <2> HIDE DEF N, V, R
  <2>6. ASSUME NEW a \in Throttle!Ages
        PROVE  /\ recent'[a] <= fails' + R' + mishaps'
               /\ a < Lockout - ttl' => recent'[a] <= R' + mishaps'
               /\ recent'[a] + V' <= MaxFailures - 1 + N + mishaps'
    <3>1. recent[a] \in Nat /\ a \in Nat
      BY <1>0
    <3>2. /\ recent[a] <= fails + R + mishaps
          /\ a < Lockout - ttl => recent[a] <= R + mishaps
          /\ recent[a] + V <= MaxFailures - 1 + N + mishaps
      BY <1>b
    <3>3. MaxFailures \in Nat /\ V' \in Nat /\ R' \in Nat
      BY <1>a, <2>2
    <3> QED
      BY <1>a, <1>c, <2>1, <2>2, <2>3, <2>4, <3>1, <3>2, <3>3
  <2> QED
    BY <2>5, <2>6
<1>2. ASSUME NEW l \in Logins, Throttle!Verify(l)
      PROVE  /\ Throttle!TypeOK'
             /\ \A a \in Throttle!Ages :
                  /\ recent'[a] <= fails' + R' + mishaps'
                  /\ a < Lockout - ttl' => recent'[a] <= R' + mishaps'
                  /\ recent'[a] + V' <= MaxFailures - 1 + N + mishaps'
  <2>1. login[l] = "verify" /\ UNCHANGED <<fails, ttl, mishaps>>
    BY <1>2 DEF Throttle!Verify
  <2>2. CASE Throttle!Goto(l, "record") /\ recent' = [a \in Throttle!Ages |-> recent[a] + 1]
    <3>1. login' \in [Logins -> States] /\ V' = V - 1 /\ R' = R + 1
      BY <1>0, <2>1, <2>2, Moving DEF States
    <3>2. recent' \in [Throttle!Ages -> Nat] /\ \A a \in Throttle!Ages : recent'[a] = recent[a] + 1
      BY <1>0, <2>2
    <3>3. Throttle!TypeOK'
      BY <1>0, <2>1, <3>1, <3>2 DEF Throttle!TypeOK, Throttle!Ages, States
    <3> HIDE DEF N, V, R
    <3>4. ASSUME NEW a \in Throttle!Ages
          PROVE  /\ recent'[a] <= fails' + R' + mishaps'
                 /\ a < Lockout - ttl' => recent'[a] <= R' + mishaps'
                 /\ recent'[a] + V' <= MaxFailures - 1 + N + mishaps'
      <4>1. recent[a] \in Nat /\ a \in Nat /\ recent'[a] = recent[a] + 1
        BY <1>0, <3>2
      <4>2. /\ recent[a] <= fails + R + mishaps
            /\ a < Lockout - ttl => recent[a] <= R + mishaps
            /\ recent[a] + V <= MaxFailures - 1 + N + mishaps
        BY <1>b
      <4> QED
        BY <1>a, <1>c, <2>1, <3>1, <4>1, <4>2
    <3> QED
      BY <3>3, <3>4
  <2>3. CASE (Throttle!Goto(l, "reset") \/ Throttle!Goto(l, "idle")) /\ UNCHANGED recent
    <3>1. login' \in [Logins -> States] /\ V' = V - 1 /\ R' = R
      BY <1>0, <2>1, <2>3, Moving DEF States
    <3>2. Throttle!TypeOK'
      BY <1>0, <2>1, <2>3, <3>1 DEF Throttle!TypeOK, Throttle!Ages, States
    <3> HIDE DEF N, V, R
    <3>3. ASSUME NEW a \in Throttle!Ages
          PROVE  /\ recent'[a] <= fails' + R' + mishaps'
                 /\ a < Lockout - ttl' => recent'[a] <= R' + mishaps'
                 /\ recent'[a] + V' <= MaxFailures - 1 + N + mishaps'
      <4>1. recent[a] \in Nat
        BY <1>0
      <4> QED
        BY <1>0, <1>a, <1>b, <2>1, <2>3, <3>1, <4>1
    <3> QED
      BY <3>2, <3>3
  <2> QED
    BY <1>2, <2>2, <2>3 DEF Throttle!Verify
<1>3. ASSUME NEW l \in Logins, Throttle!Record(l)
      PROVE  /\ Throttle!TypeOK'
             /\ \A a \in Throttle!Ages :
                  /\ recent'[a] <= fails' + R' + mishaps'
                  /\ a < Lockout - ttl' => recent'[a] <= R' + mishaps'
                  /\ recent'[a] + V' <= MaxFailures - 1 + N + mishaps'
  <2>1. login[l] = "record" /\ Throttle!Goto(l, "idle") /\ UNCHANGED recent
    BY <1>3 DEF Throttle!Record
  <2>2. login' \in [Logins -> States] /\ V' = V /\ R' = R - 1
    BY <1>0, <2>1, Moving DEF States
  <2>3. \/ fails' = fails + 1 /\ ttl' = Lockout /\ mishaps' = mishaps
        \/ mishaps < MaxMishaps /\ mishaps' = mishaps + 1 /\ UNCHANGED <<fails, ttl>>
    BY <1>3 DEF Throttle!Record, Throttle!Fault, Throttle!Renewed
  <2>4. Throttle!TypeOK'
    BY <1>0, <2>1, <2>2, <2>3 DEF Throttle!TypeOK, Throttle!Ages, States
  <2> HIDE DEF N, V, R
  <2>5. ASSUME NEW a \in Throttle!Ages
        PROVE  /\ recent'[a] <= fails' + R' + mishaps'
               /\ a < Lockout - ttl' => recent'[a] <= R' + mishaps'
               /\ recent'[a] + V' <= MaxFailures - 1 + N + mishaps'
    <3>1. recent[a] \in Nat /\ a \in Nat /\ recent'[a] = recent[a]
      BY <1>0, <2>1
    <3>2. /\ recent[a] <= fails + R + mishaps
          /\ a < Lockout - ttl => recent[a] <= R + mishaps
          /\ recent[a] + V <= MaxFailures - 1 + N + mishaps
      BY <1>b
    <3> QED
      BY <1>a, <1>c, <2>2, <2>3, <3>1, <3>2
  <2> QED
    BY <2>4, <2>5
<1>4. ASSUME NEW l \in Logins, Throttle!Reset(l)
      PROVE  /\ Throttle!TypeOK'
             /\ \A a \in Throttle!Ages :
                  /\ recent'[a] <= fails' + R' + mishaps'
                  /\ a < Lockout - ttl' => recent'[a] <= R' + mishaps'
                  /\ recent'[a] + V' <= MaxFailures - 1 + N + mishaps'
  <2>1. login[l] = "reset" /\ Throttle!Goto(l, "idle")
    BY <1>4 DEF Throttle!Reset
  <2>2. login' \in [Logins -> States] /\ V' = V /\ R' = R
    BY <1>0, <2>1, Moving DEF States
  <2>3. V <= N
    <3>1. V + Count("reset") <= N
      BY Counts
    <3> QED
      BY <3>1, Counts
  <2>4. \/ /\ fails' = 0 /\ ttl' = 0 /\ mishaps' = mishaps
           /\ recent' \in [Throttle!Ages -> {0}]
        \/ mishaps < MaxMishaps /\ mishaps' = mishaps + 1 /\ UNCHANGED <<fails, ttl, recent>>
    BY <1>4 DEF Throttle!Reset, Throttle!Fault
  <2>5. recent' \in [Throttle!Ages -> Nat]
    BY <1>0, <2>4
  <2>6. Throttle!TypeOK'
    BY <1>0, <2>2, <2>4, <2>5 DEF Throttle!TypeOK, Throttle!Ages, States
  <2> HIDE DEF N, V, R
  <2>7. ASSUME NEW a \in Throttle!Ages
        PROVE  /\ recent'[a] <= fails' + R' + mishaps'
               /\ a < Lockout - ttl' => recent'[a] <= R' + mishaps'
               /\ recent'[a] + V' <= MaxFailures - 1 + N + mishaps'
    <3>1. recent[a] \in Nat /\ recent'[a] \in {0, recent[a]}
      BY <1>0, <2>4
    <3>2. UNCHANGED recent => recent'[a] = recent[a]
      OBVIOUS
    <3>3. ~UNCHANGED recent => recent'[a] = 0
      BY <2>4
    <3>4. /\ recent[a] <= fails + R + mishaps
          /\ a < Lockout - ttl => recent[a] <= R + mishaps
          /\ recent[a] + V <= MaxFailures - 1 + N + mishaps
      BY <1>b
    <3>5. CASE UNCHANGED <<fails, ttl, recent>> /\ mishaps' = mishaps + 1
      BY <1>a, <1>c, <2>2, <3>1, <3>2, <3>4, <3>5
    <3>6. CASE recent'[a] = 0 /\ fails' = 0 /\ ttl' = 0 /\ mishaps' = mishaps
      BY <1>a, <1>c, <2>2, <2>3, <3>6
    <3> QED
      BY <2>4, <3>5, <3>6
  <2> QED
    BY <2>6, <2>7
<1>5. ASSUME Throttle!Tick
      PROVE  /\ Throttle!TypeOK'
             /\ \A a \in Throttle!Ages :
                  /\ recent'[a] <= fails' + R' + mishaps'
                  /\ a < Lockout - ttl' => recent'[a] <= R' + mishaps'
                  /\ recent'[a] + V' <= MaxFailures - 1 + N + mishaps'
  <2>1. /\ ttl' = IF ttl = 0 THEN 0 ELSE ttl - 1
        /\ fails' = IF ttl <= 1 THEN 0 ELSE fails
        /\ UNCHANGED <<login, mishaps>>
        /\ recent' = [a \in Throttle!Ages |-> IF a = 0 THEN 0 ELSE recent[a - 1]]
    BY <1>5 DEF Throttle!Tick
  <2>2. V' = V /\ R' = R
    BY <2>1 DEF Count, In
  <2>3. \A a \in Throttle!Ages : a # 0 => a - 1 \in Throttle!Ages
    BY <1>0
  <2>4. recent' \in [Throttle!Ages -> Nat]
    BY <1>0, <2>1, <2>3
  <2>5. Throttle!TypeOK'
    BY <1>0, <2>1, <2>4 DEF Throttle!TypeOK, Throttle!Ages, States
  <2>6. V <= N
    <3>1. V + R <= N
      BY Counts
    <3> QED
      BY <3>1, <1>a
  <2> HIDE DEF N, V, R
  <2>7. ASSUME NEW a \in Throttle!Ages
        PROVE  /\ recent'[a] <= fails' + R' + mishaps'
               /\ a < Lockout - ttl' => recent'[a] <= R' + mishaps'
               /\ recent'[a] + V' <= MaxFailures - 1 + N + mishaps'
    <3>1. CASE a = 0
      <4>1. recent'[a] = 0
        BY <2>1, <3>1
      <4> QED
        BY <1>0, <1>a, <2>1, <2>2, <2>6, <4>1
    <3>2. CASE a # 0
      <4> DEFINE b == a - 1
      <4>1. b \in Throttle!Ages /\ recent'[a] = recent[b] /\ recent[b] \in Nat
        BY <1>0, <2>1, <2>3, <3>2
      <4>2. a \in Nat /\ b \in Nat /\ a <= Lockout - 1 /\ a = b + 1
        BY <1>0, <3>2
      <4> HIDE DEF b
      <4>3. /\ recent[b] <= fails + R + mishaps
            /\ b < Lockout - ttl => recent[b] <= R + mishaps
            /\ recent[b] + V <= MaxFailures - 1 + N + mishaps
        BY <1>b, <4>1
      <4>4. ttl <= 1 => b < Lockout - ttl
        BY <1>0, <4>2
      <4> QED
        BY <1>0, <1>a, <2>1, <2>2, <4>1, <4>2, <4>3, <4>4
    <3> QED
      BY <3>1, <3>2
  <2> QED
    BY <2>5, <2>7
<1>6. CASE UNCHANGED Throttle!vars
  <2>1. UNCHANGED <<fails, ttl, login, recent, mishaps>>
    BY <1>6 DEF Throttle!vars
  <2>2. V' = V /\ R' = R
    BY <2>1 DEF Count, In
  <2> QED
    BY <1>0, <1>b, <2>1, <2>2 DEF Throttle!TypeOK, Throttle!Ages, States
<1> QED
  BY <1>1, <1>2, <1>3, <1>4, <1>5, <1>6 DEF Throttle!Next, Throttle!Step

\* The lockout: in any stretch of one window the wrong guesses at a password
\* are at most MaxFailures, and one for each other attempt that races with
\* them and for each failed command.
THEOREM LoginGuessesBoundedHolds == Throttle!Spec => []LoginGuessesBounded
<1>1. ThrottleInv => LoginGuessesBounded
  <2> SUFFICES ASSUME ThrottleInv, NEW a \in Throttle!Ages
               PROVE  recent[a] <= MaxFailures - 1 + Cardinality(Logins) + mishaps
    <3>1. Throttle!Cardinality(Logins) = Cardinality(Logins)
      BY DEF Throttle!Cardinality, Cardinality
    <3> QED
      BY <3>1 DEF LoginGuessesBounded, Throttle!GuessesBounded
  <2>1. recent[a] \in Nat /\ mishaps \in Nat
    BY ThrottleAssumption DEF ThrottleInv, Throttle!TypeOK
  <2>2. recent[a] + Count("verify") <= MaxFailures - 1 + Cardinality(Logins) + mishaps
    BY DEF ThrottleInv, Allowance
  <2>3. Count("verify") \in Nat /\ Cardinality(Logins) \in Nat /\ MaxFailures \in Nat
    BY Counts, ThrottleAssumption
  <2> QED
    BY <2>1, <2>2, <2>3
<1> QED
  BY <1>1, ThrottleInitial, ThrottleInductive, PTL DEF Throttle!Spec
=============================================================================
