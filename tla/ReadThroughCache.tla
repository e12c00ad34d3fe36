-------------------------- MODULE ReadThroughCache --------------------------
(***************************************************************************)
(* cache.Cache, for one key: GetOrLoad through a process-local L1, a       *)
(* shared L2 in Redis and a loader, with one flight per instance           *)
(* (singleflight), and Invalidate.                                         *)
(*                                                                         *)
(* Values are the versions of the row that the loader reads.  Time is      *)
(* counted in ticks; a flight lasts at most MaxFlight of them, the deadline*)
(* of its leader's context.                                                *)
(***************************************************************************)
EXTENDS Integers

CONSTANTS Instances, Callers,
          L1TTL, L2TTL,  \* Options
          HasL2,         \* Options.L2 # nil
          MaxFlight,     \* ticks a flight may last
          MaxWrites,     \* bound on changes of the row
          MaxFaults      \* bound on failed loads and Redis commands

VARIABLES
  row,     \* the version the loader would read
  over,    \* ticks since each version was replaced, up to Ever
  l1, l2,  \* what each tier holds, and for how long still
  flight,  \* the flight of each instance
  caller,  \* each GetOrLoad under way
  purge,   \* the instances between the two deletes of Invalidate
  faults

vars == <<row, over, l1, l2, flight, caller, purge, faults>>

Versions == 1..(MaxWrites + 1)
MaxStale == L1TTL + L2TTL + 2 * MaxFlight
Ever == MaxStale + 1

Entry(ttl) == [value : Versions, left : 0..ttl]
Flight == [pc : {"none", "l2", "load", "share", "store", "publish"},
           value : Versions, age : 0..MaxFlight]
Caller == [pc : {"idle", "missed", "waiting"}, at : Instances]

TypeOK == /\ row \in Versions
          /\ over \in [Versions -> 0..Ever]
          /\ l1 \in [Instances -> Entry(L1TTL)]
          /\ l2 \in Entry(L2TTL)
          /\ flight \in [Instances -> Flight]
          /\ caller \in [Callers -> Caller]
          /\ purge \subseteq Instances
          /\ faults \in 0..MaxFaults

Nothing == [value |-> 1, left |-> 0]
NoFlight == [pc |-> "none", value |-> 1, age |-> 0]
NoCall == [pc |-> "idle", at |-> CHOOSE i \in Instances : TRUE]

Init == /\ row = 1
        /\ over = [v \in Versions |-> 0]
        /\ l1 = [i \in Instances |-> Nothing]
        /\ l2 = Nothing
        /\ flight = [i \in Instances |-> NoFlight]
        /\ caller = [c \in Callers |-> NoCall]
        /\ purge = {}
        /\ faults = 0

Fault == faults < MaxFaults /\ faults' = faults + 1
Fly(i, pc) == flight' = [flight EXCEPT ![i].pc = pc]

\* The flight is over and everyone who waits for it returns.  Callers that
\* have missed and not joined it go on by themselves.
Land(i) ==
  /\ flight' = [flight EXCEPT ![i] = NoFlight]
  /\ caller' = [c \in Callers |->
       IF caller[c].at = i /\ caller[c].pc = "waiting"
         THEN NoCall ELSE caller[c]]

-----------------------------------------------------------------------------
(* GetOrLoad *)

\* A hit in L1 returns at once and changes nothing; this is a miss.
Miss(c, i) ==
  /\ caller[c].pc = "idle" /\ l1[i].left = 0
  /\ caller' = [caller EXCEPT ![c] = [pc |-> "missed", at |-> i]]
  /\ UNCHANGED <<row, over, l1, l2, flight, purge, faults>>

\* group.Do: lead a flight, or join the one under way.
Do(c) ==
  LET i == caller[c].at IN
  /\ caller[c].pc = "missed"
  /\ flight' = IF flight[i].pc # "none" THEN flight
               ELSE [flight EXCEPT ![i] = [NoFlight EXCEPT !.pc = "l2"]]
  /\ caller' = [caller EXCEPT ![c].pc = "waiting"]
  /\ UNCHANGED <<row, over, l1, l2, purge, faults>>

FromL2Hit(i) ==
  /\ flight[i].pc = "l2" /\ HasL2 /\ l2.left > 0
  /\ flight' = [flight EXCEPT ![i] = [flight[i] EXCEPT !.pc = "share", !.value = l2.value]]
  /\ UNCHANGED <<row, over, l1, l2, caller, purge, faults>>

\* No L2, a miss, or any error.
FromL2Miss(i) ==
  /\ flight[i].pc = "l2"
  /\ \/ (~HasL2 \/ l2.left = 0) /\ UNCHANGED faults
     \/ Fault
  /\ Fly(i, "load")
  /\ UNCHANGED <<row, over, l1, l2, caller, purge>>

Load(i) ==
  /\ flight[i].pc = "load"
  /\ flight' = [flight EXCEPT ![i] = [flight[i] EXCEPT !.pc = "store", !.value = row]]
  /\ UNCHANGED <<row, over, l1, l2, caller, purge, faults>>

LoadFails(i) ==
  /\ flight[i].pc = "load" /\ Fault
  /\ Land(i)
  /\ UNCHANGED <<row, over, l1, l2, purge>>

\* SetWithTTL; Ristretto may drop a set.
SetL1(i) == l1' \in {l1, [l1 EXCEPT ![i] = [value |-> flight[i].value, left |-> L1TTL]]}

\* Mutant: an L2 hit is written back to both tiers.
ShareWritesBack(i) ==
  /\ flight[i].pc = "share"
  /\ SetL1(i)
  /\ l2' = [value |-> flight[i].value, left |-> L2TTL]
  /\ Land(i)
  /\ UNCHANGED <<row, over, purge, faults>>

\* After a hit in L2: L1 only.
Share(i) ==
  /\ flight[i].pc = "share"
  /\ SetL1(i)
  /\ Land(i)
  /\ UNCHANGED <<row, over, l2, purge, faults>>

\* After a load: L1, and then L2.
Store(i) ==
  /\ flight[i].pc = "store"
  /\ SetL1(i)
  /\ Fly(i, "publish")
  /\ UNCHANGED <<row, over, l2, caller, purge, faults>>

\* Mutant: the entry is given the lifetimes of both tiers.
ToL2Longer(i) ==
  /\ flight[i].pc = "publish" /\ HasL2
  /\ l2' = [value |-> flight[i].value, left |-> L1TTL + L2TTL]
  /\ Land(i)
  /\ UNCHANGED <<row, over, l1, purge, faults>>

\* toL2, best-effort.
ToL2(i) ==
  /\ flight[i].pc = "publish"
  /\ \/ HasL2 /\ l2' = [value |-> flight[i].value, left |-> L2TTL] /\ UNCHANGED faults
     \/ ~HasL2 /\ UNCHANGED <<l2, faults>>
     \/ HasL2 /\ Fault /\ UNCHANGED l2
  /\ Land(i)
  /\ UNCHANGED <<row, over, l1, purge>>

-----------------------------------------------------------------------------
(* Writers, and Invalidate *)

\* The row changes; the writer, or a consumer of its event, may invalidate.
Write ==
  /\ row <= MaxWrites
  /\ row' = row + 1
  /\ UNCHANGED <<over, l1, l2, flight, caller, purge, faults>>

InvalidateL1(i) ==
  /\ row > 1 /\ i \notin purge
  /\ l1' = [l1 EXCEPT ![i] = Nothing]
  /\ purge' = IF HasL2 THEN purge \cup {i} ELSE purge
  /\ UNCHANGED <<row, over, l2, flight, caller, faults>>

\* Best-effort.
InvalidateL2(i) ==
  /\ i \in purge
  /\ \/ l2' = Nothing /\ UNCHANGED faults
     \/ Fault /\ UNCHANGED l2
  /\ purge' = purge \ {i}
  /\ UNCHANGED <<row, over, l1, flight, caller>>

Less(e) == [e EXCEPT !.left = IF @ > 0 THEN @ - 1 ELSE 0]

Tick ==
  /\ \A i \in Instances : flight[i].pc # "none" => flight[i].age < MaxFlight
  /\ over' = [v \in Versions |-> IF v < row /\ over[v] < Ever THEN over[v] + 1 ELSE over[v]]
  /\ l1' = [i \in Instances |-> Less(l1[i])]
  /\ l2' = Less(l2)
  /\ flight' = [i \in Instances |-> IF flight[i].pc = "none" THEN flight[i]
                                    ELSE [flight[i] EXCEPT !.age = @ + 1]]
  /\ UNCHANGED <<row, caller, purge, faults>>

Next == \/ \E c \in Callers : Do(c) \/ \E i \in Instances : Miss(c, i)
        \/ \E i \in Instances :
             \/ FromL2Hit(i) \/ FromL2Miss(i) \/ Load(i) \/ LoadFails(i)
             \/ Share(i) \/ Store(i) \/ ToL2(i)
             \/ InvalidateL1(i) \/ InvalidateL2(i)
        \/ Write \/ Tick

Spec == Init /\ [][Next]_vars

-----------------------------------------------------------------------------

\* Whatever races, fails or is never invalidated, GetOrLoad answers with no
\* value that was replaced longer ago than both lifetimes and two flights: a
\* hit in L2 does not renew what it found.
StaleBounded ==
  \A i \in Instances :
    /\ l1[i].left > 0 => over[l1[i].value] <= MaxStale
    /\ flight[i].pc \in {"share", "store", "publish"} =>
         over[flight[i].value] <= L2TTL + 2 * MaxFlight

\* cache.go: "L2TTL bounds staleness across instances".
StaleWithinL2TTL ==
  \A i \in Instances : l1[i].left > 0 => over[l1[i].value] <= L2TTL
=============================================================================
