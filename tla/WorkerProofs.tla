---------------------------- MODULE WorkerProofs ----------------------------
(***************************************************************************)
(* What the worker replicas run, for any number of them.  Jobs: the lease  *)
(* is honoured in every mode, and a fail-closed job whose LeaseTTL covers  *)
(* its run runs on one replica at a time.  Events: whatever relays and     *)
(* callbacks crash or time out, no event is lost, every duplicate costs a  *)
(* fault, and only what a use case committed is recorded.                  *)
(***************************************************************************)
EXTENDS MCWorker, Sequences, FiniteSetTheorems, WellFoundedInduction, TLAPS

\* A lease in hand that has not lapsed is the key, from Acquire to Release.
Owned == \A i \in Replicas : job[i].lease /\ ~job[i].lapsed => key = i

\* Without a lease there is no run, and while it runs the lease stays.
Covered == mode = "FailClosed" /\ covers =>
             \A i \in Replicas : Running(i) => job[i].lease /\ ~job[i].lapsed

IInv == TypeOK /\ Owned /\ Covered

-----------------------------------------------------------------------------

\* What the updates of a goroutine's record do.
LEMMA JobFacts ==
  ASSUME TypeOK, NEW i \in Replicas, NEW pc \in {"waiting", "running", "working",
                                                 "releasing", "dead"},
         job' = [job EXCEPT ![i].pc = pc]
  PROVE  /\ job' \in [Replicas -> Job] /\ job'[i].pc = pc
         /\ job'[i].lease = job[i].lease /\ job'[i].lapsed = job[i].lapsed
         /\ \A j \in Replicas \ {i} : job'[j] = job[j]
<1>1. job[i] \in Job /\ job \in [Replicas -> Job]
  BY DEF TypeOK
<1>2. [job[i] EXCEPT !.pc = pc] \in Job
  BY <1>1 DEF Job
<1>3. QED
  BY <1>1, <1>2 DEF Job

\* Starting a run, going back to waiting and dying replace the record.
LEMMA RecordFacts ==
  ASSUME TypeOK, NEW i \in Replicas,
         NEW r \in Job, job' = [job EXCEPT ![i] = r]
  PROVE  /\ job' \in [Replicas -> Job] /\ job'[i] = r
         /\ \A j \in Replicas \ {i} : job'[j] = job[j]
  BY DEF TypeOK

\* The records the model assigns are records of a goroutine.
LEMMA Records ==
  /\ Waiting \in Job /\ Waiting.lease = FALSE /\ Waiting.pc = "waiting"
  /\ Dead \in Job /\ Dead.lease = FALSE /\ Dead.pc = "dead"
<1>1. Waiting \in Job /\ Dead \in Job
  BY Zenon DEF Waiting, Dead, Job
<1>2. QED
  BY <1>1 DEF Waiting, Dead

\* A step of replica i that ends with no lease in hand, or with the lease it
\* had, and that frees the key only if it was i's.
LEMMA OneReplica ==
  ASSUME IInv, UNCHANGED <<mode, covers>>, NEW i \in Replicas, TypeOK',
         \A j \in Replicas \ {i} : job'[j] = job[j],
         \/ job'[i].lease = FALSE
         \/ job'[i].lease = job[i].lease /\ job'[i].lapsed = job[i].lapsed,
         key' = key \/ (job'[i].lease = FALSE /\ key = i),
         \/ ~Running(i)'
         \/ Running(i) /\ job'[i].lease = job[i].lease /\ job'[i].lapsed = job[i].lapsed
  PROVE  IInv'
<1>1. Owned'
  BY DEF IInv, Owned
<1>2. Covered'
  BY DEF IInv, Covered, Running
<1>3. QED
  BY <1>1, <1>2 DEF IInv

\* Return keeps the lease and ends the run.
LEMMA ReturnFacts ==
  ASSUME TypeOK, NEW i \in Replicas, Return(i)
  PROVE  /\ job' \in [Replicas -> Job]
         /\ job'[i].pc \in {"releasing", "waiting"}
         /\ job'[i].lease = job[i].lease /\ job'[i].lapsed = job[i].lapsed
         /\ \A j \in Replicas \ {i} : job'[j] = job[j]
<1> DEFINE pc == IF job[i].lease THEN "releasing" ELSE "waiting"
<1>1. pc \in {"releasing", "waiting"}
  OBVIOUS
<1>2. job' = [job EXCEPT ![i].pc = pc]
  BY DEF Return
<1> HIDE DEF pc
<1>3. QED
  <2>1. /\ job' \in [Replicas -> Job] /\ job'[i].pc = pc
        /\ job'[i].lease = job[i].lease /\ job'[i].lapsed = job[i].lapsed
        /\ \A j \in Replicas \ {i} : job'[j] = job[j]
    BY <1>1, <1>2, JobFacts
  <2>2. QED
    BY <1>1, <2>1

\* The initial state: nobody runs, nobody has a lease.
LEMMA InitInv == Init => IInv
<1> SUFFICES ASSUME Init PROVE IInv
  OBVIOUS
<1>1. \A i \in Replicas : job[i] = Waiting
  BY DEF Init
<1>2. job \in [Replicas -> Job]
  BY Records DEF Init
<1>3. TypeOK
  <2>1. 0 \in 0..2 /\ 0 \in 0..MaxFaults
    BY JobAssumption
  <2>2. QED
    BY <1>2, <2>1, Zenon DEF Init, TypeOK
<1>4. Owned /\ Covered
  BY <1>1, Records DEF Owned, Covered, Running
<1>5. QED
  BY <1>3, <1>4 DEF IInv

\* The counters stay in their bounds.
LEMMA CounterFacts ==
  ASSUME TypeOK
  PROVE  /\ Saturated(fired) \in 0..2 /\ Saturated(worked) \in 0..2
         /\ Fault => faults' \in 0..MaxFaults
  BY JobAssumption DEF TypeOK, Saturated, Fault

\* Starting with the lease just taken, or without one in a fail-open job.
LEMMA StartInv ==
  ASSUME IInv, UNCHANGED <<mode, covers>>, NEW i \in Replicas,
         NEW lease \in BOOLEAN, TypeOK',
         job[i].pc = "waiting", Start(i, lease),
         \/ lease = TRUE /\ key = None /\ key' = i
         \/ lease = FALSE /\ mode # "FailClosed" /\ (key = None \/ key' = key)
  PROVE  IInv'
<1> DEFINE r == [pc |-> "running", lease |-> lease, lapsed |-> FALSE]
<1>1. r \in Job /\ r.lease = lease /\ r.lapsed = FALSE
  <2>1. r \in Job
    BY Zenon DEF Job
  <2>2. QED
    BY <2>1
<1>2. job' = [job EXCEPT ![i] = r]
  BY DEF Start
<1> HIDE DEF r
<1>3. job'[i] = r /\ \A j \in Replicas \ {i} : job'[j] = job[j]
  BY <1>1, <1>2, RecordFacts DEF IInv
<1>4. Owned'
  BY <1>1, <1>3, JobAssumption DEF IInv, Owned
<1>5. Covered'
  <2> SUFFICES ASSUME mode = "FailClosed", covers, NEW j \in Replicas, Running(j)'
               PROVE  job'[j].lease /\ ~job'[j].lapsed
    BY DEF Covered
  <2>1. CASE j = i
    BY <2>1, <1>1, <1>3
  <2>2. CASE j # i
    BY <2>2, <1>3 DEF IInv, Covered, Running
  <2>3. QED
    BY <2>1, <2>2
<1>6. QED
  BY <1>4, <1>5 DEF IInv

\* Where no goroutine moves, only the key of nobody's lease may change.
LEMMA NoReplica ==
  ASSUME IInv, UNCHANGED <<mode, covers>>, TypeOK', job' = job, key' = key \/ key = None
  PROVE  IInv'
<1>1. Owned'
  BY JobAssumption DEF IInv, Owned
<1>2. Covered'
  BY DEF IInv, Covered, Running
<1>3. QED
  BY <1>1, <1>2 DEF IInv

\* The TTL: the lease that lapses is marked, and was not covering a run.
LEMMA LapseInv ==
  ASSUME IInv, LeaseLapses
  PROVE  IInv'
<1>1. TypeOK /\ Owned /\ Covered
  BY DEF IInv
<1>2. key \in Replicas /\ job[key] \in Job /\ job \in [Replicas -> Job]
  BY <1>1 DEF TypeOK, LeaseLapses
<1> DEFINE b == job[key].lapsed \/ job[key].lease
<1>3. /\ key' = None
      /\ job' = [job EXCEPT ![key].lapsed = b]
      /\ UNCHANGED <<mode, covers, ticked, marker, fired, worked, faults>>
      /\ covers => ~(job[key].lease /\ ~job[key].lapsed /\ Running(key))
  BY DEF LeaseLapses
<1>4. b \in BOOLEAN
  BY Zenon
<1>5. b = FALSE => ~job[key].lease
  BY Zenon
<1> HIDE DEF b
<1>6. [job[key] EXCEPT !.lapsed = b] \in Job
  BY <1>2, <1>4 DEF Job
<1>7. /\ job' \in [Replicas -> Job]
      /\ job'[key].lapsed = b /\ job'[key].lease = job[key].lease
      /\ job'[key].pc = job[key].pc
      /\ \A j \in Replicas \ {key} : job'[j] = job[j]
  BY <1>2, <1>3, <1>6 DEF Job
<1>8. TypeOK'
  BY <1>1, <1>3, <1>7 DEF TypeOK
<1>9. Owned'
  <2> SUFFICES ASSUME NEW i \in Replicas, job'[i].lease, ~job'[i].lapsed
               PROVE  FALSE
    BY DEF Owned
  <2>1. CASE i = key
    BY <2>1, <1>4, <1>5, <1>7
  <2>2. CASE i # key
    BY <2>2, <1>1, <1>7 DEF Owned
  <2>3. QED
    BY <2>1, <2>2
<1>10. Covered'
  <2> SUFFICES ASSUME mode = "FailClosed", covers, NEW j \in Replicas, Running(j)'
               PROVE  job'[j].lease /\ ~job'[j].lapsed
    BY <1>3 DEF Covered
  <2>1. j # key
    BY <1>1, <1>2, <1>3, <1>7 DEF Covered, Running
  <2>2. QED
    BY <2>1, <1>1, <1>7 DEF Covered, Running
<1>11. QED
  BY <1>8, <1>9, <1>10 DEF IInv

\* One step per action.
LEMMA StepInv ==
  ASSUME IInv, [Next]_vars
  PROVE  IInv'
<1>0. TypeOK
  BY DEF IInv
<1>00. UNCHANGED <<mode, covers>>
  BY DEF Next, Step, Acquire, AcquireError, MarkOnce, MarkOnceError, RunReturns,
         Release, ReleaseFails, Crash, Panic, LeaseLapses, NewPeriod, vars
<1> USE <1>0, <1>00
<1>1. ASSUME NEW i \in Replicas, Acquire(i) PROVE IInv'
  <2>1. CASE key = None /\ key' = i /\ Start(i, TRUE)
    <3>1. TypeOK'
      <4> DEFINE r == [pc |-> "running", lease |-> TRUE, lapsed |-> FALSE]
      <4>1. r \in Job
        BY Zenon DEF Job
      <4>2. job' = [job EXCEPT ![i] = r] /\ fired' = Saturated(fired)
        BY <2>1 DEF Start
      <4> HIDE DEF r
      <4>3. job' \in [Replicas -> Job]
        BY <4>1, <4>2, RecordFacts
      <4>4. QED
        BY <1>1, <2>1, <4>2, <4>3, CounterFacts DEF TypeOK, Acquire, Tick
    <3>2. QED
      BY <1>1, <2>1, <3>1, StartInv DEF Acquire, Tick
  <2>2. CASE UNCHANGED <<key, job, fired>>
    <3>1. TypeOK'
      BY <1>1, <2>2 DEF TypeOK, Acquire, Tick
    <3>2. QED
      BY <2>2, <3>1, NoReplica
  <2>3. QED
    BY <1>1, <2>1, <2>2 DEF Acquire
<1>2. ASSUME NEW i \in Replicas, AcquireError(i) PROVE IInv'
  <2>1. key' \in Replicas \cup {None} /\ (key = None \/ key' = key)
    BY <1>2 DEF AcquireError, TypeOK
  <2>2. CASE mode = "FailClosed"
    <3>1. TypeOK'
      BY <1>2, <2>1, <2>2, CounterFacts DEF TypeOK, AcquireError, Tick
    <3>2. QED
      BY <1>2, <2>1, <2>2, <3>1, NoReplica DEF AcquireError
  <2>3. CASE mode # "FailClosed"
    <3>1. Start(i, FALSE)
      BY <1>2, <2>3 DEF AcquireError
    <3>2. TypeOK'
      <4> DEFINE r == [pc |-> "running", lease |-> FALSE, lapsed |-> FALSE]
      <4>1. r \in Job
        BY Zenon DEF Job
      <4>2. job' = [job EXCEPT ![i] = r] /\ fired' = Saturated(fired)
        BY <3>1 DEF Start
      <4> HIDE DEF r
      <4>3. job' \in [Replicas -> Job]
        BY <4>1, <4>2, RecordFacts
      <4>4. QED
        BY <1>2, <2>1, <4>2, <4>3, CounterFacts DEF TypeOK, AcquireError, Tick
    <3>3. QED
      BY <1>2, <2>1, <2>3, <3>1, <3>2, StartInv DEF AcquireError, Tick
  <2>4. QED
    BY <2>2, <2>3
<1>3. ASSUME NEW i \in Replicas, MarkOnce(i) PROVE IInv'
  <2>1. CASE job' = [job EXCEPT ![i].pc = "working"] /\ marker' = TRUE
             /\ worked' = Saturated(worked)
    <3>1. /\ job' \in [Replicas -> Job] /\ job'[i].pc = "working"
          /\ job'[i].lease = job[i].lease /\ job'[i].lapsed = job[i].lapsed
          /\ \A j \in Replicas \ {i} : job'[j] = job[j]
      BY <2>1, JobFacts
    <3>2. TypeOK'
      BY <1>3, <2>1, <3>1, CounterFacts DEF TypeOK, MarkOnce
    <3>3. QED
      BY <1>3, <3>1, <3>2, OneReplica DEF MarkOnce, Running
  <2>2. CASE Return(i) /\ UNCHANGED <<marker, worked>>
    <3>1. TypeOK'
      BY <1>3, <2>2, ReturnFacts DEF TypeOK, MarkOnce
    <3>2. QED
      BY <1>3, <2>2, <3>1, ReturnFacts, OneReplica DEF MarkOnce, Running
  <2>3. QED
    BY <1>3, <2>1, <2>2 DEF MarkOnce
<1>4. ASSUME NEW i \in Replicas, MarkOnceError(i) PROVE IInv'
  <2>1. Return(i) /\ Fault /\ marker' \in BOOLEAN
    BY <1>4, Zenon DEF MarkOnceError, TypeOK
  <2>2. TypeOK'
    BY <1>4, <2>1, ReturnFacts, CounterFacts DEF TypeOK, MarkOnceError
  <2>3. QED
    BY <1>4, <2>1, <2>2, ReturnFacts, OneReplica DEF MarkOnceError, Running
<1>5. ASSUME NEW i \in Replicas, RunReturns(i) PROVE IInv'
  <2>1. TypeOK'
    BY <1>5, ReturnFacts DEF TypeOK, RunReturns
  <2>2. QED
    BY <1>5, <2>1, ReturnFacts, OneReplica DEF RunReturns, Running
<1>6. ASSUME NEW i \in Replicas, Release(i) PROVE IInv'
  <2>1. job' = [job EXCEPT ![i] = Waiting]
    BY <1>6 DEF Release
  <2>2. /\ job' \in [Replicas -> Job] /\ job'[i] = Waiting
        /\ \A j \in Replicas \ {i} : job'[j] = job[j]
    BY <2>1, Records, RecordFacts
  <2>3. key' = key \/ (key = i /\ key' = None)
    BY <1>6 DEF Release
  <2>4. TypeOK'
    BY <1>6, <2>2, <2>3 DEF TypeOK, Release
  <2>5. QED
    BY <2>2, <2>3, <2>4, Records, OneReplica DEF Running
<1>7. ASSUME NEW i \in Replicas, ReleaseFails(i) \/ Crash(i) PROVE IInv'
  <2>1. job' = [job EXCEPT ![i] = Waiting] /\ Fault
        /\ UNCHANGED <<key, ticked, marker, fired, worked>>
    BY <1>7 DEF ReleaseFails, Crash
  <2>2. /\ job' \in [Replicas -> Job] /\ job'[i] = Waiting
        /\ \A j \in Replicas \ {i} : job'[j] = job[j]
    BY <2>1, Records, RecordFacts
  <2>3. TypeOK'
    BY <2>1, <2>2, CounterFacts DEF TypeOK
  <2>4. QED
    BY <2>1, <2>2, <2>3, Records, OneReplica DEF Running
<1>8. ASSUME NEW i \in Replicas, Panic(i) PROVE IInv'
  <2>1. job' = [job EXCEPT ![i] = Dead] /\ Fault
        /\ UNCHANGED <<key, ticked, marker, fired, worked>>
    BY <1>8 DEF Panic
  <2>2. /\ job' \in [Replicas -> Job] /\ job'[i] = Dead
        /\ \A j \in Replicas \ {i} : job'[j] = job[j]
    BY <2>1, Records, RecordFacts
  <2>3. TypeOK'
    BY <2>1, <2>2, CounterFacts DEF TypeOK
  <2>4. QED
    BY <2>1, <2>2, <2>3, Records, OneReplica DEF Running
<1>9. CASE LeaseLapses
  BY <1>9, LapseInv
<1>10. CASE NewPeriod
  <2>1. TypeOK'
    <3>1. 0 \in 0..2
      OBVIOUS
    <3>2. QED
      BY <1>10, <3>1, Zenon DEF TypeOK, NewPeriod
  <2>2. QED
    BY <1>10, <2>1, NoReplica DEF NewPeriod
<1>11. CASE UNCHANGED vars
  <2>1. TypeOK'
    BY <1>11 DEF TypeOK, vars
  <2>2. QED
    BY <1>11, <2>1, NoReplica DEF vars
<1>12. QED
  BY <1>1, <1>2, <1>3, <1>4, <1>5, <1>6, <1>7, <1>8, <1>9, <1>10, <1>11
  DEF Next, Step

\* The inductive invariant of one job on any number of replicas.
THEOREM Invariance == Spec => []IInv
<1>1. Init => IInv
  BY InitInv
<1>2. IInv /\ [Next]_vars => IInv'
  BY StepInv
<1>3. QED
  BY <1>1, <1>2, PTL DEF Spec

\* Redis, the tickers and the goroutines keep their types.
THEOREM TypeCorrect == Spec => []TypeOK
<1>1. IInv => TypeOK
  BY DEF IInv
<1>2. QED
  BY <1>1, Invariance, PTL

\* A lapsed holder never takes the key from the next one (lock.go Release), in
\* either failure mode and whatever the TTL.
THEOREM LeaseHonouredHolds == Spec => []LeaseHonoured
<1>1. IInv => LeaseHonoured
  BY DEF IInv, Owned, LeaseHonoured
<1>2. QED
  BY <1>1, Invariance, PTL

\* A fail-closed job whose LeaseTTL covers its run runs on one replica at a
\* time (jobs.go runOnce), whatever crashes and whichever call fails.
THEOREM OneAtATimeHolds == Spec => []OneAtATime
<1>1. IInv => OneAtATime
  BY DEF IInv, Owned, Covered, OneAtATime
<1>2. QED
  BY <1>1, Invariance, PTL

-----------------------------------------------------------------------------

\* Nobody has done this period's work while its marker is unset.
Marked == /\ marker \in BOOLEAN
          /\ worked \in {0, 1}
          /\ ~marker => worked = 0

\* MarkOnce lets one run per period through, in either failure mode and also
\* when runs overlap because their lease lapsed.
THEOREM WorkOncePerPeriodHolds == Spec => []WorkOncePerPeriod
<1>1. Init => Marked
  BY DEF Init, Marked
<1>2. ASSUME Marked, [Next]_vars PROVE Marked'
  <2>1. ASSUME NEW i \in Replicas, MarkOnce(i) PROVE Marked'
    <3>1. CASE ~marker /\ marker' = TRUE /\ worked' = Saturated(worked)
      BY <1>2, <3>1 DEF Marked, Saturated
    <3>2. CASE UNCHANGED <<marker, worked>>
      BY <1>2, <3>2 DEF Marked
    <3>3. QED
      BY <2>1, <3>1, <3>2 DEF MarkOnce
  <2>2. ASSUME NEW i \in Replicas, MarkOnceError(i) PROVE Marked'
    <3>1. marker' \in {marker, TRUE} /\ worked' = worked
      BY <2>2 DEF MarkOnceError
    <3>2. QED
      BY <1>2, <3>1 DEF Marked
  <2>3. CASE NewPeriod
    BY <2>3 DEF NewPeriod, Marked
  <2>4. CASE UNCHANGED <<marker, worked>>
    BY <1>2, <2>4 DEF Marked
  <2>5. QED
    BY <1>2, <2>1, <2>2, <2>3, <2>4
    DEF Next, Step, Acquire, AcquireError, RunReturns, Release, ReleaseFails,
        Crash, Panic, LeaseLapses, vars
<1>3. Marked => WorkOncePerPeriod
  BY DEF Marked, WorkOncePerPeriod
<1>4. QED
  BY <1>1, <1>2, <1>3, PTL DEF Spec

-----------------------------------------------------------------------------
(* The relays and the consumers around the stream, in EventPipeline *)

\* What a relay has published and not yet committed.
Sent(r) == relay[r].marked \cup (IF relay[r].pc = "mark" THEN {Pipeline!Current(r)} ELSE {})

\* The types, with every worker's message on the stream.
FlowTyped == Pipeline!TypeOK

\* A relay's rows are pending, and locked by no other relay.
Locked == \A r \in Relays :
  /\ relay[r].pc \in {"publish", "mark"} => relay[r].todo # {}
  /\ relay[r].pc = "idle" => Pipeline!Held(r) = {}
  /\ relay[r].todo \cap relay[r].marked = {}
  /\ \A e \in Pipeline!Held(r) :
       rows[e] = "pending" /\ \A q \in Relays \ {r} : e \notin Pipeline!Held(q)

\* What is published is on the stream, and only what was written is.
Stored == \A e \in Pipeline!Events :
  /\ rows[e] = "published" => Pipeline!Copies(e) # {}
  /\ (\E r \in Relays : e \in Sent(r)) => Pipeline!Copies(e) # {}
  /\ Pipeline!Copies(e) # {} => rows[e] # "absent"

\* What a worker holds is on the stream; what it acknowledges is recorded.
Handled == \A w \in Workers :
  /\ worker[w].pc = "idle" <=> worker[w].msg = 0
  /\ worker[w].pc \in {"ack", "nak"} => Pipeline!EventAt(w) \in Pipeline!Events
  /\ worker[w].pc = "ack" => ledger[Pipeline!EventAt(w)] > 0

\* What is settled is recorded, or is no event.
Recorded == \A i \in DOMAIN stream :
  stream[i].state = "settled" /\ stream[i].msg \in Pipeline!Events => ledger[stream[i].msg] > 0

\* The entries of an event still to come without a further fault: a row nobody
\* has published, a copy that will be handed out, a worker about to record.
Spare(e) == IF rows[e] = "published" \/ \E r \in Relays : e \in Sent(r) THEN 0 ELSE 1
Waits(i) == \/ stream[i].state = "queued"
            \/ stream[i].state = "out" /\ \A w \in Workers : worker[w].msg # i
Live(e) == {i \in Pipeline!Copies(e) : Waits(i)}
Hands(e) == {w \in Workers : worker[w].pc \in {"record", "nak"} /\ Pipeline!EventAt(w) = e}

\* Together with the entries there are they cost a fault each, but for one.
Budget == \A e \in Pipeline!Events :
  ledger[e] + Spare(e) + Cardinality(Live(e)) + Cardinality(Hands(e)) <= 1 + mishaps

\* The inductive invariant.
FlowInv == FlowTyped /\ Locked /\ Stored /\ Handled /\ Recorded /\ Budget

\* A set of natural numbers has a least element.
LEMMA NatLeast == \A T \in SUBSET Nat : T # {} => \E m \in T : \A n \in T : m <= n
<1> SUFFICES ASSUME NEW T \in SUBSET Nat, T # {} PROVE \E m \in T : \A n \in T : m <= n
  OBVIOUS
<1> DEFINE R == OpToRel(<, Nat)
<1>0. IsWellFoundedOn(R, Nat)
  BY NatLessThanWellFounded
<1>1. \A a, b \in Nat : <<a, b>> \in R <=> a < b
  BY DEF OpToRel
<1> HIDE DEF R
<1>2. \E x \in T : \A y \in T : ~ (<<y, x>> \in R)
  BY <1>0, WFMin
<1>3. PICK x \in T : \A y \in T : ~ (<<y, x>> \in R)
  BY <1>2
<1>4. \A n \in T : x \in Nat /\ n \in Nat /\ ~(n < x)
  BY <1>1, <1>3
<1> QED
  BY <1>4

\* First is the least of a set of rows.
LEMMA FirstIn ==
  ASSUME NEW S \in SUBSET Pipeline!Events, S # {}
  PROVE  Pipeline!First(S) \in S
<1>1. S \in SUBSET Nat
  BY PipelineAssumption DEF Pipeline!Events
<1>2. \E e \in S : \A d \in S : e <= d
  BY <1>1, NatLeast
<1> QED
  BY <1>2 DEF Pipeline!First

\* How sets of copies and of workers grow and shrink.
LEMMA Sizes ==
  ASSUME NEW S, IsFiniteSet(S), NEW T
  PROVE  /\ Cardinality(S) \in Nat
         /\ T \subseteq S => IsFiniteSet(T) /\ Cardinality(T) \in Nat /\ Cardinality(T) <= Cardinality(S)
         /\ \A x : T \subseteq S \cup {x} => Cardinality(T) \in Nat /\ Cardinality(T) <= Cardinality(S) + 1
         /\ \A x \in S : T \subseteq S \ {x} => Cardinality(T) \in Nat /\ Cardinality(T) <= Cardinality(S) - 1
<1>1. Cardinality(S) \in Nat
  BY FS_CardinalityType
<1>2. ASSUME T \subseteq S
      PROVE  IsFiniteSet(T) /\ Cardinality(T) \in Nat /\ Cardinality(T) <= Cardinality(S)
  BY <1>2, FS_Subset, FS_CardinalityType
<1>3. ASSUME NEW x, T \subseteq S \cup {x}
      PROVE  Cardinality(T) \in Nat /\ Cardinality(T) <= Cardinality(S) + 1
  <2>1. /\ IsFiniteSet(S \cup {x}) /\ Cardinality(S \cup {x}) \in Nat
        /\ Cardinality(S \cup {x}) <= Cardinality(S) + 1
    BY <1>1, FS_AddElement, FS_CardinalityType
  <2>2. IsFiniteSet(T) /\ Cardinality(T) <= Cardinality(S \cup {x})
    BY <1>3, <2>1, FS_Subset
  <2>3. Cardinality(T) \in Nat
    BY <2>2, FS_CardinalityType
  <2> QED
    BY <1>1, <2>1, <2>2, <2>3
<1>4. ASSUME NEW x \in S, T \subseteq S \ {x}
      PROVE  Cardinality(T) \in Nat /\ Cardinality(T) <= Cardinality(S) - 1
  <2>1. /\ IsFiniteSet(S \ {x}) /\ Cardinality(S \ {x}) = Cardinality(S) - 1
    BY FS_RemoveElement
  <2>2. IsFiniteSet(T) /\ Cardinality(T) <= Cardinality(S \ {x})
    BY <1>4, <2>1, FS_Subset
  <2>3. Cardinality(T) \in Nat
    BY <2>2, FS_CardinalityType
  <2> QED
    BY <1>1, <2>1, <2>2, <2>3
<1> QED
  BY <1>1, <1>2, <1>3, <1>4

\* The types the steps use.
LEMMA FlowTypes ==
  ASSUME FlowTyped
  PROVE  /\ stream \in Seq(Pipeline!Message) /\ Len(stream) \in Nat
         /\ DOMAIN stream = 1..Len(stream)
         /\ mishaps \in 0..PipelineFaults /\ mishaps \in Nat
         /\ rows \in [Pipeline!Events -> {"absent", "pending", "published"}]
         /\ relay \in [Relays -> Pipeline!Relay]
         /\ worker \in [Workers -> Pipeline!Worker]
         /\ \A w \in Workers : worker[w].msg \in 0..Len(stream)
         /\ ledger \in [Pipeline!Events -> Nat]
<1>1. /\ stream \in Seq(Pipeline!Message) /\ mishaps \in 0..PipelineFaults
      /\ rows \in [Pipeline!Events -> {"absent", "pending", "published"}]
      /\ relay \in [Relays -> Pipeline!Relay]
      /\ worker \in [Workers -> Pipeline!Worker]
      /\ \A w \in Workers : worker[w].msg \in 0..Len(stream)
      /\ ledger \in [Pipeline!Events -> Nat]
  BY DEF FlowTyped, Pipeline!TypeOK, Pipeline!StreamTypeOK, Pipeline!RelayTypeOK, Pipeline!AuditTypeOK
<1>2. Len(stream) \in Nat /\ DOMAIN stream = 1..Len(stream)
  BY <1>1
<1>3. mishaps \in Nat
  BY <1>1, PipelineAssumption
<1> QED
  BY <1>1, <1>2, <1>3

\* The tokens of an event are finitely many.
LEMMA Finite ==
  ASSUME FlowTyped, NEW e
  PROVE  IsFiniteSet(Live(e)) /\ IsFiniteSet(Hands(e))
<1>1. Live(e) \subseteq 1..Len(stream) /\ Len(stream) \in Nat
  BY FlowTypes DEF Live, Pipeline!Copies
<1>2. IsFiniteSet(1..Len(stream))
  BY <1>1, FS_Interval
<1>3. Hands(e) \subseteq Workers
  BY DEF Hands
<1> QED
  BY <1>1, <1>2, <1>3, FS_Subset, PipelineAssumption

\* A message is appended to the stream.
LEMMA Appended ==
  ASSUME FlowTyped, NEW x \in Pipeline!Events, Pipeline!Store(x)
  PROVE  /\ stream' \in Seq(Pipeline!Message) /\ Len(stream') = Len(stream) + 1
         /\ DOMAIN stream' = 1..(Len(stream) + 1)
         /\ \A i \in 1..Len(stream) : stream'[i] = stream[i]
         /\ stream'[Len(stream) + 1] = [msg |-> x, state |-> "queued"]
         /\ \A e : Pipeline!Copies(e)' =
                     IF e = x THEN Pipeline!Copies(e) \cup {Len(stream) + 1} ELSE Pipeline!Copies(e)
<1> DEFINE m == [msg |-> x, state |-> "queued"]
<1>1. stream \in Seq(Pipeline!Message) /\ Len(stream) \in Nat /\ DOMAIN stream = 1..Len(stream)
  BY FlowTypes
<1>2. m \in Pipeline!Message /\ m.msg = x
  BY DEF Pipeline!Message
<1>3. stream' = Append(stream, m)
  BY DEF Pipeline!Store
<1> HIDE DEF m
<1>4. /\ stream' \in Seq(Pipeline!Message) /\ Len(stream') = Len(stream) + 1
      /\ \A i \in 1..Len(stream) : stream'[i] = stream[i]
      /\ stream'[Len(stream) + 1] = m
  BY <1>1, <1>2, <1>3
<1>5. DOMAIN stream' = 1..(Len(stream) + 1)
  BY <1>1, <1>4
<1>6. ASSUME NEW e
      PROVE  Pipeline!Copies(e)' =
               IF e = x THEN Pipeline!Copies(e) \cup {Len(stream) + 1} ELSE Pipeline!Copies(e)
  <2>1. Pipeline!Copies(e) = {i \in 1..Len(stream) : stream[i].msg = e}
    BY <1>1 DEF Pipeline!Copies
  <2>2. Pipeline!Copies(e)' = {i \in 1..(Len(stream) + 1) : stream'[i].msg = e}
    BY <1>5 DEF Pipeline!Copies
  <2>3. \A i : i \in 1..(Len(stream) + 1) <=> i \in 1..Len(stream) \/ i = Len(stream) + 1
    BY <1>1
  <2>4. Len(stream) + 1 \notin 1..Len(stream)
    BY <1>1
  <2> QED
    BY <1>2, <1>4, <2>1, <2>2, <2>3, <2>4
<1> QED
  BY <1>4, <1>5, <1>6 DEF m

\* The consumer's state of a message changes.
LEMMA Updated ==
  ASSUME FlowTyped, NEW i \in DOMAIN stream, NEW s \in {"queued", "out", "settled"},
         stream' = [stream EXCEPT ![i].state = s]
  PROVE  /\ stream' \in Seq(Pipeline!Message) /\ Len(stream') = Len(stream)
         /\ DOMAIN stream' = DOMAIN stream
         /\ stream'[i].state = s
         /\ \A j \in DOMAIN stream : /\ stream'[j].msg = stream[j].msg
                                     /\ j # i => stream'[j] = stream[j]
         /\ \A e : Pipeline!Copies(e)' = Pipeline!Copies(e)
<1>1. stream \in Seq(Pipeline!Message) /\ Len(stream) \in Nat /\ DOMAIN stream = 1..Len(stream)
  BY FlowTypes
<1> DEFINE m == [stream[i] EXCEPT !.state = s]
<1>2. m \in Pipeline!Message /\ m.state = s /\ m.msg = stream[i].msg
  <2>1. stream[i] \in Pipeline!Message
    BY <1>1
  <2> QED
    BY <2>1 DEF Pipeline!Message
<1>3. stream' = [stream EXCEPT ![i] = m]
  OBVIOUS
<1> HIDE DEF m
<1>4. /\ stream' \in Seq(Pipeline!Message) /\ Len(stream') = Len(stream)
      /\ DOMAIN stream' = DOMAIN stream
      /\ stream'[i] = m
      /\ \A j \in DOMAIN stream : j # i => stream'[j] = stream[j]
  BY <1>1, <1>2, <1>3
<1>5. \A j \in DOMAIN stream : stream'[j].msg = stream[j].msg
  BY <1>2, <1>4
<1>6. \A e : Pipeline!Copies(e)' = Pipeline!Copies(e)
  BY <1>4, <1>5 DEF Pipeline!Copies
<1> QED
  BY <1>2, <1>4, <1>5, <1>6

\* What relay r has published is among the rows it has locked.
LEMMA SentHeld ==
  ASSUME FlowTyped, Locked, NEW r \in Relays
  PROVE  /\ Sent(r) \subseteq Pipeline!Held(r)
         /\ relay[r].todo \subseteq Pipeline!Events /\ relay[r].marked \subseteq Pipeline!Events
         /\ relay[r].pc \in {"publish", "mark"} =>
              Pipeline!Current(r) \in relay[r].todo /\ Pipeline!Current(r) \in Pipeline!Events
<1>1. relay[r] \in Pipeline!Relay
  BY FlowTypes
<1>2. relay[r].todo \subseteq Pipeline!Events /\ relay[r].marked \subseteq Pipeline!Events
  BY <1>1 DEF Pipeline!Relay
<1>3. ASSUME relay[r].pc \in {"publish", "mark"} PROVE Pipeline!Current(r) \in relay[r].todo
  <2>1. relay[r].todo # {}
    BY <1>3 DEF Locked
  <2> QED
    BY <1>2, <2>1, FirstIn DEF Pipeline!Current
<1> QED
  BY <1>2, <1>3 DEF Sent, Pipeline!Held

\* Relay r goes on with the rows it has locked, or has just locked.
LEMMA RelayMoves ==
  ASSUME FlowInv, NEW r \in Relays, NEW new \in Pipeline!Relay,
         relay' = [relay EXCEPT ![r] = new],
         new.pc \in {"publish", "mark"} => new.todo # {},
         new.pc = "idle" => new.todo = {} /\ new.marked = {},
         new.todo \cap new.marked = {},
         \A e \in new.todo \cup new.marked :
           rows'[e] = "pending" /\ \A q \in Relays \ {r} : e \notin Pipeline!Held(q),
         \A q \in Relays \ {r} : \A e \in Pipeline!Held(q) : rows'[e] = rows[e]
  PROVE  /\ relay' \in [Relays -> Pipeline!Relay]
         /\ Locked'
         /\ Sent(r)' = new.marked \cup (IF new.pc = "mark" THEN {Pipeline!First(new.todo)} ELSE {})
         /\ \A q \in Relays \ {r} : Sent(q)' = Sent(q)
<1>1. relay \in [Relays -> Pipeline!Relay] /\ Locked
  BY FlowTypes DEF FlowInv
<1>2. relay' \in [Relays -> Pipeline!Relay] /\ relay'[r] = new
  BY <1>1
<1>3. \A q \in Relays \ {r} : relay'[q] = relay[q]
  BY <1>1
<1>4. /\ Pipeline!Held(r)' = new.todo \cup new.marked
      /\ \A q \in Relays \ {r} : Pipeline!Held(q)' = Pipeline!Held(q)
  BY <1>2, <1>3 DEF Pipeline!Held
<1>5. /\ Sent(r)' = new.marked \cup (IF new.pc = "mark" THEN {Pipeline!First(new.todo)} ELSE {})
      /\ \A q \in Relays \ {r} : Sent(q)' = Sent(q)
  BY <1>2, <1>3 DEF Sent, Pipeline!Current, Pipeline!First
<1>6. ASSUME NEW q \in Relays
      PROVE  /\ relay'[q].pc \in {"publish", "mark"} => relay'[q].todo # {}
             /\ relay'[q].pc = "idle" => Pipeline!Held(q)' = {}
             /\ relay'[q].todo \cap relay'[q].marked = {}
             /\ \A e \in Pipeline!Held(q)' :
                  rows'[e] = "pending" /\ \A p \in Relays \ {q} : e \notin Pipeline!Held(p)'
  <2>1. CASE q = r
    <3>1. \A e \in Pipeline!Held(r)' :
            rows'[e] = "pending" /\ \A p \in Relays \ {r} : e \notin Pipeline!Held(p)'
      BY <1>4
    <3>2. new.pc = "idle" => Pipeline!Held(r)' = {}
      BY <1>4
    <3> QED
      BY <1>2, <2>1, <3>1, <3>2
  <2>2. CASE q # r
    <3>1. /\ relay[q].pc \in {"publish", "mark"} => relay[q].todo # {}
          /\ relay[q].pc = "idle" => Pipeline!Held(q) = {}
          /\ relay[q].todo \cap relay[q].marked = {}
          /\ \A e \in Pipeline!Held(q) :
               rows[e] = "pending" /\ \A p \in Relays \ {q} : e \notin Pipeline!Held(p)
      BY <1>1 DEF Locked
    <3>2. relay'[q] = relay[q] /\ Pipeline!Held(q)' = Pipeline!Held(q)
      BY <1>3, <1>4, <2>2
    <3>3. ASSUME NEW e \in Pipeline!Held(q)
          PROVE  rows'[e] = "pending" /\ \A p \in Relays \ {q} : e \notin Pipeline!Held(p)'
      <4>1. rows'[e] = rows[e]
        BY <2>2
      <4>2. e \notin Pipeline!Held(r)'
        BY <1>4, <2>2
      <4> QED
        BY <1>4, <3>1, <4>1, <4>2
    <3> QED
      BY <3>1, <3>2, <3>3
  <2> QED
    BY <2>1, <2>2
<1>7. Locked'
  BY <1>6 DEF Locked
<1> QED
  BY <1>2, <1>5, <1>7

\* A relay's step leaves the workers' share of the invariant alone, whether
\* it stores a message or not.
LEMMA RelayKeeps ==
  ASSUME FlowInv, UNCHANGED <<worker, ledger>>,
         UNCHANGED stream \/ \E x \in Pipeline!Events : Pipeline!Store(x)
  PROVE  /\ Handled' /\ Recorded'
         /\ stream' \in Seq(Pipeline!Message)
         /\ \A w \in Workers : worker'[w].msg \in 0..Len(stream')
         /\ \A e : /\ Hands(e)' = Hands(e)
                   /\ Pipeline!Copies(e) \subseteq Pipeline!Copies(e)'
                   /\ UNCHANGED stream => Live(e)' = Live(e)
         /\ \A x, e \in Pipeline!Events : Pipeline!Store(x) =>
              /\ e # x => Live(e)' = Live(e)
              /\ Live(x)' \subseteq Live(x) \cup {Len(stream) + 1}
<1>0. FlowTyped /\ Handled /\ Recorded
  BY DEF FlowInv
<1>1. /\ stream \in Seq(Pipeline!Message) /\ Len(stream) \in Nat /\ DOMAIN stream = 1..Len(stream)
      /\ worker \in [Workers -> Pipeline!Worker]
      /\ \A w \in Workers : worker[w].msg \in 0..Len(stream)
  BY <1>0, FlowTypes
<1>2. ASSUME NEW w \in Workers
      PROVE  worker[w].pc = "idle" \/ worker[w].msg \in 1..Len(stream)
  BY <1>0, <1>1 DEF Handled
<1>3. CASE UNCHANGED stream
  <2>1. \A e : /\ Hands(e)' = Hands(e) /\ Live(e)' = Live(e)
               /\ Pipeline!Copies(e)' = Pipeline!Copies(e)
    BY <1>3 DEF Hands, Live, Waits, Pipeline!Copies, Pipeline!EventAt
  <2>2. Handled'
    BY <1>0, <1>3 DEF Handled, Pipeline!EventAt, Pipeline!Events
  <2>3. Recorded'
    BY <1>0, <1>3 DEF Recorded, Pipeline!Events
  <2>4. ~ \E x \in Pipeline!Events : Pipeline!Store(x)
    <3> SUFFICES ASSUME NEW x \in Pipeline!Events, Pipeline!Store(x) PROVE FALSE
      OBVIOUS
    <3>1. Len(stream') = Len(stream) + 1
      BY <1>0, Appended
    <3> QED
      BY <1>1, <1>3, <3>1
  <2> QED
    BY <1>1, <1>3, <2>1, <2>2, <2>3, <2>4
<1>4. ASSUME NEW x \in Pipeline!Events, Pipeline!Store(x)
      PROVE  /\ Handled' /\ Recorded'
             /\ stream' \in Seq(Pipeline!Message)
             /\ \A w \in Workers : worker'[w].msg \in 0..Len(stream')
             /\ \A e : /\ Hands(e)' = Hands(e)
                       /\ Pipeline!Copies(e) \subseteq Pipeline!Copies(e)'
                       /\ e # x => Live(e)' = Live(e)
             /\ Live(x)' \subseteq Live(x) \cup {Len(stream) + 1}
             /\ stream' # stream
  <2>1. /\ stream' \in Seq(Pipeline!Message) /\ Len(stream') = Len(stream) + 1
        /\ DOMAIN stream' = 1..(Len(stream) + 1)
        /\ \A i \in 1..Len(stream) : stream'[i] = stream[i]
        /\ stream'[Len(stream) + 1] = [msg |-> x, state |-> "queued"]
        /\ \A e : Pipeline!Copies(e)' =
                    IF e = x THEN Pipeline!Copies(e) \cup {Len(stream) + 1} ELSE Pipeline!Copies(e)
    BY <1>0, <1>4, Appended
  <2>2. \A w \in Workers : worker[w].pc # "idle" => Pipeline!EventAt(w)' = Pipeline!EventAt(w)
    BY <1>2, <2>1 DEF Pipeline!EventAt
  <2>3. Handled'
    BY <1>0, <2>2 DEF Handled, Pipeline!Events
  <2>4. Recorded'
    <3> SUFFICES ASSUME NEW i \in DOMAIN stream', stream'[i].state = "settled",
                        stream'[i].msg \in Pipeline!Events
                 PROVE  ledger'[stream'[i].msg] > 0
      BY DEF Recorded, Pipeline!Events
    <3>1. i # Len(stream) + 1
      BY <2>1
    <3>2. i \in 1..Len(stream)
      BY <1>1, <2>1, <3>1
    <3> QED
      BY <1>0, <1>1, <2>1, <3>2 DEF Recorded
  <2>5. \A e : Hands(e)' = Hands(e)
    BY <2>2 DEF Hands
  <2>6. \A w \in Workers : worker'[w].msg \in 0..Len(stream')
    BY <1>1, <2>1
  <2>7. \A e : \A i \in Pipeline!Copies(e) : Waits(i)' <=> Waits(i)
    BY <1>1, <2>1 DEF Waits, Pipeline!Copies
  <2>8. \A e : e # x => Live(e)' = Live(e)
    BY <2>1, <2>7 DEF Live
  <2>9. Live(x)' \subseteq Live(x) \cup {Len(stream) + 1}
    BY <2>1, <2>7 DEF Live
  <2>10. stream' # stream
    BY <1>1, <2>1
  <2> QED
    BY <2>1, <2>3, <2>4, <2>5, <2>6, <2>8, <2>9, <2>10
<1> QED
  BY <1>3, <1>4

\* A row a relay is about to publish is one nobody has published.
LEMMA CurrentSpare ==
  ASSUME FlowInv, NEW r \in Relays, relay[r].pc = "publish"
  PROVE  /\ Pipeline!Current(r) \in Pipeline!Events
         /\ rows[Pipeline!Current(r)] = "pending"
         /\ Spare(Pipeline!Current(r)) = 1
<1> DEFINE x == Pipeline!Current(r)
<1>1. x \in relay[r].todo /\ x \in Pipeline!Events /\ x \in Pipeline!Held(r)
  BY SentHeld DEF FlowInv, Pipeline!Held
<1>2. rows[x] = "pending" /\ \A q \in Relays \ {r} : x \notin Pipeline!Held(q)
  BY <1>1 DEF FlowInv, Locked
<1>3. x \notin Sent(r)
  <2>1. relay[r].todo \cap relay[r].marked = {}
    BY DEF FlowInv, Locked
  <2> QED
    BY <1>1, <2>1 DEF Sent
<1>4. \A q \in Relays \ {r} : x \notin Sent(q)
  BY <1>2, SentHeld DEF FlowInv
<1> QED
  BY <1>1, <1>2, <1>3, <1>4 DEF Spare

\* The part of a relay's step that is the same for all of them.
LEMMA RelayInv ==
  ASSUME FlowInv, UNCHANGED <<worker, ledger>>,
         UNCHANGED stream \/ \E x \in Pipeline!Events : Pipeline!Store(x),
         mishaps' \in 0..PipelineFaults,
         rows' \in [Pipeline!Events -> {"absent", "pending", "published"}],
         relay' \in [Relays -> Pipeline!Relay],
         Locked',
         \A e \in Pipeline!Events :
           /\ rows'[e] = "published" => Pipeline!Copies(e)' # {}
           /\ \A r \in Relays : e \in Sent(r)' => Pipeline!Copies(e)' # {}
           /\ Pipeline!Copies(e)' # {} => rows'[e] # "absent"
           /\ Spare(e)' + Cardinality(Live(e)') <=
                Spare(e) + Cardinality(Live(e)) + (mishaps' - mishaps)
  PROVE  FlowInv'
<1>0. FlowTyped /\ Budget
  BY DEF FlowInv
<1>1. /\ Handled' /\ Recorded' /\ stream' \in Seq(Pipeline!Message)
      /\ \A w \in Workers : worker'[w].msg \in 0..Len(stream')
      /\ \A e : Hands(e)' = Hands(e)
  BY RelayKeeps
<1>2. /\ worker \in [Workers -> Pipeline!Worker] /\ ledger \in [Pipeline!Events -> Nat]
      /\ mishaps \in Nat
  BY <1>0, FlowTypes
<1>3. FlowTyped'
  BY <1>1, <1>2 DEF FlowTyped, Pipeline!TypeOK, Pipeline!StreamTypeOK, Pipeline!RelayTypeOK,
         Pipeline!AuditTypeOK, Pipeline!Message, Pipeline!Relay, Pipeline!Worker, Pipeline!Events
<1>4. Stored'
  BY DEF Stored, Pipeline!Events
<1>5. Budget'
  <2> SUFFICES ASSUME NEW e \in Pipeline!Events
               PROVE  ledger'[e] + Spare(e)' + Cardinality(Live(e)') + Cardinality(Hands(e)')
                        <= 1 + mishaps'
    BY DEF Budget, Pipeline!Events
  <2>1. ledger[e] + Spare(e) + Cardinality(Live(e)) + Cardinality(Hands(e)) <= 1 + mishaps
    BY <1>0 DEF Budget
  <2>2. /\ Cardinality(Live(e)) \in Nat /\ Cardinality(Hands(e)) \in Nat
        /\ ledger[e] \in Nat
    BY <1>0, <1>2, Finite, Sizes
  <2>3. Cardinality(Live(e)') \in Nat
    <3>1. IsFiniteSet(Live(e)')
      <4>1. Live(e)' \subseteq DOMAIN stream'
        BY DEF Live, Pipeline!Copies
      <4>2. DOMAIN stream' = 1..Len(stream') /\ Len(stream') \in Nat
        BY <1>1
      <4>3. IsFiniteSet(1..Len(stream'))
        BY <4>2, FS_Interval
      <4> QED
        BY <4>1, <4>2, <4>3, FS_Subset
    <3> QED
      BY <3>1, FS_CardinalityType
  <2>4. Spare(e) \in Nat /\ Spare(e)' \in Nat
    BY DEF Spare
  <2>5. mishaps' \in Nat
    BY PipelineAssumption
  <2>6. Cardinality(Hands(e)') = Cardinality(Hands(e)) /\ ledger'[e] = ledger[e]
    BY <1>1
  <2> HIDE DEF Spare
  <2> QED
    BY <1>2, <2>1, <2>2, <2>3, <2>4, <2>5, <2>6
<1> QED
  BY <1>1, <1>3, <1>4, <1>5 DEF FlowInv

\* Nothing is stored, and what relays have published stays so.
LEMMA Unstored ==
  ASSUME FlowInv, UNCHANGED <<stream, worker, ledger>>, mishaps' \in 0..PipelineFaults,
         mishaps' >= mishaps,
         rows' \in [Pipeline!Events -> {"absent", "pending", "published"}],
         relay' \in [Relays -> Pipeline!Relay],
         Locked',
         \A e \in Pipeline!Events :
           /\ rows'[e] = "published" => rows[e] = "published" \/ \E r \in Relays : e \in Sent(r)
           /\ rows'[e] = "absent" => rows[e] = "absent"
           /\ \A r \in Relays : e \in Sent(r)' => e \in Sent(r)
           /\ Spare(e)' <= Spare(e) + (mishaps' - mishaps)
  PROVE  FlowInv'
<1>1. \A e : Live(e)' = Live(e) /\ Pipeline!Copies(e)' = Pipeline!Copies(e)
  BY RelayKeeps DEF Pipeline!Copies
<1>2. Stored /\ FlowTyped
  BY DEF FlowInv
<1>3. ASSUME NEW e \in Pipeline!Events
      PROVE  /\ rows'[e] = "published" => Pipeline!Copies(e)' # {}
             /\ \A r \in Relays : e \in Sent(r)' => Pipeline!Copies(e)' # {}
             /\ Pipeline!Copies(e)' # {} => rows'[e] # "absent"
  BY <1>1, <1>2 DEF Stored
<1>4. ASSUME NEW e \in Pipeline!Events
      PROVE  Spare(e)' + Cardinality(Live(e)') <=
               Spare(e) + Cardinality(Live(e)) + (mishaps' - mishaps)
  <2>1. Cardinality(Live(e)') = Cardinality(Live(e)) /\ Cardinality(Live(e)) \in Nat
    BY <1>1, <1>2, Finite, Sizes
  <2>2. Spare(e) \in Nat /\ Spare(e)' \in Nat
    BY DEF Spare
  <2>3. mishaps' \in Nat /\ mishaps \in Nat
    BY <1>2, FlowTypes, PipelineAssumption
  <2> HIDE DEF Spare
  <2> QED
    BY <2>1, <2>2, <2>3
<1> QED
  BY <1>3, <1>4, RelayInv

-----------------------------------------------------------------------------
(* The relays' steps *)

\* The types of what a relay's step leaves alone.
LEMMA WriteInv ==
  ASSUME FlowInv, NEW e \in Pipeline!Events, Pipeline!Write(e), UNCHANGED <<worker, ledger>>
  PROVE  FlowInv'
<1>1. /\ rows[e] = "absent" /\ rows' = [rows EXCEPT ![e] = "pending"]
      /\ UNCHANGED <<relay, stream, mishaps>>
  BY DEF Pipeline!Write
<1>2. /\ rows \in [Pipeline!Events -> {"absent", "pending", "published"}]
      /\ relay \in [Relays -> Pipeline!Relay] /\ mishaps \in 0..PipelineFaults /\ mishaps \in Nat
  BY FlowTypes DEF FlowInv
<1>3. rows' \in [Pipeline!Events -> {"absent", "pending", "published"}] /\ rows'[e] = "pending"
  BY <1>1, <1>2
<1>4. \A d \in Pipeline!Events : d # e => rows'[d] = rows[d]
  BY <1>1, <1>2
<1>5. \A r \in Relays : Pipeline!Held(r)' = Pipeline!Held(r) /\ Sent(r)' = Sent(r)
  BY <1>1 DEF Pipeline!Held, Sent, Pipeline!Current, Pipeline!First
<1>6. \A r \in Relays : \A d \in Pipeline!Held(r) : rows'[d] = "pending"
  <2> SUFFICES ASSUME NEW r \in Relays, NEW d \in Pipeline!Held(r) PROVE rows'[d] = "pending"
    OBVIOUS
  <2>1. rows[d] = "pending"
    BY DEF FlowInv, Locked
  <2> QED
    BY <1>1, <1>2, <2>1
<1>7. Locked'
  BY <1>1, <1>5, <1>6 DEF FlowInv, Locked
<1>8. \A d \in Pipeline!Events : Spare(d)' = Spare(d)
  BY <1>1, <1>3, <1>4, <1>5 DEF Spare
<1>9. \A d \in Pipeline!Events : Spare(d) \in Nat
  BY DEF Spare
<1> QED
  BY <1>1, <1>2, <1>3, <1>4, <1>5, <1>7, <1>8, <1>9, Unstored

\* The oldest claimable row is within the batch.
LEMMA ClaimInv ==
  ASSUME FlowInv, NEW r \in Relays, Pipeline!Claim(r), UNCHANGED <<worker, ledger>>
  PROVE  FlowInv'
<1> DEFINE S == Pipeline!Claimable(r)
           batch == {e \in S : Pipeline!Cardinality({d \in S : d < e}) < BatchSize}
           new == [pc |-> "publish", marked |-> {}, todo |-> batch]
<1>1. /\ relay[r].pc = "idle" /\ S # {} /\ relay' = [relay EXCEPT ![r] = new]
      /\ UNCHANGED <<rows, stream, mishaps>>
  BY DEF Pipeline!Claim
<1>2. /\ rows \in [Pipeline!Events -> {"absent", "pending", "published"}]
      /\ mishaps \in 0..PipelineFaults /\ mishaps \in Nat
  BY FlowTypes DEF FlowInv
<1>3. S \in SUBSET Pipeline!Events
  BY DEF Pipeline!Claimable
<1>4. batch # {}
  <2>1. S \in SUBSET Nat
    BY <1>3, PipelineAssumption DEF Pipeline!Events
  <2>2. PICK e \in S : \A d \in S : e <= d
    BY <1>1, <2>1, NatLeast
  <2>3. {d \in S : d < e} = {}
    BY <2>1, <2>2
  <2>4. Cardinality({}) = 0
    BY FS_EmptySet
  <2>5. Pipeline!Cardinality({}) = Cardinality({})
    BY DEF Pipeline!Cardinality, Cardinality
  <2>6. Pipeline!Cardinality({d \in S : d < e}) < BatchSize
    BY <2>3, <2>4, <2>5, PipelineAssumption
  <2> QED
    BY <2>6
<1>5. new \in Pipeline!Relay /\ new.todo = batch /\ new.marked = {} /\ new.pc = "publish"
  BY <1>3 DEF Pipeline!Relay
<1>6. ASSUME NEW e \in batch
      PROVE  rows[e] = "pending" /\ \A q \in Relays \ {r} : e \notin Pipeline!Held(q)
  BY DEF Pipeline!Claimable
<1> HIDE DEF S, batch, new
<1>7. /\ relay' \in [Relays -> Pipeline!Relay] /\ Locked'
      /\ Sent(r)' = {}
      /\ \A q \in Relays \ {r} : Sent(q)' = Sent(q)
  BY <1>1, <1>4, <1>5, <1>6, RelayMoves
<1>8. Sent(r) = {}
  <2>1. Pipeline!Held(r) = {}
    BY <1>1 DEF FlowInv, Locked
  <2> QED
    BY <1>1, <2>1 DEF Sent, Pipeline!Held
<1>9. \A q \in Relays : Sent(q)' = Sent(q)
  BY <1>7, <1>8
<1>10. \A e \in Pipeline!Events : Spare(e)' = Spare(e) /\ Spare(e) \in Nat
  BY <1>1, <1>9 DEF Spare
<1> QED
  BY <1>1, <1>2, <1>7, <1>9, <1>10, Unstored

\* The row published is no longer to be published; its copy is to be handed out.
LEMMA PublishInv ==
  ASSUME FlowInv, NEW r \in Relays, Pipeline!PublishNext(r), UNCHANGED <<worker, ledger>>
  PROVE  FlowInv'
<1> DEFINE new == [relay[r] EXCEPT !.pc = "mark"]
<1>0. PICK x \in Pipeline!Events : x = Pipeline!Current(r)
  BY CurrentSpare DEF Pipeline!PublishNext
<1>1. /\ relay[r].pc = "publish" /\ Pipeline!Store(x) /\ relay' = [relay EXCEPT ![r] = new]
      /\ UNCHANGED <<rows, mishaps>>
  BY <1>0 DEF Pipeline!PublishNext
<1>2. /\ rows \in [Pipeline!Events -> {"absent", "pending", "published"}]
      /\ mishaps \in 0..PipelineFaults /\ mishaps \in Nat /\ relay[r] \in Pipeline!Relay
  BY FlowTypes DEF FlowInv
<1>3. x \in Pipeline!Events /\ rows[x] = "pending" /\ Spare(x) = 1
  BY <1>0, <1>1, CurrentSpare
<1>4. /\ new \in Pipeline!Relay /\ new.todo = relay[r].todo /\ new.marked = relay[r].marked
      /\ new.pc = "mark"
  BY <1>2 DEF Pipeline!Relay
<1>5. /\ relay[r].todo # {} /\ relay[r].todo \cap relay[r].marked = {}
      /\ \A e \in relay[r].todo \cup relay[r].marked :
           rows[e] = "pending" /\ \A q \in Relays \ {r} : e \notin Pipeline!Held(q)
  BY <1>1 DEF FlowInv, Locked, Pipeline!Held
<1> HIDE DEF new
<1>6. /\ relay' \in [Relays -> Pipeline!Relay] /\ Locked'
      /\ Sent(r)' = relay[r].marked \cup {x}
      /\ \A q \in Relays \ {r} : Sent(q)' = Sent(q)
  <2>1. Pipeline!First(new.todo) = x
    BY <1>0, <1>4 DEF Pipeline!Current
  <2> QED
    BY <1>1, <1>4, <1>5, <2>1, RelayMoves
<1>7. Sent(r) = relay[r].marked
  BY <1>1 DEF Sent
<1>8. /\ \A e : Pipeline!Copies(e)' =
            IF e = x THEN Pipeline!Copies(e) \cup {Len(stream) + 1} ELSE Pipeline!Copies(e)
  BY <1>1, <1>3, Appended DEF FlowInv
<1>9. /\ \A e \in Pipeline!Events : e # x => Live(e)' = Live(e)
      /\ Live(x)' \subseteq Live(x) \cup {Len(stream) + 1}
  BY <1>1, <1>3, RelayKeeps
<1>10. ASSUME NEW e \in Pipeline!Events
       PROVE  /\ rows'[e] = "published" => Pipeline!Copies(e)' # {}
              /\ \A q \in Relays : e \in Sent(q)' => Pipeline!Copies(e)' # {}
              /\ Pipeline!Copies(e)' # {} => rows'[e] # "absent"
  <2>1. CASE e = x
    BY <1>1, <1>3, <1>8, <2>1
  <2>2. CASE e # x
    <3>1. \A q \in Relays : e \in Sent(q)' => e \in Sent(q)
      BY <1>6, <1>7, <2>2
    <3> QED
      BY <1>1, <1>8, <2>2, <3>1 DEF FlowInv, Stored
  <2> QED
    BY <2>1, <2>2
<1>11. ASSUME NEW e \in Pipeline!Events
       PROVE  Spare(e)' + Cardinality(Live(e)') <=
                Spare(e) + Cardinality(Live(e)) + (mishaps' - mishaps)
  <2>1. IsFiniteSet(Live(e))
    BY Finite DEF FlowInv
  <2>2. Cardinality(Live(e)) \in Nat
    BY <2>1, Sizes
  <2>3. CASE e = x
    <3>1. Spare(x)' = 0
      BY <1>6 DEF Spare
    <3>2. Cardinality(Live(e)') \in Nat /\ Cardinality(Live(e)') <= Cardinality(Live(e)) + 1
      <4>1. Live(e)' \subseteq Live(e) \cup {Len(stream) + 1}
        BY <1>9, <2>3
      <4> QED
        BY <2>1, <4>1, Sizes
    <3> QED
      BY <1>1, <1>2, <1>3, <2>2, <2>3, <3>1, <3>2
  <2>4. CASE e # x
    <3>1. Spare(e)' = Spare(e) /\ Spare(e) \in Nat
      <4>1. \A q \in Relays : e \in Sent(q)' <=> e \in Sent(q)
        BY <1>6, <1>7, <2>4
      <4> QED
        BY <1>1, <4>1 DEF Spare
    <3>2. Live(e)' = Live(e)
      BY <1>9, <2>4
    <3> QED
      BY <1>1, <1>2, <2>2, <3>1, <3>2
  <2> QED
    BY <2>3, <2>4
<1>12. UNCHANGED stream \/ \E y \in Pipeline!Events : Pipeline!Store(y)
  BY <1>1, <1>3
<1>13. rows' \in [Pipeline!Events -> {"absent", "pending", "published"}]
  BY <1>1, <1>2
<1>14. mishaps' \in 0..PipelineFaults
  BY <1>1, <1>2
<1> QED
  BY <1>6, <1>10, <1>11, <1>12, <1>13, <1>14, RelayInv

\* A relay that lost its transaction has nothing any more.
LEMMA IdleAgain ==
  ASSUME FlowInv, NEW r \in Relays, relay' = [relay EXCEPT ![r] = Pipeline!IdleRelay],
         \A q \in Relays \ {r} : \A e \in Pipeline!Held(q) : rows'[e] = rows[e]
  PROVE  /\ relay' \in [Relays -> Pipeline!Relay] /\ Locked'
         /\ Sent(r)' = {}
         /\ \A q \in Relays \ {r} : Sent(q)' = Sent(q)
<1> DEFINE new == Pipeline!IdleRelay
<1>1. new \in Pipeline!Relay /\ new.pc = "idle" /\ new.todo = {} /\ new.marked = {}
  BY DEF Pipeline!IdleRelay, Pipeline!Relay
<1> HIDE DEF new
<1>2. relay' = [relay EXCEPT ![r] = new]
  BY DEF new
<1> QED
  BY <1>1, <1>2, RelayMoves

\* A fault is one more.
LEMMA OneMore ==
  ASSUME FlowInv, Pipeline!Fault
  PROVE  mishaps \in Nat /\ mishaps' = mishaps + 1 /\ mishaps' \in 0..PipelineFaults
<1>1. mishaps \in Nat /\ mishaps < PipelineFaults /\ mishaps' = mishaps + 1
  BY FlowTypes DEF FlowInv, Pipeline!Fault
<1> QED
  BY <1>1, PipelineAssumption

\* The batch rolls back: its rows will be published again.
LEMMA AbortInv ==
  ASSUME FlowInv, NEW r \in Relays, Pipeline!Fault, UNCHANGED <<rows, stream>>,
         relay' = [relay EXCEPT ![r] = Pipeline!IdleRelay], UNCHANGED <<worker, ledger>>
  PROVE  FlowInv'
<1>1. /\ relay' \in [Relays -> Pipeline!Relay] /\ Locked'
      /\ Sent(r)' = {}
      /\ \A q \in Relays \ {r} : Sent(q)' = Sent(q)
  BY IdleAgain
<1>2. mishaps \in Nat /\ mishaps' = mishaps + 1 /\ mishaps' \in 0..PipelineFaults
  BY OneMore
<1>3. rows \in [Pipeline!Events -> {"absent", "pending", "published"}]
  BY FlowTypes DEF FlowInv
<1>4. \A e \in Pipeline!Events : \A q \in Relays : e \in Sent(q)' => e \in Sent(q)
  BY <1>1
<1>5. \A e \in Pipeline!Events : Spare(e)' <= Spare(e) + 1
  <2>1. \A e : Spare(e) \in {0, 1} /\ Spare(e)' \in {0, 1}
    BY DEF Spare
  <2> QED
    BY <2>1
<1> QED
  BY <1>1, <1>2, <1>3, <1>4, <1>5, Unstored

\* The answer to a publish is lost: the row will be published again, its copy
\* may be there, and the fault has paid for one of the two.
LEMMA PublishFailsInv ==
  ASSUME FlowInv, NEW r \in Relays, Pipeline!PublishFails(r), UNCHANGED <<worker, ledger>>
  PROVE  FlowInv'
<1>0. PICK x \in Pipeline!Events : x = Pipeline!Current(r)
  BY CurrentSpare DEF Pipeline!PublishFails
<1>1. /\ relay[r].pc = "publish" /\ Pipeline!Fault
      /\ Pipeline!Store(x) \/ UNCHANGED stream
      /\ relay' = [relay EXCEPT ![r] = Pipeline!IdleRelay]
      /\ UNCHANGED rows
  BY <1>0 DEF Pipeline!PublishFails
<1>2. CASE UNCHANGED stream
  BY <1>1, <1>2, AbortInv
<1>3. CASE Pipeline!Store(x)
  <2>1. x \in Pipeline!Events /\ rows[x] = "pending" /\ Spare(x) = 1
    BY <1>0, <1>1, CurrentSpare
  <2>2. /\ relay' \in [Relays -> Pipeline!Relay] /\ Locked'
        /\ \A q \in Relays : \A e : e \in Sent(q)' => e \in Sent(q)
    BY <1>1, IdleAgain
  <2>3. mishaps \in Nat /\ mishaps' = mishaps + 1 /\ mishaps' \in 0..PipelineFaults
    BY <1>1, OneMore
  <2>4. \A e : Pipeline!Copies(e)' =
            IF e = x THEN Pipeline!Copies(e) \cup {Len(stream) + 1} ELSE Pipeline!Copies(e)
    BY <1>3, <2>1, Appended DEF FlowInv
  <2>5. /\ \A e \in Pipeline!Events : e # x => Live(e)' = Live(e)
        /\ Live(x)' \subseteq Live(x) \cup {Len(stream) + 1}
    BY <1>3, <2>1, RelayKeeps
  <2>6. ASSUME NEW e \in Pipeline!Events
        PROVE  /\ rows'[e] = "published" => Pipeline!Copies(e)' # {}
               /\ \A q \in Relays : e \in Sent(q)' => Pipeline!Copies(e)' # {}
               /\ Pipeline!Copies(e)' # {} => rows'[e] # "absent"
    <3>1. CASE e = x
      BY <1>1, <2>1, <2>4, <3>1
    <3>2. CASE e # x
      BY <1>1, <2>2, <2>4, <3>2 DEF FlowInv, Stored
    <3> QED
      BY <3>1, <3>2
  <2>7. ASSUME NEW e \in Pipeline!Events
        PROVE  Spare(e)' + Cardinality(Live(e)') <=
                 Spare(e) + Cardinality(Live(e)) + (mishaps' - mishaps)
    <3>1. IsFiniteSet(Live(e))
      BY Finite DEF FlowInv
    <3>2. Cardinality(Live(e)) \in Nat
      BY <3>1, Sizes
    <3>3. Spare(e) \in {0, 1} /\ Spare(e)' \in {0, 1}
      BY DEF Spare
    <3>4. CASE e = x
      <4>0. Live(e)' \subseteq Live(e) \cup {Len(stream) + 1}
        BY <2>5, <3>4
      <4>1. Cardinality(Live(e)') \in Nat /\ Cardinality(Live(e)') <= Cardinality(Live(e)) + 1
        BY <3>1, <4>0, Sizes
      <4> QED
        BY <2>1, <2>3, <3>2, <3>3, <3>4, <4>1
    <3>5. CASE e # x
      <4>1. Live(e)' = Live(e)
        BY <2>5, <3>5
      <4> QED
        BY <2>3, <3>2, <3>3, <4>1
    <3> QED
      BY <3>4, <3>5
  <2>8. rows' \in [Pipeline!Events -> {"absent", "pending", "published"}]
    BY <1>1, FlowTypes DEF FlowInv
  <2>9. \E y \in Pipeline!Events : Pipeline!Store(y)
    BY <1>3, <2>1
  <2> QED
    BY <2>2, <2>3, <2>6, <2>7, <2>8, <2>9, RelayInv
<1> QED
  BY <1>1, <1>2, <1>3

\* The row is marked in the relay's transaction.
LEMMA MarkInv ==
  ASSUME FlowInv, NEW r \in Relays, Pipeline!MarkPublished(r), UNCHANGED <<worker, ledger>>
  PROVE  FlowInv'
<1> DEFINE x == Pipeline!Current(r)
           new == [pc |-> IF relay[r].todo = {x} THEN "commit" ELSE "publish",
                   todo |-> relay[r].todo \ {x},
                   marked |-> relay[r].marked \cup {x}]
<1>1. /\ relay[r].pc = "mark" /\ relay' = [relay EXCEPT ![r] = new]
      /\ UNCHANGED <<rows, stream, mishaps>>
  BY DEF Pipeline!MarkPublished
<1>2. /\ rows \in [Pipeline!Events -> {"absent", "pending", "published"}]
      /\ mishaps \in 0..PipelineFaults /\ mishaps \in Nat
  BY FlowTypes DEF FlowInv
<1>3. /\ x \in relay[r].todo /\ relay[r].todo \subseteq Pipeline!Events
      /\ relay[r].marked \subseteq Pipeline!Events
  BY <1>1, SentHeld DEF FlowInv
<1>4. /\ relay[r].todo \cap relay[r].marked = {}
      /\ \A e \in relay[r].todo \cup relay[r].marked :
           rows[e] = "pending" /\ \A q \in Relays \ {r} : e \notin Pipeline!Held(q)
  BY DEF FlowInv, Locked, Pipeline!Held
<1>5. Sent(r) = relay[r].marked \cup {x}
  BY <1>1 DEF Sent
<1> HIDE DEF x
<1>6. /\ new \in Pipeline!Relay /\ new.pc \in {"commit", "publish"}
      /\ new.pc = "publish" => new.todo # {}
      /\ new.todo = relay[r].todo \ {x} /\ new.marked = relay[r].marked \cup {x}
  BY <1>3 DEF Pipeline!Relay
<1> HIDE DEF new
<1>7. new.todo \cap new.marked = {} /\ new.todo \cup new.marked = relay[r].todo \cup relay[r].marked
  BY <1>3, <1>4, <1>6
<1>8. /\ relay' \in [Relays -> Pipeline!Relay] /\ Locked'
      /\ Sent(r)' = relay[r].marked \cup {x}
      /\ \A q \in Relays \ {r} : Sent(q)' = Sent(q)
  BY <1>1, <1>4, <1>6, <1>7, RelayMoves
<1>9. \A q \in Relays : Sent(q)' = Sent(q)
  BY <1>5, <1>8
<1>10. \A e \in Pipeline!Events : Spare(e)' = Spare(e) /\ Spare(e) \in Nat
  BY <1>1, <1>9 DEF Spare
<1> QED
  BY <1>1, <1>2, <1>8, <1>9, <1>10, Unstored

\* The marks become the rows' state.
LEMMA CommitInv ==
  ASSUME FlowInv, NEW r \in Relays, Pipeline!CommitBatch(r), UNCHANGED <<worker, ledger>>
  PROVE  FlowInv'
<1>1. /\ relay[r].pc = "commit"
      /\ rows' = [e \in Pipeline!Events |-> IF e \in relay[r].marked THEN "published" ELSE rows[e]]
      /\ relay' = [relay EXCEPT ![r] = Pipeline!IdleRelay]
      /\ UNCHANGED <<stream, mishaps>>
  BY DEF Pipeline!CommitBatch
<1>2. /\ rows \in [Pipeline!Events -> {"absent", "pending", "published"}]
      /\ mishaps \in 0..PipelineFaults /\ mishaps \in Nat
  BY FlowTypes DEF FlowInv
<1>3. rows' \in [Pipeline!Events -> {"absent", "pending", "published"}]
  BY <1>1, <1>2
<1>4. Sent(r) = relay[r].marked
  BY <1>1 DEF Sent
<1>5. ASSUME NEW q \in Relays \ {r}, NEW e \in Pipeline!Held(q) PROVE rows'[e] = rows[e]
  <2>1. e \notin Pipeline!Held(r) /\ e \in Pipeline!Events
    BY SentHeld DEF FlowInv, Locked, Pipeline!Held
  <2> QED
    BY <1>1, <2>1 DEF Pipeline!Held
<1>6. /\ relay' \in [Relays -> Pipeline!Relay] /\ Locked'
      /\ Sent(r)' = {}
      /\ \A q \in Relays \ {r} : Sent(q)' = Sent(q)
  BY <1>1, <1>5, IdleAgain
<1>7. ASSUME NEW e \in Pipeline!Events
      PROVE  /\ rows'[e] = "published" => rows[e] = "published" \/ \E q \in Relays : e \in Sent(q)
             /\ rows'[e] = "absent" => rows[e] = "absent"
             /\ \A q \in Relays : e \in Sent(q)' => e \in Sent(q)
             /\ Spare(e)' = Spare(e) /\ Spare(e) \in Nat
  <2>1. CASE e \in relay[r].marked
    BY <1>1, <1>4, <1>6, <2>1 DEF Spare
  <2>2. CASE e \notin relay[r].marked
    <3>1. rows'[e] = rows[e] /\ \A q \in Relays : e \in Sent(q)' <=> e \in Sent(q)
      BY <1>1, <1>4, <1>6, <2>2
    <3> QED
      BY <3>1 DEF Spare
  <2> QED
    BY <2>1, <2>2
<1> QED
  BY <1>1, <1>2, <1>3, <1>6, <1>7, Unstored

-----------------------------------------------------------------------------
(* The workers' steps *)

\* The relays' share of the invariant is left alone.
LEMMA WorkerKeeps ==
  ASSUME FlowInv, UNCHANGED <<rows, relay>>,
         \A e : Pipeline!Copies(e)' = Pipeline!Copies(e)
  PROVE  Locked' /\ Stored' /\ \A e : Spare(e)' = Spare(e)
<1>1. \A r \in Relays : Pipeline!Held(r)' = Pipeline!Held(r) /\ Sent(r)' = Sent(r)
  BY DEF Pipeline!Held, Sent, Pipeline!Current, Pipeline!First
<1>2. Locked'
  BY <1>1 DEF FlowInv, Locked
<1>3. Stored'
  BY <1>1 DEF FlowInv, Stored, Pipeline!Events
<1>4. \A e : Spare(e)' = Spare(e)
  BY <1>1 DEF Spare
<1> QED
  BY <1>2, <1>3, <1>4

\* Entries, spare rows, copies and workers before and after a step that costs
\* as many faults as it adds.
LEMMA Balance ==
  ASSUME NEW b \in Nat, NEW s \in Nat, NEW c \in Nat, NEW d \in Nat, NEW n \in Nat,
         NEW b1 \in Nat, NEW c1 \in Nat, NEW d1 \in Nat, NEW n1 \in Nat,
         b + s + c + d <= 1 + n, b1 + c1 + d1 <= b + c + d + (n1 - n)
  PROVE  b1 + s + c1 + d1 <= 1 + n1
  OBVIOUS

\* The part of a worker's or of the consumer's step that is the same for all.
LEMMA WorkerInv ==
  ASSUME FlowInv, UNCHANGED <<rows, relay>>,
         \A e : Pipeline!Copies(e)' = Pipeline!Copies(e),
         stream' \in Seq(Pipeline!Message), Len(stream') = Len(stream),
         mishaps' \in 0..PipelineFaults,
         worker' \in [Workers -> Pipeline!Worker],
         \A w \in Workers : worker'[w].msg \in 0..Len(stream),
         ledger' \in [Pipeline!Events -> Nat],
         Handled', Recorded',
         \A e \in Pipeline!Events :
           ledger'[e] + Cardinality(Live(e)') + Cardinality(Hands(e)') <=
             ledger[e] + Cardinality(Live(e)) + Cardinality(Hands(e)) + (mishaps' - mishaps)
  PROVE  FlowInv'
<1>1. Locked' /\ Stored' /\ \A e : Spare(e)' = Spare(e)
  BY WorkerKeeps
<1>2. /\ rows \in [Pipeline!Events -> {"absent", "pending", "published"}]
      /\ relay \in [Relays -> Pipeline!Relay] /\ Len(stream) \in Nat /\ mishaps \in Nat
      /\ ledger \in [Pipeline!Events -> Nat]
  BY FlowTypes DEF FlowInv
<1>3. FlowTyped'
  BY <1>2 DEF FlowTyped, Pipeline!TypeOK, Pipeline!StreamTypeOK, Pipeline!RelayTypeOK,
         Pipeline!AuditTypeOK, Pipeline!Message, Pipeline!Relay, Pipeline!Worker, Pipeline!Events
<1>4. Budget'
  <2> SUFFICES ASSUME NEW e \in Pipeline!Events
               PROVE  ledger'[e] + Spare(e)' + Cardinality(Live(e)') + Cardinality(Hands(e)')
                        <= 1 + mishaps'
    BY DEF Budget, Pipeline!Events
  <2>1. ledger[e] + Spare(e) + Cardinality(Live(e)) + Cardinality(Hands(e)) <= 1 + mishaps
    BY DEF FlowInv, Budget
  <2>2. Cardinality(Live(e)) \in Nat /\ Cardinality(Hands(e)) \in Nat
    BY Finite, Sizes DEF FlowInv
  <2>3. Cardinality(Live(e)') \in Nat /\ Cardinality(Hands(e)') \in Nat
    <3>1. Live(e)' \subseteq 1..Len(stream)
      BY DEF Live, Pipeline!Copies
    <3>2. Hands(e)' \subseteq Workers
      BY DEF Hands
    <3>3. IsFiniteSet(1..Len(stream)) /\ IsFiniteSet(Workers)
      BY <1>2, FS_Interval, PipelineAssumption
    <3> QED
      BY <3>1, <3>2, <3>3, Sizes
  <2>4. Spare(e) \in Nat /\ Spare(e)' = Spare(e)
    BY <1>1 DEF Spare
  <2>5. mishaps' \in Nat /\ ledger[e] \in Nat /\ ledger'[e] \in Nat
    BY <1>2, PipelineAssumption
  <2>6. PICK b \in Nat, s \in Nat, c \in Nat, d \in Nat, n \in Nat,
             b1 \in Nat, c1 \in Nat, d1 \in Nat, n1 \in Nat :
          /\ b = ledger[e] /\ s = Spare(e) /\ n = mishaps
          /\ c = Cardinality(Live(e)) /\ d = Cardinality(Hands(e))
          /\ b1 = ledger'[e] /\ n1 = mishaps'
          /\ c1 = Cardinality(Live(e)') /\ d1 = Cardinality(Hands(e)')
    BY <1>2, <2>2, <2>3, <2>4, <2>5
  <2>7. b + s + c + d <= 1 + n /\ b1 + c1 + d1 <= b + c + d + (n1 - n)
    BY <2>1, <2>6
  <2>8. b1 + s + c1 + d1 <= 1 + n1
    BY ONLY <2>7, b \in Nat, s \in Nat, c \in Nat, d \in Nat, n \in Nat,
            b1 \in Nat, c1 \in Nat, d1 \in Nat, n1 \in Nat, Balance
  <2> QED
    BY <2>4, <2>6, <2>8
<1> QED
  BY <1>1, <1>3, <1>4 DEF FlowInv

\* The types that a worker's step uses, and where its message is.
LEMMA WorkerTypes ==
  ASSUME FlowInv
  PROVE  /\ FlowTyped /\ Handled /\ Recorded
         /\ stream \in Seq(Pipeline!Message) /\ Len(stream) \in Nat
         /\ DOMAIN stream = 1..Len(stream)
         /\ worker \in [Workers -> Pipeline!Worker]
         /\ ledger \in [Pipeline!Events -> Nat]
         /\ mishaps \in Nat /\ mishaps \in 0..PipelineFaults
         /\ \A w \in Workers : /\ worker[w].msg \in 0..Len(stream)
                               /\ worker[w].pc # "idle" => worker[w].msg \in DOMAIN stream
                               /\ worker[w].pc = "idle" => worker[w].msg = 0
         /\ \A i \in DOMAIN stream : i # 0 /\ stream[i].state \in {"queued", "out", "settled"}
         /\ \A e : /\ IsFiniteSet(Live(e)) /\ IsFiniteSet(Hands(e))
                   /\ Cardinality(Live(e)) \in Nat /\ Cardinality(Hands(e)) \in Nat
<1>1. FlowTyped /\ Handled /\ Recorded
  BY DEF FlowInv
<1>2. /\ stream \in Seq(Pipeline!Message) /\ Len(stream) \in Nat
      /\ DOMAIN stream = 1..Len(stream)
      /\ worker \in [Workers -> Pipeline!Worker]
      /\ ledger \in [Pipeline!Events -> Nat]
      /\ mishaps \in Nat /\ mishaps \in 0..PipelineFaults
      /\ \A w \in Workers : worker[w].msg \in 0..Len(stream)
  BY <1>1, FlowTypes
<1>3. \A w \in Workers : /\ worker[w].pc # "idle" => worker[w].msg \in DOMAIN stream
                         /\ worker[w].pc = "idle" => worker[w].msg = 0
  BY <1>1, <1>2 DEF Handled
<1>4. \A i \in DOMAIN stream : i # 0 /\ stream[i].state \in {"queued", "out", "settled"}
  <2>1. \A i \in DOMAIN stream : stream[i] \in Pipeline!Message
    BY <1>2
  <2> QED
    BY <1>2, <2>1 DEF Pipeline!Message
<1>5. \A e : IsFiniteSet(Live(e)) /\ IsFiniteSet(Hands(e))
  BY <1>1, Finite
<1>6. \A e : Cardinality(Live(e)) \in Nat /\ Cardinality(Hands(e)) \in Nat
  BY <1>5, Sizes
<1> QED
  BY <1>1, <1>2, <1>3, <1>4, <1>5, <1>6

\* Worker w goes on to new, and the other workers hold what they held.
LEMMA WorkerMoves ==
  ASSUME FlowInv, NEW w \in Workers, NEW new \in Pipeline!Worker,
         worker' = [worker EXCEPT ![w] = new], new.msg \in 0..Len(stream),
         new.pc = "idle" <=> new.msg = 0,
         \A e : Pipeline!Copies(e)' = Pipeline!Copies(e),
         DOMAIN stream' = DOMAIN stream,
         \A j \in DOMAIN stream : stream'[j].msg = stream[j].msg,
         \A e \in Pipeline!Events : ledger'[e] \in Nat /\ ledger'[e] >= ledger[e],
         new.pc \in {"ack", "nak"} => stream[new.msg].msg \in Pipeline!Events,
         new.pc = "ack" => ledger'[stream[new.msg].msg] > 0
  PROVE  /\ worker' \in [Workers -> Pipeline!Worker] /\ worker'[w] = new
         /\ \A v \in Workers : worker'[v].msg \in 0..Len(stream)
         /\ \A v \in Workers \ {w} : worker'[v] = worker[v]
         /\ Handled'
         /\ \A e : Hands(e)' \ {w} = Hands(e) \ {w}
         /\ \A e : w \in Hands(e)' <=> new.pc \in {"record", "nak"} /\ stream[new.msg].msg = e
<1>1. /\ worker \in [Workers -> Pipeline!Worker] /\ Handled /\ Len(stream) \in Nat
      /\ DOMAIN stream = 1..Len(stream)
      /\ ledger \in [Pipeline!Events -> Nat]
      /\ \A v \in Workers : /\ worker[v].msg \in 0..Len(stream)
                            /\ worker[v].pc # "idle" => worker[v].msg \in DOMAIN stream
  BY WorkerTypes
<1>2. /\ worker' \in [Workers -> Pipeline!Worker] /\ worker'[w] = new
      /\ \A v \in Workers \ {w} : worker'[v] = worker[v]
  BY <1>1
<1>3. \A v \in Workers : worker'[v].msg \in 0..Len(stream)
  BY <1>1, <1>2
<1>4. \A v \in Workers \ {w} : worker[v].pc # "idle" => Pipeline!EventAt(v)' = Pipeline!EventAt(v)
  BY <1>1, <1>2 DEF Pipeline!EventAt
<1>5. new.pc # "idle" => Pipeline!EventAt(w)' = stream[new.msg].msg
  <2>1. new.pc # "idle" => new.msg \in DOMAIN stream
    BY <1>1
  <2> QED
    BY <1>2, <2>1 DEF Pipeline!EventAt
<1>6. ASSUME NEW v \in Workers
      PROVE  /\ worker'[v].pc = "idle" <=> worker'[v].msg = 0
             /\ worker'[v].pc \in {"ack", "nak"} => Pipeline!EventAt(v)' \in Pipeline!Events
             /\ worker'[v].pc = "ack" => ledger'[Pipeline!EventAt(v)'] > 0
  <2>1. CASE v = w
    BY <1>2, <1>5, <2>1
  <2>2. CASE v # w
    <3>1. /\ worker[v].pc = "idle" <=> worker[v].msg = 0
          /\ worker[v].pc \in {"ack", "nak"} => Pipeline!EventAt(v) \in Pipeline!Events
          /\ worker[v].pc = "ack" => ledger[Pipeline!EventAt(v)] > 0
      BY <1>1 DEF Handled
    <3>2. worker'[v] = worker[v] /\ worker[v].pc # "idle" => Pipeline!EventAt(v)' = Pipeline!EventAt(v)
      BY <1>2, <1>4, <2>2
    <3>3. ASSUME worker[v].pc = "ack" PROVE ledger'[Pipeline!EventAt(v)] > 0
      <4>1. Pipeline!EventAt(v) \in Pipeline!Events /\ ledger[Pipeline!EventAt(v)] > 0
        BY <3>1, <3>3
      <4>2. ledger[Pipeline!EventAt(v)] \in Nat
        BY <1>1, <4>1
      <4> QED
        BY <4>1, <4>2
    <3>4. worker'[v] = worker[v]
      BY <1>2, <2>2
    <3> QED
      BY <3>1, <3>2, <3>3, <3>4
  <2> QED
    BY <2>1, <2>2
<1>7. Handled'
  BY <1>6 DEF Handled, Pipeline!Events
<1>8. \A e : \A v \in Workers \ {w} : v \in Hands(e)' <=> v \in Hands(e)
  BY <1>2, <1>4 DEF Hands
<1>9. \A e : w \in Hands(e)' <=> new.pc \in {"record", "nak"} /\ stream[new.msg].msg = e
  BY <1>2, <1>5 DEF Hands
<1>10. \A e : Hands(e)' \subseteq Workers /\ Hands(e) \subseteq Workers
  BY DEF Hands
<1>11. \A e : Hands(e)' \ {w} = Hands(e) \ {w}
  BY <1>8, <1>10
<1> QED
  BY <1>2, <1>3, <1>7, <1>9, <1>11

\* A message whose state becomes s, or no message's state at all, changes.
LEMMA RecordedKept ==
  ASSUME FlowInv, DOMAIN stream' = DOMAIN stream,
         \A j \in DOMAIN stream : stream'[j].msg = stream[j].msg,
         \A e \in Pipeline!Events : ledger'[e] \in Nat /\ ledger'[e] >= ledger[e],
         \A j \in DOMAIN stream : stream'[j].state = "settled" /\ stream[j].msg \in Pipeline!Events =>
           stream[j].state = "settled" \/ ledger'[stream[j].msg] > 0
  PROVE  Recorded'
<1> SUFFICES ASSUME NEW i \in DOMAIN stream, stream'[i].state = "settled",
                    stream[i].msg \in Pipeline!Events
             PROVE  ledger'[stream[i].msg] > 0
  BY DEF Recorded, Pipeline!Events
<1>1. stream[i].state = "settled" => ledger[stream[i].msg] > 0
  BY DEF FlowInv, Recorded
<1>2. ledger[stream[i].msg] \in Nat
  BY WorkerTypes
<1> QED
  BY <1>1, <1>2

\* Only message i changes, and only in the hands of workers that let go of it
\* or take it: every other copy waits as it did.
LEMMA LiveMoves ==
  ASSUME FlowInv, NEW i \in DOMAIN stream, DOMAIN stream' = DOMAIN stream,
         \A e : Pipeline!Copies(e)' = Pipeline!Copies(e),
         \A j \in DOMAIN stream \ {i} : stream'[j] = stream[j],
         \A v \in Workers : \/ worker'[v].msg = worker[v].msg
                            \/ worker[v].msg \in {0, i} /\ worker'[v].msg \in {0, i}
  PROVE  \A e : /\ Live(e)' \ {i} = Live(e) \ {i}
                /\ stream[i].msg # e => Live(e)' = Live(e)
<1>1. \A j \in DOMAIN stream : j # 0
  BY WorkerTypes
<1>2. ASSUME NEW j \in DOMAIN stream \ {i} PROVE Waits(j)' <=> Waits(j)
  <2>1. stream'[j] = stream[j] /\ j # i /\ j # 0
    BY <1>1, <1>2
  <2>2. \A v \in Workers : worker'[v].msg = j <=> worker[v].msg = j
    BY <2>1
  <2> QED
    BY <2>1, <2>2 DEF Waits
<1>3. ASSUME NEW e PROVE Live(e)' \ {i} = Live(e) \ {i}
  <2>1. Pipeline!Copies(e)' = Pipeline!Copies(e) /\ Pipeline!Copies(e) \subseteq DOMAIN stream
    BY DEF Pipeline!Copies
  <2> QED
    BY <1>2, <2>1 DEF Live
<1>4. ASSUME NEW e, stream[i].msg # e PROVE Live(e)' = Live(e)
  <2>1. i \notin Pipeline!Copies(e) /\ Pipeline!Copies(e)' = Pipeline!Copies(e)
    BY <1>4 DEF Pipeline!Copies
  <2>2. i \notin Live(e) /\ i \notin Live(e)'
    BY <2>1 DEF Live
  <2> QED
    BY <1>3, <2>2
<1> QED
  BY <1>3, <1>4

\* Whether a message or a worker is among those that count.
In(x, S) == IF x \in S THEN 1 ELSE 0

\* Sets that differ in one element only.
LEMMA Swapped ==
  ASSUME NEW S, IsFiniteSet(S), NEW T, NEW x, T \ {x} = S \ {x}
  PROVE  /\ Cardinality(S) \in Nat /\ Cardinality(T) \in Nat
         /\ Cardinality(T) <= Cardinality(S) - In(x, S) + In(x, T)
<1>1. Cardinality(S) \in Nat
  BY Sizes
<1>2. CASE x \in S /\ x \notin T
  <2>1. T \subseteq S \ {x}
    BY <1>2
  <2> QED
    BY <1>1, <1>2, <2>1, Sizes DEF In
<1>3. CASE x \notin S /\ x \in T
  <2>1. T \subseteq S \cup {x}
    OBVIOUS
  <2>2. Cardinality(T) \in Nat /\ Cardinality(T) <= Cardinality(S) + 1
    BY <2>1, Sizes
  <2>3. In(x, S) = 0 /\ In(x, T) = 1
    BY <1>3 DEF In
  <2> QED
    BY <1>1, <2>2, <2>3
<1>4. CASE x \in S <=> x \in T
  <2>1. T = S
    BY <1>4
  <2> QED
    BY <1>1, <2>1 DEF In
<1> QED
  BY <1>2, <1>3, <1>4

\* A callback's step: worker w goes on to new with message i, whose state
\* becomes s.  What it adds for the event of i must cost a fault.
LEMMA CallbackInv ==
  ASSUME FlowInv, UNCHANGED <<rows, relay>>,
         NEW w \in Workers, NEW i \in DOMAIN stream, NEW x, stream[i].msg = x,
         NEW new \in Pipeline!Worker, worker' = [worker EXCEPT ![w] = new],
         worker[w].msg \in {0, i}, new.msg \in {0, i}, new.pc = "idle" <=> new.msg = 0,
         NEW s \in {"queued", "out", "settled"}, stream' = [stream EXCEPT ![i].state = s],
         ledger' \in [Pipeline!Events -> Nat], mishaps' \in 0..PipelineFaults, mishaps <= mishaps',
         \A e \in Pipeline!Events \ {x} : ledger'[e] = ledger[e],
         x \in Pipeline!Events => ledger'[x] >= ledger[x],
         new.pc \in {"ack", "nak"} => x \in Pipeline!Events,
         new.pc = "ack" => ledger'[x] > 0,
         s = "settled" /\ x \in Pipeline!Events => stream[i].state = "settled" \/ ledger'[x] > 0,
         x \in Pipeline!Events =>
           ledger'[x] + In(i, Live(x)') + In(w, Hands(x)') <=
             ledger[x] + In(i, Live(x)) + In(w, Hands(x)) + (mishaps' - mishaps)
  PROVE  FlowInv'
<1>1. /\ DOMAIN stream = 1..Len(stream) /\ Len(stream) \in Nat
      /\ worker \in [Workers -> Pipeline!Worker] /\ ledger \in [Pipeline!Events -> Nat]
      /\ mishaps \in Nat /\ i # 0 /\ FlowTyped
      /\ \A v \in Workers : worker[v].pc = "idle" => worker[v].msg = 0
      /\ \A e : IsFiniteSet(Live(e)) /\ IsFiniteSet(Hands(e))
  BY WorkerTypes
<1>2. /\ stream' \in Seq(Pipeline!Message) /\ Len(stream') = Len(stream)
      /\ DOMAIN stream' = DOMAIN stream /\ stream'[i].state = s
      /\ \A j \in DOMAIN stream : /\ stream'[j].msg = stream[j].msg
                                  /\ j # i => stream'[j] = stream[j]
      /\ \A e : Pipeline!Copies(e)' = Pipeline!Copies(e)
  BY <1>1, Updated
<1>3. ASSUME NEW e \in Pipeline!Events PROVE ledger'[e] \in Nat /\ ledger'[e] >= ledger[e]
  BY <1>1
<1>4. new.msg \in 0..Len(stream) /\ (new.msg # 0 => new.msg = i)
  BY <1>1
<1>5. /\ worker' \in [Workers -> Pipeline!Worker] /\ worker'[w] = new
      /\ \A v \in Workers : worker'[v].msg \in 0..Len(stream)
      /\ \A v \in Workers \ {w} : worker'[v] = worker[v]
      /\ Handled'
      /\ \A e : Hands(e)' \ {w} = Hands(e) \ {w}
      /\ \A e : w \in Hands(e)' <=> new.pc \in {"record", "nak"} /\ stream[new.msg].msg = e
  <2>1. new.pc \in {"ack", "nak"} => stream[new.msg].msg = x
    BY <1>4
  <2>2. /\ new.pc \in {"ack", "nak"} => stream[new.msg].msg \in Pipeline!Events
        /\ new.pc = "ack" => ledger'[stream[new.msg].msg] > 0
    BY <2>1
  <2> QED
    BY <1>2, <1>3, <1>4, <2>2, WorkerMoves
<1>6. Recorded'
  <2>1. ASSUME NEW j \in DOMAIN stream, stream'[j].state = "settled", stream[j].msg \in Pipeline!Events
        PROVE  stream[j].state = "settled" \/ ledger'[stream[j].msg] > 0
    <3>1. CASE j = i
      BY <1>2, <2>1, <3>1
    <3>2. CASE j # i
      BY <1>2, <2>1, <3>2
    <3> QED
      BY <3>1, <3>2
  <2>2. \A j \in DOMAIN stream : stream'[j].state = "settled" /\ stream[j].msg \in Pipeline!Events =>
           stream[j].state = "settled" \/ ledger'[stream[j].msg] > 0
    BY <2>1
  <2> QED
    BY <1>2, <1>3, <2>2, RecordedKept
<1>7. \A e : Live(e)' \ {i} = Live(e) \ {i} /\ (x # e => Live(e)' = Live(e))
  <2>1. \A v \in Workers : \/ worker'[v].msg = worker[v].msg
                           \/ worker[v].msg \in {0, i} /\ worker'[v].msg \in {0, i}
    BY <1>5
  <2>2. \A j \in DOMAIN stream \ {i} : stream'[j] = stream[j]
    BY <1>2
  <2> QED
    BY <1>2, <2>1, <2>2, LiveMoves
<1>8. ASSUME NEW e, e # x PROVE Hands(e)' = Hands(e)
  <2>1. w \notin Hands(e)'
    BY <1>4, <1>5, <1>8
  <2>2. w \notin Hands(e)
    BY <1>1, <1>8 DEF Hands, Pipeline!EventAt, FlowInv, Handled
  <2>3. Hands(e)' \ {w} = Hands(e) \ {w}
    BY <1>5
  <2>4. \A v : v \in Hands(e)' <=> v \in Hands(e)
    <3> SUFFICES ASSUME NEW v PROVE v \in Hands(e)' <=> v \in Hands(e)
      OBVIOUS
    <3>1. CASE v = w
      BY <2>1, <2>2, <3>1
    <3>2. CASE v # w
      <4>1. v \in Hands(e)' \ {w} <=> v \in Hands(e) \ {w}
        BY <2>3
      <4> QED
        BY <3>2, <4>1
    <3> QED
      BY <3>1, <3>2
  <2> QED
    BY <2>4
<1>9. ASSUME NEW e \in Pipeline!Events
      PROVE  ledger'[e] + Cardinality(Live(e)') + Cardinality(Hands(e)') <=
               ledger[e] + Cardinality(Live(e)) + Cardinality(Hands(e)) + (mishaps' - mishaps)
  <2>1. mishaps' \in Nat /\ ledger[e] \in Nat /\ ledger'[e] \in Nat
    BY <1>1, PipelineAssumption
  <2>2. /\ Cardinality(Live(e)) \in Nat /\ Cardinality(Live(e)') \in Nat
        /\ Cardinality(Live(e)') <= Cardinality(Live(e)) - In(i, Live(e)) + In(i, Live(e)')
    BY <1>1, <1>7, Swapped
  <2>3. /\ Cardinality(Hands(e)) \in Nat /\ Cardinality(Hands(e)') \in Nat
        /\ Cardinality(Hands(e)') <= Cardinality(Hands(e)) - In(w, Hands(e)) + In(w, Hands(e)')
    BY <1>1, <1>5, Swapped
  <2>4. CASE e = x
    <3>1. /\ In(i, Live(e)) \in Nat /\ In(i, Live(e)') \in Nat
          /\ In(w, Hands(e)) \in Nat /\ In(w, Hands(e)') \in Nat
      BY DEF In
    <3>2. ledger'[e] + In(i, Live(e)') + In(w, Hands(e)') <=
            ledger[e] + In(i, Live(e)) + In(w, Hands(e)) + (mishaps' - mishaps)
      BY <2>4
    <3>3. PICK b \in Nat, c \in Nat, d \in Nat, n \in Nat, b1 \in Nat, c1 \in Nat, d1 \in Nat, n1 \in Nat :
            /\ b = ledger[e] /\ c = Cardinality(Live(e)) /\ d = Cardinality(Hands(e)) /\ n = mishaps
            /\ b1 = ledger'[e] /\ c1 = Cardinality(Live(e)') /\ d1 = Cardinality(Hands(e)') /\ n1 = mishaps'
      BY <1>1, <2>1, <2>2, <2>3
    <3>4. PICK p \in Nat, p1 \in Nat, q \in Nat, q1 \in Nat :
            /\ p = In(i, Live(e)) /\ p1 = In(i, Live(e)')
            /\ q = In(w, Hands(e)) /\ q1 = In(w, Hands(e)')
      BY <3>1
    <3>5. c1 <= c - p + p1 /\ d1 <= d - q + q1 /\ b1 + p1 + q1 <= b + p + q + (n1 - n)
      BY <2>2, <2>3, <3>2, <3>3, <3>4
    <3>6. b1 + c1 + d1 <= b + c + d + (n1 - n)
      BY ONLY <3>5, b \in Nat, c \in Nat, d \in Nat, n \in Nat, b1 \in Nat, c1 \in Nat, d1 \in Nat,
              n1 \in Nat, p \in Nat, p1 \in Nat, q \in Nat, q1 \in Nat
    <3> QED
      BY <3>3, <3>6
  <2>5. CASE e # x
    <3>1. Live(e)' = Live(e) /\ Hands(e)' = Hands(e)
      BY <1>7, <1>8, <2>5
    <3> QED
      BY <1>1, <2>1, <2>2, <2>3, <2>5, <3>1
  <2> QED
    BY <2>4, <2>5
<1> QED
  BY <1>2, <1>5, <1>6, <1>9, WorkerInv

\* A callback takes a queued message: one copy less waits, one more worker is
\* about to record it.
LEMMA ReceiveInv ==
  ASSUME FlowInv, NEW w \in Workers, Pipeline!Receive(w), UNCHANGED <<rows, relay>>
  PROVE  FlowInv'
<1>1. PICK i \in DOMAIN stream :
        /\ stream[i].state = "queued" /\ stream' = [stream EXCEPT ![i].state = "out"]
        /\ worker' = [worker EXCEPT ![w] = [pc |-> "record", msg |-> i]]
  BY DEF Pipeline!Receive, Pipeline!HandOut
<1>2. PICK x : x = stream[i].msg
  OBVIOUS
<1>3. worker[w].pc = "idle" /\ UNCHANGED <<ledger, mishaps>>
  BY DEF Pipeline!Receive
<1>4. /\ DOMAIN stream = 1..Len(stream) /\ Len(stream) \in Nat
      /\ worker \in [Workers -> Pipeline!Worker] /\ ledger \in [Pipeline!Events -> Nat]
      /\ mishaps \in Nat /\ mishaps \in 0..PipelineFaults
      /\ worker[w].msg = 0 /\ i # 0
  BY <1>3, WorkerTypes
<1> DEFINE new == [pc |-> "record", msg |-> i]
<1>5. new \in Pipeline!Worker /\ new.msg = i /\ new.pc = "record" /\ worker' = [worker EXCEPT ![w] = new]
  BY <1>1, <1>4 DEF Pipeline!Worker
<1> HIDE DEF new
<1>6. ledger'[x] + In(i, Live(x)') + In(w, Hands(x)') <=
        ledger[x] + In(i, Live(x)) + In(w, Hands(x)) + (mishaps' - mishaps) \/ x \notin Pipeline!Events
  <2>1. In(i, Live(x)) = 1
    BY <1>1, <1>2 DEF In, Live, Waits, Pipeline!Copies
  <2>2. worker'[w].msg = i /\ stream'[i].state = "out"
    BY <1>1, <1>4, <1>5, WorkerTypes, Updated
  <2>3. In(i, Live(x)') = 0
    BY <2>2 DEF In, Live, Waits
  <2>4. In(w, Hands(x)) = 0 /\ In(w, Hands(x)') \in {0, 1}
    BY <1>3 DEF In, Hands
  <2>5. x \in Pipeline!Events => ledger[x] \in Nat
    BY <1>4
  <2> QED
    BY <1>3, <1>4, <2>1, <2>3, <2>4, <2>5
<1>7. /\ worker[w].msg \in {0, i} /\ new.msg \in {0, i} /\ (new.pc = "idle" <=> new.msg = 0)
      /\ new.pc \notin {"ack", "nak"} /\ new.pc # "ack"
      /\ ledger' \in [Pipeline!Events -> Nat] /\ mishaps' \in 0..PipelineFaults /\ mishaps <= mishaps'
      /\ \A e \in Pipeline!Events \ {x} : ledger'[e] = ledger[e]
      /\ x \in Pipeline!Events => ledger'[x] >= ledger[x]
  BY <1>3, <1>4, <1>5
<1> QED
  BY <1>1, <1>2, <1>5, <1>6, <1>7, CallbackInv

\* What the steps of a callback that works on message i, event x, use.
Holding(w, i, x) ==
  /\ i \in DOMAIN stream /\ i # 0 /\ x = stream[i].msg
  /\ stream[i].state \in {"queued", "out", "settled"}
  /\ stream = [stream EXCEPT ![i].state = stream[i].state]
  /\ worker \in [Workers -> Pipeline!Worker] /\ i = worker[w].msg
  /\ [pc |-> "idle", msg |-> 0] \in Pipeline!Worker
  /\ \A p \in {"record", "ack", "nak"} :
       /\ [pc |-> p, msg |-> i] \in Pipeline!Worker
       /\ Pipeline!Move(w, p) => worker' = [worker EXCEPT ![w] = [pc |-> p, msg |-> i]]
  /\ ledger \in [Pipeline!Events -> Nat] /\ mishaps \in Nat /\ mishaps \in 0..PipelineFaults
  /\ w \in Hands(x) <=> worker[w].pc \in {"record", "nak"}

LEMMA Callback ==
  ASSUME FlowInv, NEW w \in Workers, worker[w].pc # "idle",
         NEW i, i = worker[w].msg, NEW x, x = Pipeline!EventAt(w)
  PROVE  Holding(w, i, x)
<1>1. /\ DOMAIN stream = 1..Len(stream) /\ Len(stream) \in Nat /\ stream \in Seq(Pipeline!Message)
      /\ worker \in [Workers -> Pipeline!Worker] /\ ledger \in [Pipeline!Events -> Nat]
      /\ mishaps \in Nat /\ mishaps \in 0..PipelineFaults
      /\ i \in DOMAIN stream /\ i # 0
      /\ stream[i].state \in {"queued", "out", "settled"}
  BY WorkerTypes
<1>2. x = stream[i].msg
  BY DEF Pipeline!EventAt
<1>3. stream = [stream EXCEPT ![i].state = stream[i].state]
  <2>1. stream[i] \in Pipeline!Message
    BY <1>1
  <2>2. [stream[i] EXCEPT !.state = stream[i].state] = stream[i]
    BY <2>1 DEF Pipeline!Message
  <2> QED
    BY <1>1, <2>2
<1>4. worker[w] \in Pipeline!Worker /\ i \in Nat
  BY <1>1
<1>5. [pc |-> "idle", msg |-> 0] \in Pipeline!Worker
  BY DEF Pipeline!Worker
<1>6. ASSUME NEW p \in {"record", "ack", "nak"}
      PROVE  /\ [pc |-> p, msg |-> i] \in Pipeline!Worker
             /\ Pipeline!Move(w, p) => worker' = [worker EXCEPT ![w] = [pc |-> p, msg |-> i]]
  <2>1. [pc |-> p, msg |-> i] \in Pipeline!Worker
    BY <1>4 DEF Pipeline!Worker
  <2>2. [worker[w] EXCEPT !.pc = p] = [pc |-> p, msg |-> i]
    BY <1>4 DEF Pipeline!Worker
  <2>3. [worker EXCEPT ![w].pc = p] = [worker EXCEPT ![w] = [worker[w] EXCEPT !.pc = p]]
    BY <1>1
  <2> QED
    BY <2>1, <2>2, <2>3 DEF Pipeline!Move
<1>7. w \in Hands(x) <=> worker[w].pc \in {"record", "nak"}
  BY DEF Hands
<1> QED
  BY <1>1, <1>2, <1>3, <1>4, <1>5, <1>6, <1>7 DEF Holding

LEMMA InType == \A x, S : In(x, S) \in {0, 1}
  BY DEF In

\* What is not JSON is settled, and is no event.
LEMMA TermPoisonInv ==
  ASSUME FlowInv, NEW w \in Workers, Pipeline!TermPoison(w), UNCHANGED <<rows, relay>>
  PROVE  FlowInv'
<1>1. PICK i, x : i = worker[w].msg /\ x = Pipeline!EventAt(w)
  OBVIOUS
<1>2. /\ worker[w].pc = "record" /\ x \in Poison
      /\ stream' = [stream EXCEPT ![i].state = "settled"]
      /\ worker' = [worker EXCEPT ![w] = [pc |-> "idle", msg |-> 0]]
      /\ UNCHANGED <<ledger, mishaps>>
  BY <1>1 DEF Pipeline!TermPoison, Pipeline!Settle, Pipeline!Idle, Pipeline!IdleWorker, Pipeline!EventAt
<1>3. Holding(w, i, x)
  BY <1>1, <1>2, Callback
<1> DEFINE new == [pc |-> "idle", msg |-> 0]
<1>4. /\ new \in Pipeline!Worker /\ new.pc = "idle" /\ new.msg = 0
      /\ worker' = [worker EXCEPT ![w] = new] /\ worker'[w] = new
  BY <1>2, <1>3 DEF Holding
<1> HIDE DEF new
<1>5. /\ worker[w].msg \in {0, i} /\ new.msg \in {0, i} /\ (new.pc = "idle" <=> new.msg = 0)
      /\ ledger' \in [Pipeline!Events -> Nat] /\ mishaps' \in 0..PipelineFaults /\ mishaps <= mishaps'
      /\ \A e \in Pipeline!Events \ {x} : ledger'[e] = ledger[e]
      /\ x \in Pipeline!Events => ledger'[x] >= ledger[x]
  BY <1>1, <1>2, <1>3, <1>4 DEF Holding
<1>6. x \notin Pipeline!Events
  BY <1>2, PipelineAssumption DEF Pipeline!Events
<1>7. i \in DOMAIN stream /\ stream[i].msg = x
  BY <1>3 DEF Holding
<1>8. /\ new.pc \notin {"ack", "nak"} /\ new.pc # "ack"
  BY <1>4
<1> QED
  BY <1>2, <1>4, <1>5, <1>6, <1>7, <1>8, CallbackInv

\* The entry a worker was about to make is made.
LEMMA InsertInv ==
  ASSUME FlowInv, NEW w \in Workers, Pipeline!Insert(w), UNCHANGED <<rows, relay>>
  PROVE  FlowInv'
<1>1. PICK i, x : i = worker[w].msg /\ x = Pipeline!EventAt(w)
  OBVIOUS
<1>2. /\ worker[w].pc = "record" /\ x \in Pipeline!Events
      /\ ledger' = [ledger EXCEPT ![x] = @ + 1]
      /\ Pipeline!Move(w, "ack")
      /\ UNCHANGED <<stream, mishaps>>
  BY <1>1 DEF Pipeline!Insert, Pipeline!EventAt
<1>3. Holding(w, i, x)
  BY <1>1, <1>2, Callback
<1> DEFINE new == [pc |-> "ack", msg |-> i]
<1>4. /\ new \in Pipeline!Worker /\ new.pc = "ack" /\ new.msg = i
      /\ worker' = [worker EXCEPT ![w] = new] /\ worker'[w] = new
  BY <1>2, <1>3 DEF Holding
<1> HIDE DEF new
<1>5. /\ worker[w].msg \in {0, i} /\ new.msg \in {0, i} /\ (new.pc = "idle" <=> new.msg = 0)
      /\ ledger' \in [Pipeline!Events -> Nat] /\ mishaps' \in 0..PipelineFaults /\ mishaps <= mishaps'
      /\ ledger[x] \in Nat /\ ledger'[x] = ledger[x] + 1 /\ ledger'[x] > 0
  BY <1>1, <1>2, <1>3, <1>4 DEF Holding
<1>6. /\ \A e \in Pipeline!Events \ {x} : ledger'[e] = ledger[e]
      /\ ledger'[x] >= ledger[x]
  BY <1>2, <1>3, <1>5 DEF Holding
<1>7. In(w, Hands(x)) = 1 /\ In(w, Hands(x)') = 0
  BY <1>2, <1>3, <1>4 DEF In, Hands, Holding
<1>8. In(i, Live(x)') = In(i, Live(x))
  <2>1. \A v \in Workers : worker'[v].msg = worker[v].msg
    BY <1>1, <1>2, <1>3, <1>4 DEF Holding
  <2> QED
    BY <1>2, <2>1 DEF In, Live, Waits, Pipeline!Copies
<1>9. ledger'[x] + In(i, Live(x)') + In(w, Hands(x)') <=
        ledger[x] + In(i, Live(x)) + In(w, Hands(x)) + (mishaps' - mishaps)
  <2>1. /\ In(i, Live(x)) \in {0, 1} /\ In(i, Live(x)') \in {0, 1}
        /\ In(w, Hands(x)) \in {0, 1} /\ In(w, Hands(x)') \in {0, 1}
    BY InType
  <2>2. mishaps \in Nat /\ (x \in Pipeline!Events => ledger[x] \in Nat /\ ledger'[x] \in Nat)
    BY <1>2, <1>3, <1>5 DEF Holding
  <2>3. mishaps' = mishaps /\ x \in Pipeline!Events
    BY <1>2
  <2> QED
    BY <1>5, <1>7, <1>8, <2>1, <2>2, <2>3
<1>10. PICK s \in {"queued", "out", "settled"} :
         s = stream[i].state /\ stream' = [stream EXCEPT ![i].state = s]
  BY <1>2, <1>3 DEF Holding
<1>11. i \in DOMAIN stream /\ stream[i].msg = x /\ x \in Pipeline!Events
  BY <1>2, <1>3 DEF Holding
<1>12. s = "settled" => stream[i].state = "settled"
  BY <1>4, <1>10
<1>13. /\ worker[w].msg \in {0, i} /\ new.msg \in {0, i} /\ (new.pc = "idle" <=> new.msg = 0)
       /\ ledger' \in [Pipeline!Events -> Nat] /\ mishaps' \in 0..PipelineFaults /\ mishaps <= mishaps'
       /\ ledger'[x] > 0
  BY <1>5
<1> QED
  BY <1>4, <1>6, <1>9, <1>10, <1>11, <1>12, <1>13, CallbackInv

\* A failed insert may have made its entry; the fault pays for the next one.
LEMMA InsertFailsInv ==
  ASSUME FlowInv, NEW w \in Workers, Pipeline!InsertFails(w), UNCHANGED <<rows, relay>>
  PROVE  FlowInv'
<1>1. PICK i, x : i = worker[w].msg /\ x = Pipeline!EventAt(w)
  OBVIOUS
<1>2. /\ worker[w].pc = "record" /\ x \in Pipeline!Events
      /\ mishaps < PipelineFaults /\ mishaps' = mishaps + 1
      /\ ledger' = [ledger EXCEPT ![x] = @ + 1] \/ UNCHANGED ledger
      /\ Pipeline!Move(w, "nak")
      /\ UNCHANGED stream
  BY <1>1 DEF Pipeline!InsertFails, Pipeline!Fault, Pipeline!EventAt
<1>3. Holding(w, i, x)
  BY <1>1, <1>2, Callback
<1> DEFINE new == [pc |-> "nak", msg |-> i]
<1>4. /\ new \in Pipeline!Worker /\ new.pc = "nak" /\ new.msg = i
      /\ worker' = [worker EXCEPT ![w] = new] /\ worker'[w] = new
  BY <1>2, <1>3 DEF Holding
<1> HIDE DEF new
<1>5. /\ worker[w].msg \in {0, i} /\ new.msg \in {0, i} /\ (new.pc = "idle" <=> new.msg = 0)
      /\ mishaps' \in 0..PipelineFaults /\ mishaps <= mishaps'
  BY <1>1, <1>2, <1>3, <1>4, PipelineAssumption DEF Holding
<1>6. /\ ledger' \in [Pipeline!Events -> Nat] /\ ledger[x] \in Nat
      /\ ledger'[x] \in {ledger[x], ledger[x] + 1}
  BY <1>2, <1>3 DEF Holding
<1>7. /\ \A e \in Pipeline!Events \ {x} : ledger'[e] = ledger[e]
      /\ ledger'[x] >= ledger[x]
  BY <1>2, <1>3, <1>6 DEF Holding
<1>8. In(w, Hands(x)) = 1 /\ In(w, Hands(x)') \in {0, 1}
  BY <1>2, <1>3 DEF In, Holding
<1>9. In(i, Live(x)') = In(i, Live(x))
  <2>1. \A v \in Workers : worker'[v].msg = worker[v].msg
    BY <1>1, <1>2, <1>3, <1>4 DEF Holding
  <2> QED
    BY <1>2, <2>1 DEF In, Live, Waits, Pipeline!Copies
<1>10. ledger'[x] + In(i, Live(x)') + In(w, Hands(x)') <=
         ledger[x] + In(i, Live(x)) + In(w, Hands(x)) + (mishaps' - mishaps)
  <2>1. /\ In(i, Live(x)) \in {0, 1} /\ In(i, Live(x)') \in {0, 1}
        /\ In(w, Hands(x)) \in {0, 1} /\ In(w, Hands(x)') \in {0, 1}
    BY InType
  <2>2. mishaps \in Nat /\ (x \in Pipeline!Events => ledger[x] \in Nat /\ ledger'[x] \in Nat)
    BY <1>2, <1>3, <1>6 DEF Holding
  <2>3. mishaps' = mishaps + 1 /\ x \in Pipeline!Events
    BY <1>2
  <2> QED
    BY <1>6, <1>8, <1>9, <2>1, <2>2, <2>3
<1>11. PICK s \in {"queued", "out", "settled"} :
         s = stream[i].state /\ stream' = [stream EXCEPT ![i].state = s]
  BY <1>2, <1>3 DEF Holding
<1>12. i \in DOMAIN stream /\ stream[i].msg = x /\ x \in Pipeline!Events
  BY <1>2, <1>3 DEF Holding
<1>13. /\ s = "settled" => stream[i].state = "settled"
       /\ new.pc # "ack"
  BY <1>4, <1>11
<1>14. ledger' \in [Pipeline!Events -> Nat]
  BY <1>6
<1> QED
  BY <1>4, <1>5, <1>7, <1>10, <1>11, <1>12, <1>13, <1>14, CallbackInv

\* What is acknowledged is recorded, and waits no more.
LEMMA AckInv ==
  ASSUME FlowInv, NEW w \in Workers, Pipeline!Ack(w), UNCHANGED <<rows, relay>>
  PROVE  FlowInv'
<1>1. PICK i, x : i = worker[w].msg /\ x = Pipeline!EventAt(w)
  OBVIOUS
<1>2. /\ worker[w].pc = "ack" /\ stream' = [stream EXCEPT ![i].state = "settled"]
      /\ worker' = [worker EXCEPT ![w] = [pc |-> "idle", msg |-> 0]]
      /\ UNCHANGED <<ledger, mishaps>>
  BY <1>1 DEF Pipeline!Ack, Pipeline!Settle, Pipeline!Idle, Pipeline!IdleWorker
<1>3. Holding(w, i, x)
  BY <1>1, <1>2, Callback
<1> DEFINE new == [pc |-> "idle", msg |-> 0]
<1>4. /\ new \in Pipeline!Worker /\ new.pc = "idle" /\ new.msg = 0
      /\ worker' = [worker EXCEPT ![w] = new] /\ worker'[w] = new
  BY <1>2, <1>3 DEF Holding
<1> HIDE DEF new
<1>5. /\ worker[w].msg \in {0, i} /\ new.msg \in {0, i} /\ (new.pc = "idle" <=> new.msg = 0)
      /\ ledger' \in [Pipeline!Events -> Nat] /\ mishaps' \in 0..PipelineFaults /\ mishaps <= mishaps'
      /\ \A e \in Pipeline!Events \ {x} : ledger'[e] = ledger[e]
      /\ x \in Pipeline!Events => ledger'[x] >= ledger[x]
  BY <1>1, <1>2, <1>3, <1>4 DEF Holding
<1>6. ledger'[x] > 0
  BY <1>1, <1>2 DEF FlowInv, Handled
<1>7. In(i, Live(x)') = 0 /\ In(w, Hands(x)') = 0
  <2>1. stream'[i].state = "settled"
    BY <1>2, <1>3, WorkerTypes, Updated DEF Holding
  <2> QED
    BY <1>4, <2>1 DEF In, Live, Waits, Hands
<1>8. x \in Pipeline!Events =>
        ledger'[x] + In(i, Live(x)') + In(w, Hands(x)') <=
          ledger[x] + In(i, Live(x)) + In(w, Hands(x)) + (mishaps' - mishaps)
  <2>1. /\ In(i, Live(x)) \in {0, 1} /\ In(i, Live(x)') \in {0, 1}
        /\ In(w, Hands(x)) \in {0, 1} /\ In(w, Hands(x)') \in {0, 1}
    BY InType
  <2>2. mishaps \in Nat /\ (x \in Pipeline!Events => ledger[x] \in Nat /\ ledger'[x] \in Nat)
    BY <1>2, <1>3, <1>5 DEF Holding
  <2>3. mishaps' = mishaps /\ ledger' = ledger
    BY <1>2
  <2> QED
    BY <1>7, <2>1, <2>2, <2>3
<1>9. i \in DOMAIN stream /\ stream[i].msg = x
  BY <1>3 DEF Holding
<1>10. /\ new.pc \notin {"ack", "nak"} /\ new.pc # "ack"
  BY <1>4
<1> QED
  BY <1>2, <1>4, <1>5, <1>6, <1>8, <1>9, <1>10, CallbackInv

\* What is not acknowledged waits again, in the worker's stead.
LEMMA NakInv ==
  ASSUME FlowInv, NEW w \in Workers, Pipeline!Nak(w), UNCHANGED <<rows, relay>>
  PROVE  FlowInv'
<1>1. PICK i, x : i = worker[w].msg /\ x = Pipeline!EventAt(w)
  OBVIOUS
<1>2. /\ worker[w].pc = "nak"
      /\ stream' = [stream EXCEPT ![i].state = IF stream[i].state = "settled" THEN stream[i].state ELSE "queued"]
      /\ worker' = [worker EXCEPT ![w] = [pc |-> "idle", msg |-> 0]]
      /\ UNCHANGED <<ledger, mishaps>>
  BY <1>1 DEF Pipeline!Nak, Pipeline!Requeue, Pipeline!Idle, Pipeline!IdleWorker
<1>3. Holding(w, i, x)
  BY <1>1, <1>2, Callback
<1> DEFINE new == [pc |-> "idle", msg |-> 0]
<1>4. /\ new \in Pipeline!Worker /\ new.pc = "idle" /\ new.msg = 0
      /\ worker' = [worker EXCEPT ![w] = new] /\ worker'[w] = new
  BY <1>2, <1>3 DEF Holding
<1> HIDE DEF new
<1>5. /\ worker[w].msg \in {0, i} /\ new.msg \in {0, i} /\ (new.pc = "idle" <=> new.msg = 0)
      /\ ledger' \in [Pipeline!Events -> Nat] /\ mishaps' \in 0..PipelineFaults /\ mishaps <= mishaps'
      /\ \A e \in Pipeline!Events \ {x} : ledger'[e] = ledger[e]
      /\ x \in Pipeline!Events => ledger'[x] >= ledger[x]
  BY <1>1, <1>2, <1>3, <1>4 DEF Holding
<1>6. PICK s \in {"queued", "out", "settled"} :
        /\ s = IF stream[i].state = "settled" THEN stream[i].state ELSE "queued"
        /\ stream' = [stream EXCEPT ![i].state = s]
  BY <1>2, <1>3 DEF Holding
<1>7. In(w, Hands(x)) = 1 /\ In(w, Hands(x)') = 0
  BY <1>2, <1>3, <1>4 DEF In, Hands, Holding
<1>8. x \in Pipeline!Events =>
        ledger'[x] + In(i, Live(x)') + In(w, Hands(x)') <=
          ledger[x] + In(i, Live(x)) + In(w, Hands(x)) + (mishaps' - mishaps)
  <2>1. /\ In(i, Live(x)) \in {0, 1} /\ In(i, Live(x)') \in {0, 1}
        /\ In(w, Hands(x)) \in {0, 1} /\ In(w, Hands(x)') \in {0, 1}
    BY InType
  <2>2. mishaps \in Nat /\ (x \in Pipeline!Events => ledger[x] \in Nat /\ ledger'[x] \in Nat)
    BY <1>2, <1>3, <1>5 DEF Holding
  <2>3. mishaps' = mishaps /\ ledger' = ledger
    BY <1>2
  <2> QED
    BY <1>7, <2>1, <2>2, <2>3
<1>9. i \in DOMAIN stream /\ stream[i].msg = x
  BY <1>3 DEF Holding
<1>10. /\ s = "settled" => stream[i].state = "settled"
       /\ new.pc \notin {"ack", "nak"} /\ new.pc # "ack"
  BY <1>4, <1>6
<1> QED
  BY <1>4, <1>5, <1>6, <1>8, <1>9, <1>10, CallbackInv

\* A worker that drops its message leaves it waiting, at the cost of a fault.
LEMMA DropInv ==
  ASSUME FlowInv, NEW w \in Workers, Pipeline!Drop(w), UNCHANGED <<rows, relay>>
  PROVE  FlowInv'
<1>1. PICK i, x : i = worker[w].msg /\ x = Pipeline!EventAt(w)
  OBVIOUS
<1>2. /\ worker[w].pc # "idle" /\ mishaps < PipelineFaults /\ mishaps' = mishaps + 1
      /\ worker' = [worker EXCEPT ![w] = [pc |-> "idle", msg |-> 0]]
      /\ UNCHANGED <<stream, ledger>>
  BY <1>1 DEF Pipeline!Drop, Pipeline!Fault, Pipeline!Idle, Pipeline!IdleWorker
<1>3. Holding(w, i, x)
  BY <1>1, <1>2, Callback
<1> DEFINE new == [pc |-> "idle", msg |-> 0]
<1>4. /\ new \in Pipeline!Worker /\ new.pc = "idle" /\ new.msg = 0
      /\ worker' = [worker EXCEPT ![w] = new] /\ worker'[w] = new
  BY <1>2, <1>3 DEF Holding
<1> HIDE DEF new
<1>5. /\ worker[w].msg \in {0, i} /\ new.msg \in {0, i} /\ (new.pc = "idle" <=> new.msg = 0)
      /\ ledger' \in [Pipeline!Events -> Nat] /\ mishaps' \in 0..PipelineFaults /\ mishaps <= mishaps'
      /\ \A e \in Pipeline!Events \ {x} : ledger'[e] = ledger[e]
      /\ x \in Pipeline!Events => ledger'[x] >= ledger[x]
  BY <1>1, <1>2, <1>3, <1>4, PipelineAssumption DEF Holding
<1>6. x \in Pipeline!Events =>
        ledger'[x] + In(i, Live(x)') + In(w, Hands(x)') <=
          ledger[x] + In(i, Live(x)) + In(w, Hands(x)) + (mishaps' - mishaps)
  <2>1. In(w, Hands(x)') = 0
    BY <1>4 DEF In, Hands
  <2>2. /\ In(i, Live(x)) \in {0, 1} /\ In(i, Live(x)') \in {0, 1}
        /\ In(w, Hands(x)) \in {0, 1} /\ In(w, Hands(x)') \in {0, 1}
    BY InType
  <2>3. mishaps \in Nat /\ (x \in Pipeline!Events => ledger[x] \in Nat /\ ledger'[x] \in Nat)
    BY <1>2, <1>3, <1>5 DEF Holding
  <2>4. mishaps' = mishaps + 1 /\ ledger' = ledger
    BY <1>2
  <2> QED
    BY <2>1, <2>2, <2>3, <2>4
<1>7. PICK s \in {"queued", "out", "settled"} :
         s = stream[i].state /\ stream' = [stream EXCEPT ![i].state = s]
  BY <1>2, <1>3 DEF Holding
<1>8. i \in DOMAIN stream /\ stream[i].msg = x
  BY <1>3 DEF Holding
<1>9. /\ s = "settled" => stream[i].state = "settled"
      /\ new.pc \notin {"ack", "nak"} /\ new.pc # "ack"
  BY <1>4, <1>7
<1> QED
  BY <1>4, <1>5, <1>6, <1>7, <1>8, <1>9, CallbackInv

\* The consumer hands message i out again: a copy that waits goes on waiting,
\* one that a callback still holds waits at the cost of a fault.
LEMMA RequeueInv ==
  ASSUME FlowInv, UNCHANGED <<rows, relay>>, NEW i \in DOMAIN stream,
         Pipeline!Redeliver(i) \/ Pipeline!RedeliverEarly(i)
  PROVE  FlowInv'
<1>1. /\ DOMAIN stream = 1..Len(stream) /\ Len(stream) \in Nat
      /\ worker \in [Workers -> Pipeline!Worker] /\ ledger \in [Pipeline!Events -> Nat]
      /\ mishaps \in Nat /\ mishaps \in 0..PipelineFaults /\ FlowTyped
      /\ \A v \in Workers : /\ worker[v].msg \in 0..Len(stream)
                            /\ worker[v].pc # "idle" => worker[v].msg \in DOMAIN stream
      /\ \A e : IsFiniteSet(Live(e)) /\ Cardinality(Live(e)) \in Nat /\ Cardinality(Hands(e)) \in Nat
  BY WorkerTypes
<1>2. stream[i].state = "out" /\ UNCHANGED <<worker, ledger>>
  BY DEF Pipeline!Redeliver, Pipeline!RedeliverEarly
<1>3. stream' = [stream EXCEPT ![i].state = "queued"]
  BY <1>2 DEF Pipeline!Redeliver, Pipeline!RedeliverEarly, Pipeline!Requeue
<1>4. \/ mishaps' = mishaps /\ \A w \in Workers : worker[w].msg # i
      \/ mishaps' = mishaps + 1 /\ mishaps < PipelineFaults
  BY DEF Pipeline!Redeliver, Pipeline!RedeliverEarly, Pipeline!Fault
<1>5. /\ stream' \in Seq(Pipeline!Message) /\ Len(stream') = Len(stream)
      /\ DOMAIN stream' = DOMAIN stream /\ stream'[i].state = "queued"
      /\ \A j \in DOMAIN stream : /\ stream'[j].msg = stream[j].msg
                                  /\ j # i => stream'[j] = stream[j]
      /\ \A e : Pipeline!Copies(e)' = Pipeline!Copies(e)
  BY <1>1, <1>3, Updated
<1>6. mishaps' \in 0..PipelineFaults /\ mishaps' \in Nat
  BY <1>1, <1>4, PipelineAssumption
<1>7. \A v \in Workers : worker[v].pc # "idle" => Pipeline!EventAt(v)' = Pipeline!EventAt(v)
  BY <1>1, <1>2, <1>5 DEF Pipeline!EventAt
<1>8. Handled'
  <2> SUFFICES ASSUME NEW w \in Workers
               PROVE  /\ worker[w].pc = "idle" <=> worker[w].msg = 0
                      /\ worker[w].pc \in {"ack", "nak"} => Pipeline!EventAt(w)' \in Pipeline!Events
                      /\ worker[w].pc = "ack" => ledger[Pipeline!EventAt(w)'] > 0
    BY <1>2 DEF Handled, Pipeline!Events
  <2>1. /\ worker[w].pc = "idle" <=> worker[w].msg = 0
        /\ worker[w].pc \in {"ack", "nak"} => Pipeline!EventAt(w) \in Pipeline!Events
        /\ worker[w].pc = "ack" => ledger[Pipeline!EventAt(w)] > 0
    BY DEF FlowInv, Handled
  <2>2. worker[w].pc # "idle" => Pipeline!EventAt(w)' = Pipeline!EventAt(w)
    BY <1>7
  <2> QED
    BY <2>1, <2>2
<1>9. Recorded'
  <2>1. \A e \in Pipeline!Events : ledger'[e] \in Nat /\ ledger'[e] >= ledger[e]
    BY <1>1, <1>2
  <2>2. \A j \in DOMAIN stream : stream'[j].state = "settled" /\ stream[j].msg \in Pipeline!Events =>
          stream[j].state = "settled" \/ ledger'[stream[j].msg] > 0
    BY <1>5
  <2> QED
    BY <1>5, <2>1, <2>2, RecordedKept
<1>10. \A e : Live(e)' \ {i} = Live(e) \ {i} /\ (stream[i].msg # e => Live(e)' = Live(e))
  BY <1>2, <1>5, LiveMoves
<1>11. \A e : Hands(e)' = Hands(e)
  BY <1>2, <1>7 DEF Hands
<1>12. ASSUME NEW e \in Pipeline!Events
       PROVE  ledger'[e] + Cardinality(Live(e)') + Cardinality(Hands(e)') <=
                ledger[e] + Cardinality(Live(e)) + Cardinality(Hands(e)) + (mishaps' - mishaps)
  <2>1. /\ Cardinality(Live(e)') \in Nat
        /\ Cardinality(Live(e)') <= Cardinality(Live(e)) - In(i, Live(e)) + In(i, Live(e)')
    BY <1>1, <1>10, Swapped
  <2>2. In(i, Live(e)') <= In(i, Live(e)) + (mishaps' - mishaps)
    <3>1. CASE stream[i].msg # e
      <4>1. Live(e)' = Live(e)
        BY <1>10, <3>1
      <4>2. In(i, Live(e)) \in {0, 1} /\ mishaps' - mishaps \in {0, 1}
        BY <1>1, <1>4, InType
      <4> QED
        BY <4>1, <4>2
    <3>2. CASE mishaps' = mishaps + 1
      <4>1. In(i, Live(e)) \in {0, 1} /\ In(i, Live(e)') \in {0, 1}
        BY InType
      <4> QED
        BY <1>1, <3>2, <4>1
    <3>3. CASE stream[i].msg = e /\ mishaps' = mishaps /\ \A w \in Workers : worker[w].msg # i
      <4>1. In(i, Live(e)) = 1
        BY <1>2, <3>3 DEF In, Live, Waits, Pipeline!Copies
      <4>2. In(i, Live(e)') \in {0, 1}
        BY InType
      <4> QED
        BY <1>1, <3>3, <4>1, <4>2
    <3> QED
      BY <1>4, <3>1, <3>2, <3>3
  <2>3. /\ In(i, Live(e)) \in {0, 1} /\ In(i, Live(e)') \in {0, 1} /\ ledger[e] \in Nat
        /\ Cardinality(Live(e)) \in Nat /\ Cardinality(Hands(e)) \in Nat
        /\ ledger' = ledger /\ Hands(e)' = Hands(e)
    BY <1>1, <1>2, <1>11, InType
  <2>4. PICK c \in Nat, c1 \in Nat, p \in Nat, p1 \in Nat, n \in Nat, n1 \in Nat :
          /\ c = Cardinality(Live(e)) /\ c1 = Cardinality(Live(e)')
          /\ p = In(i, Live(e)) /\ p1 = In(i, Live(e)') /\ n = mishaps /\ n1 = mishaps'
    BY <1>1, <1>6, <2>1, <2>3
  <2>5. c1 <= c - p + p1 /\ p1 <= p + (n1 - n)
    BY <2>1, <2>2, <2>4
  <2>6. c1 <= c + (n1 - n)
    BY ONLY <2>5, c \in Nat, c1 \in Nat, p \in Nat, p1 \in Nat, n \in Nat, n1 \in Nat
  <2>7. PICK b \in Nat, d \in Nat : b = ledger[e] /\ d = Cardinality(Hands(e))
    BY <2>3
  <2>8. b + c1 + d <= b + c + d + (n1 - n)
    BY ONLY <2>6, b \in Nat, d \in Nat, c \in Nat, c1 \in Nat, n \in Nat, n1 \in Nat
  <2> QED
    BY <2>3, <2>4, <2>7, <2>8
<1> QED
  BY <1>1, <1>2, <1>5, <1>6, <1>8, <1>9, <1>12, WorkerInv

-----------------------------------------------------------------------------
(* The invariant, and what it shows *)

LEMMA FlowInitial == Pipeline!Init => FlowInv
<1> SUFFICES ASSUME Pipeline!Init PROVE FlowInv
  OBVIOUS
<1>1. Pipeline!Cardinality(Poison) \in Nat
  <2>1. Cardinality(Poison) \in Nat
    BY PipelineAssumption, FS_CardinalityType
  <2>2. Pipeline!Cardinality(Poison) = Cardinality(Poison)
    BY DEF Pipeline!Cardinality, Cardinality
  <2> QED
    BY <2>1, <2>2
<1>2. PICK n \in Nat : stream \in [1..n -> [msg : Poison, state : {"queued"}]]
  BY <1>1 DEF Pipeline!Init, Pipeline!StreamInit
<1>3. /\ mishaps = 0
      /\ rows = [e \in Pipeline!Events |-> "absent"]
      /\ relay = [r \in Relays |-> [pc |-> "idle", todo |-> {}, marked |-> {}]]
      /\ worker = [w \in Workers |-> [pc |-> "idle", msg |-> 0]]
      /\ ledger = [e \in Pipeline!Events |-> 0]
  BY DEF Pipeline!Init, Pipeline!StreamInit, Pipeline!RelayInit, Pipeline!AuditInit,
         Pipeline!IdleRelay, Pipeline!IdleWorker
<1>4. /\ DOMAIN stream = 1..n
      /\ \A i \in 1..n : stream[i].msg \in Poison /\ stream[i].state = "queued"
  BY <1>2
<1>5. \A i \in DOMAIN stream : stream[i].msg \notin Pipeline!Events
  BY <1>4, PipelineAssumption DEF Pipeline!Events
<1>6. \A e \in Pipeline!Events : Pipeline!Copies(e) = {}
  BY <1>5 DEF Pipeline!Copies
<1>7. FlowTyped
  <2>1. [msg : Poison, state : {"queued"}] \subseteq Pipeline!Message
    BY DEF Pipeline!Message
  <2>2. stream \in [1..n -> Pipeline!Message]
    BY <1>2, <2>1
  <2>3. stream \in Seq(Pipeline!Message) /\ Len(stream) = n
    BY <2>2
  <2>4. mishaps \in 0..PipelineFaults
    BY <1>3, PipelineAssumption
  <2>5. [pc |-> "idle", todo |-> {}, marked |-> {}] \in Pipeline!Relay
    BY DEF Pipeline!Relay
  <2>6. [pc |-> "idle", msg |-> 0] \in Pipeline!Worker
    BY DEF Pipeline!Worker
  <2>7. Pipeline!RelayTypeOK
    BY <1>3, <2>5 DEF Pipeline!RelayTypeOK
  <2>8. Pipeline!AuditTypeOK
    BY <1>3, <2>3, <2>6 DEF Pipeline!AuditTypeOK
  <2> QED
    BY <2>3, <2>4, <2>7, <2>8 DEF FlowTyped, Pipeline!TypeOK, Pipeline!StreamTypeOK
<1>8. Locked
  BY <1>3 DEF Locked, Pipeline!Held
<1>9. Stored
  <2>1. \A r \in Relays : Sent(r) = {}
    BY <1>3 DEF Sent
  <2> QED
    BY <1>3, <1>6, <2>1 DEF Stored
<1>10. Handled
  BY <1>3 DEF Handled
<1>11. Recorded
  BY <1>4 DEF Recorded
<1>12. Budget
  <2> SUFFICES ASSUME NEW e \in Pipeline!Events
               PROVE  ledger[e] + Spare(e) + Cardinality(Live(e)) + Cardinality(Hands(e)) <= 1 + mishaps
    BY DEF Budget
  <2>1. Live(e) = {} /\ Hands(e) = {}
    BY <1>3, <1>6 DEF Live, Hands
  <2>2. Cardinality({}) = 0
    BY FS_EmptySet
  <2>3. ledger[e] = 0 /\ Spare(e) \in {0, 1}
    BY <1>3 DEF Spare
  <2> QED
    BY <1>3, <2>1, <2>2, <2>3
<1> QED
  BY <1>7, <1>8, <1>9, <1>10, <1>11, <1>12 DEF FlowInv

LEMMA FlowStutters ==
  ASSUME FlowInv, UNCHANGED Pipeline!vars
  PROVE  FlowInv'
<1>1. UNCHANGED <<stream, mishaps, rows, relay, worker, ledger>>
  BY DEF Pipeline!vars
<1>2. \A e : Pipeline!Copies(e)' = Pipeline!Copies(e)
  BY <1>1 DEF Pipeline!Copies
<1>3. Handled' /\ Recorded'
  BY <1>1 DEF FlowInv, Handled, Recorded, Pipeline!EventAt, Pipeline!Events
<1>4. /\ stream \in Seq(Pipeline!Message) /\ mishaps \in 0..PipelineFaults /\ mishaps \in Nat
      /\ worker \in [Workers -> Pipeline!Worker]
      /\ \A w \in Workers : worker[w].msg \in 0..Len(stream)
      /\ ledger \in [Pipeline!Events -> Nat]
      /\ \A e : Cardinality(Live(e)) \in Nat /\ Cardinality(Hands(e)) \in Nat
  BY WorkerTypes
<1>5. ASSUME NEW e \in Pipeline!Events
      PROVE  ledger'[e] + Cardinality(Live(e)') + Cardinality(Hands(e)') <=
               ledger[e] + Cardinality(Live(e)) + Cardinality(Hands(e)) + (mishaps' - mishaps)
  <2>1. Live(e)' = Live(e) /\ Hands(e)' = Hands(e)
    BY <1>1, <1>2 DEF Live, Hands, Waits, Pipeline!EventAt
  <2>2. ledger[e] \in Nat /\ Cardinality(Live(e)) \in Nat /\ Cardinality(Hands(e)) \in Nat
    BY <1>4
  <2> QED
    BY <1>1, <1>4, <2>1, <2>2
<1> QED
  BY <1>1, <1>2, <1>3, <1>4, <1>5, WorkerInv

LEMMA FlowInductive == FlowInv /\ [Pipeline!Next]_(Pipeline!vars) => FlowInv'
<1> SUFFICES ASSUME FlowInv, [Pipeline!Next]_(Pipeline!vars) PROVE FlowInv'
  OBVIOUS
<1>1. ASSUME Pipeline!RelayNext, UNCHANGED <<worker, ledger>> PROVE FlowInv'
  <2>1. ASSUME NEW e \in Pipeline!Events, Pipeline!Write(e) PROVE FlowInv'
    BY <1>1, <2>1, WriteInv
  <2>2. ASSUME NEW r \in Relays, Pipeline!Claim(r) PROVE FlowInv'
    BY <1>1, <2>2, ClaimInv
  <2>3. ASSUME NEW r \in Relays, Pipeline!PublishNext(r) PROVE FlowInv'
    BY <1>1, <2>3, PublishInv
  <2>4. ASSUME NEW r \in Relays, Pipeline!MarkPublished(r) PROVE FlowInv'
    BY <1>1, <2>4, MarkInv
  <2>5. ASSUME NEW r \in Relays, Pipeline!CommitBatch(r) PROVE FlowInv'
    BY <1>1, <2>5, CommitInv
  <2>6. ASSUME NEW r \in Relays, Pipeline!PublishFails(r) PROVE FlowInv'
    BY <1>1, <2>6, PublishFailsInv
  <2>7. ASSUME NEW r \in Relays, Pipeline!Abort(r) PROVE FlowInv'
    BY <1>1, <2>7, AbortInv DEF Pipeline!Abort
  <2> QED
    BY <1>1, <2>1, <2>2, <2>3, <2>4, <2>5, <2>6, <2>7 DEF Pipeline!RelayNext, Pipeline!RelayStep
<1>2. ASSUME Pipeline!AuditNext, UNCHANGED <<rows, relay>> PROVE FlowInv'
  <2>1. ASSUME NEW w \in Workers, Pipeline!Receive(w) PROVE FlowInv'
    BY <1>2, <2>1, ReceiveInv
  <2>2. ASSUME NEW w \in Workers, Pipeline!TermPoison(w) PROVE FlowInv'
    BY <1>2, <2>2, TermPoisonInv
  <2>3. ASSUME NEW w \in Workers, Pipeline!Insert(w) PROVE FlowInv'
    BY <1>2, <2>3, InsertInv
  <2>4. ASSUME NEW w \in Workers, Pipeline!Ack(w) PROVE FlowInv'
    BY <1>2, <2>4, AckInv
  <2>5. ASSUME NEW w \in Workers, Pipeline!Nak(w) PROVE FlowInv'
    BY <1>2, <2>5, NakInv
  <2>6. ASSUME NEW w \in Workers, Pipeline!InsertFails(w) PROVE FlowInv'
    BY <1>2, <2>6, InsertFailsInv
  <2>7. ASSUME NEW w \in Workers, Pipeline!Drop(w) PROVE FlowInv'
    BY <1>2, <2>7, DropInv
  <2>8. ASSUME NEW i \in DOMAIN stream, Pipeline!Redeliver(i) \/ Pipeline!RedeliverEarly(i)
        PROVE  FlowInv'
    BY <1>2, <2>8, RequeueInv
  <2> QED
    BY <1>2, <2>1, <2>2, <2>3, <2>4, <2>5, <2>6, <2>7, <2>8 DEF Pipeline!AuditNext, Pipeline!WorkerStep
<1>3. ASSUME UNCHANGED Pipeline!vars PROVE FlowInv'
  BY <1>3, FlowStutters
<1>4. Pipeline!Drained => UNCHANGED Pipeline!vars
  BY DEF Pipeline!Drained
<1> QED
  BY <1>1, <1>2, <1>3, <1>4 DEF Pipeline!Next

LEMMA FlowInvariance == Pipeline!Spec => []FlowInv
  BY FlowInitial, FlowInductive, PTL DEF Pipeline!Spec

\* No event is lost on the way, for any number of relays, workers, events and
\* faults: relayBatch commits a row as published only after the stream has its
\* message, and record acknowledges only what the ledger has.
THEOREM NothingLostHolds == Pipeline!Spec => []NothingLost
<1>1. FlowInv => NothingLost
  BY DEF FlowInv, Stored, Recorded, NothingLost, Pipeline!NothingLost
<1> QED
  BY <1>1, FlowInvariance, PTL

\* Every duplicate costs a fault: the entries of an event are at most one more
\* than the crashes, lost answers and timeouts, however the relays race for
\* the rows and the callbacks for the messages.
THEOREM DuplicatesCostFaultsHolds == Pipeline!Spec => []DuplicatesCostFaults
<1>1. ASSUME FlowInv PROVE DuplicatesCostFaults
  <2> SUFFICES ASSUME NEW e \in Pipeline!Events PROVE ledger[e] <= 1 + mishaps
    BY DEF DuplicatesCostFaults, Pipeline!DuplicatesCostFaults
  <2>1. ledger[e] + Spare(e) + Cardinality(Live(e)) + Cardinality(Hands(e)) <= 1 + mishaps
    BY <1>1 DEF FlowInv, Budget
  <2>2. /\ ledger[e] \in Nat /\ mishaps \in Nat
        /\ Cardinality(Live(e)) \in Nat /\ Cardinality(Hands(e)) \in Nat
    BY <1>1, WorkerTypes
  <2>3. Spare(e) \in Nat
    BY DEF Spare
  <2>4. PICK b \in Nat, s \in Nat, c \in Nat, d \in Nat, n \in Nat :
          /\ b = ledger[e] /\ s = Spare(e) /\ n = mishaps
          /\ c = Cardinality(Live(e)) /\ d = Cardinality(Hands(e))
    BY <2>2, <2>3
  <2>5. b + s + c + d <= 1 + n
    BY <2>1, <2>4
  <2>6. b <= 1 + n
    BY ONLY <2>5, b \in Nat, s \in Nat, c \in Nat, d \in Nat, n \in Nat
  <2> QED
    BY <2>4, <2>6
<1> QED
  BY <1>1, FlowInvariance, PTL

\* What is committed, as EventDelivery sees it.
Committed == {e \in Pipeline!Events : rows[e] # "absent"}

\* The relays commit use cases, and change nothing else that is promised.
LEMMA RelayRefines ==
  ASSUME FlowInv, Pipeline!RelayNext
  PROVE  \/ \E e \in Pipeline!Events : e \notin Committed /\ Committed' = Committed \cup {e}
         \/ Committed' = Committed
<1>1. rows \in [Pipeline!Events -> {"absent", "pending", "published"}]
  BY FlowTypes DEF FlowInv
<1>2. ASSUME NEW e \in Pipeline!Events, Pipeline!Write(e)
      PROVE  e \notin Committed /\ Committed' = Committed \cup {e}
  <2>1. rows[e] = "absent" /\ rows' = [rows EXCEPT ![e] = "pending"]
    BY <1>2 DEF Pipeline!Write
  <2> QED
    BY <1>1, <2>1 DEF Committed, Pipeline!Events
<1>3. ASSUME NEW r \in Relays, Pipeline!CommitBatch(r) PROVE Committed' = Committed
  <2>1. rows' = [e \in Pipeline!Events |-> IF e \in relay[r].marked THEN "published" ELSE rows[e]]
    BY <1>3 DEF Pipeline!CommitBatch
  <2>2. \A e \in relay[r].marked : rows[e] = "pending"
    BY DEF FlowInv, Locked, Pipeline!Held
  <2>3. \A e \in Pipeline!Events : rows'[e] = "absent" <=> rows[e] = "absent"
    BY <2>1, <2>2
  <2> QED
    BY <2>3 DEF Committed, Pipeline!Events
<1>4. ASSUME UNCHANGED rows PROVE Committed' = Committed
  BY <1>4 DEF Committed, Pipeline!Events
<1>5. ASSUME NEW r \in Relays,
             Pipeline!Claim(r) \/ Pipeline!PublishNext(r) \/ Pipeline!MarkPublished(r)
               \/ Pipeline!PublishFails(r) \/ Pipeline!Abort(r)
      PROVE  UNCHANGED rows
  BY <1>5 DEF Pipeline!Claim, Pipeline!PublishNext, Pipeline!MarkPublished, Pipeline!PublishFails,
         Pipeline!Abort
<1> QED
  BY <1>2, <1>3, <1>4, <1>5 DEF Pipeline!RelayNext, Pipeline!RelayStep

\* The callbacks record what is committed, one entry at a time.
LEMMA AuditRefines ==
  ASSUME FlowInv, Pipeline!AuditNext
  PROVE  \/ \E e \in Committed : ledger' = [ledger EXCEPT ![e] = @ + 1]
         \/ UNCHANGED ledger
<1>1. ASSUME NEW w \in Workers, Pipeline!Insert(w) \/ Pipeline!InsertFails(w)
      PROVE  Pipeline!EventAt(w) \in Committed
  <2>1. worker[w].pc = "record" /\ Pipeline!EventAt(w) \in Pipeline!Events
    BY <1>1 DEF Pipeline!Insert, Pipeline!InsertFails
  <2>2. worker[w].msg \in DOMAIN stream
    BY <2>1, WorkerTypes
  <2>3. Pipeline!Copies(Pipeline!EventAt(w)) # {}
    BY <2>2 DEF Pipeline!Copies, Pipeline!EventAt
  <2> QED
    BY <2>1, <2>3 DEF FlowInv, Stored, Committed
<1>2. ASSUME NEW w \in Workers, Pipeline!Insert(w) \/ Pipeline!InsertFails(w)
      PROVE  \/ ledger' = [ledger EXCEPT ![Pipeline!EventAt(w)] = @ + 1]
             \/ UNCHANGED ledger
  BY <1>2 DEF Pipeline!Insert, Pipeline!InsertFails
<1>3. ASSUME NEW w \in Workers,
             Pipeline!Receive(w) \/ Pipeline!TermPoison(w) \/ Pipeline!Ack(w)
               \/ Pipeline!Nak(w) \/ Pipeline!Drop(w)
      PROVE  UNCHANGED ledger
  BY <1>3 DEF Pipeline!Receive, Pipeline!TermPoison, Pipeline!Ack, Pipeline!Nak, Pipeline!Drop
<1>4. ASSUME NEW i \in DOMAIN stream, Pipeline!Redeliver(i) \/ Pipeline!RedeliverEarly(i)
      PROVE  UNCHANGED ledger
  BY <1>4 DEF Pipeline!Redeliver, Pipeline!RedeliverEarly
<1> QED
  BY <1>1, <1>2, <1>3, <1>4 DEF Pipeline!AuditNext, Pipeline!WorkerStep

\* The pipeline implements EventDelivery: only what a use case committed is
\* ever recorded, and the ledger only grows, an entry at a time.  (That all of
\* it is recorded in the end is AtLeastOnce, which TLC checks.)
THEOREM DeliveryImplemented == Pipeline!Spec => Pipeline!Delivery!Safety
<1>1. Pipeline!Init => Pipeline!Delivery!Init
  BY DEF Pipeline!Init, Pipeline!RelayInit, Pipeline!AuditInit, Pipeline!Delivery!Init
<1>2. ASSUME FlowInv, [Pipeline!Next]_(Pipeline!vars)
      PROVE  [Pipeline!Delivery!Next]_<<Committed, ledger>>
  <2>1. ASSUME Pipeline!RelayNext, UNCHANGED <<worker, ledger>>
        PROVE  [Pipeline!Delivery!Next]_<<Committed, ledger>>
    BY <1>2, <2>1, RelayRefines DEF Pipeline!Delivery!Next, Pipeline!Delivery!Commit, Committed
  <2>2. ASSUME Pipeline!AuditNext, UNCHANGED <<rows, relay>>
        PROVE  [Pipeline!Delivery!Next]_<<Committed, ledger>>
    BY <1>2, <2>2, AuditRefines DEF Pipeline!Delivery!Next, Pipeline!Delivery!Record, Committed
  <2>3. ASSUME UNCHANGED Pipeline!vars PROVE UNCHANGED <<Committed, ledger>>
    BY <2>3 DEF Pipeline!vars, Committed, Pipeline!Events
  <2> QED
    BY <1>2, <2>1, <2>2, <2>3 DEF Pipeline!Next, Pipeline!Drained
<1> QED
  BY <1>1, <1>2, FlowInvariance, PTL DEF Pipeline!Spec, Pipeline!Delivery!Safety, Committed
=============================================================================
