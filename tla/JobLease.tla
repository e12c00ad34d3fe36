------------------------------ MODULE JobLease ------------------------------
(***************************************************************************)
(* One scheduled job on all worker replicas (jobs.go) and the Redis lease  *)
(* it takes before it runs (lock.go).  The job's own work uses MarkOnce,   *)
(* the guard against repeated runs within a period.                        *)
(*                                                                         *)
(* A period is one interval Every: each replica's ticker fires once in it. *)
(* The lease's random token is modelled by the replica that minted it: a   *)
(* replica has at most one Lease in hand.                                  *)
(***************************************************************************)
EXTENDS Naturals, FiniteSets

CONSTANTS Replicas,   \* worker replicas that registered the job
          MaxFaults,  \* bound on crashes, panics and Redis failures
          None        \* no key

ASSUME JobAssumption == /\ MaxFaults \in Nat
                        /\ None \notin Replicas

VARIABLES mode,    \* Job.Mode, as registered
          covers,  \* Job.LeaseTTL outlasts every run
          key,     \* value of job:<name> in Redis
          job,     \* the job's goroutine on each replica
          ticked,  \* replicas whose ticker fired in this period
          marker,  \* is this period's MarkOnce key set
          fired,   \* runs started in this period (history)
          worked,  \* runs that won MarkOnce in this period (history)
          faults

vars == <<mode, covers, key, job, ticked, marker, fired, worked, faults>>

\* lease: a *Lease is in hand; lapsed: its TTL has passed (history).
Job == [pc : {"waiting", "running", "working", "releasing", "dead"},
        lease : BOOLEAN, lapsed : BOOLEAN]
Waiting == [pc |-> "waiting", lease |-> FALSE, lapsed |-> FALSE]
Dead == [pc |-> "dead", lease |-> FALSE, lapsed |-> FALSE]

TypeOK == /\ mode \in {"FailClosed", "FailOpen"} /\ covers \in BOOLEAN
          /\ key \in Replicas \cup {None}
          /\ job \in [Replicas -> Job]
          /\ ticked \subseteq Replicas
          /\ marker \in BOOLEAN
          /\ fired \in 0..2 /\ worked \in 0..2
          /\ faults \in 0..MaxFaults

\* Register: any job, well chosen or not.
Init == /\ mode \in {"FailClosed", "FailOpen"} /\ covers \in BOOLEAN
        /\ key = None
        /\ job = [i \in Replicas |-> Waiting]
        /\ ticked = {} /\ marker = FALSE /\ fired = 0 /\ worked = 0
        /\ faults = 0

Fault == faults < MaxFaults /\ faults' = faults + 1
Saturated(n) == IF n < 2 THEN n + 1 ELSE n
Running(i) == job[i].pc \in {"running", "working"}

\* job.Run starts, with the lease or (fail-open) without one.
Start(i, lease) ==
  /\ job' = [job EXCEPT ![i] = [pc |-> "running", lease |-> lease, lapsed |-> FALSE]]
  /\ fired' = Saturated(fired)

\* job.Run is over; runOnce releases the lease it has, if any.
Return(i) ==
  job' = [job EXCEPT ![i].pc = IF job[i].lease THEN "releasing" ELSE "waiting"]

-----------------------------------------------------------------------------
(* runOnce *)

Tick(i) == /\ job[i].pc = "waiting" /\ i \notin ticked
           /\ ticked' = ticked \cup {i}

Acquire(i) ==
  /\ Tick(i)
  /\ \/ /\ key = None
        /\ key' = i
        /\ Start(i, TRUE)
     \/ /\ key # None   \* somebody holds it: skip
        /\ UNCHANGED <<key, job, fired>>
  /\ UNCHANGED <<mode, covers, marker, worked, faults>>

\* Mutant: the fail-closed branch logs and forgets to return.
AcquireErrorRunsAnyway(i) ==
  /\ Tick(i)
  /\ Fault
  /\ Start(i, FALSE)
  /\ UNCHANGED <<mode, covers, key, marker, worked>>

\* SetNX returns an error.  Redis may have set the key all the same: then no
\* replica holds a Lease for it, and only its TTL frees it.
AcquireError(i) ==
  /\ Tick(i)
  /\ Fault
  /\ \/ key = None /\ key' = i
     \/ UNCHANGED key
  /\ IF mode = "FailClosed" THEN UNCHANGED <<job, fired>> ELSE Start(i, FALSE)
  /\ UNCHANGED <<mode, covers, marker, worked>>

\* Mutant: GET of the marker and a later SET, instead of one SET NX.
MarkOnceUnguarded(i) ==
  /\ job[i].pc = "running"
  /\ job' = [job EXCEPT ![i].pc = "working"]
  /\ marker' = TRUE
  /\ worked' = Saturated(worked)
  /\ UNCHANGED <<mode, covers, key, ticked, fired, faults>>

\* MarkOnce inside Run: the winner goes on to this period's work.
MarkOnce(i) ==
  /\ job[i].pc = "running"
  /\ \/ /\ ~marker
        /\ marker' = TRUE
        /\ job' = [job EXCEPT ![i].pc = "working"]
        /\ worked' = Saturated(worked)
     \/ /\ marker
        /\ Return(i)
        /\ UNCHANGED <<marker, worked>>
  /\ UNCHANGED <<mode, covers, key, ticked, fired, faults>>

\* Redis does not answer, with the marker set or not: Run returns the error.
MarkOnceError(i) ==
  /\ job[i].pc = "running"
  /\ Fault
  /\ marker' \in {marker, TRUE}
  /\ Return(i)
  /\ UNCHANGED <<mode, covers, key, ticked, fired, worked>>

\* Run returns, with or without an error.
RunReturns(i) ==
  /\ job[i].pc = "working"
  /\ Return(i)
  /\ UNCHANGED <<mode, covers, key, ticked, marker, fired, worked, faults>>

\* Mutant: DEL without comparing the token.
ReleaseAny(i) ==
  /\ job[i].pc = "releasing"
  /\ key' = None
  /\ job' = [job EXCEPT ![i] = Waiting]
  /\ UNCHANGED <<mode, covers, ticked, marker, fired, worked, faults>>

\* Mutant: the key is blanked, not deleted.
ReleaseBlanks(i) ==
  /\ job[i].pc = "releasing"
  /\ key' = IF key = i THEN "" ELSE key
  /\ job' = [job EXCEPT ![i] = Waiting]
  /\ UNCHANGED <<mode, covers, ticked, marker, fired, worked, faults>>

\* releaseScript: delete the key only when it still holds our token.
Release(i) ==
  /\ job[i].pc = "releasing"
  /\ key' = IF key = i THEN None ELSE key
  /\ job' = [job EXCEPT ![i] = Waiting]
  /\ UNCHANGED <<mode, covers, ticked, marker, fired, worked, faults>>

\* The release fails (Redis down, context cancelled): logged, no more.
ReleaseFails(i) ==
  /\ job[i].pc = "releasing"
  /\ Fault
  /\ job' = [job EXCEPT ![i] = Waiting]
  /\ UNCHANGED <<mode, covers, key, ticked, marker, fired, worked>>

\* The process dies and starts again: its lease is nobody's.
Crash(i) ==
  /\ job[i].pc \notin {"waiting", "dead"}
  /\ Fault
  /\ job' = [job EXCEPT ![i] = Waiting]
  /\ UNCHANGED <<mode, covers, key, ticked, marker, fired, worked>>

\* Run panics: safe.Go recovers and the ticker goroutine is gone, its lease
\* unreleased.
Panic(i) ==
  /\ Running(i)
  /\ Fault
  /\ job' = [job EXCEPT ![i] = Dead]
  /\ UNCHANGED <<mode, covers, key, ticked, marker, fired, worked>>

-----------------------------------------------------------------------------
(* Time *)

\* Mutant: SET NX without a TTL.
LeaseNeverLapses == FALSE /\ UNCHANGED vars

\* The TTL passes.  It covers the run when LeaseTTL was chosen as its comment
\* asks.
LeaseLapses ==
  /\ key # None
  /\ covers => ~(job[key].lease /\ ~job[key].lapsed /\ Running(key))
  /\ key' = None
  /\ job' = [job EXCEPT ![key].lapsed = @ \/ job[key].lease]
  /\ UNCHANGED <<mode, covers, ticked, marker, fired, worked, faults>>

\* The next period: every ticker that can fire has.
NewPeriod ==
  /\ \A i \in Replicas : i \in ticked \/ job[i].pc # "waiting"
  /\ ticked' = {} /\ marker' = FALSE /\ fired' = 0 /\ worked' = 0
  /\ UNCHANGED <<mode, covers, key, job, faults>>

Step(i) == Acquire(i) \/ MarkOnce(i) \/ RunReturns(i) \/ Release(i)

Next == \/ \E i \in Replicas : \/ Step(i) \/ AcquireError(i) \/ MarkOnceError(i)
                               \/ ReleaseFails(i) \/ Crash(i) \/ Panic(i)
        \/ LeaseLapses
        \/ NewPeriod

Spec == Init /\ [][Next]_vars

\* Goroutines run, tickers tick, keys with a TTL expire; faults are finitely
\* many and none has to happen.
FairSpec == /\ Spec
            /\ \A i \in Replicas : WF_vars(Step(i))
            /\ WF_vars(LeaseLapses) /\ WF_vars(NewPeriod)

-----------------------------------------------------------------------------

\* jobs.go: "The lease (here) prevents CONCURRENT runs across instances".
\* True of a fail-closed job whose LeaseTTL covers its run, whatever crashes
\* and whichever Redis call fails.
OneAtATime == mode = "FailClosed" /\ covers =>
  \A i, j \in Replicas : Running(i) /\ Running(j) => i = j

\* A replica that runs within the TTL of its lease owns the key, so nobody
\* else can get one: a holder whose lease lapsed never releases the next
\* holder's (lock.go), in every mode and for every TTL.
LeaseHonoured ==
  \A i \in Replicas :
    Running(i) /\ job[i].lease /\ ~job[i].lapsed => key = i

\* jobs.go: "A run marker (MarkOnce) prevents REPEATED runs within a period",
\* also for a fail-open job and for runs that outlast their lease.
WorkOncePerPeriod == worked <= 1

\* The job never stops firing while a replica's ticker lives: an orphaned
\* lease, of a crashed holder or a lost answer, blocks it only until its TTL.
KeepsFiring == []<>((\E i \in Replicas : Running(i))
                    \/ \A i \in Replicas : job[i].pc = "dead")

\* jobs.go: "scheduled background jobs that fire once cluster-wide".
FiresOnce == fired <= 1
=============================================================================
