------------------------------ MODULE MCWorker ------------------------------
(***************************************************************************)
(* Instances for TLC of what the worker replicas run: scheduled jobs under *)
(* their leases, and the relays and audit consumers around the stream.     *)
(* The two share no state, so a behaviour exercises one of them while the  *)
(* other stays as it began.                                                *)
(***************************************************************************)
EXTENDS JobLease

CONSTANTS Relays, Workers, NumEvents, BatchSize, Poison, PipelineFaults

VARIABLES part, stream, mishaps, rows, relay, worker, ledger

\* relayBatchSize is positive, and what is not JSON is none of the events.
ASSUME PipelineAssumption ==
  /\ NumEvents \in Nat /\ BatchSize \in Nat \ {0} /\ PipelineFaults \in Nat
  /\ IsFiniteSet(Poison) /\ IsFiniteSet(Workers)
  /\ Poison \cap (1..NumEvents) = {}

Pipeline == INSTANCE EventPipeline WITH MaxFaults <- PipelineFaults, faults <- mishaps

pipelineVars == <<stream, mishaps, rows, relay, worker, ledger>>
allVars == <<vars, pipelineVars, part>>

\* The part that stays as it began begins in one way only.
WorkerInit == /\ part \in {"jobs", "events"}
              /\ Init /\ Pipeline!Init
              /\ part = "events" => mode = "FailClosed" /\ covers

OnJobs(A) == part = "jobs" /\ A /\ UNCHANGED <<pipelineVars, part>>
OnEvents(A) == part = "events" /\ A /\ UNCHANGED <<vars, part>>

WorkerNext == OnJobs(Next) \/ OnEvents(Pipeline!Next)

\* The fairness of the FairSpec of JobLease and of EventPipeline.
WorkerSpec ==
  /\ WorkerInit /\ [][WorkerNext]_allVars
  /\ \A i \in Replicas : WF_allVars(OnJobs(Step(i)))
  /\ WF_allVars(OnJobs(LeaseLapses)) /\ WF_allVars(OnJobs(NewPeriod))
  /\ \A r \in Relays : WF_allVars(OnEvents(Pipeline!RelayStep(r) /\ UNCHANGED <<worker, ledger>>))
  /\ \A w \in Workers : WF_allVars(OnEvents(Pipeline!WorkerStep(w) /\ UNCHANGED <<rows, relay>>))
  /\ WF_allVars(OnEvents(/\ \E i \in DOMAIN stream : Pipeline!Redeliver(i)
                         /\ UNCHANGED <<rows, relay>>))

\* The job keeps firing while a replica lives: see KeepsFiring in JobLease.
JobKeepsFiring == part = "jobs" => KeepsFiring

\* No event is lost on the way: see NothingLost in EventPipeline.
NothingLost == Pipeline!NothingLost

\* Every duplicate costs a fault: see DuplicatesCostFaults in EventPipeline.
DuplicatesCostFaults == Pipeline!DuplicatesCostFaults

\* At-least-once delivery: see AtLeastOnce in EventPipeline.
AtLeastOnce == Pipeline!AtLeastOnce
=============================================================================
