--------------------------- MODULE EventPipeline ---------------------------
(***************************************************************************)
(* From a committed use case to the audit ledger: the outbox relays and    *)
(* the audit consumer of all worker replicas around one stream.            *)
(***************************************************************************)
EXTENDS OutboxRelay, AuditConsumer

vars == <<stream, faults, rows, relay, worker, ledger>>

TypeOK == StreamTypeOK /\ RelayTypeOK /\ AuditTypeOK

Init == StreamInit /\ RelayInit /\ AuditInit

\* Every event is recorded and nothing is under way: only idle ticks are left.
Drained == /\ \A e \in Events : rows[e] = "published"
           /\ \A i \in DOMAIN stream : stream[i].state = "settled"
           /\ UNCHANGED vars

Next == \/ RelayNext /\ UNCHANGED <<worker, ledger>>
        \/ AuditNext /\ UNCHANGED <<rows, relay>>
        \/ Drained

Spec == Init /\ [][Next]_vars

\* Relays tick forever and their statements return, callbacks run to their
\* end, the broker hands out what is queued and times out what is not
\* answered.  Faults are finitely many (MaxFaults); nothing obliges one, or a
\* use case, to happen.
FairSpec ==
  /\ Spec
  /\ \A r \in Relays : WF_vars(RelayStep(r) /\ UNCHANGED <<worker, ledger>>)
  /\ \A w \in Workers : WF_vars(WorkerStep(w) /\ UNCHANGED <<rows, relay>>)
  /\ WF_vars(/\ \E i \in DOMAIN stream : Redeliver(i)
             /\ UNCHANGED <<rows, relay>>)

-----------------------------------------------------------------------------

\* No event is lost on the way: a row marked published is on the stream, and a
\* message that is settled is in the ledger, whatever failed in between
\* (relayBatch, record).
NothingLost ==
  /\ \A e \in Events : rows[e] = "published" => Copies(e) # {}
  /\ \A i \in DOMAIN stream :
       stream[i].state = "settled" /\ stream[i].msg \in Events
         => ledger[stream[i].msg] > 0

\* Every duplicate costs a fault: however many relays and workers race over
\* the rows and the messages, the ledger has one entry per event plus at most
\* one for each crash, lost answer or timeout.
DuplicatesCostFaults == \A e \in Events : ledger[e] <= 1 + faults

\* At-least-once delivery: the pipeline implements EventDelivery.
Delivery == INSTANCE EventDelivery WITH
  committed <- {e \in Events : rows[e] # "absent"},
  recorded <- ledger
AtLeastOnce == Delivery!Spec

\* docs/07-operations.md: "N worker replicas fire each job and relay each
\* event once".
RelayedOnce == \A e \in Events : Cardinality(Copies(e)) <= 1
=============================================================================
