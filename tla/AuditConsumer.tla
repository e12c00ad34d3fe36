--------------------------- MODULE AuditConsumer ---------------------------
(***************************************************************************)
(* Consumer.record (consumer.go): every worker replica binds the durable   *)
(* consumer and handles one message at a time, with an insert into the     *)
(* append-only ledger and an Ack, Nak or Term.                             *)
(***************************************************************************)
EXTENDS JetStream

CONSTANT Workers  \* the worker replicas' callbacks

VARIABLES worker,  \* what each callback is doing
          ledger   \* audit.entries rows per event

\* msg is the index of the message in the stream, 0 when there is none.
Worker == [pc : {"idle", "record", "ack", "nak"}, msg : Nat]
IdleWorker == [pc |-> "idle", msg |-> 0]

AuditTypeOK == /\ worker \in [Workers -> Worker]
               /\ \A w \in Workers : worker[w].msg \in 0..Len(stream)
               /\ ledger \in [Events -> Nat]

AuditInit == /\ worker = [w \in Workers |-> IdleWorker]
             /\ ledger = [e \in Events |-> 0]

EventAt(w) == stream[worker[w].msg].msg
Idle(w) == worker' = [worker EXCEPT ![w] = IdleWorker]
Move(w, pc) == worker' = [worker EXCEPT ![w].pc = pc]

-----------------------------------------------------------------------------

\* Mutant: the message is addressed by the sequence number after its own.
ReceiveOffByOne(w) ==
  /\ worker[w].pc = "idle"
  /\ \E i \in DOMAIN stream :
       /\ HandOut(i)
       /\ worker' = [worker EXCEPT ![w] = [pc |-> "record", msg |-> i + 1]]
  /\ UNCHANGED <<ledger, faults>>

Receive(w) ==
  /\ worker[w].pc = "idle"
  /\ \E i \in DOMAIN stream :
       /\ HandOut(i)
       /\ worker' = [worker EXCEPT ![w] = [pc |-> "record", msg |-> i]]
  /\ UNCHANGED <<ledger, faults>>

\* Unparseable JSON: Term, and nothing is recorded.
TermPoison(w) ==
  /\ worker[w].pc = "record"
  /\ EventAt(w) \in Poison
  /\ Settle(worker[w].msg)
  /\ Idle(w)
  /\ UNCHANGED <<ledger, faults>>

Insert(w) ==
  /\ worker[w].pc = "record"
  /\ EventAt(w) \in Events
  /\ ledger' = [ledger EXCEPT ![EventAt(w)] = @ + 1]
  /\ Move(w, "ack")
  /\ UNCHANGED <<stream, faults>>

\* Mutant: the error is logged and the message acknowledged all the same.
InsertFailsAndAcks(w) ==
  /\ worker[w].pc = "record"
  /\ EventAt(w) \in Events
  /\ Fault
  /\ Move(w, "ack")
  /\ UNCHANGED <<stream, ledger>>

\* The insert (or minting its id) fails, or its 5 s timeout cuts off an
\* insert that the database has done.
InsertFails(w) ==
  /\ worker[w].pc = "record"
  /\ EventAt(w) \in Events
  /\ Fault
  /\ \/ ledger' = [ledger EXCEPT ![EventAt(w)] = @ + 1]
     \/ UNCHANGED ledger
  /\ Move(w, "nak")
  /\ UNCHANGED stream

Ack(w) ==
  /\ worker[w].pc = "ack"
  /\ Settle(worker[w].msg)
  /\ Idle(w)
  /\ UNCHANGED <<ledger, faults>>

Nak(w) ==
  /\ worker[w].pc = "nak"
  /\ Requeue(worker[w].msg)
  /\ Idle(w)
  /\ UNCHANGED <<ledger, faults>>

\* The worker dies, or its Ack, Nak or Term, whose error nobody looks at, is
\* lost.
Drop(w) ==
  /\ worker[w].pc # "idle"
  /\ Fault
  /\ Idle(w)
  /\ UNCHANGED <<stream, ledger>>

\* AckWait is over for a message no callback works on any more, ...
Redeliver(i) ==
  /\ stream[i].state = "out"
  /\ \A w \in Workers : worker[w].msg # i
  /\ Requeue(i)
  /\ UNCHANGED <<worker, ledger, faults>>

\* ... or, too early, for one that a slow callback still holds.
RedeliverEarly(i) ==
  /\ stream[i].state = "out"
  /\ \E w \in Workers : worker[w].msg = i
  /\ Fault
  /\ Requeue(i)
  /\ UNCHANGED <<worker, ledger>>

WorkerStep(w) == Receive(w) \/ TermPoison(w) \/ Insert(w) \/ Ack(w) \/ Nak(w)
AuditNext == \/ \E w \in Workers : WorkerStep(w) \/ InsertFails(w) \/ Drop(w)
             \/ \E i \in DOMAIN stream : Redeliver(i) \/ RedeliverEarly(i)
=============================================================================
