----------------------------- MODULE JetStream -----------------------------
(***************************************************************************)
(* The CORE_EVENTS stream and its one durable consumer, "audit-ledger",    *)
(* as the relays and the audit consumer use them (nats.go declares both;   *)
(* the broker itself is not part of the repository).                       *)
(*                                                                         *)
(* The stream keeps every message.  The consumer hands each message out to *)
(* one worker at a time and again after a Nak or when the acknowledgement  *)
(* does not come within AckWait; an Ack or Term settles it for good.       *)
(* Publishing carries no message id, so nothing is deduplicated.           *)
(***************************************************************************)
EXTENDS Naturals, Sequences, FiniteSets

CONSTANTS NumEvents,  \* bound on the events written to the outbox
          Poison,     \* messages others put on the stream that are not JSON
          MaxFaults   \* bound on crashes, lost answers and timeouts

\* The outbox rows, numbered in the order of occurred_at.
Events == 1..NumEvents

VARIABLES stream,  \* messages in stream order, each with its consumer state
          faults   \* faults so far

Message == [msg : Events \cup Poison, state : {"queued", "out", "settled"}]

StreamTypeOK == stream \in Seq(Message) /\ faults \in 0..MaxFaults

\* Poison messages are there from the start, the relays add the rest.
StreamInit ==
  /\ stream \in [1..Cardinality(Poison) -> [msg : Poison, state : {"queued"}]]
  /\ \A m \in Poison : \E i \in DOMAIN stream : stream[i].msg = m
  /\ faults = 0

Copies(e) == {i \in DOMAIN stream : stream[i].msg = e}

\* Publish returns once the stream has stored the message.
Store(e) == stream' = Append(stream, [msg |-> e, state |-> "queued"])

\* Hand out, acknowledge or terminate, and negatively acknowledge; a message
\* that is settled stays so.
HandOut(i) == /\ stream[i].state = "queued"
              /\ stream' = [stream EXCEPT ![i].state = "out"]
Settle(i) == stream' = [stream EXCEPT ![i].state = "settled"]
Requeue(i) == stream' = [stream EXCEPT ![i].state =
                           IF @ = "settled" THEN @ ELSE "queued"]

\* One more thing goes wrong.
Fault == faults < MaxFaults /\ faults' = faults + 1
=============================================================================
