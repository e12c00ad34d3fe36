---------------------------- MODULE OutboxRelay ----------------------------
(***************************************************************************)
(* The transactional outbox and the relays that drain it onto the stream:  *)
(* OutboxPublisher and OutboxRelay, which the identity and the example     *)
(* module each have over a table of their own, with the same code.  Every  *)
(* worker replica runs a relay.                                            *)
(***************************************************************************)
EXTENDS JetStream

CONSTANTS Relays,    \* the relays of the worker replicas
          BatchSize  \* relayBatchSize

VARIABLES rows,  \* "absent", "pending" (published_at IS NULL) or "published"
          relay  \* the transaction of each relay

\* todo and marked are the rows a relay has locked: still to publish, and
\* marked published inside its transaction.
Relay == [pc : {"idle", "publish", "mark", "commit"},
          todo : SUBSET Events, marked : SUBSET Events]
IdleRelay == [pc |-> "idle", todo |-> {}, marked |-> {}]

RelayTypeOK == /\ rows \in [Events -> {"absent", "pending", "published"}]
               /\ relay \in [Relays -> Relay]

RelayInit == /\ rows = [e \in Events |-> "absent"]
             /\ relay = [r \in Relays |-> IdleRelay]

Held(r) == relay[r].todo \cup relay[r].marked
First(S) == CHOOSE e \in S : \A d \in S : e <= d
Current(r) == First(relay[r].todo)

-----------------------------------------------------------------------------

\* OutboxPublisher.Publish, once the caller's transaction commits.  Commits
\* come in any order, not that of occurred_at.
Write(e) == /\ rows[e] = "absent"
            /\ rows' = [rows EXCEPT ![e] = "pending"]
            /\ UNCHANGED <<relay, stream, faults>>

\* Mutant: FOR UPDATE SKIP LOCKED is forgotten.
ClaimableLocked(r) == {e \in Events : rows[e] = "pending"}

\* Rows the claim may return: unpublished, and not locked by another relay.
Claimable(r) ==
  {e \in Events : /\ rows[e] = "pending"
                  /\ \A q \in Relays \ {r} : e \notin Held(q)}

\* A tick: BEGIN, and the oldest claimable rows are locked.  A tick that finds
\* none changes nothing.
Claim(r) ==
  /\ relay[r].pc = "idle"
  /\ Claimable(r) # {}
  /\ relay' = [relay EXCEPT ![r] =
       [pc |-> "publish", marked |-> {},
        todo |-> {e \in Claimable(r) :
                    Cardinality({d \in Claimable(r) : d < e}) < BatchSize}]]
  /\ UNCHANGED <<rows, stream, faults>>

PublishNext(r) ==
  /\ relay[r].pc = "publish"
  /\ Store(Current(r))
  /\ relay' = [relay EXCEPT ![r].pc = "mark"]
  /\ UNCHANGED <<rows, faults>>

\* Mutant: the error is logged and the row marked all the same.
PublishFailsAndMarks(r) ==
  /\ relay[r].pc = "publish"
  /\ Fault
  /\ relay' = [relay EXCEPT ![r].pc = "mark"]
  /\ UNCHANGED <<rows, stream>>

\* Publish returns an error: the message was not stored, or it was and its
\* acknowledgement is missing.  The whole batch rolls back.
PublishFails(r) ==
  /\ relay[r].pc = "publish"
  /\ Fault
  /\ Store(Current(r)) \/ UNCHANGED stream
  /\ relay' = [relay EXCEPT ![r] = IdleRelay]
  /\ UNCHANGED rows

MarkPublished(r) ==
  /\ relay[r].pc = "mark"
  /\ LET e == Current(r) IN
     relay' = [relay EXCEPT ![r] =
       [pc |-> IF relay[r].todo = {e} THEN "commit" ELSE "publish",
        todo |-> relay[r].todo \ {e},
        marked |-> relay[r].marked \cup {e}]]
  /\ UNCHANGED <<rows, stream, faults>>

CommitBatch(r) ==
  /\ relay[r].pc = "commit"
  /\ rows' = [e \in Events |-> IF e \in relay[r].marked THEN "published" ELSE rows[e]]
  /\ relay' = [relay EXCEPT ![r] = IdleRelay]
  /\ UNCHANGED <<stream, faults>>

\* The worker dies or is cancelled, or a statement or the commit fails: the
\* locks and the marks are gone, what was published is not.
Abort(r) ==
  /\ relay[r].pc # "idle"
  /\ Fault
  /\ relay' = [relay EXCEPT ![r] = IdleRelay]
  /\ UNCHANGED <<rows, stream>>

RelayStep(r) == Claim(r) \/ PublishNext(r) \/ MarkPublished(r) \/ CommitBatch(r)
RelayNext == \/ \E e \in Events : Write(e)
             \/ \E r \in Relays : RelayStep(r) \/ PublishFails(r) \/ Abort(r)
=============================================================================
