--------------------------- MODULE EventDelivery ---------------------------
(***************************************************************************)
(* What the event pipeline promises: every event whose transaction         *)
(* committed is recorded in the ledger at least once, no other event ever  *)
(* is, and the ledger only grows.                                          *)
(***************************************************************************)
EXTENDS Naturals

CONSTANT Events

VARIABLES committed,  \* events whose transaction committed
          recorded    \* ledger entries per event

Init == committed = {} /\ recorded = [e \in Events |-> 0]

Commit(e) == /\ e \notin committed
             /\ committed' = committed \cup {e}
             /\ UNCHANGED recorded

Record(e) == /\ e \in committed
             /\ recorded' = [recorded EXCEPT ![e] = @ + 1]
             /\ UNCHANGED committed

Next == \E e \in Events : Commit(e) \/ Record(e)

Safety == Init /\ [][Next]_<<committed, recorded>>

\* Only the first entry of an event is promised.
Spec == Safety /\ \A e \in Events : e \in committed ~> recorded[e] > 0
=============================================================================
