----------------------------- MODULE NoteStore -----------------------------
(***************************************************************************)
(* What the example module promises its callers: every note is a register  *)
(* changed by compare-and-set on its version, and every change, and only   *)
(* a change, adds its event to the log, in one step.                       *)
(***************************************************************************)
EXTENDS Naturals, Sequences

CONSTANTS Notes, Bodies

VARIABLES version,  \* 0: there is no such note
          body,
          log       \* the events recorded so far

vars == <<version, body, log>>

None == "none"

Event(n, v, b) == [note |-> n, version |-> v, body |-> b]

Init == /\ version = [n \in Notes |-> 0]
        /\ body = [n \in Notes |-> None]
        /\ log = <<>>

Create(n, b) ==
  /\ version[n] = 0
  /\ version' = [version EXCEPT ![n] = 1]
  /\ body' = [body EXCEPT ![n] = b]
  /\ log' = Append(log, Event(n, 1, b))

\* seen is the version the caller read before it wrote.
Update(n, seen, b) ==
  /\ seen > 0 /\ version[n] = seen
  /\ version' = [version EXCEPT ![n] = seen + 1]
  /\ body' = [body EXCEPT ![n] = b]
  /\ log' = Append(log, Event(n, seen + 1, b))

Next == \E n \in Notes, b \in Bodies :
          Create(n, b) \/ \E seen \in {version[n]} : Update(n, seen, b)

Spec == Init /\ [][Next]_vars
=============================================================================
