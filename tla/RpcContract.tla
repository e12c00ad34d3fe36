----------------------------- MODULE RpcContract -----------------------------
(***************************************************************************)
(* What a client may conclude from the answer to a call.  "ok": the work   *)
(* is done.  "refused": it is not done and never will be, so it is safe to *)
(* correct the call and try again.  "unknown": the work may be done, be    *)
(* under way or never happen.  A call is answered once and takes effect at *)
(* most once.                                                              *)
(***************************************************************************)
CONSTANT Calls

VARIABLES effect,  \* the call's work is done
          verdict  \* what its client was told

contractVars == <<effect, verdict>>

Init == /\ effect = [c \in Calls |-> FALSE]
        /\ verdict = [c \in Calls |-> "none"]

TakeEffect(c) == /\ ~effect[c] /\ verdict[c] # "refused"
                 /\ effect' = [effect EXCEPT ![c] = TRUE]
                 /\ UNCHANGED verdict

Answer(c, v) == /\ verdict[c] = "none"
                /\ v = "ok" => effect[c]
                /\ v = "refused" => ~effect[c]
                /\ verdict' = [verdict EXCEPT ![c] = v]
                /\ UNCHANGED effect

Next == \E c \in Calls : \/ TakeEffect(c)
                         \/ \E v \in {"ok", "refused", "unknown"} : Answer(c, v)

Spec == Init /\ [][Next]_contractVars
=============================================================================
