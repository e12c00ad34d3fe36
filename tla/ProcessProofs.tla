---------------------------- MODULE ProcessProofs ----------------------------
(***************************************************************************)
(* Proofs about one call in the proxy, for any number of frames each way,  *)
(* and about the life of a process, for any number of requests: the        *)
(* outcome of a proxied call is true, shutdown cuts no request within its  *)
(* budget, and a process that ends has closed whatever it opened.          *)
(***************************************************************************)
EXTENDS MCRequestPath, SequenceTheorems, TLAPS

-----------------------------------------------------------------------------
(* One proxied call, in Forward *)

\* The types the argument needs; the frames are any number.
CallTyped ==
  /\ replies \in [sent : Nat, taken : Nat, given : Nat]
  /\ ctx \in BOOLEAN /\ header \in BOOLEAN
  /\ upstream \in {"running", "OK", "failed"}
  /\ pump \in [Proxied!Ways -> {"recv", "header", "send", "exit", "gone"}]
  /\ err \in [Proxied!Ways -> Proxied!Errors] /\ channel \in [Proxied!Ways -> Proxied!Errors]
  /\ turns \in 0..2

\* The pump to the client gives each frame before it takes the next, the
\* headers before the first.
Frame ==
  /\ pump["down"] = "recv" => /\ replies.given = replies.taken
                              /\ header <=> replies.taken > 0
  /\ pump["down"] = "header" => /\ replies.taken = 1 /\ replies.given = 0
                                /\ ~header
  /\ pump["down"] = "send" => /\ replies.taken = replies.given + 1
                              /\ header
  /\ pump["down"] \in {"header", "send"} => replies.taken > 0
  /\ replies.taken <= replies.sent

\* The upstream call is over, and the client has all of it.
AllGiven == /\ upstream # "running"
            /\ replies.given = replies.sent /\ replies.taken = replies.sent
            /\ header <=> replies.sent > 0

\* An error says why its pump ended.
Reasons ==
  /\ \A w \in Proxied!Ways : err[w] # "none" <=> pump[w] \in {"exit", "gone"}
  /\ err["down"] = "EOF" => AllGiven /\ upstream = "OK"
  /\ err["down"] = "status" => AllGiven /\ upstream = "failed"
  /\ err["down"] \in {"Canceled", "error"} => Proxied!StreamOver
  /\ err["up"] \in {"none", "EOF", "error"}
  /\ err["up"] = "error" => Proxied!StreamOver \/ client = "broken"

\* A channel holds its pump's error, once.
Channels == \A w \in Proxied!Ways : channel[w] # "none" => channel[w] = err[w] /\ pump[w] = "gone"

\* The loop goes round again only after the client's half-close.
Turns == outcome = "none" =>
  \/ turns = 2
  \/ turns = 1 /\ pump["up"] = "gone" /\ channel["up"] = "none"

\* A reported end of the upstream call stays true of it.
Reported == outcome \in {"OK", "failed"} => AllGiven /\ outcome = upstream /\ pump["down"] = "gone"

\* The inductive invariant.
CallInv == CallTyped /\ Frame /\ Reasons /\ Channels /\ Turns /\ Reported /\ Proxied!OutcomeTrue

\* The inductive invariant holds initially.
LEMMA CallInitial == Proxied!Init => CallInv
<1> SUFFICES ASSUME Proxied!Init PROVE CallInv
  OBVIOUS
<1> USE DEF Proxied!Init, Proxied!None, Proxied!Ways, Proxied!Errors
<1>1. CallTyped
  <2>1. replies \in [sent : Nat, taken : Nat, given : Nat]
    OBVIOUS
  <2>2. ctx \in BOOLEAN /\ header \in BOOLEAN
    BY Zenon
  <2> QED
    BY <2>1, <2>2 DEF CallTyped
<1>2. Frame
  <2>1. /\ replies.given = 0 /\ replies.taken = 0 /\ replies.sent = 0
        /\ header = FALSE /\ pump["down"] = "recv"
    OBVIOUS
  <2> QED
    BY <2>1 DEF Frame
<1>3. Reasons /\ Channels /\ Turns /\ Reported /\ Proxied!OutcomeTrue
  BY DEF Reasons, Channels, Turns, Reported, Proxied!OutcomeTrue
<1> QED
  BY <1>1, <1>2, <1>3 DEF CallInv

\* Client, upstream service and context.
LEMMA EnvironmentSteps == CallInv /\ Proxied!Environment => CallInv'
<1> SUFFICES ASSUME CallInv, Proxied!Environment PROVE CallInv'
  OBVIOUS
<1> USE DEF CallInv, CallTyped, Frame, Reasons, AllGiven, Proxied!StreamOver, Channels,
            Turns, Reported, Proxied!OutcomeTrue
<1>1. CASE Proxied!ClientSends \/ Proxied!ClientEnds
  BY <1>1 DEF Proxied!ClientSends, Proxied!ClientEnds
<1>2. CASE Proxied!CtxEnds
  BY <1>2 DEF Proxied!CtxEnds
<1>3. CASE Proxied!UpstreamReplies
  BY <1>3 DEF Proxied!UpstreamReplies
<1>4. CASE Proxied!UpstreamEnds
  BY <1>4 DEF Proxied!UpstreamEnds
<1> QED
  BY <1>1, <1>2, <1>3, <1>4 DEF Proxied!Environment

\* The pump from the client.
LEMMA UpPumpSteps == CallInv /\ Proxied!UpPump => CallInv'
<1> SUFFICES ASSUME CallInv, Proxied!UpPump PROVE CallInv'
  OBVIOUS
<1> USE DEF CallInv, CallTyped, Frame, Reasons, AllGiven, Proxied!StreamOver, Channels,
            Turns, Reported, Proxied!OutcomeTrue, Proxied!Ways, Proxied!Errors
<1>1. CASE Proxied!RecvRequest
  BY <1>1 DEF Proxied!RecvRequest, Proxied!Goto, Proxied!Exit
<1>2. CASE Proxied!SendRequest
  BY <1>2 DEF Proxied!SendRequest, Proxied!Goto, Proxied!Exit
<1>3. CASE Proxied!Leave("up")
  BY <1>3 DEF Proxied!Leave, Proxied!Room
<1> QED
  BY <1>1, <1>2, <1>3 DEF Proxied!UpPump

\* The pump to the client.
LEMMA DownPumpSteps == CallInv /\ Proxied!DownPump => CallInv'
<1> SUFFICES ASSUME CallInv, Proxied!DownPump PROVE CallInv'
  OBVIOUS
<1> USE DEF CallInv, CallTyped, Frame, Reasons, AllGiven, Proxied!StreamOver, Channels,
            Turns, Reported, Proxied!OutcomeTrue, Proxied!Ways, Proxied!Errors
<1>1. CASE Proxied!RecvReply
  <2>1. CASE /\ replies.taken < replies.sent
             /\ replies' = [replies EXCEPT !.taken = @ + 1]
             /\ Proxied!Goto("down", IF replies.taken = 0 THEN "header" ELSE "send")
    <3>1. /\ replies' \in [sent : Nat, taken : Nat, given : Nat]
          /\ replies'.taken = replies.taken + 1
          /\ replies'.sent = replies.sent /\ replies'.given = replies.given
      BY <2>1
    <3>2. CASE replies.taken = 0
      BY <1>1, <2>1, <3>1, <3>2 DEF Proxied!RecvReply, Proxied!Goto
    <3>3. CASE replies.taken > 0
      BY <1>1, <2>1, <3>1, <3>3 DEF Proxied!RecvReply, Proxied!Goto
    <3> QED
      BY <3>2, <3>3
  <2>2. CASE ~(replies.taken < replies.sent) \/ UNCHANGED replies
    BY <1>1, <2>2 DEF Proxied!RecvReply, Proxied!Goto, Proxied!Exit
  <2> QED
    BY <1>1, <2>1, <2>2 DEF Proxied!RecvReply
<1>2. CASE Proxied!SendHeader
  <2>1. CASE header' = TRUE /\ ~Proxied!StreamOver /\ Proxied!Goto("down", "send")
    <3>1. /\ pump' = [pump EXCEPT !["down"] = "send"] /\ UNCHANGED err
          /\ pump["down"] = "header" /\ replies.taken = 1 /\ replies.given = 0
          /\ UNCHANGED <<client, ctx, requests, upstream, half, replies, channel, turns, outcome>>
          /\ outcome = "none"
      BY <1>2, <2>1 DEF Proxied!SendHeader, Proxied!Goto
    <3>2. header' \in BOOLEAN /\ header'
      BY <2>1, Zenon
    <3> QED
      BY <3>1, <3>2
  <2>2. CASE Proxied!StreamOver /\ Proxied!Exit("down", "error") /\ UNCHANGED header
    BY <1>2, <2>2 DEF Proxied!SendHeader, Proxied!Exit
  <2> QED
    BY <1>2, <2>1, <2>2 DEF Proxied!SendHeader
<1>3. CASE Proxied!SendReply
  BY <1>3 DEF Proxied!SendReply, Proxied!Goto, Proxied!Exit
<1>4. CASE Proxied!Leave("down")
  BY <1>4 DEF Proxied!Leave, Proxied!Room
<1> QED
  BY <1>1, <1>2, <1>3, <1>4 DEF Proxied!DownPump

\* The handler's loop.
LEMMA HandlerSteps == CallInv /\ Proxied!Handler => CallInv'
<1> SUFFICES ASSUME CallInv, Proxied!Handler PROVE CallInv'
  OBVIOUS
<1> USE DEF CallInv, CallTyped, Frame, Reasons, AllGiven, Proxied!StreamOver, Channels,
            Turns, Reported, Proxied!OutcomeTrue, Proxied!Ways, Proxied!Errors
<1>1. CASE Proxied!UpPumpDone
  BY <1>1 DEF Proxied!UpPumpDone, Proxied!Take
<1>2. CASE Proxied!DownPumpDone
  BY <1>2 DEF Proxied!DownPumpDone, Proxied!Take
<1> QED
  BY <1>1, <1>2 DEF Proxied!Handler

\* Every step preserves the inductive invariant.
LEMMA CallInductive == CallInv /\ [Proxied!Next]_Proxied!vars => CallInv'
<1>1. CallInv /\ UNCHANGED Proxied!vars => CallInv'
  BY DEF Proxied!vars, CallInv, CallTyped, Frame, Reasons, AllGiven, Proxied!StreamOver,
         Channels, Turns, Reported, Proxied!OutcomeTrue
<1> QED
  BY <1>1, EnvironmentSteps, UpPumpSteps, DownPumpSteps, HandlerSteps DEF Proxied!Next

\* However many frames there are and however pumps, client, upstream and
\* timeout interleave, a proxied call ends OK or with the upstream's error only
\* if the upstream ended so and the client has every frame of its, and the
\* handler never runs out of turns (transparentHandler).
THEOREM OutcomeIsTrue == Proxied!Spec => []ProxiedOutcomeTrue
<1>1. CallInv => ProxiedOutcomeTrue
  BY DEF CallInv, ProxiedOutcomeTrue
<1> QED
  BY <1>1, CallInitial, CallInductive, PTL DEF Proxied!Spec

-----------------------------------------------------------------------------
(* The life of a process, in Lifecycle *)

\* The place of the listener among the hooks of the gateway and the server.
Place(p) == IF p = "gateway" THEN 5 ELSE 6

LifeTyped ==
  /\ process \in Processes
  /\ phase \in {"boot", "up", "drain", "exit"}
  /\ resource \in [Life!Resources -> {"none", "open", "closing", "draining", "closed"}]
  /\ work \in [Work -> {"idle", "busy", "holding", "cut"}]

\* The hooks are those of a first stretch of the boot; what they are for is
\* open, and the last one may have begun to close it.
InHooks ==
  /\ hooks \in Seq(Life!Resources) /\ Len(hooks) <= Len(Life!Boot(process))
  /\ \A i \in 1..Len(hooks) :
       /\ hooks[i] = Life!Boot(process)[i]
       /\ resource[hooks[i]] \in {"open", "closing"}
       /\ i < Len(hooks) \/ phase \in {"boot", "up"} => resource[hooks[i]] = "open"
  /\ phase = "exit" => hooks = <<>>

\* Whatever is open has a hook.
Hooked == \A x \in Life!Resources :
  resource[x] \in {"open", "closing"} => \E i \in 1..Len(hooks) : hooks[i] = x

\* Within the budget no request is cancelled or cut, and while one is under
\* way the hook of the listener has not returned.
Unhurt == process # "worker" /\ ~expired =>
  /\ ~cancelled
  /\ Life!Cut = {}
  /\ Life!Busy # {} => Len(hooks) >= Place(process)

\* The inductive invariant.
LifeInv == LifeTyped /\ InHooks /\ Hooked /\ Unhurt

\* The order of the boot: no hook is registered twice, and what requests need
\* comes before the listener.
LEMMA BootOrder ==
  ASSUME NEW p \in {"gateway", "server", "worker"}
  PROVE  /\ Life!Boot(p) \in Seq(Life!Resources)
         /\ \A i, j \in 1..Len(Life!Boot(p)) : Life!Boot(p)[i] = Life!Boot(p)[j] => i = j
         /\ p # "worker" =>
              /\ \A i \in 1..Len(Life!Boot(p)) :
                   /\ Life!Boot(p)[i] = "intake" <=> i = Place(p)
                   /\ Life!Boot(p)[i] = "postgres" => i < Place(p)
              /\ \A x \in Life!Needs(p) :
                   \E i \in 1..Len(Life!Boot(p)) : i < Place(p) /\ Life!Boot(p)[i] = x
         /\ Life!Needs(p) \subseteq Life!Resources
         /\ Place(p) \in Nat /\ Place(p) > 1
<1>1. CASE p = "gateway"
  <2>1. Life!Boot(p) = <<"telemetry", "redis", "blacklist", "proxy", "intake", "ops">>
    BY <1>1 DEF Life!Boot
  <2>2. Life!Needs(p) = {"proxy"} /\ Place(p) = 5
    BY <1>1 DEF Life!Needs, Place
  <2> QED
    BY <2>1, <2>2 DEF Life!Resources
<1>2. CASE p = "server"
  <2>1. Life!Boot(p) = <<"telemetry", "postgres", "redis", "nats", "ops", "intake">>
    BY <1>2 DEF Life!Boot
  <2>2. Life!Needs(p) = {"postgres", "redis"} /\ Place(p) = 6
    BY <1>2 DEF Life!Needs, Place
  <2> QED
    BY <2>1, <2>2 DEF Life!Resources
<1>3. CASE p = "worker"
  <2>1. Life!Boot(p) = <<"telemetry", "postgres", "redis", "nats", "ops">>
    BY <1>3 DEF Life!Boot
  <2>2. Life!Needs(p) = {"postgres", "redis", "nats"} /\ Place(p) = 6
    BY <1>3 DEF Life!Needs, Place
  <2>3. Life!Boot(p) \in Seq(Life!Resources)
    BY <2>1 DEF Life!Resources
  <2>4. \A i, j \in 1..Len(Life!Boot(p)) : Life!Boot(p)[i] = Life!Boot(p)[j] => i = j
    BY <2>1
  <2>5. Life!Needs(p) \subseteq Life!Resources
    BY <2>2 DEF Life!Resources
  <2> QED
    BY <1>3, <2>2, <2>3, <2>4, <2>5
<1> QED
  BY <1>1, <1>2, <1>3

\* The inductive invariant holds initially.
LEMMA LifeInitial == Life!Init => LifeInv
<1> SUFFICES ASSUME Life!Init PROVE LifeInv
  OBVIOUS
<1>1. /\ process \in Processes /\ phase = "boot" /\ hooks = <<>>
      /\ resource = [x \in Life!Resources |-> "none"]
      /\ ~cancelled /\ work = [w \in Work |-> "idle"]
  BY DEF Life!Init
<1>2. LifeTyped
  BY <1>1 DEF LifeTyped
<1>3. InHooks
  <2>1. process \in {"gateway", "server", "worker"}
    BY <1>1, LifeAssumption
  <2>2. Len(Life!Boot(process)) \in Nat
    BY <2>1, BootOrder
  <2> QED
    BY <1>1, <2>2 DEF InHooks
<1>4. Hooked
  BY <1>1 DEF Hooked
<1>5. Unhurt
  BY <1>1 DEF Unhurt, Life!Cut, Life!Busy
<1> QED
  BY <1>2, <1>3, <1>4, <1>5 DEF LifeInv

\* What the proofs of the steps use of the boot.
LEMMA BootFacts ==
  ASSUME LifeInv
  PROVE  /\ process \in {"gateway", "server", "worker"}
         /\ Life!Boot(process) \in Seq(Life!Resources)
         /\ Len(Life!Boot(process)) \in Nat /\ Len(hooks) \in Nat
         /\ Place(process) \in Nat
         /\ \A i \in 1..Len(hooks) : i \in 1..Len(Life!Boot(process))
         /\ \A i, j \in 1..Len(hooks) : hooks[i] = hooks[j] => i = j
         /\ \A i \in 1..Len(hooks) : hooks[i] \in Life!Resources
         /\ process # "worker" => \A i \in 1..Len(hooks) :
              /\ hooks[i] = "intake" <=> i = Place(process)
              /\ hooks[i] = "postgres" => i < Place(process)
<1>1. process \in {"gateway", "server", "worker"}
  BY LifeAssumption DEF LifeInv, LifeTyped
<1>2. /\ Life!Boot(process) \in Seq(Life!Resources)
      /\ \A i, j \in 1..Len(Life!Boot(process)) :
           Life!Boot(process)[i] = Life!Boot(process)[j] => i = j
      /\ Place(process) \in Nat
      /\ process # "worker" => \A i \in 1..Len(Life!Boot(process)) :
           /\ Life!Boot(process)[i] = "intake" <=> i = Place(process)
           /\ Life!Boot(process)[i] = "postgres" => i < Place(process)
  BY <1>1, BootOrder
<1>3. /\ hooks \in Seq(Life!Resources) /\ Len(hooks) <= Len(Life!Boot(process))
      /\ \A i \in 1..Len(hooks) : hooks[i] = Life!Boot(process)[i]
  BY DEF LifeInv, InHooks
<1>4. Len(Life!Boot(process)) \in Nat /\ Len(hooks) \in Nat
  BY <1>2, <1>3
<1>5. \A i \in 1..Len(hooks) : i \in 1..Len(Life!Boot(process)) /\ hooks[i] \in Life!Resources
  BY <1>3, <1>4
<1> QED
  BY <1>1, <1>2, <1>3, <1>4, <1>5

\* A hook that returns leaves the others as they were.
LEMMA HookReturns ==
  ASSUME LifeInv, phase = "drain", hooks # <<>>,
         NEW s \in {"closed", "draining"}, Life!HookDone(s),
         UNCHANGED <<process, phase>>
  PROVE  /\ InHooks' /\ Hooked'
         /\ Len(hooks') = Len(hooks) - 1
         /\ resource' \in [Life!Resources -> {"none", "open", "closing", "draining", "closed"}]
<1> DEFINE n == Len(hooks)
<1>1. /\ hooks \in Seq(Life!Resources) /\ n <= Len(Life!Boot(process))
      /\ \A i \in 1..n : /\ hooks[i] = Life!Boot(process)[i]
                         /\ i < n => resource[hooks[i]] = "open"
  BY DEF LifeInv, InHooks
<1>2. n \in Nat /\ n > 0
  BY <1>1
<1>3. /\ hooks' \in Seq(Life!Resources) /\ Len(hooks') = n - 1
      /\ \A i \in 1..(n - 1) : hooks'[i] = hooks[i]
  <2>1. hooks' = SubSeq(hooks, 1, n - 1)
    BY DEF Life!HookDone
  <2>2. n - 1 \in 0..Len(hooks)
    BY <1>2
  <2> HIDE DEF n
  <2> QED
    BY <1>1, <1>2, <2>1, <2>2, SubSeqProperties
<1>4. resource' = [resource EXCEPT ![hooks[n]] = s]
  BY DEF Life!HookDone, Life!Turn, Life!Current
<1>5. resource \in [Life!Resources -> {"none", "open", "closing", "draining", "closed"}]
  BY DEF LifeInv, LifeTyped
<1>6. resource' \in [Life!Resources -> {"none", "open", "closing", "draining", "closed"}]
  BY <1>4, <1>5
<1>7. /\ Len(Life!Boot(process)) \in Nat
      /\ \A i, j \in 1..n : hooks[i] = hooks[j] => i = j
      /\ \A i \in 1..n : hooks[i] \in Life!Resources
  BY BootFacts
<1> HIDE DEF n
<1>8. \A i \in 1..(n - 1) : resource'[hooks'[i]] = "open"
  <2> SUFFICES ASSUME NEW i \in 1..(n - 1) PROVE resource'[hooks'[i]] = "open"
    OBVIOUS
  <2>1. i \in 1..n /\ n \in 1..n /\ i < n
    BY <1>2
  <2>2. hooks'[i] = hooks[i] /\ hooks[i] # hooks[n] /\ hooks[i] \in Life!Resources
    BY <1>3, <1>7, <2>1
  <2> QED
    BY <1>1, <1>4, <1>5, <2>1, <2>2
<1>9. InHooks'
  <2>1. \A i \in 1..(n - 1) : hooks'[i] = Life!Boot(process)[i]
    BY <1>1, <1>2, <1>3
  <2>2. Life!Boot(process)' = Life!Boot(process)
    BY DEF Life!Boot
  <2>3. Len(hooks') <= Len(Life!Boot(process))
    BY <1>1, <1>2, <1>3, <1>7
  <2> QED
    BY <1>3, <1>8, <2>1, <2>2, <2>3 DEF InHooks
<1>10. Hooked'
  <2> SUFFICES ASSUME NEW x \in Life!Resources, resource'[x] \in {"open", "closing"}
               PROVE  \E i \in 1..Len(hooks') : hooks'[i] = x
    BY DEF Hooked, Life!Resources
  <2>1. x # hooks[n] /\ resource[x] \in {"open", "closing"}
    BY <1>4, <1>5
  <2>2. PICK i \in 1..n : hooks[i] = x
    BY <2>1 DEF LifeInv, Hooked, n
  <2>3. i \in 1..(n - 1)
    BY <1>2, <2>1, <2>2
  <2> QED
    BY <1>3, <2>2, <2>3
<1> QED
  BY <1>3, <1>6, <1>9, <1>10 DEF n

\* The inductive invariant is kept by every step.
LEMMA LifeInductive == LifeInv /\ [Life!Next]_Life!vars => LifeInv'
<1> SUFFICES ASSUME LifeInv, [Life!Next]_Life!vars PROVE LifeInv'
  OBVIOUS
<1> USE DEF Life!Cut, Life!Busy
<1> DEFINE States == {"none", "open", "closing", "draining", "closed"}
<1>0. /\ process \in Processes /\ phase \in {"boot", "up", "drain", "exit"}
      /\ resource \in [Life!Resources -> States]
      /\ work \in [Work -> {"idle", "busy", "holding", "cut"}]
  BY DEF LifeInv, LifeTyped
<1> HIDE DEF States
<1>a. ASSUME UNCHANGED <<process, hooks, resource>>,
             phase' = phase \/ phase' \in {"up", "drain"},
             phase' = "up" => phase \in {"boot", "up"}
      PROVE  InHooks' /\ Hooked'
  <2>1. Life!Boot(process)' = Life!Boot(process)
    BY <1>a DEF Life!Boot
  <2>2. InHooks'
    BY <1>a, <2>1 DEF LifeInv, InHooks
  <2>3. Hooked'
    BY <1>a DEF LifeInv, Hooked, Life!Resources
  <2> QED
    BY <2>2, <2>3
<1>b. ASSUME UNCHANGED <<process, cancelled, expired, work>>,
             Len(hooks') >= Len(hooks) \/ (process # "worker" => Len(hooks') >= Place(process))
      PROVE  Unhurt'
  <2>1. Len(hooks) \in Nat /\ Place(process) \in Nat
    BY BootFacts
  <2>2. Place(process)' = Place(process)
    BY <1>b DEF Place
  <2> QED
    BY <1>b, <2>1, <2>2 DEF LifeInv, Unhurt
<1>1. CASE Life!Open
  <2> DEFINE x == Life!Boot(process)[Len(hooks) + 1]
  <2>1. /\ phase = "boot" /\ Len(hooks) < Len(Life!Boot(process))
        /\ UNCHANGED <<process, started, cancelled, expired, work>>
        /\ \/ resource' = [resource EXCEPT ![x] = "open"] /\ hooks' = Append(hooks, x) /\ UNCHANGED phase
           \/ phase' = "drain" /\ UNCHANGED <<resource, hooks>>
    BY <1>1 DEF Life!Open, Life!Turn
  <2>2. CASE resource' = [resource EXCEPT ![x] = "open"] /\ hooks' = Append(hooks, x) /\ UNCHANGED phase
    <3>1. /\ hooks \in Seq(Life!Resources)
          /\ \A i \in 1..Len(hooks) : /\ hooks[i] = Life!Boot(process)[i]
                                      /\ resource[hooks[i]] = "open"
      BY <2>1 DEF LifeInv, InHooks
    <3>2. /\ Life!Boot(process) \in Seq(Life!Resources)
          /\ Len(Life!Boot(process)) \in Nat /\ Len(hooks) \in Nat
      BY BootFacts
    <3>3. x \in Life!Resources
      BY <2>1, <3>2
    <3> HIDE DEF x
    <3>4. /\ hooks' \in Seq(Life!Resources) /\ Len(hooks') = Len(hooks) + 1
          /\ \A i \in 1..Len(hooks) : hooks'[i] = hooks[i]
          /\ hooks'[Len(hooks) + 1] = x
      BY <2>2, <3>1, <3>3
    <3>5. /\ resource' \in [Life!Resources -> States] /\ resource'[x] = "open"
          /\ \A y \in Life!Resources : y # x => resource'[y] = resource[y]
      BY <1>0, <2>2, <3>3 DEF States
    <3>6. LifeTyped'
      BY <1>0, <2>1, <2>2, <3>5 DEF LifeTyped, States
    <3>7. ASSUME NEW i \in 1..Len(hooks')
          PROVE  hooks'[i] = Life!Boot(process)[i] /\ resource'[hooks'[i]] = "open"
      <4>1. CASE i = Len(hooks) + 1
        BY <3>4, <3>5, <4>1 DEF x
      <4>2. CASE i \in 1..Len(hooks)
        <5>1. hooks[i] \in Life!Resources
          BY <3>1, <4>2
        <5> QED
          BY <3>1, <3>4, <3>5, <4>2, <5>1
      <4> QED
        BY <3>2, <3>4, <4>1, <4>2
    <3>8. InHooks'
      <4>1. Life!Boot(process)' = Life!Boot(process)
        BY <2>1 DEF Life!Boot
      <4> QED
        BY <2>1, <2>2, <3>2, <3>4, <3>7, <4>1 DEF InHooks
    <3>9. Hooked'
      <4> SUFFICES ASSUME NEW y \in Life!Resources, resource'[y] \in {"open", "closing"}
                   PROVE  \E i \in 1..Len(hooks') : hooks'[i] = y
        BY DEF Hooked, Life!Resources
      <4>1. CASE y = x
        BY <3>2, <3>4, <4>1
      <4>2. CASE y # x
        <5>1. PICK i \in 1..Len(hooks) : hooks[i] = y
          BY <3>5, <4>2 DEF LifeInv, Hooked
        <5> QED
          BY <3>2, <3>4, <5>1
      <4> QED
        BY <4>1, <4>2
    <3>10. Unhurt'
      BY <1>b, <2>1, <3>2, <3>4
    <3> QED
      BY <3>6, <3>8, <3>9, <3>10 DEF LifeInv
  <2>3. CASE phase' = "drain" /\ UNCHANGED <<resource, hooks>>
    <3>1. LifeTyped'
      BY <1>0, <2>1, <2>3 DEF LifeTyped, States, Life!Resources
    <3>2. InHooks' /\ Hooked'
      BY <1>a, <2>1, <2>3
    <3>3. Unhurt'
      BY <1>b, <2>1, <2>3, BootFacts
    <3> QED
      BY <3>1, <3>2, <3>3 DEF LifeInv
  <2> QED
    BY <2>1, <2>2, <2>3
<1>2. CASE Life!Start \/ Life!ComponentReturns \/ Life!Expire
  <2>1. /\ phase \in {"boot", "up"} => phase' \in {"boot", "up", "drain"}
        /\ phase \notin {"boot", "up"} => phase' = phase
        /\ phase' = "up" => phase \in {"boot", "up"}
        /\ expired' \/ UNCHANGED expired
        /\ UNCHANGED <<process, hooks, resource, cancelled, work>>
    BY <1>2 DEF Life!Start, Life!ComponentReturns, Life!Expire
  <2>2. LifeTyped'
    BY <1>0, <2>1 DEF LifeTyped, States, Life!Resources
  <2>3. InHooks' /\ Hooked'
    <3>1. phase' = phase \/ phase' \in {"up", "drain"}
      BY <1>2 DEF Life!Start, Life!ComponentReturns, Life!Expire
    <3> QED
      BY <1>a, <2>1, <3>1
  <2>4. Unhurt'
    <3>1. Place(process)' = Place(process)
      BY <2>1 DEF Place
    <3> QED
      BY <2>1, <3>1 DEF LifeInv, Unhurt
  <2> QED
    BY <2>2, <2>3, <2>4 DEF LifeInv
<1>3. CASE Life!Signal
  <2>1. /\ phase' = "drain" /\ cancelled' = (process = "worker")
        /\ UNCHANGED <<process, hooks, resource, expired, work>>
    BY <1>3 DEF Life!Signal
  <2>2. LifeTyped'
    BY <1>0, <2>1 DEF LifeTyped, States, Life!Resources
  <2>3. InHooks' /\ Hooked'
    BY <1>a, <2>1
  <2>4. Unhurt'
    <3>1. Place(process)' = Place(process)
      BY <2>1 DEF Place
    <3> QED
      BY <2>1, <3>1 DEF LifeInv, Unhurt
  <2> QED
    BY <2>2, <2>3, <2>4 DEF LifeInv
<1>4. ASSUME NEW w \in Work, Life!Begin(w) \/ Life!Acquire(w) \/ Life!Finish(w) \/ Life!GiveUp(w)
      PROVE  LifeInv'
  <2>1. /\ UNCHANGED <<process, phase, hooks, resource, cancelled, expired>>
        /\ \E s \in {"idle", "busy", "holding", "cut"} : work' = [work EXCEPT ![w] = s]
    BY <1>4 DEF Life!Begin, Life!Acquire, Life!Finish, Life!GiveUp
  <2>2. LifeTyped'
    BY <1>0, <2>1 DEF LifeTyped, States, Life!Resources
  <2>3. InHooks' /\ Hooked'
    BY <1>a, <2>1
  <2>4. Unhurt'
    <3> SUFFICES ASSUME process # "worker", ~expired
                 PROVE  /\ ~cancelled
                        /\ \A v \in Work : work'[v] # "cut"
                        /\ (\E v \in Work : work'[v] \in {"busy", "holding"})
                             => Len(hooks) >= Place(process)
      <4>1. Place(process)' = Place(process)
        BY <2>1 DEF Place
      <4> QED
        BY <2>1, <4>1 DEF Unhurt
    <3>1. /\ ~cancelled
          /\ \A v \in Work : work[v] # "cut"
          /\ (\E v \in Work : work[v] \in {"busy", "holding"}) => Len(hooks) >= Place(process)
      BY DEF LifeInv, Unhurt
    <3>2. CASE Life!Begin(w)
      <4>1. resource["intake"] = "open" /\ work' = [work EXCEPT ![w] = "busy"]
        BY <3>2 DEF Life!Begin
      <4>2. PICK i \in 1..Len(hooks) : hooks[i] = "intake"
        BY <4>1 DEF LifeInv, Hooked, Life!Resources
      <4>3. i = Place(process) /\ Len(hooks) \in Nat
        BY <4>2, BootFacts
      <4>4. Len(hooks) >= Place(process)
        BY <4>3
      <4> QED
        BY <1>0, <3>1, <4>1, <4>4
    <3>3. CASE Life!Acquire(w)
      <4>1. work[w] = "busy" /\ work' = [work EXCEPT ![w] = "holding"]
        BY <3>3 DEF Life!Acquire
      <4> QED
        BY <1>0, <3>1, <4>1
    <3>4. CASE Life!Finish(w)
      <4>1. work' = [work EXCEPT ![w] = "idle"]
        BY <3>4 DEF Life!Finish
      <4> QED
        BY <1>0, <3>1, <4>1
    <3>5. CASE Life!GiveUp(w)
      <4>1. work[w] \in {"busy", "holding"}
        BY <3>5 DEF Life!GiveUp
      <4>2. PICK x \in Life!Needs(process) : resource[x] # "open"
        BY <3>1, <3>5 DEF Life!GiveUp
      <4>3. Len(hooks) >= Place(process)
        BY <3>1, <4>1
      <4>4. PICK i \in 1..Len(Life!Boot(process)) :
              i < Place(process) /\ Life!Boot(process)[i] = x
        BY BootOrder, BootFacts
      <4>5. i \in 1..Len(hooks) /\ i < Len(hooks)
        BY <4>3, <4>4, BootFacts
      <4>6. resource[hooks[i]] = "open" /\ hooks[i] = x
        BY <4>4, <4>5 DEF LifeInv, InHooks
      <4> QED
        BY <4>2, <4>6
    <3> QED
      BY <1>4, <3>2, <3>3, <3>4, <3>5
  <2> QED
    BY <2>2, <2>3, <2>4 DEF LifeInv
<1>5. CASE Life!CloseNow
  <2> DEFINE s == IF Life!Current = "nats" THEN "draining" ELSE "closed"
  <2>1. /\ phase = "drain" /\ hooks # <<>> /\ Life!HookDone(s)
        /\ hooks[Len(hooks)] # "intake"
        /\ UNCHANGED <<process, phase, cancelled, expired, work>>
    BY <1>5 DEF Life!CloseNow, Life!Current
  <2>2. s \in {"closed", "draining"}
    OBVIOUS
  <2> HIDE DEF s
  <2>3. /\ InHooks' /\ Hooked' /\ Len(hooks') = Len(hooks) - 1
        /\ resource' \in [Life!Resources -> States]
    BY <2>1, <2>2, HookReturns DEF States
  <2>4. LifeTyped'
    BY <1>0, <2>1, <2>3 DEF LifeTyped, States
  <2>5. Unhurt'
    <3>1. Len(hooks) \in Nat /\ Len(hooks) > 0 /\ Place(process) \in Nat
      <4>1. hooks \in Seq(Life!Resources) /\ Place(process) \in Nat
        BY BootFacts DEF LifeInv, InHooks
      <4> QED
        BY <2>1, <4>1
    <3>2. process # "worker" => Len(hooks) # Place(process)
      BY <2>1, <3>1, BootFacts
    <3>3. Place(process)' = Place(process)
      BY <2>1 DEF Place
    <3> QED
      BY <2>1, <2>3, <3>1, <3>2, <3>3 DEF LifeInv, Unhurt
  <2> QED
    BY <2>3, <2>4, <2>5 DEF LifeInv
<1>6. CASE Life!CloseBegin
  <2> DEFINE n == Len(hooks)
  <2>1. /\ phase = "drain" /\ hooks # <<>> /\ resource' = [resource EXCEPT ![hooks[n]] = "closing"]
        /\ UNCHANGED <<process, phase, hooks, cancelled, expired, work>>
    BY <1>6 DEF Life!CloseBegin, Life!Current, Life!Turn
  <2>2. hooks \in Seq(Life!Resources) /\ n \in Nat /\ n > 0
    <3>1. hooks \in Seq(Life!Resources)
      BY DEF LifeInv, InHooks
    <3> QED
      BY <2>1, <3>1
  <2>3. hooks[n] \in Life!Resources
    BY <2>2
  <2>4. /\ \A i \in 1..n : /\ hooks[i] = Life!Boot(process)[i]
                           /\ i < n => resource[hooks[i]] = "open"
        /\ n <= Len(Life!Boot(process))
    BY DEF LifeInv, InHooks
  <2>5. \A i, j \in 1..n : hooks[i] = hooks[j] => i = j
    BY BootFacts
  <2> HIDE DEF n
  <2>6. resource' \in [Life!Resources -> States]
    BY <1>0, <2>1, <2>3 DEF States
  <2>7. LifeTyped'
    BY <1>0, <2>1, <2>6 DEF LifeTyped, States
  <2>8. ASSUME NEW i \in 1..n
        PROVE  /\ resource'[hooks[i]] \in {"open", "closing"}
               /\ i < n => resource'[hooks[i]] = "open"
    <3>1. n \in 1..n /\ hooks[i] \in Life!Resources
      BY <2>2 DEF n
    <3>2. CASE i = n
      BY <1>0, <2>1, <2>3, <3>2
    <3>3. CASE i < n
      <4>1. hooks[i] # hooks[n]
        BY <2>2, <2>5, <3>1, <3>3
      <4> QED
        BY <1>0, <2>1, <2>4, <3>1, <3>3, <4>1
    <3> QED
      BY <2>2, <3>2, <3>3
  <2>9. InHooks'
    <3>1. Life!Boot(process)' = Life!Boot(process)
      BY <2>1 DEF Life!Boot
    <3> QED
      BY <2>1, <2>2, <2>4, <2>8, <3>1 DEF InHooks, n
  <2>10. Hooked'
    <3> SUFFICES ASSUME NEW x \in Life!Resources, resource'[x] \in {"open", "closing"}
                 PROVE  \E i \in 1..Len(hooks) : hooks[i] = x
      BY <2>1 DEF Hooked, Life!Resources
    <3>1. CASE x = hooks[n]
      BY <2>2, <3>1 DEF n
    <3>2. CASE x # hooks[n]
      BY <1>0, <2>1, <3>2 DEF LifeInv, Hooked
    <3> QED
      BY <3>1, <3>2
  <2>11. Unhurt'
    BY <1>b, <2>1, <2>2 DEF n
  <2> QED
    BY <2>7, <2>9, <2>10, <2>11 DEF LifeInv
<1>7. CASE Life!StopEnd
  <2>1. /\ phase = "drain" /\ hooks # <<>> /\ Life!HookDone("closed")
        /\ (Life!Busy = {} /\ UNCHANGED cancelled) \/ expired
        /\ UNCHANGED <<process, phase, expired, work>>
    BY <1>7 DEF Life!StopEnd
  <2>2. /\ InHooks' /\ Hooked' /\ resource' \in [Life!Resources -> States]
    BY <2>1, HookReturns DEF States
  <2>3. LifeTyped'
    BY <1>0, <2>1, <2>2 DEF LifeTyped, States
  <2>4. Unhurt'
    BY <2>1 DEF LifeInv, Unhurt
  <2> QED
    BY <2>2, <2>3, <2>4 DEF LifeInv
<1>8. CASE Life!PoolClosed
  <2>1. /\ phase = "drain" /\ hooks # <<>> /\ Life!HookDone("closed")
        /\ hooks[Len(hooks)] = "postgres"
        /\ UNCHANGED <<process, phase, cancelled, expired, work>>
    BY <1>8 DEF Life!PoolClosed, Life!Current
  <2>2. /\ InHooks' /\ Hooked' /\ resource' \in [Life!Resources -> States]
    BY <2>1, HookReturns DEF States
  <2>3. LifeTyped'
    BY <1>0, <2>1, <2>2 DEF LifeTyped, States
  <2>4. Unhurt'
    <3>1. Len(hooks) \in Nat /\ Len(hooks) > 0 /\ Place(process) \in Nat
      <4>1. hooks \in Seq(Life!Resources) /\ Place(process) \in Nat
        BY BootFacts DEF LifeInv, InHooks
      <4> QED
        BY <2>1, <4>1
    <3>2. process # "worker" => Len(hooks) < Place(process)
      BY <2>1, <3>1, BootFacts
    <3> QED
      BY <2>1, <3>1, <3>2 DEF LifeInv, Unhurt
  <2> QED
    BY <2>2, <2>3, <2>4 DEF LifeInv
<1>9. CASE Life!Exit
  <2>1. /\ phase' = "exit" /\ hooks = <<>>
        /\ work' = [w \in Work |-> IF w \in Life!Busy THEN "cut" ELSE work[w]]
        /\ UNCHANGED <<process, hooks, resource, cancelled, expired>>
    BY <1>9 DEF Life!Exit
  <2>2. LifeTyped'
    BY <1>0, <2>1 DEF LifeTyped, States, Life!Resources
  <2>3. InHooks'
    <3>1. Len(Life!Boot(process)') \in Nat
      <4>1. Life!Boot(process)' = Life!Boot(process)
        BY <2>1 DEF Life!Boot
      <4> QED
        BY <4>1, BootFacts
    <3> QED
      BY <2>1, <3>1 DEF InHooks
  <2>4. Hooked'
    BY <2>1 DEF LifeInv, Hooked, Life!Resources
  <2>5. Unhurt'
    <3>1. Len(hooks) = 0
      BY <2>1
    <3>2. process # "worker" => Place(process) > 0
      BY BootFacts, BootOrder
    <3>3. process # "worker" /\ ~expired => Life!Busy = {}
      BY <3>1, <3>2, BootFacts DEF LifeInv, Unhurt
    <3> QED
      BY <2>1, <3>3 DEF LifeInv, Unhurt
  <2> QED
    BY <2>2, <2>3, <2>4, <2>5 DEF LifeInv
<1>10. CASE Life!BusDrained
  <2>1. /\ resource["nats"] = "draining" /\ resource' = [resource EXCEPT !["nats"] = "closed"]
        /\ UNCHANGED <<process, phase, hooks, cancelled, expired, work>>
    BY <1>10 DEF Life!BusDrained, Life!Turn
  <2>2. /\ resource' \in [Life!Resources -> States]
        /\ \A x \in Life!Resources : /\ resource[x] \in {"open", "closing"} => resource'[x] = resource[x]
                                     /\ resource'[x] \in {"open", "closing"} => resource'[x] = resource[x]
    <3>1. "nats" \in Life!Resources
      BY DEF Life!Resources
    <3> QED
      BY <1>0, <2>1, <3>1 DEF States
  <2>3. LifeTyped'
    BY <1>0, <2>1, <2>2 DEF LifeTyped, States
  <2>4. InHooks'
    <3>1. Life!Boot(process)' = Life!Boot(process)
      BY <2>1 DEF Life!Boot
    <3>2. \A i \in 1..Len(hooks) : resource'[hooks[i]] = resource[hooks[i]]
      BY <2>2, BootFacts DEF LifeInv, InHooks
    <3> QED
      BY <2>1, <3>1, <3>2 DEF LifeInv, InHooks
  <2>5. Hooked'
    BY <2>1, <2>2 DEF LifeInv, Hooked, Life!Resources
  <2>6. Unhurt'
    BY <1>b, <2>1, BootFacts
  <2> QED
    BY <2>3, <2>4, <2>5, <2>6 DEF LifeInv
<1>11. CASE UNCHANGED Life!vars
  <2>1. UNCHANGED <<process, phase, hooks, resource, cancelled, expired, work>>
    BY <1>11 DEF Life!vars
  <2>2. LifeTyped'
    BY <1>0, <2>1 DEF LifeTyped, States, Life!Resources
  <2>3. InHooks' /\ Hooked'
    BY <1>a, <2>1
  <2>4. Unhurt'
    BY <1>b, <2>1, BootFacts
  <2> QED
    BY <2>2, <2>3, <2>4 DEF LifeInv
<1> QED
  BY <1>1, <1>2, <1>3, <1>4, <1>5, <1>6, <1>7, <1>8, <1>9, <1>10, <1>11
     DEF Life!Next, Life!Hook

\* Within the budget of shutdown.Manager no request of the gateway or of the
\* API server is cut, whatever the number of requests.
THEOREM LifeNeverCutHolds == Life!Spec => []LifeNeverCut
<1>1. LifeInv => LifeNeverCut
  BY DEF LifeInv, Unhurt, LifeNeverCut, Life!NeverCut
<1> QED
  BY <1>1, LifeInitial, LifeInductive, PTL DEF Life!Spec

\* A process that ends, also one whose start failed half way, has closed
\* whatever it had opened: there is a hook for all that is open.
THEOREM LifeAllReleasedHolds == Life!Spec => []LifeAllReleased
<1>1. LifeInv => LifeAllReleased
  <2> SUFFICES ASSUME LifeInv, phase = "exit", NEW x \in Life!Resources
               PROVE  resource[x] # "open"
    BY DEF LifeAllReleased, Life!AllReleased
  <2>1. 1..Len(hooks) = {}
    <3>1. hooks = <<>>
      BY DEF LifeInv, InHooks
    <3> QED
      BY <3>1
  <2> QED
    BY <2>1 DEF LifeInv, Hooked
<1> QED
  BY <1>1, LifeInitial, LifeInductive, PTL DEF Life!Spec
=============================================================================
