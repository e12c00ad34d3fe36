----------------------------- MODULE Lifecycle -----------------------------
(***************************************************************************)
(* The life of a process: bootstrap opens resources one after the other    *)
(* and registers a shutdown hook for each, the process works, and on a     *)
(* signal or a failure shutdown.Manager runs the hooks in reverse.         *)
(*                                                                         *)
(* The gateway and the API server serve requests; the worker runs relays,  *)
(* the audit consumer and jobs.  A signal before the process is up kills it*)
(* at once and is left out.                                                *)
(***************************************************************************)
EXTENDS Naturals, Sequences

CONSTANTS Processes,  \* subset of {"gateway", "server", "worker"}
          Work        \* requests, or iterations of runners

VARIABLES
  process,
  phase,
  started,    \* the process came up
  hooks,      \* the hooks registered and not yet run
  resource,   \* what each hook closes
  cancelled,  \* the context of the work under way is cancelled
  expired,    \* the drain budget is used up
  work

vars == <<process, phase, started, hooks, resource, cancelled, expired, work>>

\* Register calls, in order.  "intake" is the listener of gateway or server.
Boot(p) ==
  CASE p = "gateway" -> <<"telemetry", "redis", "blacklist", "proxy", "intake", "ops">>
    [] p = "server"  -> <<"telemetry", "postgres", "redis", "nats", "ops", "intake">>
    [] p = "worker"  -> <<"telemetry", "postgres", "redis", "nats", "ops">>

Resources == {"telemetry", "postgres", "redis", "nats", "blacklist", "proxy", "ops", "intake"}

\* What the work of a process cannot do without.  (The gateway's rate limits
\* and revocation checks fail open.)
Needs(p) == CASE p = "gateway" -> {"proxy"}
              [] p = "server"  -> {"postgres", "redis"}
              [] p = "worker"  -> {"postgres", "redis", "nats"}

TypeOK == /\ process \in Processes
          /\ phase \in {"boot", "up", "drain", "exit"}
          /\ started \in BOOLEAN
          /\ hooks \in {SubSeq(Boot(process), 1, n) : n \in 0..Len(Boot(process))}
          /\ resource \in [Resources -> {"none", "open", "closing", "draining", "closed"}]
          /\ cancelled \in BOOLEAN /\ expired \in BOOLEAN
          \* holding: with a connection of the PostgreSQL pool
          /\ work \in [Work -> {"idle", "busy", "holding", "cut"}]

Init == /\ process \in Processes
        /\ phase = "boot" /\ started = FALSE
        /\ hooks = <<>>
        /\ resource = [x \in Resources |-> "none"]
        /\ cancelled = FALSE /\ expired = FALSE
        /\ work = [w \in Work |-> "idle"]

Busy == {w \in Work : work[w] \in {"busy", "holding"}}
Turn(x, state) == resource' = [resource EXCEPT ![x] = state]

-----------------------------------------------------------------------------
(* setup, RunServer, RunWorker and the gateway's Run *)

\* What can go wrong before a resource is up: a connection, the JWT key, the
\* upstreams, the gRPC server, the modules, the stream.  Listeners only bind
\* once the process runs.
MayFail == {"telemetry", "postgres", "redis", "nats", "blacklist", "proxy"}
             \cup (IF process = "gateway" THEN {} ELSE {"ops"})

\* Mutant: the hook is registered one step after the resource is open.
OpenUnregistered ==
  /\ phase = "boot" /\ Len(hooks) < Len(Boot(process))
  /\ LET x == Boot(process)[Len(hooks) + 1] IN
     /\ Turn(x, "open")
     /\ \/ hooks' = Append(hooks, x) /\ UNCHANGED <<phase, started>>
        \/ x \in MayFail /\ phase' = "drain" /\ UNCHANGED <<hooks, started>>
  /\ UNCHANGED <<process, cancelled, expired, work>>

\* One resource is opened and its hook registered, or that fails and what is
\* open already is torn down.
Open ==
  /\ phase = "boot" /\ Len(hooks) < Len(Boot(process))
  /\ LET x == Boot(process)[Len(hooks) + 1] IN
     \/ Turn(x, "open") /\ hooks' = Append(hooks, x) /\ UNCHANGED phase
     \/ x \in MayFail /\ phase' = "drain" /\ UNCHANGED <<resource, hooks>>
  /\ UNCHANGED <<process, started, cancelled, expired, work>>

Start ==
  /\ phase = "boot" /\ Len(hooks) = Len(Boot(process))
  /\ phase' = "up" /\ started' = TRUE
  /\ UNCHANGED <<process, hooks, resource, cancelled, expired, work>>

\* SIGTERM.  In the worker the signal's context is also the runners'.
Signal ==
  /\ phase = "up"
  /\ phase' = "drain"
  /\ cancelled' = (process = "worker")
  /\ UNCHANGED <<process, started, hooks, resource, expired, work>>

\* A component or a runner returns: the same drain, and no cancellation.
ComponentReturns ==
  /\ phase = "up"
  /\ phase' = "drain"
  /\ UNCHANGED <<process, started, hooks, resource, cancelled, expired, work>>

-----------------------------------------------------------------------------
(* Requests and runner iterations *)

\* A request is accepted while the listener is open, an iteration begins while
\* the context lives.
Begin(w) ==
  /\ work[w] = "idle" /\ started /\ phase # "exit"
  /\ \/ process = "worker" /\ ~cancelled
     \/ process # "worker" /\ resource["intake"] = "open"
  /\ work' = [work EXCEPT ![w] = "busy"]
  /\ UNCHANGED <<process, started, phase, hooks, resource, cancelled, expired>>

Acquire(w) ==
  /\ work[w] = "busy" /\ resource["postgres"] = "open" /\ phase # "exit"
  /\ work' = [work EXCEPT ![w] = "holding"]
  /\ UNCHANGED <<process, started, phase, hooks, resource, cancelled, expired>>

Finish(w) ==
  /\ w \in Busy /\ phase # "exit"
  /\ work' = [work EXCEPT ![w] = "idle"]
  /\ UNCHANGED <<process, started, phase, hooks, resource, cancelled, expired>>

\* The work finds something it needs closed, or its context cancelled, and
\* gives up.  A connection it holds still works.
GiveUp(w) ==
  /\ w \in Busy /\ phase # "exit"
  /\ \/ cancelled
     \/ \E x \in Needs(process) : /\ resource[x] # "open"
                                  /\ x = "postgres" => work[w] = "busy"
  /\ work' = [work EXCEPT ![w] = "cut"]
  /\ UNCHANGED <<process, started, phase, hooks, resource, cancelled, expired>>

-----------------------------------------------------------------------------
(* Manager.Run *)

Current == hooks[Len(hooks)]

HookDone(state) ==
  /\ Turn(Current, state)
  /\ hooks' = SubSeq(hooks, 1, Len(hooks) - 1)

\* Hooks that close and return; Drain of the bus returns while it goes on.
CloseNow ==
  /\ phase = "drain" /\ hooks # <<>> /\ Current \notin {"intake", "postgres"}
  /\ HookDone(IF Current = "nats" THEN "draining" ELSE "closed")
  /\ UNCHANGED <<process, started, phase, cancelled, expired, work>>

\* GracefulStop, http.Server.Shutdown, pgxpool.Close: first nothing new.
CloseBegin ==
  /\ phase = "drain" /\ hooks # <<>> /\ Current \in {"intake", "postgres"}
  /\ resource[Current] = "open"
  /\ Turn(Current, "closing")
  /\ UNCHANGED <<process, started, phase, hooks, cancelled, expired, work>>

\* Mutant: GracefulStop is started and not waited for.
StopEndNoWait ==
  /\ phase = "drain" /\ hooks # <<>> /\ Current = "intake"
  /\ resource["intake"] = "closing"
  /\ HookDone("closed")
  /\ UNCHANGED <<process, phase, started, cancelled, expired, work>>

\* Mutant: GracefulStop is waited for without an eye on the context.
StopEndUnbounded ==
  /\ phase = "drain" /\ hooks # <<>> /\ Current = "intake"
  /\ resource["intake"] = "closing" /\ Busy = {}
  /\ HookDone("closed")
  /\ UNCHANGED <<process, phase, started, cancelled, expired, work>>

\* The listener is closed when its requests are done, or the budget is used
\* up: the server then cancels them, the gateway leaves them alone.
StopEnd ==
  /\ phase = "drain" /\ hooks # <<>> /\ Current = "intake"
  /\ resource["intake"] = "closing"
  /\ \/ Busy = {} /\ UNCHANGED cancelled
     \/ expired /\ cancelled' = (cancelled \/ process = "server")
  /\ HookDone("closed")
  /\ UNCHANGED <<process, started, phase, expired, work>>

\* pgxpool.Close waits for every connection to come back, and for no context.
PoolClosed ==
  /\ phase = "drain" /\ hooks # <<>> /\ Current = "postgres"
  /\ resource["postgres"] = "closing"
  /\ \A w \in Work : work[w] # "holding"
  /\ HookDone("closed")
  /\ UNCHANGED <<process, started, phase, cancelled, expired, work>>

Exit ==
  /\ phase = "drain" /\ hooks = <<>>
  /\ phase' = "exit"
  /\ work' = [w \in Work |-> IF w \in Busy THEN "cut" ELSE work[w]]
  /\ UNCHANGED <<process, started, hooks, resource, cancelled, expired>>

\* The 20 seconds of the Manager.
Expire ==
  /\ phase = "drain" /\ ~expired
  /\ expired' = TRUE
  /\ UNCHANGED <<process, started, phase, hooks, resource, cancelled, work>>

\* The bus has sent what it had queued.
BusDrained ==
  /\ resource["nats"] = "draining" /\ phase # "exit"
  /\ Turn("nats", "closed")
  /\ UNCHANGED <<process, started, phase, hooks, cancelled, expired, work>>

Hook == CloseNow \/ CloseBegin \/ StopEnd \/ PoolClosed \/ Exit

Next == \/ Open \/ Start \/ Signal \/ ComponentReturns \/ Hook \/ Expire \/ BusDrained
        \/ \E w \in Work : Begin(w) \/ Acquire(w) \/ Finish(w) \/ GiveUp(w)

Spec == Init /\ [][Next]_vars

\* Hooks and the timer run; work whose context is cancelled notices.  Other
\* work may take as long as it likes.
FairSpec == /\ Spec
            /\ WF_vars(Hook) /\ WF_vars(Expire)
            /\ \A w \in Work : WF_vars(cancelled /\ GiveUp(w))

-----------------------------------------------------------------------------

Cut == {w \in Work : work[w] = "cut"}

\* shutdown.go: "stopping a container never cuts a request mid-flight", within
\* the budget: what a request needs is closed only after the request is done.
NeverCut == process # "worker" /\ Cut # {} => expired

\* Whether the process came up or failed half way, it leaves nothing open.
AllReleased == phase = "exit" => \A x \in Resources : resource[x] # "open"

\* shutdown.go: "a stuck dependency cannot hang shutdown forever": gateway and
\* server end whatever their requests do, the worker once a signal has
\* cancelled its runners or if it failed before they ran.
Exits == (phase = "drain" /\ (process = "worker" /\ started => cancelled))
           ~> (phase = "exit")

\* The same sentence without the proviso.  Refuted: when a runner fails, the
\* others are not cancelled, and PoolClosed waits for their connections.
NeverHangs == (phase = "drain") ~> (phase = "exit")

\* docs/07-operations.md: "on SIGTERM each process stops intake, drains in
\* flight work LIFO, and exits".  Refuted: the worker's hooks close the bus
\* and Redis while cancelled runners are still at work.
RunnersDrain == process = "worker" /\ Cut # {} => expired

\* nats.go: "queued publishes and acks finish as part of graceful shutdown".
\* Refuted: the process may exit while the drain goes on.
BusDrainedFirst == phase = "exit" => resource["nats"] # "draining"
=============================================================================
