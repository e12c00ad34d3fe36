--------------------------- MODULE MCRequestPath ---------------------------
(***************************************************************************)
(* Instances for TLC of a request's way through both services, of one call *)
(* in the proxy frame by frame, and of the life of a process around its    *)
(* requests.  A behaviour exercises one of the three while the others stay *)
(* as they began.                                                          *)
(***************************************************************************)
EXTENDS RequestPath

CONSTANTS c1, c2, ann, bob, root, MaxFrames, Processes, Work

VARIABLES part,
          client, ctx, requests, upstream, half, replies, header, pump, err,
          channel, turns, outcome,
          process, phase, started, hooks, resource, cancelled, expired, work

\* There are the gateway and the two programs of the core service.
ASSUME LifeAssumption == Processes \subseteq {"gateway", "server", "worker"}

Proxied == INSTANCE Forward
Life == INSTANCE Lifecycle

proxiedVars == <<client, ctx, requests, upstream, half, replies, header, pump, err,
                 channel, turns, outcome>>
lifeVars == <<process, phase, started, hooks, resource, cancelled, expired, work>>
allVars == <<vars, proxiedVars, lifeVars, part>>

\* A browser's gRPC-Web call of the frontend; each shape below differs from it
\* in what one middleware, guard or interceptor looks at.
Plain == [method |-> "POST", secure |-> TRUE, web |-> TRUE, zip |-> TRUE,
          token |-> "good", sub |-> ann, csrf |-> "missing", spoof |-> NoOne,
          rid |-> FALSE, pkg |-> "example", rpc |-> "UpdateNote", body |-> "valid"]

Form == [Plain EXCEPT !.web = FALSE, !.token = "none"]

ManyShapes ==
  {[Plain EXCEPT !.secure = FALSE], [Plain EXCEPT !.secure = FALSE, !.method = "GET"],
   [Plain EXCEPT !.method = "OPTIONS"],
   Form, [Form EXCEPT !.csrf = "mismatch"], [Form EXCEPT !.csrf = "match", !.zip = FALSE],
   [Form EXCEPT !.method = "GET"], [Plain EXCEPT !.web = FALSE],
   Plain, [Plain EXCEPT !.sub = bob], [Plain EXCEPT !.sub = root],
   [Plain EXCEPT !.token = "none", !.spoof = root],
   [Plain EXCEPT !.token = "bad", !.spoof = root, !.pkg = "audit", !.rpc = "ListAuditLog"],
   [Plain EXCEPT !.spoof = root, !.rid = TRUE, !.pkg = "identity", !.rpc = "SetUserRole"],
   [Plain EXCEPT !.sub = root, !.pkg = "authz", !.rpc = "UpsertPolicy"],
   [Plain EXCEPT !.token = "none", !.rid = TRUE, !.pkg = "identity", !.rpc = "Login"],
   [Plain EXCEPT !.body = "invalid"], [Plain EXCEPT !.body = "garbled"],
   [Plain EXCEPT !.pkg = "identity"], [Plain EXCEPT !.pkg = "other"]}

\* Plain text is compressed: 403, 415, 401 or 429.
TextShapes == {Form, [Form EXCEPT !.csrf = "match"], [Plain EXCEPT !.web = FALSE]}

CallShapes == [c \in Calls |-> IF c = c1 THEN ManyShapes \cup TextShapes ELSE TextShapes]

\* ann may update, root is allowed by one rule and denied by a later one, and
\* nothing is said of bob.
Rule(e, c, who) == [effect |-> e, covers |-> c, holds |-> who]
RuleSets == {<<Rule("deny", FALSE, {ann}), Rule("allow", TRUE, {ann, root}), Rule("deny", TRUE, {root})>>}

-----------------------------------------------------------------------------

\* Calls meet only in the pool of gzip writers: one call of any shape comes
\* alone, and calls whose answers are compressed come together.
Active == IF part = "alone" THEN {c1} ELSE Calls

\* The parts that stay as they began begin in one way only.
PathInit == /\ part \in {"alone", "together", "proxied", "life"}
            /\ Init /\ Proxied!Init /\ Life!Init
            /\ part = "together" => shape[c1] \in TextShapes
            /\ part # "together" => shape[c2] = Form
            /\ part \in {"proxied", "life"} => shape[c1] = Form
            /\ part # "life" => process = "gateway"

OnPath(A) == part \in {"alone", "together"} /\ A /\ UNCHANGED <<proxiedVars, lifeVars, part>>
OnProxied(A) == part = "proxied" /\ A /\ UNCHANGED <<vars, lifeVars, part>>
OnLife(A) == part = "life" /\ A /\ UNCHANGED <<vars, proxiedVars, part>>

PathNext == \/ OnPath(\E c \in Active : Step(c))
            \/ OnProxied(Proxied!Next)
            \/ OnLife(Life!Next)

\* The fairness of the FairSpec of RequestPath, of Forward and of Lifecycle.
PathSpec ==
  /\ PathInit /\ [][PathNext]_allVars
  /\ \A c \in Calls :
       /\ WF_allVars(OnPath(EdgeOnly(Tick(c))))
       /\ WF_allVars(OnPath(EdgeOnly(OuterStep(c))))
       /\ WF_allVars(OnPath(EdgeOnly(ChainStep(c)) \/ StartCall(c)))
       /\ WF_allVars(OnPath(EdgeOnly(CallCancelled(c))))
       /\ WF_allVars(OnPath(Abandoned(c) /\ CoreOnly(CoreStep(c))))
  /\ WF_allVars(OnProxied(Proxied!UpPump))
  /\ WF_allVars(OnProxied(Proxied!DownPump))
  /\ WF_allVars(OnProxied(Proxied!Handler))
  /\ WF_allVars(OnLife(Life!Hook)) /\ WF_allVars(OnLife(Life!Expire))
  /\ \A w \in Work : WF_allVars(OnLife(cancelled /\ Life!GiveUp(w)))

\* The status of a proxied call is its upstream's: see OutcomeTrue in Forward.
ProxiedOutcomeTrue == Proxied!OutcomeTrue

\* Nothing of a proxied call is left behind: see PumpsEnd in Forward.
ProxiedPumpsEnd == Proxied!PumpsEnd

\* Shutdown cuts no request within its budget: see NeverCut in Lifecycle.
LifeNeverCut == Life!NeverCut

\* Whatever a process opened is closed when it ends: see AllReleased in
\* Lifecycle.
LifeAllReleased == Life!AllReleased

\* Shutdown ends: see Exits in Lifecycle.
LifeExits == Life!Exits
=============================================================================
