------------------------------- MODULE Forward -------------------------------
(***************************************************************************)
(* edge/forward.go: one proxied call.  Two goroutines pump frames, one     *)
(* each way, and leave their error in a channel of their own; the handler  *)
(* selects over both channels.  Frames are opaque (rawCodec) and counted.  *)
(*                                                                         *)
(* The streams are grpc-go's.  A stream whose context has ended, or whose  *)
(* handler has returned, fails what uses it; frames that are buffered may  *)
(* still come first.  SendMsg on an upstream call that is over returns     *)
(* io.EOF and leaves the reason to RecvMsg.                                *)
(***************************************************************************)
EXTENDS Naturals

CONSTANT MaxFrames  \* bound on the frames each way

VARIABLES
  client,    \* the request body: "open", "closed" (all sent) or "broken"
  ctx,       \* the server stream's context is done
  requests,  \* frames: [sent, taken (by the pump), given (to the upstream)]
  upstream,  \* the upstream call: "running", "OK" or "failed"
  half,      \* CloseSend was called
  replies,   \* frames: [sent, taken, given (to the client)]
  header,    \* the upstream's headers were sent on
  pump,      \* each pump's program counter
  err,       \* the error each pump returned, "none" while it runs
  channel,   \* clientToUpstream and upstreamToClient
  turns,     \* iterations left of the handler's loop
  outcome    \* what the handler returned

vars == <<client, ctx, requests, upstream, half, replies, header, pump, err,
          channel, turns, outcome>>

Frames == [sent : 0..MaxFrames, taken : 0..MaxFrames, given : 0..MaxFrames]
None == [sent |-> 0, taken |-> 0, given |-> 0]
Ways == {"up", "down"}
Errors == {"none", "EOF", "error", "status", "Canceled"}

TypeOK ==
  /\ client \in {"open", "closed", "broken"} /\ ctx \in BOOLEAN
  /\ requests \in Frames /\ replies \in Frames
  /\ upstream \in {"running", "OK", "failed"}
  /\ half \in BOOLEAN /\ header \in BOOLEAN
  /\ pump \in [Ways -> {"recv", "header", "send", "exit", "gone"}]
  /\ err \in [Ways -> Errors] /\ channel \in [Ways -> Errors]
  /\ turns \in 0..2
  /\ outcome \in {"none", "OK", "failed", "Canceled", "error", "Internal", "confused"}

Init ==
  /\ client = "open" /\ ctx = FALSE
  /\ requests = None /\ replies = None
  /\ upstream = "running" /\ half = FALSE /\ header = FALSE
  /\ pump = [w \in Ways |-> "recv"]
  /\ err = [w \in Ways |-> "none"] /\ channel = [w \in Ways |-> "none"]
  /\ turns = 2 /\ outcome = "none"

\* The server stream, and the upstream call with its cancel deferred.
StreamOver == ctx \/ outcome # "none"

-----------------------------------------------------------------------------
(* The client and the upstream service *)

ClientSends == /\ client = "open" /\ requests.sent < MaxFrames
               /\ requests' = [requests EXCEPT !.sent = @ + 1]
               /\ UNCHANGED <<client, ctx, upstream, half, replies, header, pump, err, channel, turns, outcome>>

\* The body ends, or breaks off (also: it is over BodyLimit).
ClientEnds == /\ client = "open"
              /\ client' \in {"closed", "broken"}
              /\ UNCHANGED <<ctx, requests, upstream, half, replies, header, pump, err, channel, turns, outcome>>

\* The client has gone, or the gateway's timeout fired.
CtxEnds == /\ ~ctx
           /\ ctx' = TRUE
           /\ UNCHANGED <<client, requests, upstream, half, replies, header, pump, err, channel, turns, outcome>>

UpstreamReplies == /\ upstream = "running" /\ ~StreamOver /\ replies.sent < MaxFrames
                   /\ replies' = [replies EXCEPT !.sent = @ + 1]
                   /\ UNCHANGED <<client, ctx, requests, upstream, half, header, pump, err, channel, turns, outcome>>

\* The upstream handler returns, whether or not it has read all requests.
UpstreamEnds == /\ upstream = "running"
                /\ upstream' \in {"OK", "failed"}
                /\ UNCHANGED <<client, ctx, requests, half, replies, header, pump, err, channel, turns, outcome>>

-----------------------------------------------------------------------------
(* The pumps *)

Goto(w, pc) == pump' = [pump EXCEPT ![w] = pc] /\ UNCHANGED err
Exit(w, e) == pump' = [pump EXCEPT ![w] = "exit"] /\ err' = [err EXCEPT ![w] = e]

\* pumpClientToUpstream
RecvRequest ==
  /\ pump["up"] = "recv"
  /\ \/ /\ requests.taken < requests.sent
        /\ requests' = [requests EXCEPT !.taken = @ + 1] /\ Goto("up", "send")
     \/ /\ requests.taken = requests.sent /\ client = "closed"
        /\ Exit("up", "EOF") /\ UNCHANGED requests
     \/ /\ requests.taken = requests.sent /\ client = "broken"
        /\ Exit("up", "error") /\ UNCHANGED requests
     \/ StreamOver /\ Exit("up", "error") /\ UNCHANGED requests
  /\ UNCHANGED <<client, ctx, upstream, half, replies, header, channel, turns, outcome>>

SendRequest ==
  /\ pump["up"] = "send"
  /\ \/ /\ ~StreamOver
        /\ requests' = [requests EXCEPT !.given = @ + 1] /\ Goto("up", "recv")
     \/ /\ StreamOver \/ upstream # "running"
        /\ Exit("up", "EOF") /\ UNCHANGED requests
  /\ UNCHANGED <<client, ctx, upstream, half, replies, header, channel, turns, outcome>>

\* Mutant: any end of the upstream call is a clean one.
AnyEndIsClean ==
  /\ pump["down"] = "recv"
  /\ \/ /\ replies.taken < replies.sent
        /\ replies' = [replies EXCEPT !.taken = @ + 1]
        /\ Goto("down", IF replies.taken = 0 THEN "header" ELSE "send")
     \/ /\ replies.taken = replies.sent /\ upstream # "running"
        /\ Exit("down", "EOF") /\ UNCHANGED replies
     \/ StreamOver /\ Exit("down", "Canceled") /\ UNCHANGED replies
  /\ UNCHANGED <<client, ctx, requests, upstream, half, header, channel, turns, outcome>>

\* pumpUpstreamToClient
RecvReply ==
  /\ pump["down"] = "recv"
  /\ \/ /\ replies.taken < replies.sent
        /\ replies' = [replies EXCEPT !.taken = @ + 1]
        /\ Goto("down", IF replies.taken = 0 THEN "header" ELSE "send")
     \/ /\ replies.taken = replies.sent /\ upstream # "running"
        /\ Exit("down", IF upstream = "OK" THEN "EOF" ELSE "status") /\ UNCHANGED replies
     \/ StreamOver /\ Exit("down", "Canceled") /\ UNCHANGED replies
  /\ UNCHANGED <<client, ctx, requests, upstream, half, header, channel, turns, outcome>>

SendHeader ==
  /\ pump["down"] = "header"
  /\ \/ header' = TRUE /\ ~StreamOver /\ Goto("down", "send")
     \/ StreamOver /\ Exit("down", "error") /\ UNCHANGED header
  /\ UNCHANGED <<client, ctx, requests, upstream, half, replies, channel, turns, outcome>>

SendReply ==
  /\ pump["down"] = "send"
  /\ \/ /\ ~StreamOver
        /\ replies' = [replies EXCEPT !.given = @ + 1] /\ Goto("down", "recv")
     \/ StreamOver /\ Exit("down", "error") /\ UNCHANGED replies
  /\ UNCHANGED <<client, ctx, requests, upstream, half, header, channel, turns, outcome>>

\* Mutant: the channels have no buffer, so a send waits for the select.
Rendezvous(w) == channel[w] = "none" /\ outcome = "none"

\* Channels of capacity 1 take the one error of their pump at once.
Room(w) == channel[w] = "none"

\* The goroutine leaves its error and ends.
Leave(w) ==
  /\ pump[w] = "exit" /\ Room(w)
  /\ channel' = [channel EXCEPT ![w] = err[w]]
  /\ pump' = [pump EXCEPT ![w] = "gone"]
  /\ UNCHANGED <<client, ctx, requests, upstream, half, replies, header, err, turns, outcome>>

-----------------------------------------------------------------------------
(* transparentHandler's loop *)

Take(w) == channel' = [channel EXCEPT ![w] = "none"]

\* The client finished sending: half-close and wait on.  It broke: give up.
UpPumpDone ==
  /\ outcome = "none" /\ channel["up"] # "none"
  /\ Take("up")
  /\ turns' = turns - 1
  /\ \/ /\ channel["up"] = "EOF"
        /\ half' = TRUE
        /\ outcome' = IF turns = 1 THEN "confused" ELSE "none"
     \/ channel["up"] # "EOF" /\ outcome' = "Internal" /\ UNCHANGED half
  /\ UNCHANGED <<client, ctx, requests, upstream, replies, header, pump, err>>

\* The upstream's outcome is the call's.
DownPumpDone ==
  /\ outcome = "none" /\ channel["down"] # "none"
  /\ Take("down")
  /\ turns' = turns - 1
  /\ outcome' = CASE channel["down"] = "EOF" -> "OK"
                  [] channel["down"] = "status" -> "failed"
                  [] OTHER -> channel["down"]
  /\ UNCHANGED <<client, ctx, requests, upstream, half, replies, header, pump, err>>

UpPump == RecvRequest \/ SendRequest \/ Leave("up")
DownPump == RecvReply \/ SendHeader \/ SendReply \/ Leave("down")
Handler == UpPumpDone \/ DownPumpDone
Environment == ClientSends \/ ClientEnds \/ CtxEnds \/ UpstreamReplies \/ UpstreamEnds

Next == UpPump \/ DownPump \/ Handler \/ Environment

Spec == Init /\ [][Next]_vars

\* Goroutines that can run do; client and upstream owe nothing.
FairSpec == Spec /\ WF_vars(UpPump) /\ WF_vars(DownPump) /\ WF_vars(Handler)

-----------------------------------------------------------------------------

\* The call's outcome is true: OK only when the upstream succeeded and every
\* frame of its reached the client, after the headers; failed only when the
\* upstream said so, with every frame of its; anything else only when the client
\* broke off or the context ended (transparentHandler, pumpUpstreamToClient).
OutcomeTrue ==
  /\ outcome \in {"OK", "failed"} =>
       /\ outcome = upstream
       /\ replies.given = replies.sent
       /\ header <=> replies.sent > 0
  /\ outcome = "Internal" => ctx \/ client = "broken"
  /\ outcome \in {"Canceled", "error"} => ctx
  /\ outcome # "confused"

\* Nothing is left behind: when the upstream is done, the client broke off or
\* the context ended, the handler returns and both goroutines end; a client
\* that has sent everything gets its half-close through or the call is over.
PumpsEnd ==
  /\ (upstream # "running" \/ client = "broken" \/ ctx)
       ~> (outcome # "none" /\ \A w \in Ways : pump[w] = "gone")
  /\ client = "closed" ~> (half \/ outcome # "none")
=============================================================================
