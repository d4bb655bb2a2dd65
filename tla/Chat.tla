-------------------------------- MODULE Chat --------------------------------
(***************************************************************************)
(* One /chat request (app/api/chat.py): an MCP client is connected         *)
(* (app/mcp_client/client.py), the agent loop runs on it, its events are   *)
(* streamed to the client, and the connection is torn down on every way    *)
(* out.  The client may go away at any await or yield, or stay and read no *)
(* more, which holds the generator up at its yields.                       *)
(*                                                                         *)
(* The module adds the session and the stream to Orchestrator, whose       *)
(* actions are its steps while the session is open.  Progress events are   *)
(* left out, and one token event stands for all of them.                   *)
(***************************************************************************)
EXTENDS Orchestrator

VARIABLES phase,    \* "connecting", "serving", "closing" or "over"
          stack,    \* contexts on the AsyncExitStack: the transport, then the session
          pending,  \* the exception on its way out: "none", "error" or "cancelled"
          client,   \* "reading", "stalled" (connected, but reads no more) or "gone"
          stream    \* the events sent

chatVars == <<phase, stack, pending, client, stream>>
allVars  == <<vars, chatVars>>

gone == client = "gone"

Event(type)              == [type |-> type]
ToolCallEvent(k)         == [type |-> "tool_call", call |-> k]
ToolResultEvent(k, isError) == [type |-> "tool_result", call |-> k, error |-> isError]

AnswerEvents == <<"token", "sources", "trace", "done">>

-----------------------------------------------------------------------------
ChatInit == /\ Init
            /\ phase = "connecting" /\ stack = 0
            /\ pending = "none" /\ client = "reading"
            /\ stream = <<>>

\* __aenter__: the transport and the session are entered one after the other.
EnterContext == /\ phase = "connecting" /\ stack < 2
                /\ stack' = stack + 1
                /\ UNCHANGED <<vars, phase, pending, client, stream>>

\* The server has answered initialize().
Connected == /\ phase = "connecting" /\ stack = 2
             /\ phase' = "serving"
             /\ UNCHANGED <<vars, stack, pending, client, stream>>

\* Connecting fails; what was entered is closed before the error leaves.
ConnectRaises == /\ phase = "connecting"
                 /\ phase' = "closing"
                 /\ pending' = "error"
                 /\ UNCHANGED <<vars, stack, client, stream>>

\* The loop goes on while the session is open.
Serving == phase = "serving" /\ UNCHANGED <<phase, stack, pending, client>>

Send(events) == stream' = stream \o events

\* Mutant: a blocked call is not reported to the client.
BlockedEvents(k) == <<ToolCallEvent(k)>>

RepeatEvents(k) == <<ToolCallEvent(k), ToolResultEvent(k, TRUE)>>

\* The steps of the loop, with the tool events they send.
Serve == /\ Serving
         /\ \/ Silent /\ UNCHANGED stream
            \/ BlockRepeat /\ Send(RepeatEvents(Head(queue)))
            \/ StartCall /\ Send(<<ToolCallEvent(Head(queue))>>)
            \/ \E recs \in ToolResults, isError \in BOOLEAN :
                  CallReturns(recs, isError) /\ Send(<<ToolResultEvent(Head(queue), isError)>>)
            \/ CallGivesUp /\ Send(<<ToolResultEvent(Head(queue), TRUE)>>)

\* The answer events sent so far.
Delivered == {stream[i].type : i \in DOMAIN stream} \cap {AnswerEvents[i] : i \in 1..4}

\* The loop has its answer; the events that carry it follow, none or more tokens first.
DeliverEvent(n) == /\ pc = "done" /\ Serving
                   /\ Delivered \subseteq {AnswerEvents[i] : i \in 1..n - 1}
                   /\ {AnswerEvents[i] : i \in 2..n - 1} \subseteq Delivered
                   /\ Send(<<Event(AnswerEvents[n])>>)
                   /\ UNCHANGED vars

\* events() is exhausted and the context of the client left.
Exhausted == /\ phase = "serving"
             /\ "done" \in Delivered
             /\ phase' = "closing"
             /\ UNCHANGED <<vars, stack, pending, client, stream>>

\* An await of the loop raises anything but a handled ToolError.
LoopRaises == /\ phase = "serving"
              /\ Abort
              /\ phase' = "closing"
              /\ pending' = "error"
              /\ UNCHANGED <<stack, client, stream>>

\* Mutant: `except Exception` in __aenter__ lets a cancellation through.
AfterCancelUnhandled == IF phase = "connecting" THEN "over" ELSE "closing"

AfterCancel == "closing"

\* The client stays connected and reads no more.
Stall == /\ phase # "over" /\ client = "reading"
         /\ client' = "stalled"
         /\ UNCHANGED <<vars, phase, stack, pending, stream>>

\* The client goes away: the generator is cancelled wherever it is suspended, and
\* the loop with it.
Disconnect == /\ phase # "over" /\ ~gone
              /\ client' = "gone"
              /\ pending' = "cancelled"
              /\ phase' = AfterCancel
              /\ \/ phase = "serving" /\ Abort
                 \/ (phase # "serving" \/ pc = "done") /\ UNCHANGED vars
              /\ UNCHANGED <<stack, stream>>

\* aclose() leaves one context; if that raises, its exception takes the place of the
\* one on its way out, and the other context is left all the same.
CloseContext(raises) == /\ phase = "closing" /\ stack > 0
                        /\ stack' = stack - 1
                        /\ pending' = IF raises THEN "error" ELSE pending
                        /\ UNCHANGED <<vars, phase, client, stream>>

\* Mutant: an exception ends the stream without an event.
ErrorSwallowed == <<>>

ErrorEvents == IF pending = "error" /\ ~gone THEN <<Event("error")>> ELSE <<>>

\* The `except Exception` of event_stream, or its end.
Finish == /\ phase = "closing" /\ stack = 0
          /\ phase' = "over"
          /\ Send(ErrorEvents)
          /\ UNCHANGED <<vars, stack, pending, client>>

Over == phase = "over" /\ UNCHANGED allVars

\* The handler's own steps.
Session == \/ EnterContext
           \/ Connected
           \/ Serve
           \/ \E n \in 1..4 : DeliverEvent(n)
           \/ Exhausted
           \/ \E raises \in BOOLEAN : CloseContext(raises)
           \/ Finish

ChatNext == Session \/ ConnectRaises \/ LoopRaises \/ Stall \/ Disconnect \/ Over

ChatSpec == ChatInit /\ [][ChatNext]_allVars

\* At an await without a timeout: the handshake, the retrieval of the seed, whose
\* statements the engine sets none for, and the tool list.
Waits == phase = "connecting" \/ (phase = "serving" /\ pc \in {"seed", "list"})

\* Where a yield may be held up by a client that reads no more: sending has no timeout.
AtSend == /\ client = "stalled"
          /\ \/ phase = "serving"
             \/ phase = "closing" /\ stack = 0 /\ pending = "error"

Stuck == Waits \/ AtSend

\* Elsewhere the handler goes on: tool calls are cut off by tool_timeout_seconds, and the
\* SDKs under the completions and under closing a session have timeouts of their own.
FairChatSpec == ChatSpec /\ WF_allVars(~Stuck /\ Session)

-----------------------------------------------------------------------------
\* No way out of a request, not even a client that goes away during the handshake or
\* an error while closing, leaves a transport or a session of the tool server behind.
NoSessionLeft == phase = "over" => stack = 0

ResultsAt == {i \in DOMAIN stream : stream[i].type = "tool_result"}

\* The client has seen what the trace will tell: one result per step of the trace, with
\* its call and its error flag, each announced by the tool_call event before it.
StreamTellsTrace ==
    /\ Len(trace) = Cardinality(ResultsAt)
    /\ \A i \in ResultsAt :
          LET told == trace[Place(ResultsAt, i)]
          IN  /\ stream[i].call = told.call /\ stream[i].error = told.error
              /\ i > 1 /\ stream[i - 1] = ToolCallEvent(told.call)

\* A client that stays learns how the request ended: the last event is "done" or "error",
\* whatever failed and when, and nothing is sent after an error.
StreamEndsWell ==
    /\ phase = "over" /\ ~gone => stream # <<>> /\ stream[Len(stream)].type \in {"done", "error"}
    /\ \A i \in DOMAIN stream : stream[i].type = "error" => i = Len(stream)

\* A request ends and is cleaned up, whatever fails and however often calls are retried,
\* unless it hangs for good at an await without a timeout (the handshake, the seed
\* retrieval, the tool list) or at sending to a client that stays and reads no more.
RequestEnds == <>(phase = "over") \/ <>[]Stuck
=============================================================================
