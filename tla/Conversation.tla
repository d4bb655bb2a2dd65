---------------------------- MODULE Conversation ----------------------------
(***************************************************************************)
(* The conversation on the wire: _to_messages() of                         *)
(* app/llm/anthropic_provider.py and app/llm/openai_provider.py, applied   *)
(* to the messages the agent loop builds.  A wire message keeps its role,  *)
(* the calls it requests and the results it carries.                       *)
(***************************************************************************)
EXTENDS Orchestrator, SequencesExt

Wire(role, uses, results) == [role |-> role, uses |-> uses, results |-> results]

Result(m) == [call |-> m.calls[1], error |-> m.error]

-----------------------------------------------------------------------------
\* Anthropic: `out` and `pending`, the tool results waiting for their user turn.

\* Mutant: `pending` is not cleared.
FlushedUncleared(acc) ==
    IF acc.pending = <<>> THEN acc
    ELSE [acc EXCEPT !.out = Append(@, Wire("user", <<>>, acc.pending))]

\* flush()
Flushed(acc) ==
    IF acc.pending = <<>> THEN acc
    ELSE [out |-> Append(acc.out, Wire("user", <<>>, acc.pending)), pending |-> <<>>]

TurnOf(m) == Wire(m.role, IF m.role = "assistant" THEN m.calls ELSE <<>>, <<>>)

\* Mutant: every tool result becomes a user turn of its own.
TurnAddedSeparately(acc, m) ==
    IF m.role = "tool"
    THEN [acc EXCEPT !.out = Append(@, Wire("user", <<>>, <<Result(m)>>))]
    ELSE [acc EXCEPT !.out = Append(@, TurnOf(m))]

\* One iteration over the messages.
TurnAdded(acc, m) ==
    IF m.role = "tool"
    THEN [acc EXCEPT !.pending = Append(@, Result(m))]
    ELSE [out |-> Append(Flushed(acc).out, TurnOf(m)), pending |-> Flushed(acc).pending]

NothingYet == [out |-> <<>>, pending |-> <<>>]

\* The loop, up to its last iteration.
Gathered(msgs) ==
    LET acc[n \in 0..Len(msgs)] ==
            IF n = 0 THEN NothingYet ELSE TurnAdded(acc[n - 1], msgs[n])
    IN  acc[Len(msgs)]

AnthropicTurns(msgs) == Flushed(Gathered(msgs)).out

\* OpenAI: one message each after the system prompt; the error flag has no field.
OpenAIMessages(msgs) ==
    <<Wire("system", <<>>, <<>>)>> \o
    [p \in DOMAIN msgs |->
        IF msgs[p].role = "tool" THEN Wire("tool", <<>>, <<[call |-> msgs[p].calls[1]]>>)
                                 ELSE TurnOf(msgs[p])]

-----------------------------------------------------------------------------
\* A completion is about to be requested, or its tokens to be counted.
Requesting == pc \in {"loop", "final"}

CallsIn(results) == [i \in DOMAIN results |-> results[i].call]

\* "The API expects all tool_result blocks for the preceding assistant turn in a single
\* message": in every request, a turn that uses tools is followed by one user turn that
\* answers exactly those uses in their order, and no other turn carries results.
TurnsPair ==
    Requesting =>
       LET turns == AnthropicTurns(messages)
       IN  /\ turns[1].role = "user" /\ turns[Len(turns)].role = "user"
           /\ \A p \in DOMAIN turns : turns[p].uses # <<>> =>
                 turns[p + 1].role = "user" /\ CallsIn(turns[p + 1].results) = turns[p].uses
           /\ \A p \in DOMAIN turns : turns[p].results # <<>> => p > 1 /\ turns[p - 1].uses # <<>>

Uses(wire)    == FlattenSeq([p \in DOMAIN wire |-> wire[p].uses])
Answers(wire) == FlattenSeq([p \in DOMAIN wire |-> wire[p].results])

\* Both providers are told the same: the calls the model requested, each with its
\* answer, nothing twice and nothing missing; Claude also reads the error flags that the
\* trace reports.
ProvidersToldTheSame ==
    Requesting =>
       LET claude == AnthropicTurns(messages)
           gpt    == OpenAIMessages(messages)
       IN  /\ Uses(claude) = Uses(gpt)
           /\ CallsIn(Answers(claude)) = CallsIn(Answers(gpt))
           /\ Answers(claude) = [n \in DOMAIN trace |-> [call |-> trace[n].call, error |-> trace[n].error]]
=============================================================================
