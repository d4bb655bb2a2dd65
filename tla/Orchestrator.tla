---------------------------- MODULE Orchestrator ----------------------------
(***************************************************************************)
(* The agent loop for one request: Orchestrator.events() of                *)
(* app/agent/orchestrator.py with the guardrails it consults.              *)
(*                                                                         *)
(* One action per stretch of the coroutine between two awaits.  The        *)
(* retrieval service, the LLM provider and the tool executor are the       *)
(* environment: they answer with anything their interface allows, or raise *)
(* (Abort).  Tokens are counted; texts are abstracted to the tool calls    *)
(* they request and the labels they cite; a tool call is its cycle_key,    *)
(* the tool name with its normalized arguments.                            *)
(***************************************************************************)
EXTENDS CitationRegistry, Places

CONSTANTS Keys,             \* tool calls, up to cycle_key
          SeedResults,      \* record lists the seed retrieval may return
          ToolResults,      \* record lists a tool result may carry
          Plans,            \* tool-call lists one model response may request
          Projections,      \* what the provider's token counter may return
          MaxAgentSteps, TokenLimit, ReserveOutput, MaxToolRetries,   \* settings
          Slack             \* how far the counter may underestimate an input

ASSUME ResultsAreRecordLists == /\ SeedResults \subseteq Seq(Records)
                                /\ ToolResults \subseteq Seq(Records)
ASSUME PlansAreCallLists == Plans \subseteq Seq(Keys) \ {<<>>}
ASSUME SettingsAreNaturals == /\ MaxAgentSteps \in Nat \ {0}
                              /\ TokenLimit \in Nat
                              /\ ReserveOutput \in Nat
                              /\ MaxToolRetries \in Nat
                              /\ Slack \in Nat
                              /\ Projections \subseteq Nat

VARIABLES
    pc,          \* where the coroutine is suspended
    step,        \* completed iterations of the tool loop
    consumed,    \* TokenBudget.consumed
    spent,       \* total of `usage`, input and output tokens
    seen,        \* CycleDetector._seen
    registry,    \* the citation registry
    messages,    \* the conversation sent to the model
    queue,       \* tool calls of the current response still to be run
    attempt,     \* failed attempts of the call in progress
    trace,       \* the tool-call trace
    stopReason,
    used,        \* used_indices: the citations kept in the answer
    sources,     \* the sources array of the answer
    calls,       \* attempts made per key, see Count (history variable)
    llmCalls     \* completed LLM completions (history variable)

vars == <<pc, step, consumed, spent, seen, registry, messages, queue, attempt,
          trace, stopReason, used, sources, calls, llmCalls>>

budgetVars == <<step, consumed, spent, llmCalls>>
answerVars == <<stopReason, used, sources>>
toolVars   == <<seen, attempt, calls>>

-----------------------------------------------------------------------------
\* Messages carry what the properties are about: the calls an assistant message
\* requests (a tool message names the call it answers) and the labelled records
\* that the text shows to the model.
Message(role, keys, shown, isError) ==
    [role |-> role, calls |-> keys, shown |-> shown, error |-> isError]

User(shown)                   == Message("user", <<>>, shown, FALSE)
Assistant(plan)               == Message("assistant", plan, {}, FALSE)
\* Mutant: an error is shown to the model as an ordinary result.
ToolResultUnflagged(k, shown, isError) == Message("tool", <<k>>, shown, FALSE)

ToolResult(k, shown, isError) == Message("tool", <<k>>, shown, isError)

TraceStep(k, isError) == [step |-> step, call |-> k, error |-> isError]

\* The guardrails.

\* Mutant: no headroom is kept for the output.
CanAffordInput(projected) == consumed + projected <= TokenLimit

CanAfford(projected) == consumed + projected + ReserveOutput <= TokenLimit

Reconcile(tokens) == consumed + tokens

\* Mutant: `attempt = 0` moved inside the retry loop.
FailuresReset(n) == 1

Failures(n) == n + 1

\* Mutant: the cap is off by one.
GivesUpLate(n) == n > MaxToolRetries + 1

GivesUp(n) == n > MaxToolRetries

\* Mutant: `while step <= max_agent_steps`.
AtStepCapLate == step > MaxAgentSteps

AtStepCap == step >= MaxAgentSteps

\* The tokens a completion may use: max_tokens caps the output, and the input is
\* what the counter projected, up to the counter's error.
UsageFor(projected) == 0..(projected + Slack + ReserveOutput)

\* The history counter `calls` stays finite: past the bound it is checked against it
\* alternates between two values, so that a step that counts is never a stutter.
Count(n) == IF n > MaxToolRetries + 2 THEN n - 1 ELSE n + 1

\* Mutant: the labels restart at 1 in every tool message.
ShownByPosition(recs) ==
    {[index |-> i, chunk |-> recs[i].chunk, content |-> recs[i].content] : i \in DOMAIN recs}

\* Mutant: labels numbered from 0.
ShownFromZero(recs) == {[e EXCEPT !.index = @ - 1] : e \in EntriesOf(Add(registry, recs))}

\* What the tool message for a result shows: its records, under their labels.
ShownBy(recs) ==
    LET ix == Indices(registry, recs)
    IN  EntriesFor(Add(registry, recs), {ix[i] : i \in DOMAIN ix})

-----------------------------------------------------------------------------
Init == /\ pc = "seed"
        /\ step = 0 /\ consumed = 0 /\ spent = 0 /\ llmCalls = 0
        /\ seen = {} /\ attempt = 0
        /\ calls = [k \in Keys |-> 0]
        /\ registry = Empty
        /\ messages = <<>>
        /\ queue = <<>>
        /\ trace = <<>>
        /\ stopReason = "answered"
        /\ used = {} /\ sources = {}

\* The guaranteed seed retrieval returns.
Seed(recs) ==
    /\ pc = "seed"
    /\ pc' = "list"
    /\ registry' = Add(registry, recs)
    /\ UNCHANGED <<budgetVars, answerVars, toolVars, messages, queue, trace>>

\* The tools are listed and the first prompt is built from the whole registry.
ListTools ==
    /\ pc = "list"
    /\ pc' = "loop"
    /\ messages' = <<User(EntriesOf(registry))>>
    /\ UNCHANGED <<budgetVars, answerVars, toolVars, registry, queue, trace>>

\* _final_completion: the loop is left and the model asked for a last answer.
AskFinal(reason) ==
    /\ pc' = "final"
    /\ stopReason' = reason
    /\ messages' = Append(messages, User({}))
    /\ UNCHANGED <<budgetVars, toolVars, registry, queue, trace, used, sources>>

StopAtCap == /\ pc = "loop" /\ AtStepCap
             /\ AskFinal("step_cap")

\* Mutant: the budget is consulted before the step cap.
StopOnBudgetFirst(projected) == /\ pc = "loop"
                                /\ ~CanAfford(projected)
                                /\ AskFinal("token_budget")

StopOnBudget(projected) == /\ pc = "loop" /\ ~AtStepCap
                           /\ ~CanAfford(projected)
                           /\ AskFinal("token_budget")

\* validate_and_strip keeps the cited labels the registry knows; sources_for
\* turns the kept ones into the sources array.
\* Mutant: hallucinated labels are not stripped.
KeptAll(cited) == cited

Kept(cited) == {n \in cited : HasIndex(registry, n)}

Deliver(cited) == /\ pc' = "done"
                  /\ used' = Kept(cited)
                  /\ sources' = SourcesFor(registry, used')
                  /\ UNCHANGED <<registry, messages, queue, toolVars, trace, step>>

\* A completion that requests no tools is the answer.
PlanAnswer(projected, tokens, cited) ==
    /\ pc = "loop" /\ ~AtStepCap
    /\ CanAfford(projected)
    /\ spent' = spent + tokens
    /\ consumed' = Reconcile(tokens)
    /\ llmCalls' = llmCalls + 1
    /\ stopReason' = "answered"
    /\ Deliver(cited)

\* A completion that requests tools.
PlanTools(projected, tokens, plan) ==
    /\ pc = "loop" /\ ~AtStepCap
    /\ CanAfford(projected)
    /\ spent' = spent + tokens
    /\ consumed' = Reconcile(tokens)
    /\ llmCalls' = llmCalls + 1
    /\ messages' = Append(messages, Assistant(plan))
    /\ queue' = plan
    /\ pc' = "tools"
    /\ UNCHANGED <<step, answerVars, toolVars, registry, trace>>

\* _run_tool on a call that repeats one already made in this request.
IsRepeat(k) == k \in seen

\* Mutant: a blocked call gets a trace step but no tool message.
BlockRepeatSilently ==
    /\ pc = "tools" /\ queue # <<>>
    /\ IsRepeat(Head(queue))
    /\ trace' = Append(trace, TraceStep(Head(queue), TRUE))
    /\ queue' = Tail(queue)
    /\ UNCHANGED <<pc, budgetVars, answerVars, toolVars, registry, messages>>

BlockRepeat ==
    /\ pc = "tools" /\ queue # <<>>
    /\ IsRepeat(Head(queue))
    /\ trace' = Append(trace, TraceStep(Head(queue), TRUE))
    /\ messages' = Append(messages, ToolResult(Head(queue), {}, TRUE))
    /\ queue' = Tail(queue)
    /\ UNCHANGED <<pc, budgetVars, answerVars, toolVars, registry>>

\* _run_tool on a new call: it is remembered and its first attempt starts.
StartCall ==
    /\ pc = "tools" /\ queue # <<>>
    /\ ~IsRepeat(Head(queue))
    /\ seen' = seen \cup {Head(queue)}
    /\ attempt' = 0
    /\ calls' = [calls EXCEPT ![Head(queue)] = Count(@)]
    /\ pc' = "call"
    /\ UNCHANGED <<budgetVars, answerVars, registry, messages, queue, trace>>

\* The rest of _run_tool once the call has an outcome.  An outcome without
\* records leaves the registry alone and shows none.
Record(recs, isError) ==
    /\ registry' = Add(registry, recs)
    /\ trace' = Append(trace, TraceStep(Head(queue), isError))
    /\ messages' = Append(messages, ToolResult(Head(queue), ShownBy(recs), isError))
    /\ queue' = Tail(queue)
    /\ pc' = "tools"
    /\ UNCHANGED <<budgetVars, answerVars, seen, calls>>

\* The tool answers; a result may carry records whether or not it is an error.
CallReturns(recs, isError) ==
    /\ pc = "call"
    /\ Record(recs, isError)
    /\ UNCHANGED attempt

\* The attempt raises ToolError: the call is retried, or given up.
CallRetries ==
    /\ pc = "call"
    /\ ~GivesUp(Failures(attempt))
    /\ attempt' = Failures(attempt)
    /\ calls' = [calls EXCEPT ![Head(queue)] = Count(@)]
    /\ UNCHANGED <<pc, budgetVars, answerVars, seen, registry, messages, queue, trace>>

CallGivesUp ==
    /\ pc = "call"
    /\ GivesUp(Failures(attempt))
    /\ attempt' = Failures(attempt)
    /\ Record(<<>>, TRUE)

\* Every call of the response has been run.
EndStep ==
    /\ pc = "tools" /\ queue = <<>>
    /\ step' = step + 1
    /\ pc' = "loop"
    /\ UNCHANGED <<consumed, spent, llmCalls, answerVars, toolVars, registry, messages,
                   queue, trace>>

\* The forced last completion: its usage is reported, but not reconciled.
FinalAnswer(tokens, cited) ==
    /\ pc = "final"
    /\ spent' = spent + tokens
    /\ llmCalls' = llmCalls + 1
    /\ UNCHANGED <<consumed, stopReason>>
    /\ Deliver(cited)

\* Anything but a ToolError raised by an await, or the consumer closing the
\* generator, ends the request.
Abort ==
    /\ pc \notin {"done", "failed"}
    /\ pc' = "failed"
    /\ UNCHANGED <<budgetVars, answerVars, toolVars, registry, messages, queue, trace>>

\* The request is over.
Ended == pc \in {"done", "failed"} /\ UNCHANGED vars

\* The steps outside _run_tool, and the retry inside it: they send no tool event.
Silent ==
    \/ \E recs \in SeedResults : Seed(recs)
    \/ ListTools
    \/ StopAtCap
    \/ \E p \in Projections : StopOnBudget(p)
    \/ \E p \in Projections : \E u \in UsageFor(p) :
          \/ \E cited \in SUBSET (0..Size(registry) + 1) : PlanAnswer(p, u, cited)
          \/ \E plan \in Plans : PlanTools(p, u, plan)
    \/ CallRetries
    \/ EndStep
    \/ \E p \in Projections : \E u \in UsageFor(p) :
          \E cited \in SUBSET (0..Size(registry) + 1) : FinalAnswer(u, cited)

Next == \/ Silent
        \/ BlockRepeat
        \/ StartCall
        \/ \E recs \in ToolResults, isError \in BOOLEAN : CallReturns(recs, isError)
        \/ CallGivesUp
        \/ Abort
        \/ Ended

Spec == Init /\ [][Next]_vars

-----------------------------------------------------------------------------
\* The labelled records the model has been shown so far.
Shown == UNION {messages[p].shown : p \in DOMAIN messages}

Role(role) == {p \in DOMAIN messages : messages[p].role = role}

\* Every variable stays in the set the code keeps it in.
TypeOK ==
    /\ pc \in {"seed", "list", "loop", "tools", "call", "final", "done", "failed"}
    /\ step \in Nat /\ consumed \in Nat /\ spent \in Nat /\ llmCalls \in Nat
    /\ seen \subseteq Keys
    /\ attempt \in Nat
    /\ calls \in [Keys -> Nat]
    /\ DOMAIN registry \subseteq Chunks
    /\ EntriesOf(registry) \subseteq Entries
    /\ messages \in Seq([role : {"user", "assistant", "tool"}, calls : Seq(Keys),
                         shown : SUBSET Entries, error : BOOLEAN])
    /\ queue \in Seq(Keys)
    /\ trace \in Seq([step : Nat, call : Keys, error : BOOLEAN])
    /\ stopReason \in {"answered", "step_cap", "token_budget"}
    /\ used \subseteq Nat
    /\ sources \subseteq Entries

\* The registry and the conversation agree: a label can be cited exactly when the
\* model has been shown a record under it, and the entry the sources array would
\* give for the label is that very record, chunk and content.
LabelsMeanWhatWasShown == messages # <<>> => Shown = EntriesOf(registry)

\* When a completion is requested, every tool call of every assistant message is
\* answered, once and in order, by the messages that follow it, and no tool
\* message answers anything else: the providers reject any other conversation.
ToolCallsAnswered ==
    pc \in {"loop", "final", "done"} =>
       Role("tool") = UNION {{p + j : j \in DOMAIN messages[p].calls} : p \in Role("assistant")}
    /\ \A p \in Role("assistant") : \A j \in DOMAIN messages[p].calls :
          messages[p + j].calls = <<messages[p].calls[j]>>

\* The trace returned to the user tells what the model was told: the same calls in
\* the same order with the same error flags, numbered by the loop iteration whose
\* response requested them.
TraceTellsConversation ==
    /\ Len(trace) = Cardinality(Role("tool"))
    /\ \A p \in Role("tool") :
          trace[Place(Role("tool"), p)] = [step  |-> Place(Role("assistant"), p) - 1,
                                           call  |-> messages[p].calls[1],
                                           error |-> messages[p].error]

\* Cycle detection and the retry cap together: however often the model asks for
\* it, in one response or across responses, a call is attempted at most
\* 1 + MAX_TOOL_RETRIES times in a request.
AttemptsBounded == \A k \in Keys : calls[k] <= 1 + MaxToolRetries

\* The loop's own completions stay within the token budget, up to the error of the
\* provider's counter.
BudgetRespected == consumed <= TokenLimit + Slack

\* MAX_AGENT_STEPS is a hard stop: one completion per iteration, and at most one
\* more to force the final answer.
CompletionsBounded == llmCalls <= MaxAgentSteps + 1

\* The stop reason and the step count reported in the done event tell how the loop
\* ended: the cap is blamed exactly when all iterations were used up, and an
\* answer the model gave by itself was paid from the budget.
StopReasonTruthful ==
    pc = "done" => /\ stopReason = "step_cap" <=> step = MaxAgentSteps
                   /\ stopReason = "answered" => spent = consumed /\ llmCalls = step + 1

\* Every citation left in the answer has its entry in the sources array, and every
\* source is cited.
CitationsHaveSources == pc = "done" => used = {e.index : e \in sources}

\* Each request keeps the promise of GroundedAnswer.
Promise == INSTANCE GroundedAnswer
              WITH surfaced <- Shown,
                   outcome  <- CASE pc = "done"   -> "answered"
                                 [] pc = "failed" -> "failed"
                                 [] OTHER         -> "open"

ImplementsGroundedAnswer == Promise!Spec
=============================================================================
