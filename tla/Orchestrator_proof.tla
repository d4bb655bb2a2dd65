------------------------- MODULE Orchestrator_proof -------------------------
(***************************************************************************)
(* Safety of the agent loop, for every value of the settings, every set of *)
(* chunks, contents and tool calls, and every behaviour of the environment *)
(* that the model allows.                                                  *)
(***************************************************************************)
EXTENDS Orchestrator, CitationRegistry_proof

MessageSet == [role : {"user", "assistant", "tool"}, calls : Seq(Keys),
               shown : SUBSET Entries, error : BOOLEAN]

-----------------------------------------------------------------------------
\* The tool loop and its accounting: completions are counted by iterations, and
\* the budget was checked before every completion it was charged for.
LoopInv ==
    /\ step \in Nat /\ consumed \in Nat /\ llmCalls \in Nat
    /\ step <= MaxAgentSteps
    /\ consumed <= TokenLimit + Slack
    /\ llmCalls <= MaxAgentSteps + 1
    /\ pc \in {"seed", "list", "loop", "final"} => llmCalls = step
    /\ pc \in {"tools", "call"} => llmCalls = step + 1 /\ step < MaxAgentSteps

LEMMA LoopInvInit == Init => LoopInv
  BY SettingsAreNaturals DEF Init, LoopInv

LEMMA LoopInvStep == LoopInv /\ [Next]_vars => LoopInv'
<1> SUFFICES ASSUME LoopInv, [Next]_vars PROVE LoopInv'
  OBVIOUS
<1> USE SettingsAreNaturals
<1>1. ASSUME NEW recs \in SeedResults, Seed(recs) PROVE LoopInv'
  BY <1>1 DEF Seed, budgetVars, LoopInv
<1>2. CASE ListTools
  BY <1>2 DEF ListTools, budgetVars, LoopInv
<1>3. CASE StopAtCap
  BY <1>3 DEF StopAtCap, AskFinal, budgetVars, LoopInv
<1>4. ASSUME NEW p \in Projections, StopOnBudget(p) PROVE LoopInv'
  BY <1>4 DEF StopOnBudget, AskFinal, budgetVars, LoopInv
<1>5. ASSUME NEW p \in Projections, NEW u \in UsageFor(p), CanAfford(p)
      PROVE  consumed + u \in Nat /\ consumed + u <= TokenLimit + Slack
  BY <1>5 DEF UsageFor, CanAfford, LoopInv
<1>6. ASSUME NEW p \in Projections, NEW u \in UsageFor(p),
             NEW cited \in SUBSET (0..Size(registry) + 1), PlanAnswer(p, u, cited)
      PROVE  LoopInv'
  <2>1. consumed + u \in Nat /\ consumed + u <= TokenLimit + Slack
    BY <1>5, <1>6 DEF PlanAnswer
  <2> QED
    BY <1>6, <2>1 DEF PlanAnswer, Deliver, Reconcile, LoopInv
<1>7. ASSUME NEW p \in Projections, NEW u \in UsageFor(p), NEW plan \in Plans,
             PlanTools(p, u, plan)
      PROVE  LoopInv'
  <2>1. consumed + u \in Nat /\ consumed + u <= TokenLimit + Slack
    BY <1>5, <1>7 DEF PlanTools
  <2> QED
    BY <1>7, <2>1 DEF PlanTools, AtStepCap, Reconcile, LoopInv
<1>8. CASE BlockRepeat
  BY <1>8 DEF BlockRepeat, budgetVars, LoopInv
<1>9. CASE StartCall
  BY <1>9 DEF StartCall, budgetVars, LoopInv
<1>10. ASSUME NEW recs \in ToolResults, NEW isError \in BOOLEAN, CallReturns(recs, isError)
       PROVE  LoopInv'
  BY <1>10 DEF CallReturns, Record, budgetVars, LoopInv
<1>11. CASE CallRetries
  BY <1>11 DEF CallRetries, budgetVars, LoopInv
<1>12. CASE CallGivesUp
  BY <1>12 DEF CallGivesUp, Record, budgetVars, LoopInv
<1>13. CASE EndStep
  BY <1>13 DEF EndStep, LoopInv
<1>14. ASSUME NEW p \in Projections, NEW u \in UsageFor(p),
              NEW cited \in SUBSET (0..Size(registry) + 1), FinalAnswer(u, cited)
       PROVE  LoopInv'
  BY <1>14 DEF FinalAnswer, Deliver, LoopInv
<1>15. CASE Abort
  BY <1>15 DEF Abort, budgetVars, LoopInv
<1>16. CASE Ended
  BY <1>16 DEF Ended, vars, LoopInv
<1>17. CASE UNCHANGED vars
  BY <1>17 DEF vars, LoopInv
<1> QED
  BY <1>1, <1>2, <1>3, <1>4, <1>6, <1>7, <1>8, <1>9, <1>10, <1>11, <1>12, <1>13, <1>14,
     <1>15, <1>16, <1>17 DEF Next, Silent

\* The loop's completions never overdraw the token budget by more than the error
\* of the provider's counter.
THEOREM BudgetIsRespected == Spec => []BudgetRespected
<1>1. LoopInv => BudgetRespected
  BY DEF LoopInv, BudgetRespected
<1> QED
  BY <1>1, LoopInvInit, LoopInvStep, PTL DEF Spec

\* A request makes at most MAX_AGENT_STEPS + 1 completions.
THEOREM CompletionsAreBounded == Spec => []CompletionsBounded
<1>1. LoopInv => CompletionsBounded
  BY DEF LoopInv, CompletionsBounded
<1> QED
  BY <1>1, LoopInvInit, LoopInvStep, PTL DEF Spec

-----------------------------------------------------------------------------
\* Cycle detection and retries: a call that was attempted is remembered, and the
\* attempts of the call in progress are its failures and the one under way.
CallInv ==
    /\ queue \in Seq(Keys)
    /\ calls \in [Keys -> Nat]
    /\ attempt \in Nat
    /\ seen \subseteq Keys
    /\ \A k \in Keys : calls[k] <= 1 + MaxToolRetries
    /\ \A k \in Keys : calls[k] > 0 => k \in seen
    /\ pc = "call" => /\ queue # <<>>
                      /\ Head(queue) \in seen
                      /\ attempt <= MaxToolRetries
                      /\ calls[Head(queue)] = attempt + 1

LEMMA CallInvInit == Init => CallInv
  BY SettingsAreNaturals DEF Init, CallInv

LEMMA CallInvStep == CallInv /\ [Next]_vars => CallInv'
<1> SUFFICES ASSUME CallInv, [Next]_vars PROVE CallInv'
  OBVIOUS
<1> USE SettingsAreNaturals
<1>0. queue # <<>> => Head(queue) \in Keys /\ Tail(queue) \in Seq(Keys)
  BY DEF CallInv
<1>1. ASSUME NEW recs \in SeedResults, Seed(recs) PROVE CallInv'
  BY <1>1 DEF Seed, toolVars, CallInv
<1>2. CASE ListTools
  BY <1>2 DEF ListTools, toolVars, CallInv
<1>3. CASE StopAtCap
  BY <1>3 DEF StopAtCap, AskFinal, toolVars, CallInv
<1>4. ASSUME NEW p \in Projections, StopOnBudget(p) PROVE CallInv'
  BY <1>4 DEF StopOnBudget, AskFinal, toolVars, CallInv
<1>5. ASSUME NEW p \in Projections, NEW u \in UsageFor(p),
             NEW cited \in SUBSET (0..Size(registry) + 1), PlanAnswer(p, u, cited)
      PROVE  CallInv'
  BY <1>5 DEF PlanAnswer, Deliver, toolVars, CallInv
<1>6. ASSUME NEW p \in Projections, NEW u \in UsageFor(p), NEW plan \in Plans,
             PlanTools(p, u, plan)
      PROVE  CallInv'
  BY <1>6, PlansAreCallLists DEF PlanTools, toolVars, CallInv
<1>7. CASE BlockRepeat
  BY <1>0, <1>7 DEF BlockRepeat, toolVars, CallInv
<1>8. CASE StartCall
  <2>1. /\ Head(queue) \in Keys /\ Head(queue) \notin seen
        /\ calls[Head(queue)] = 0
    BY <1>0, <1>8 DEF StartCall, IsRepeat, CallInv
  <2>2. Count(calls[Head(queue)]) = 1
    BY <2>1 DEF Count
  <2>3. /\ calls' = [calls EXCEPT ![Head(queue)] = 1]
        /\ calls' \in [Keys -> Nat]
    <3> DEFINE k == Head(queue)
    <3>1. calls' = [calls EXCEPT ![k] = Count(calls[k])]
      BY <1>8 DEF StartCall
    <3>2. Count(calls[k]) = 1 /\ k \in Keys
      BY <2>1, <2>2
    <3> HIDE DEF k
    <3>3. /\ calls' = [calls EXCEPT ![k] = 1]
          /\ calls' \in [Keys -> Nat]
      BY <3>1, <3>2 DEF CallInv
    <3> QED
      BY <3>3 DEF k
  <2>4. /\ calls'[Head(queue)] = 1
        /\ \A k \in Keys : k # Head(queue) => calls'[k] = calls[k]
    BY <2>1, <2>3 DEF CallInv
  <2>5. /\ queue' = queue /\ queue # <<>> /\ attempt' = 0
        /\ seen' = seen \cup {Head(queue)}
    BY <1>8 DEF StartCall
  <2>6. /\ \A k \in Keys : calls'[k] <= 1 + MaxToolRetries
        /\ \A k \in Keys : calls'[k] > 0 => k \in seen'
    BY <2>1, <2>4, <2>5 DEF CallInv
  <2>7. /\ queue' # <<>> /\ Head(queue') \in seen'
        /\ attempt' <= MaxToolRetries
        /\ calls'[Head(queue')] = attempt' + 1
    BY <2>4, <2>5
  <2>8. queue' \in Seq(Keys) /\ seen' \subseteq Keys /\ attempt' \in Nat
    BY <2>1, <2>5 DEF CallInv
  <2> QED
    BY <2>3, <2>5, <2>6, <2>7, <2>8, Zenon DEF CallInv
<1>9. ASSUME NEW recs \in ToolResults, NEW isError \in BOOLEAN, CallReturns(recs, isError)
      PROVE  CallInv'
  BY <1>0, <1>9 DEF CallReturns, Record, CallInv
<1>10. CASE CallRetries
  <2>1. /\ pc = "call" /\ pc' = pc /\ queue' = queue /\ seen' = seen
        /\ attempt' = attempt + 1
    BY <1>10 DEF CallRetries, Failures
  <2>2. attempt + 1 <= MaxToolRetries
    BY <1>10 DEF CallRetries, Failures, GivesUp, CallInv
  <2>3. /\ Head(queue) \in Keys
        /\ calls[Head(queue)] = attempt + 1
        /\ Count(calls[Head(queue)]) = attempt + 2
    BY <1>0, <2>1, <2>2 DEF CallInv, Count
  <2>4. /\ calls' \in [Keys -> Nat]
        /\ calls'[Head(queue)] = attempt + 2
        /\ \A k \in Keys : k # Head(queue) => calls'[k] = calls[k]
    BY <1>10, <2>3 DEF CallRetries, CallInv
  <2>5. /\ \A k \in Keys : calls'[k] <= 1 + MaxToolRetries
        /\ \A k \in Keys : calls'[k] > 0 => k \in seen'
    <3>1. ASSUME NEW k \in Keys
          PROVE  calls'[k] <= 1 + MaxToolRetries /\ (calls'[k] > 0 => k \in seen')
      <4>1. CASE k = Head(queue)
        <5>1. Head(queue) \in seen' /\ attempt + 2 <= 1 + MaxToolRetries
          BY <2>1, <2>2 DEF CallInv
        <5> QED
          BY <4>1, <5>1, <2>4
      <4>2. CASE k # Head(queue)
        <5>1. calls'[k] = calls[k] /\ seen' = seen
          BY <4>2, <2>1, <2>4
        <5> QED
          BY <5>1 DEF CallInv
      <4> QED
        BY <4>1, <4>2
    <3> QED
      BY <3>1
  <2>6. /\ queue' # <<>> /\ Head(queue') \in seen'
        /\ calls'[Head(queue')] = attempt' + 1
    BY <2>1, <2>4 DEF CallInv
  <2>7. /\ queue' \in Seq(Keys) /\ seen' \subseteq Keys /\ attempt' \in Nat
        /\ attempt' <= MaxToolRetries
    BY <2>1, <2>2 DEF CallInv
  <2> QED
    BY <2>4, <2>5, <2>6, <2>7, Zenon DEF CallInv
<1>11. CASE CallGivesUp
  BY <1>0, <1>11 DEF CallGivesUp, Record, Failures, CallInv
<1>12. CASE EndStep
  BY <1>12 DEF EndStep, toolVars, CallInv
<1>13. ASSUME NEW p \in Projections, NEW u \in UsageFor(p),
              NEW cited \in SUBSET (0..Size(registry) + 1), FinalAnswer(u, cited)
       PROVE  CallInv'
  BY <1>13 DEF FinalAnswer, Deliver, toolVars, CallInv
<1>14. CASE Abort
  BY <1>14 DEF Abort, toolVars, CallInv
<1>15. CASE Ended
  BY <1>15 DEF Ended, vars, CallInv
<1>16. CASE UNCHANGED vars
  BY <1>16 DEF vars, CallInv
<1> QED
  BY <1>1, <1>2, <1>3, <1>4, <1>5, <1>6, <1>7, <1>8, <1>9, <1>10, <1>11, <1>12, <1>13,
     <1>14, <1>15, <1>16 DEF Next, Silent

\* However often the model asks for it, a call is attempted at most
\* 1 + MAX_TOOL_RETRIES times in a request.
THEOREM AttemptsAreBounded == Spec => []AttemptsBounded
<1>1. CallInv => AttemptsBounded
  BY DEF CallInv, AttemptsBounded
<1> QED
  BY <1>1, CallInvInit, CallInvStep, PTL DEF Spec

-----------------------------------------------------------------------------
\* A message added to the conversation shows its records and nothing else.
LEMMA ShownAppend ==
  ASSUME messages \in Seq(MessageSet), NEW m \in MessageSet,
         messages' = Append(messages, m)
  PROVE  /\ messages' \in Seq(MessageSet) /\ messages' # <<>>
         /\ Shown' = Shown \cup m.shown
<1> DEFINE n == Len(messages)
<1>1. /\ n \in Nat /\ DOMAIN messages = 1..n
      /\ messages' \in Seq(MessageSet) /\ messages' # <<>>
      /\ DOMAIN messages' = 1..(n + 1)
      /\ messages'[n + 1] = m
      /\ \A p \in 1..n : messages'[p] = messages[p]
  OBVIOUS
<1> HIDE DEF n
<1>2. Shown = UNION {messages[p].shown : p \in 1..n}
  BY <1>1 DEF Shown
<1>3. Shown' = UNION {messages'[p].shown : p \in 1..(n + 1)}
  BY <1>1 DEF Shown
<1>4. 1..(n + 1) = 1..n \cup {n + 1}
  BY <1>1
<1>5. Shown' = Shown \cup m.shown
  BY <1>1, <1>2, <1>3, <1>4
<1> QED
  BY <1>1, <1>5

\* A tool message shows exactly what it adds to the registry, and possibly records
\* the registry had before.
LEMMA ResultShowsWhatItAdds ==
  ASSUME IsRegistry(registry), NEW recs \in Seq(Records)
  PROVE  /\ ShownBy(recs) \subseteq Entries
         /\ EntriesOf(Add(registry, recs)) = EntriesOf(registry) \cup ShownBy(recs)
<1> DEFINE new == Add(registry, recs)
           ix == Indices(registry, recs)
           labels == {ix[i] : i \in DOMAIN ix}
<1>1. /\ IsRegistry(new)
      /\ DOMAIN new = DOMAIN registry \cup ChunksOf(recs)
      /\ \A c \in DOMAIN registry : new[c] = registry[c]
  BY AddKeepsRegistry
<1>2. EntriesOf(registry) \subseteq EntriesOf(new)
  BY AddExtendsEntries
<1>3. EntriesOf(new) \subseteq Entries
  BY <1>1, EntriesHaveOneMeaning
<1>4. DOMAIN ix = DOMAIN recs /\ \A i \in DOMAIN recs : ix[i] = new[recs[i].chunk].index
  BY DEF Indices
<1>5. \A c \in ChunksOf(recs) : new[c].index \in labels
  BY <1>4 DEF ChunksOf
<1>6. ShownBy(recs) = {e \in EntriesOf(new) : e.index \in labels}
  BY DEF ShownBy, EntriesFor
<1> HIDE DEF labels, ix, new
<1>7. ASSUME NEW c \in DOMAIN new
      PROVE  [index |-> new[c].index, chunk |-> c, content |-> new[c].content]
                \in EntriesOf(registry) \cup ShownBy(recs)
  <2> DEFINE e == [index |-> new[c].index, chunk |-> c, content |-> new[c].content]
  <2>1. e \in EntriesOf(new)
    BY DEF EntriesOf
  <2>2. CASE c \in DOMAIN registry
    <3>1. e = [index |-> registry[c].index, chunk |-> c, content |-> registry[c].content]
      BY <1>1, <2>2
    <3> QED
      BY <2>2, <3>1 DEF EntriesOf
  <2>3. CASE c \in ChunksOf(recs)
    <3>1. e.index \in labels
      BY <1>5, <2>3
    <3> QED
      BY <1>6, <2>1, <3>1
  <2> QED
    BY <1>1, <2>2, <2>3
<1>8. EntriesOf(new) \subseteq EntriesOf(registry) \cup ShownBy(recs)
  BY <1>7 DEF EntriesOf
<1> QED
  BY <1>2, <1>3, <1>6, <1>8 DEF new

-----------------------------------------------------------------------------
\* The registry and the conversation.
LabelInv ==
    /\ IsRegistry(registry)
    /\ messages \in Seq(MessageSet)
    /\ pc \in {"seed", "list", "loop", "tools", "call", "final", "done", "failed"}
    /\ pc \in {"seed", "list"} => messages = <<>>
    /\ pc \in {"loop", "tools", "call", "final", "done"} => messages # <<>>
    /\ messages # <<>> => Shown = EntriesOf(registry)
    /\ sources \subseteq Shown
    /\ pc # "done" => sources = {}

LEMMA LabelInvInit == Init => LabelInv
<1> SUFFICES ASSUME Init PROVE LabelInv
  OBVIOUS
<1>1. IsRegistry(registry)
  BY EmptyIsRegistry DEF Init
<1> QED
  BY <1>1 DEF Init, LabelInv

\* A step that appends a message which shows nothing.
LEMMA SilentMessage ==
  ASSUME LabelInv, messages # <<>>, UNCHANGED <<registry, sources>>, pc' # "done",
         pc' \in {"loop", "tools", "call", "final"}, pc # "done",
         NEW m \in MessageSet, m.shown = {}, messages' = Append(messages, m)
  PROVE  LabelInv'
<1>1. messages' \in Seq(MessageSet) /\ messages' # <<>> /\ Shown' = Shown
  BY ShownAppend DEF LabelInv
<1>2. EntriesOf(registry)' = EntriesOf(registry) /\ IsRegistry(registry)'
  BY DEF LabelInv
<1> QED
  BY <1>1, <1>2 DEF LabelInv

\* A step that leaves the registry, the conversation and the answer alone.
LEMMA NothingShown ==
  ASSUME LabelInv, UNCHANGED <<registry, messages, sources>>, pc \notin {"seed", "list", "done"},
         pc' \in {"loop", "tools", "call", "final"}, messages # <<>>
  PROVE  LabelInv'
  BY DEF LabelInv, Shown

\* A step that delivers the answer.
LEMMA AnswerCites ==
  ASSUME LabelInv, messages # <<>>, NEW cited, Deliver(cited)
  PROVE  LabelInv' /\ sources' \subseteq Shown /\ Shown' = Shown
<1>1. /\ UNCHANGED <<registry, messages>> /\ pc' = "done"
      /\ sources' \subseteq EntriesOf(registry)
  BY DEF Deliver, SourcesFor, EntriesFor
<1>2. Shown' = Shown /\ EntriesOf(registry)' = EntriesOf(registry)
  BY <1>1 DEF Shown
<1> QED
  BY <1>1, <1>2 DEF LabelInv

LEMMA LabelInvStep == CallInv /\ LabelInv /\ [Next]_vars => LabelInv'
<1> SUFFICES ASSUME CallInv, LabelInv, [Next]_vars PROVE LabelInv'
  OBVIOUS
<1>0. queue # <<>> => Head(queue) \in Keys
  BY DEF CallInv
<1>1. ASSUME NEW recs \in SeedResults, Seed(recs) PROVE LabelInv'
  <2>1. recs \in Seq(Records)
    BY ResultsAreRecordLists
  <2>2. IsRegistry(registry')
    BY <1>1, <2>1, AddKeepsRegistry DEF Seed, LabelInv
  <2> QED
    BY <1>1, <2>2 DEF Seed, LabelInv, answerVars, Shown
<1>2. CASE ListTools
  <2>1. EntriesOf(registry) \subseteq Entries
    BY EntriesHaveOneMeaning DEF LabelInv
  <2>2. User(EntriesOf(registry)) \in MessageSet
    BY <2>1 DEF User, Message, MessageSet
  <2>3. messages = <<>> /\ messages' = Append(messages, User(EntriesOf(registry)))
    BY <1>2 DEF ListTools, LabelInv
  <2>4. Shown' = Shown \cup EntriesOf(registry) /\ messages' \in Seq(MessageSet)
    BY <2>2, <2>3, ShownAppend DEF LabelInv, User, Message
  <2>5. Shown = {}
    BY <2>3 DEF Shown
  <2>6. UNCHANGED <<registry, sources>> /\ pc' = "loop" /\ messages' # <<>> /\ sources = {}
    BY <1>2 DEF ListTools, answerVars, LabelInv
  <2> QED
    BY <2>4, <2>5, <2>6 DEF LabelInv
<1>3. ASSUME NEW reason, pc = "loop", AskFinal(reason) PROVE LabelInv'
  <2>1. User({}) \in MessageSet /\ User({}).shown = {}
    BY DEF User, Message, MessageSet
  <2>2. messages # <<>> /\ UNCHANGED <<registry, sources>> /\ pc' = "final"
    BY <1>3 DEF AskFinal, LabelInv
  <2> QED
    BY <1>3, <2>1, <2>2, SilentMessage DEF AskFinal
<1>4. CASE StopAtCap
  BY <1>3, <1>4 DEF StopAtCap
<1>5. ASSUME NEW p \in Projections, StopOnBudget(p) PROVE LabelInv'
  BY <1>3, <1>5 DEF StopOnBudget
<1>6. ASSUME NEW p \in Projections, NEW u \in UsageFor(p),
             NEW cited \in SUBSET (0..Size(registry) + 1), PlanAnswer(p, u, cited)
      PROVE  LabelInv'
  BY <1>6, AnswerCites DEF PlanAnswer, LabelInv
<1>7. ASSUME NEW p \in Projections, NEW u \in UsageFor(p), NEW plan \in Plans,
             PlanTools(p, u, plan)
      PROVE  LabelInv'
  <2>1. Assistant(plan) \in MessageSet /\ Assistant(plan).shown = {}
    BY PlansAreCallLists DEF Assistant, Message, MessageSet
  <2>2. pc = "loop" /\ messages # <<>> /\ UNCHANGED <<registry, sources>> /\ pc' = "tools"
    BY <1>7 DEF PlanTools, answerVars, LabelInv
  <2> QED
    BY <1>7, <2>1, <2>2, SilentMessage DEF PlanTools
<1>8. CASE BlockRepeat
  <2> DEFINE m == ToolResult(Head(queue), {}, TRUE)
  <2>1. m \in MessageSet /\ m.shown = {}
    BY <1>0, <1>8 DEF BlockRepeat, ToolResult, Message, MessageSet
  <2>2. pc = "tools" /\ messages # <<>> /\ UNCHANGED <<registry, sources>> /\ pc' = "tools"
    BY <1>8 DEF BlockRepeat, answerVars, LabelInv
  <2>3. messages' = Append(messages, m)
    BY <1>8 DEF BlockRepeat
  <2> HIDE DEF m
  <2> QED
    BY <2>1, <2>2, <2>3, SilentMessage
<1>9. CASE StartCall
  BY <1>9, NothingShown DEF StartCall, answerVars, LabelInv
<1>10. ASSUME NEW recs \in Seq(Records), NEW isError \in BOOLEAN, pc = "call",
              Record(recs, isError)
       PROVE  LabelInv'
  <2> DEFINE m == ToolResult(Head(queue), ShownBy(recs), isError)
  <2>1. /\ ShownBy(recs) \subseteq Entries
        /\ EntriesOf(Add(registry, recs)) = EntriesOf(registry) \cup ShownBy(recs)
    BY ResultShowsWhatItAdds DEF LabelInv
  <2>2. Head(queue) \in Keys
    BY <1>0, <1>10 DEF CallInv
  <2>3. m \in MessageSet /\ m.shown = ShownBy(recs)
    BY <2>1, <2>2 DEF ToolResult, Message, MessageSet
  <2>4. /\ registry' = Add(registry, recs) /\ messages' = Append(messages, m)
        /\ pc' = "tools" /\ sources' = sources
    BY <1>10 DEF Record, answerVars
  <2> HIDE DEF m
  <2>5. /\ messages' \in Seq(MessageSet) /\ messages' # <<>>
        /\ Shown' = Shown \cup ShownBy(recs)
    BY <2>3, <2>4, ShownAppend DEF LabelInv
  <2>6. Shown = EntriesOf(registry) /\ sources = {}
    BY <1>10 DEF LabelInv
  <2>7. IsRegistry(registry') /\ Shown' = EntriesOf(registry')
    BY <2>1, <2>4, <2>5, <2>6, AddKeepsRegistry DEF LabelInv
  <2> QED
    BY <2>4, <2>5, <2>6, <2>7 DEF LabelInv
<1>11. ASSUME NEW recs \in ToolResults, NEW isError \in BOOLEAN, CallReturns(recs, isError)
       PROVE  LabelInv'
  BY <1>10, <1>11, ResultsAreRecordLists DEF CallReturns
<1>12. CASE CallRetries
  BY <1>12, NothingShown DEF CallRetries, answerVars, LabelInv
<1>13. CASE CallGivesUp
  <2>1. <<>> \in Seq(Records)
    OBVIOUS
  <2> QED
    BY <1>10, <1>13, <2>1 DEF CallGivesUp
<1>14. CASE EndStep
  BY <1>14, NothingShown DEF EndStep, answerVars, LabelInv
<1>15. ASSUME NEW p \in Projections, NEW u \in UsageFor(p),
              NEW cited \in SUBSET (0..Size(registry) + 1), FinalAnswer(u, cited)
       PROVE  LabelInv'
  BY <1>15, AnswerCites DEF FinalAnswer, LabelInv
<1>16. CASE Abort
  BY <1>16 DEF Abort, answerVars, LabelInv, Shown
<1>17. CASE UNCHANGED vars
  BY <1>17 DEF vars, LabelInv, Shown
<1>18. CASE Ended
  BY <1>17, <1>18 DEF Ended
<1> QED
  BY <1>1, <1>2, <1>4, <1>5, <1>6, <1>7, <1>8, <1>9, <1>11, <1>12, <1>13, <1>14, <1>15,
     <1>16, <1>17, <1>18 DEF Next, Silent

\* Every label the model has been shown is in the registry, and every label in the
\* registry has been shown, with the same chunk and content.
THEOREM LabelsKeepTheirMeaning == Spec => []LabelsMeanWhatWasShown
<1>1. LabelInv => LabelsMeanWhatWasShown
  BY DEF LabelInv, LabelsMeanWhatWasShown
<1> QED
  BY <1>1, CallInvInit, CallInvStep, LabelInvInit, LabelInvStep, PTL DEF Spec

-----------------------------------------------------------------------------
\* The variables the other invariants do not type.
TraceSteps == [step : Nat, call : Keys, error : BOOLEAN]

ReportInv == /\ spent \in Nat
             /\ trace \in Seq(TraceSteps)
             /\ stopReason \in {"answered", "step_cap", "token_budget"}
             /\ used \subseteq Nat

LEMMA ReportInit == Init => ReportInv
  BY DEF Init, ReportInv

LEMMA ReportStep == LoopInv /\ CallInv /\ ReportInv /\ [Next]_vars => ReportInv'
<1> SUFFICES ASSUME LoopInv, CallInv, ReportInv, [Next]_vars PROVE ReportInv'
  OBVIOUS
<1> USE DEF ReportInv
<1>0. /\ queue # <<>> => Head(queue) \in Keys
      /\ step \in Nat
      /\ pc = "call" => queue # <<>>
  BY DEF CallInv, LoopInv
<1>1. ASSUME NEW p \in Projections, NEW u \in UsageFor(p) PROVE spent + u \in Nat
  BY SettingsAreNaturals DEF UsageFor
<1>2. \A cited : Kept(cited) \subseteq Nat
  BY DEF Kept, HasIndex
<1>3. ASSUME NEW isError \in BOOLEAN, queue # <<>>
      PROVE  Append(trace, TraceStep(Head(queue), isError)) \in Seq(TraceSteps)
  <2>1. TraceStep(Head(queue), isError) \in TraceSteps
    BY <1>0, <1>3 DEF TraceStep, TraceSteps
  <2> QED
    BY <2>1
<1>4. ASSUME NEW p \in Projections, NEW u \in UsageFor(p),
             NEW cited \in SUBSET (0..Size(registry) + 1),
             PlanAnswer(p, u, cited) \/ FinalAnswer(u, cited)
      PROVE  ReportInv'
  BY <1>1, <1>2, <1>4 DEF PlanAnswer, FinalAnswer, Deliver
<1>5. ASSUME NEW p \in Projections, NEW u \in UsageFor(p), NEW plan \in Plans,
             PlanTools(p, u, plan)
      PROVE  ReportInv'
  BY <1>1, <1>5 DEF PlanTools, answerVars
<1>6. CASE StopAtCap \/ \E p \in Projections : StopOnBudget(p)
  BY <1>6 DEF StopAtCap, StopOnBudget, AskFinal, budgetVars
<1>7. CASE BlockRepeat
  BY <1>3, <1>7 DEF BlockRepeat, budgetVars, answerVars
<1>8. CASE CallGivesUp
  BY <1>0, <1>3, <1>8 DEF CallGivesUp, Record, budgetVars, answerVars
<1>9. ASSUME NEW recs \in ToolResults, NEW isError \in BOOLEAN, CallReturns(recs, isError)
      PROVE  ReportInv'
  BY <1>0, <1>3, <1>9 DEF CallReturns, Record, budgetVars, answerVars
<1>10. CASE \/ \E recs \in SeedResults : Seed(recs)
            \/ ListTools \/ StartCall \/ CallRetries \/ EndStep \/ Abort
  BY <1>10 DEF Seed, ListTools, StartCall, CallRetries, EndStep, Abort, budgetVars, answerVars
<1>11. CASE UNCHANGED vars \/ Ended
  BY <1>11 DEF vars, Ended
<1> QED
  BY <1>4, <1>5, <1>6, <1>7, <1>8, <1>9, <1>10, <1>11 DEF Next, Silent

\* Every variable stays in the set the code keeps it in.
THEOREM TypeCorrect == Spec => []TypeOK
<1>1. LoopInv /\ CallInv /\ LabelInv /\ ReportInv => TypeOK
  <2> SUFFICES ASSUME LoopInv, CallInv, LabelInv, ReportInv PROVE TypeOK
    OBVIOUS
  <2>1. DOMAIN registry \subseteq Chunks /\ EntriesOf(registry) \subseteq Entries
    BY EntriesHaveOneMeaning DEF LabelInv, IsRegistry
  <2>2. sources \subseteq Entries
    BY <2>1 DEF LabelInv, Shown
  <2> QED
    BY <2>1, <2>2 DEF TypeOK, LoopInv, CallInv, LabelInv, ReportInv, MessageSet, TraceSteps
<1> QED
  BY <1>1, LoopInvInit, LoopInvStep, CallInvInit, CallInvStep, LabelInvInit, LabelInvStep,
     ReportInit, ReportStep, PTL DEF Spec

-----------------------------------------------------------------------------
\* How the loop ends: while it runs, nothing was spent that the budget does not know and
\* no reason to stop was given; at the last completion the reason is the true one.
ReasonInv ==
    /\ pc \in {"seed", "list", "loop", "tools", "call"} =>
          stopReason = "answered" /\ spent = consumed
    /\ pc = "final" => /\ stopReason # "answered"
                       /\ stopReason = "step_cap" <=> step = MaxAgentSteps
    /\ StopReasonTruthful

LEMMA ReasonInit == Init => ReasonInv
  BY DEF Init, ReasonInv, StopReasonTruthful

LEMMA ReasonStep == LoopInv /\ ReasonInv /\ [Next]_vars => ReasonInv'
<1> SUFFICES ASSUME LoopInv, ReasonInv, [Next]_vars PROVE ReasonInv'
  OBVIOUS
<1> USE SettingsAreNaturals DEF ReasonInv, StopReasonTruthful
<1>1. CASE StopAtCap
  BY <1>1 DEF StopAtCap, AtStepCap, AskFinal, budgetVars, LoopInv
<1>2. ASSUME NEW p \in Projections, StopOnBudget(p) PROVE ReasonInv'
  BY <1>2 DEF StopOnBudget, AtStepCap, AskFinal, budgetVars, LoopInv
<1>3. ASSUME NEW p \in Projections, NEW u \in UsageFor(p),
             NEW cited \in SUBSET (0..Size(registry) + 1), PlanAnswer(p, u, cited)
      PROVE  ReasonInv'
  BY <1>3 DEF PlanAnswer, AtStepCap, Deliver, Reconcile, LoopInv
<1>4. ASSUME NEW p \in Projections, NEW u \in UsageFor(p), NEW plan \in Plans,
             PlanTools(p, u, plan)
      PROVE  ReasonInv'
  BY <1>4 DEF PlanTools, Reconcile, answerVars
<1>5. ASSUME NEW p \in Projections, NEW u \in UsageFor(p),
             NEW cited \in SUBSET (0..Size(registry) + 1), FinalAnswer(u, cited)
      PROVE  ReasonInv'
  BY <1>5 DEF FinalAnswer, Deliver
<1>6. CASE Abort
  BY <1>6 DEF Abort
<1>7. CASE EndStep
  BY <1>7 DEF EndStep, answerVars
<1>8. CASE \/ \E recs \in SeedResults : Seed(recs)
           \/ ListTools \/ BlockRepeat \/ StartCall \/ CallRetries \/ CallGivesUp
           \/ \E recs \in ToolResults, isError \in BOOLEAN : CallReturns(recs, isError)
  <2>1. /\ pc \in {"seed", "list", "loop", "tools", "call"}
        /\ pc' \in {"seed", "list", "loop", "tools", "call"}
        /\ UNCHANGED <<answerVars, budgetVars>>
    BY <1>8 DEF Seed, ListTools, BlockRepeat, StartCall, CallRetries, CallGivesUp, CallReturns,
                Record
  <2> QED
    BY <2>1 DEF answerVars, budgetVars
<1>9. CASE UNCHANGED vars \/ Ended
  BY <1>9 DEF vars, Ended
<1> QED
  BY <1>1, <1>2, <1>3, <1>4, <1>5, <1>6, <1>7, <1>8, <1>9 DEF Next, Silent

\* The stop reason, the step count and the usage in the done event tell how the loop
\* ended.
THEOREM StopReasonIsTrue == Spec => []StopReasonTruthful
<1>1. ReasonInv => StopReasonTruthful
  BY DEF ReasonInv
<1> QED
  BY <1>1, LoopInvInit, LoopInvStep, ReasonInit, ReasonStep, PTL DEF Spec

-----------------------------------------------------------------------------
\* The sources of an answer cover the labels it is left with.
LEMMA DeliverCites ==
  ASSUME LabelInv, NEW cited, Deliver(cited)
  PROVE  CitationsHaveSources'
<1>1. IsRegistry(registry)
  BY DEF LabelInv
<1>2. used' = {n \in cited : HasIndex(registry, n)}
  BY DEF Deliver, Kept
<1>3. sources' = {e \in EntriesOf(registry) : e.index \in used'}
  BY DEF Deliver, SourcesFor, EntriesFor
<1>4. \A n \in used' : \E e \in EntriesOf(registry) : e.index = n
  BY <1>1, <1>2, LabelsHaveEntries
<1> QED
  BY <1>3, <1>4 DEF CitationsHaveSources

LEMMA CitedStep == LabelInv /\ CitationsHaveSources /\ [Next]_vars => CitationsHaveSources'
<1> SUFFICES ASSUME LabelInv, CitationsHaveSources, [Next]_vars, pc' = "done"
             PROVE  CitationsHaveSources'
  BY DEF CitationsHaveSources
<1>1. CASE \E cited : Deliver(cited)
  BY <1>1, DeliverCites
<1>2. CASE ~ \E cited : Deliver(cited)
  <2>1. UNCHANGED vars
    BY <1>2 DEF Next, Silent, Seed, ListTools, StopAtCap, StopOnBudget, AskFinal, PlanAnswer,
                PlanTools, BlockRepeat, StartCall, CallReturns, CallRetries, CallGivesUp,
                Record, EndStep, FinalAnswer, Abort, Ended
  <2> QED
    BY <2>1 DEF vars, CitationsHaveSources
<1> QED
  BY <1>1, <1>2

\* Every citation left in an answer has its source, and every source is cited.
THEOREM CitationsAreCovered == Spec => []CitationsHaveSources
<1>1. Init => CitationsHaveSources
  BY DEF Init, CitationsHaveSources
<1> QED
  BY <1>1, CallInvInit, CallInvStep, LabelInvInit, LabelInvStep, CitedStep, PTL DEF Spec

-----------------------------------------------------------------------------
\* The loop implements GroundedAnswer: a step that shows records surfaces them, a
\* delivered answer cites what was surfaced, and an abort fails the request.

\* What the model has been shown gives every label and every chunk one meaning.
LEMMA ShownHasOneMeaning ==
  ASSUME LabelInv
  PROVE  /\ Shown \in SUBSET Promise!Labelled
         /\ Promise!OneMeaning(Shown)
<1>1. CASE messages = <<>>
  <2>1. Shown = {}
    BY <1>1 DEF Shown
  <2> QED
    BY <2>1 DEF Promise!OneMeaning
<1>2. CASE messages # <<>>
  <2>1. Shown = EntriesOf(registry) /\ IsRegistry(registry)
    BY <1>2 DEF LabelInv
  <2>2. /\ EntriesOf(registry) \subseteq Entries
        /\ \A e, f \in EntriesOf(registry) : e.index = f.index \/ e.chunk = f.chunk => e = f
    BY <2>1, EntriesHaveOneMeaning
  <2> QED
    BY <2>1, <2>2 DEF Entries, Promise!Labelled, Promise!OneMeaning
<1> QED
  BY <1>1, <1>2

LEMMA SurfaceOrStutter ==
  ASSUME LabelInv, LabelInv', sources' = sources,
         pc \notin {"done", "failed"}, pc' \notin {"done", "failed"},
         EntriesOf(registry) \subseteq EntriesOf(registry'),
         messages # <<>> => messages' # <<>>
  PROVE  [Promise!Next]_(Promise!vars)
<1>1. Shown' \in SUBSET Promise!Labelled /\ Promise!OneMeaning(Shown')
  <2>1. (/\ Shown \in SUBSET Promise!Labelled
         /\ Promise!OneMeaning(Shown))'
    BY ShownHasOneMeaning, PTL
  <2> QED
    BY <2>1 DEF Promise!Labelled, Promise!OneMeaning
<1>2. CASE messages = <<>>
  <2>1. Shown = {}
    BY <1>2 DEF Shown
  <2> QED
    BY <1>1, <2>1 DEF Promise!Next, Promise!Surface
<1>3. CASE messages # <<>>
  <2>1. Shown = EntriesOf(registry) /\ Shown' = EntriesOf(registry')
    BY <1>3 DEF LabelInv
  <2> QED
    BY <1>1, <2>1 DEF Promise!Next, Promise!Surface
<1> QED
  BY <1>2, <1>3

LEMMA StepIsPromised ==
  CallInv /\ LabelInv /\ LabelInv' /\ [Next]_vars => [Promise!Next]_(Promise!vars)
<1> SUFFICES ASSUME CallInv, LabelInv, LabelInv', [Next]_vars
             PROVE  [Promise!Next]_(Promise!vars)
  OBVIOUS
<1>1. ASSUME NEW recs \in SeedResults, Seed(recs)
      PROVE  [Promise!Next]_(Promise!vars)
  <2>1. EntriesOf(registry) \subseteq EntriesOf(registry')
    BY <1>1, AddExtendsEntries, ResultsAreRecordLists DEF Seed, LabelInv
  <2> QED
    BY <1>1, <2>1, SurfaceOrStutter DEF Seed, answerVars
<1>2. CASE ListTools
  BY <1>2, SurfaceOrStutter DEF ListTools, answerVars, LabelInv
<1>3. ASSUME NEW reason, pc = "loop", AskFinal(reason)
      PROVE  [Promise!Next]_(Promise!vars)
  <2>1. messages' # <<>>
    BY <1>3 DEF AskFinal, LabelInv
  <2> QED
    BY <1>3, <2>1, SurfaceOrStutter DEF AskFinal
<1>4. CASE StopAtCap
  BY <1>3, <1>4 DEF StopAtCap
<1>5. ASSUME NEW p \in Projections, StopOnBudget(p)
      PROVE  [Promise!Next]_(Promise!vars)
  BY <1>3, <1>5 DEF StopOnBudget
<1>6. ASSUME NEW cited, Deliver(cited), pc \in {"loop", "final"}
      PROVE  [Promise!Next]_(Promise!vars)
  <2>1. messages # <<>>
    BY <1>6 DEF LabelInv
  <2>2. sources' \subseteq Shown /\ Shown' = Shown /\ pc' = "done"
    BY <1>6, <2>1, AnswerCites DEF Deliver
  <2> QED
    BY <1>6, <2>2 DEF Promise!Next, Promise!Answer
<1>7. ASSUME NEW p \in Projections, NEW u \in UsageFor(p),
             NEW cited \in SUBSET (0..Size(registry) + 1), PlanAnswer(p, u, cited)
      PROVE  [Promise!Next]_(Promise!vars)
  BY <1>6, <1>7 DEF PlanAnswer
<1>8. ASSUME NEW p \in Projections, NEW u \in UsageFor(p), NEW plan \in Plans,
             PlanTools(p, u, plan)
      PROVE  [Promise!Next]_(Promise!vars)
  <2>1. messages' # <<>>
    BY <1>8 DEF PlanTools, LabelInv
  <2> QED
    BY <1>8, <2>1, SurfaceOrStutter DEF PlanTools, answerVars
<1>9. CASE BlockRepeat
  <2>1. messages' # <<>>
    BY <1>9 DEF BlockRepeat, LabelInv
  <2> QED
    BY <1>9, <2>1, SurfaceOrStutter DEF BlockRepeat, answerVars
<1>10. CASE StartCall
  BY <1>10, SurfaceOrStutter DEF StartCall, answerVars
<1>11. ASSUME NEW recs \in Seq(Records), NEW isError \in BOOLEAN, pc = "call",
              Record(recs, isError)
       PROVE  [Promise!Next]_(Promise!vars)
  <2>1. EntriesOf(registry) \subseteq EntriesOf(registry')
    BY <1>11, AddExtendsEntries DEF Record, LabelInv
  <2>2. messages' # <<>>
    BY <1>11 DEF Record, LabelInv
  <2> QED
    BY <1>11, <2>1, <2>2, SurfaceOrStutter DEF Record, answerVars
<1>12. ASSUME NEW recs \in ToolResults, NEW isError \in BOOLEAN, CallReturns(recs, isError)
       PROVE  [Promise!Next]_(Promise!vars)
  BY <1>11, <1>12, ResultsAreRecordLists DEF CallReturns
<1>13. CASE CallRetries
  BY <1>13, SurfaceOrStutter DEF CallRetries, answerVars
<1>14. CASE CallGivesUp
  <2>1. <<>> \in Seq(Records)
    OBVIOUS
  <2> QED
    BY <1>11, <1>14, <2>1 DEF CallGivesUp
<1>15. CASE EndStep
  BY <1>15, SurfaceOrStutter DEF EndStep, answerVars
<1>16. ASSUME NEW p \in Projections, NEW u \in UsageFor(p),
              NEW cited \in SUBSET (0..Size(registry) + 1), FinalAnswer(u, cited)
       PROVE  [Promise!Next]_(Promise!vars)
  BY <1>6, <1>16 DEF FinalAnswer
<1>17. CASE Abort
  BY <1>17 DEF Abort, answerVars, Shown, Promise!Next, Promise!Fail
<1>18. CASE UNCHANGED vars
  BY <1>18 DEF vars, Shown, Promise!vars
<1>19. CASE Ended
  BY <1>18, <1>19 DEF Ended
<1> QED
  BY <1>1, <1>2, <1>4, <1>5, <1>7, <1>8, <1>9, <1>10, <1>12, <1>13, <1>14, <1>15, <1>16,
     <1>17, <1>18, <1>19 DEF Next, Silent

\* Every request keeps the promise of GroundedAnswer: labels never change their
\* meaning, and an answer's sources are records the model was shown before.
THEOREM AgentImplementsGroundedAnswer == Spec => ImplementsGroundedAnswer
<1>1. Init => Promise!Init
  BY DEF Init, Shown, Promise!Init
<1> QED
  BY <1>1, CallInvInit, CallInvStep, LabelInvInit, LabelInvStep, StepIsPromised, PTL
     DEF Spec, ImplementsGroundedAnswer, Promise!Spec
=============================================================================
