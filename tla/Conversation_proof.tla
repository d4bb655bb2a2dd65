-------------------------- MODULE Conversation_proof --------------------------
(***************************************************************************)
(* What is said in the course of a request.  The conversation of the agent *)
(* loop is one the providers accept: every tool call is answered, at its   *)
(* place, before the model is asked again, also in the turns Claude is     *)
(* sent.  Both providers are told the same, and the trace tells it.  A     *)
(* chat request runs the agent loop, its session is closed on every way    *)
(* out, and its stream tells the trace and ends with "done" or "error".    *)
(***************************************************************************)
EXTENDS Chat, Conversation, Orchestrator_proof, SequenceTheorems

\* The first n calls of the message at p are answered by the messages after it.
Answered(msgs, p, n) ==
    \A j \in 1..n : /\ p + j \in DOMAIN msgs
                    /\ msgs[p + j].role = "tool"
                    /\ msgs[p + j].calls = <<msgs[p].calls[j]>>

\* The message at q is at the place of an answer to a call.
Owed(msgs, q) ==
    \E p \in DOMAIN msgs : \E j \in 1..Len(msgs[p].calls) :
       msgs[p].role = "assistant" /\ q = p + j

\* Whatever is in a conversation: every tool message answers a call of an assistant
\* message before it, and every assistant message but the one at `last` is answered.
Paired(msgs, last) ==
    /\ \A p \in DOMAIN msgs : p # last /\ msgs[p].role = "assistant" =>
          Answered(msgs, p, Len(msgs[p].calls))
    /\ \A q \in DOMAIN msgs : msgs[q].role = "tool" => Owed(msgs, q)

\* While calls are being run: the message at `last` requests them, those no longer in
\* the queue are answered, and these answers are the end of the conversation.
Pending(msgs, rest, last) ==
    /\ last \in DOMAIN msgs /\ msgs[last].role = "assistant"
    /\ LET n == Len(msgs[last].calls) - Len(rest)
       IN  /\ n \in Nat
           /\ Len(msgs) = last + n
           /\ Answered(msgs, last, n)
           /\ \A i \in 1..Len(rest) : rest[i] = msgs[last].calls[n + i]

ConversationInv ==
    /\ pc \in {"loop", "final", "done"} => Paired(messages, 0)
    /\ pc \in {"tools", "call"} => \E last : Paired(messages, last) /\ Pending(messages, queue, last)

-----------------------------------------------------------------------------
\* What appending to a conversation leaves as it is.
LEMMA AppendKeeps ==
  ASSUME NEW msgs \in Seq(MessageSet), NEW m \in MessageSet
  PROVE  /\ Append(msgs, m) \in Seq(MessageSet)
         /\ Len(Append(msgs, m)) = Len(msgs) + 1
         /\ DOMAIN msgs = 1..Len(msgs)
         /\ DOMAIN Append(msgs, m) = 1..Len(msgs) + 1
         /\ \A p \in DOMAIN msgs : Append(msgs, m)[p] = msgs[p]
         /\ Append(msgs, m)[Len(msgs) + 1] = m
         /\ \A p \in DOMAIN msgs : Len(msgs[p].calls) \in Nat
         /\ Len(m.calls) \in Nat
<1>1. \A x \in MessageSet : Len(x.calls) \in Nat
  BY DEF MessageSet
<1> QED
  BY <1>1

LEMMA AnsweredKept ==
  ASSUME NEW msgs \in Seq(MessageSet), NEW m \in MessageSet, NEW p \in DOMAIN msgs, NEW n \in Nat,
         Answered(msgs, p, n)
  PROVE  Answered(Append(msgs, m), p, n)
<1> DEFINE t == Append(msgs, m)
<1>1. DOMAIN msgs \subseteq DOMAIN t /\ \A q \in DOMAIN msgs : t[q] = msgs[q]
  BY AppendKeeps
<1> HIDE DEF t
<1>2. Answered(t, p, n)
  BY <1>1 DEF Answered
<1> QED
  BY <1>2 DEF t

\* A message that is no tool result: nothing is owed to it yet.
LEMMA PairedByRequest ==
  ASSUME NEW msgs \in Seq(MessageSet), Paired(msgs, 0), NEW m \in MessageSet, m.role # "tool"
  PROVE  /\ Paired(Append(msgs, m), Len(msgs) + 1)
         /\ m.role = "user" => Paired(Append(msgs, m), 0)
<1> DEFINE t == Append(msgs, m)
           k == Len(msgs) + 1
<1>1. /\ DOMAIN msgs = 1..Len(msgs) /\ Len(msgs) \in Nat /\ DOMAIN t = DOMAIN msgs \cup {k} 
      /\ t[k] = m
      /\ \A q \in DOMAIN msgs : t[q] = msgs[q] /\ q # k /\ q # 0 /\ Len(msgs[q].calls) \in Nat
  BY AppendKeeps
<1>2. \A p \in DOMAIN msgs : msgs[p].role = "assistant" => Answered(t, p, Len(msgs[p].calls))
  BY <1>1, AnsweredKept DEF Paired
<1> HIDE DEF t, k
<1>3. \A q \in DOMAIN t : t[q].role = "tool" => Owed(t, q)
  <2> SUFFICES ASSUME NEW q \in DOMAIN t, t[q].role = "tool"
               PROVE  Owed(t, q)
    OBVIOUS
  <2>1. q \in DOMAIN msgs /\ msgs[q].role = "tool"
    BY <1>1
  <2>2. Owed(msgs, q)
    BY <2>1 DEF Paired
  <2> QED
    BY <1>1, <2>2 DEF Owed
<1>4. Paired(t, k) /\ (m.role = "user" => Paired(t, 0))
  BY <1>1, <1>2, <1>3 DEF Paired
<1> QED
  BY <1>4 DEF t, k

\* An answer to the next call.
LEMMA PairedByAnswer ==
  ASSUME NEW msgs \in Seq(MessageSet), NEW rest \in Seq(Keys), rest # <<>>,
         NEW last, Paired(msgs, last), Pending(msgs, rest, last),
         NEW m \in MessageSet, m.role = "tool", m.calls = <<Head(rest)>>
  PROVE  Paired(Append(msgs, m), last) /\ Pending(Append(msgs, m), Tail(rest), last)
<1> DEFINE t == Append(msgs, m)
           k == Len(msgs) + 1
           n == Len(msgs[last].calls) - Len(rest)
<1>1. /\ DOMAIN msgs = 1..Len(msgs) /\ Len(msgs) \in Nat /\ DOMAIN t = DOMAIN msgs \cup {k} 
      /\ Len(t) = k /\ t[k] = m
      /\ \A q \in DOMAIN msgs : t[q] = msgs[q] /\ q # k /\ Len(msgs[q].calls) \in Nat
  BY AppendKeeps
<1>2. /\ last \in DOMAIN msgs /\ msgs[last].role = "assistant"
      /\ n \in Nat /\ Len(msgs) = last + n /\ Answered(msgs, last, n)
      /\ \A i \in 1..Len(rest) : rest[i] = msgs[last].calls[n + i]
  BY DEF Pending
<1>3. /\ Len(Tail(rest)) = Len(rest) - 1 /\ Len(rest) \in Nat \ {0} /\ Head(rest) = rest[1]
      /\ \A i \in 1..Len(rest) - 1 : Tail(rest)[i] = rest[i + 1]
  OBVIOUS
<1>4. \A p \in DOMAIN msgs : p # last /\ msgs[p].role = "assistant" =>
                                Answered(t, p, Len(msgs[p].calls))
  BY <1>1, AnsweredKept DEF Paired
<1>5. Answered(t, last, n)
  BY <1>2, AnsweredKept
<1> HIDE DEF t, k, n
<1>6. k = last + (n + 1) /\ last \in Nat /\ t[last] = msgs[last]
  BY <1>1, <1>2 DEF k
<1>7. Answered(t, last, n + 1)
  <2> SUFFICES ASSUME NEW j \in 1..n + 1
               PROVE  /\ last + j \in DOMAIN t
                      /\ t[last + j].role = "tool"
                      /\ t[last + j].calls = <<t[last].calls[j]>>
    BY DEF Answered
  <2>1. CASE j \in 1..n
    BY <1>5, <2>1 DEF Answered
  <2>2. CASE j = n + 1
    <3>1. rest[1] = msgs[last].calls[n + 1]
      BY <1>2, <1>3
    <3> QED
      BY <1>1, <1>3, <1>6, <2>2, <3>1
  <2> QED
    BY <1>2, <2>1, <2>2
<1>8. n + 1 = Len(t[last].calls) - Len(Tail(rest)) /\ n + 1 \in 1..Len(t[last].calls)
  BY <1>1, <1>2, <1>3, <1>6 DEF n
<1>9. \A i \in 1..Len(Tail(rest)) : Tail(rest)[i] = t[last].calls[(n + 1) + i]
  <2> SUFFICES ASSUME NEW i \in 1..Len(Tail(rest))
               PROVE  Tail(rest)[i] = t[last].calls[(n + 1) + i]
    OBVIOUS
  <2>1. i + 1 \in 1..Len(rest) /\ n + (i + 1) = (n + 1) + i
    BY <1>2, <1>3
  <2>2. Tail(rest)[i] = rest[i + 1]
    BY <1>3
  <2>3. rest[i + 1] = msgs[last].calls[n + (i + 1)]
    BY <1>2, <2>1
  <2> QED
    BY <1>6, <2>1, <2>2, <2>3
<1>10. Pending(t, Tail(rest), last)
  <2>1. last \in DOMAIN t /\ t[last].role = "assistant" /\ Len(t) = last + (n + 1)
    BY <1>1, <1>2, <1>6
  <2> DEFINE left == Len(t[last].calls) - Len(Tail(rest))
  <2>2. left = n + 1 /\ n + 1 \in Nat
    BY <1>2, <1>8
  <2> HIDE DEF left
  <2>3. /\ left \in Nat /\ Len(t) = last + left /\ Answered(t, last, left)
        /\ \A i \in 1..Len(Tail(rest)) : Tail(rest)[i] = t[last].calls[left + i]
    BY <1>7, <1>9, <2>1, <2>2
  <2> QED
    BY <2>1, <2>3 DEF Pending, left
<1>11. \A q \in DOMAIN t : t[q].role = "tool" => Owed(t, q)
  <2> SUFFICES ASSUME NEW q \in DOMAIN t, t[q].role = "tool"
               PROVE  Owed(t, q)
    OBVIOUS
  <2>1. CASE q \in DOMAIN msgs
    <3>1. Owed(msgs, q)
      BY <1>1, <2>1 DEF Paired
    <3> QED
      BY <1>1, <3>1 DEF Owed
  <2>2. CASE q = k
    BY <1>1, <1>2, <1>6, <1>8, <2>2 DEF Owed
  <2> QED
    BY <1>1, <2>1, <2>2
<1>12. Paired(t, last)
  BY <1>1, <1>4, <1>11 DEF Paired
<1> QED
  BY <1>10, <1>12 DEF t

\* Once the queue is empty, nothing is owed any more.
LEMMA PairedAtTheEnd ==
  ASSUME NEW msgs \in Seq(MessageSet), NEW last, Paired(msgs, last), Pending(msgs, <<>>, last)
  PROVE  Paired(msgs, 0)
<1>1. Len(msgs[last].calls) \in Nat
  BY AppendKeeps DEF Pending, MessageSet
<1>2. Answered(msgs, last, Len(msgs[last].calls))
  BY <1>1 DEF Pending
<1> QED
  BY <1>2 DEF Paired

-----------------------------------------------------------------------------
LEMMA ConversationInit == Init => ConversationInv
  BY DEF Init, ConversationInv

LEMMA ConversationStep == CallInv /\ LabelInv /\ ConversationInv /\ [Next]_vars => ConversationInv'
<1> SUFFICES ASSUME CallInv, LabelInv, ConversationInv, [Next]_vars PROVE ConversationInv'
  OBVIOUS
<1> USE DEF ConversationInv
<1>0. /\ messages \in Seq(MessageSet) /\ queue \in Seq(Keys)
      /\ queue # <<>> => Head(queue) \in Keys
  BY DEF CallInv, LabelInv
<1>1. CASE ListTools
  <2>1. EntriesOf(registry) \subseteq Entries
    BY EntriesHaveOneMeaning DEF LabelInv
  <2> DEFINE m == User(EntriesOf(registry))
  <2>2. m \in MessageSet /\ m.role = "user"
    BY <2>1 DEF User, Message, MessageSet
  <2> HIDE DEF m
  <2>3. messages' = <<m>> /\ pc' = "loop"
    BY <1>1 DEF ListTools, m
  <2>4. Paired(messages', 0)
    BY <2>2, <2>3 DEF Paired
  <2> QED
    BY <2>3, <2>4
<1>2. ASSUME NEW reason, pc = "loop", AskFinal(reason) PROVE ConversationInv'
  <2>1. User({}) \in MessageSet /\ User({}).role = "user"
    BY DEF User, Message, MessageSet
  <2>2. messages' = Append(messages, User({})) /\ pc' = "final"
    BY <1>2 DEF AskFinal
  <2> QED
    BY <1>0, <1>2, <2>1, <2>2, PairedByRequest
<1>3. CASE StopAtCap \/ \E p \in Projections : StopOnBudget(p)
  BY <1>2, <1>3 DEF StopAtCap, StopOnBudget
<1>4. ASSUME NEW p \in Projections, NEW u \in UsageFor(p), NEW plan \in Plans,
             PlanTools(p, u, plan)
      PROVE  ConversationInv'
  <2> DEFINE m == Assistant(plan)
             k == Len(messages) + 1
  <2>1. m \in MessageSet /\ m.role = "assistant" /\ m.calls = plan
    BY PlansAreCallLists DEF Assistant, Message, MessageSet
  <2> HIDE DEF m
  <2>2. pc = "loop" /\ pc' = "tools" /\ messages' = Append(messages, m) /\ queue' = plan
    BY <1>4 DEF PlanTools, m
  <2>3. Paired(messages', k)
    BY <1>0, <2>1, <2>2, PairedByRequest
  <2>4. Len(messages') = k /\ k \in DOMAIN messages' /\ messages'[k] = m /\ k \in Nat
    BY <1>0, <2>1, <2>2, AppendKeeps
  <2>5. Len(plan) \in Nat
    BY PlansAreCallLists
  <2> HIDE DEF k
  <2>6. Pending(messages', plan, k)
    BY <2>1, <2>4, <2>5 DEF Pending, Answered
  <2> QED
    BY <2>2, <2>3, <2>6
<1>5. ASSUME NEW m \in MessageSet, m.role = "tool", pc \in {"tools", "call"}, pc' = "tools",
             queue # <<>>, m.calls = <<Head(queue)>>,
             messages' = Append(messages, m), queue' = Tail(queue)
      PROVE  ConversationInv'
  BY <1>0, <1>5, PairedByAnswer
<1>6. CASE BlockRepeat
  <2>1. ToolResult(Head(queue), {}, TRUE) \in MessageSet
    BY <1>0, <1>6 DEF BlockRepeat, ToolResult, Message, MessageSet
  <2>2. /\ ToolResult(Head(queue), {}, TRUE).role = "tool"
        /\ ToolResult(Head(queue), {}, TRUE).calls = <<Head(queue)>>
    BY DEF ToolResult, Message
  <2> QED
    BY <1>5, <1>6, <2>1, <2>2 DEF BlockRepeat
<1>7. ASSUME NEW recs \in Seq(Records), NEW isError \in BOOLEAN, pc = "call",
             Record(recs, isError)
      PROVE  ConversationInv'
  <2> DEFINE m == ToolResult(Head(queue), ShownBy(recs), isError)
  <2>1. ShownBy(recs) \subseteq Entries
    BY ResultShowsWhatItAdds DEF LabelInv
  <2>2. queue # <<>>
    BY <1>7 DEF CallInv
  <2>3. m \in MessageSet /\ m.role = "tool" /\ m.calls = <<Head(queue)>>
    BY <1>0, <2>1, <2>2 DEF ToolResult, Message, MessageSet
  <2>4. messages' = Append(messages, m) /\ pc' = "tools" /\ queue' = Tail(queue)
    BY <1>7 DEF Record
  <2> HIDE DEF m
  <2> QED
    BY <1>5, <1>7, <2>2, <2>3, <2>4
<1>8. ASSUME NEW recs \in ToolResults, NEW isError \in BOOLEAN, CallReturns(recs, isError)
      PROVE  ConversationInv'
  BY <1>7, <1>8, ResultsAreRecordLists DEF CallReturns
<1>9. CASE CallGivesUp
  <2>1. <<>> \in Seq(Records)
    OBVIOUS
  <2> QED
    BY <1>7, <1>9, <2>1 DEF CallGivesUp
<1>10. CASE EndStep
  <2>1. pc = "tools" /\ queue = <<>> /\ pc' = "loop" /\ messages' = messages
    BY <1>10 DEF EndStep
  <2>2. PICK last : Paired(messages, last) /\ Pending(messages, queue, last)
    BY <2>1
  <2>3. Paired(messages, 0)
    BY <1>0, <2>1, <2>2, PairedAtTheEnd
  <2> QED
    BY <2>1, <2>3
<1>11. CASE StartCall \/ CallRetries
  <2>1. UNCHANGED <<messages, queue>> /\ pc \in {"tools", "call"} /\ pc' \in {"tools", "call"}
    BY <1>11 DEF StartCall, CallRetries
  <2> QED
    BY <2>1
<1>12. ASSUME NEW cited, pc \in {"loop", "final"}, Deliver(cited) PROVE ConversationInv'
  BY <1>12 DEF Deliver
<1>13. ASSUME NEW p \in Projections, NEW u \in UsageFor(p),
              NEW cited \in SUBSET (0..Size(registry) + 1),
              PlanAnswer(p, u, cited) \/ FinalAnswer(u, cited)
       PROVE  ConversationInv'
  BY <1>12, <1>13 DEF PlanAnswer, FinalAnswer
<1>14. CASE Abort \/ \E recs \in SeedResults : Seed(recs)
  BY <1>14 DEF Abort, Seed
<1>15. CASE Ended \/ UNCHANGED vars
  BY <1>15 DEF Ended, vars
<1> QED
  BY <1>1, <1>3, <1>4, <1>6, <1>8, <1>9, <1>10, <1>11, <1>13, <1>14, <1>15 DEF Next, Silent

\* Whenever a completion is requested, each tool call of each assistant message has its
\* answer at its place, and there is no other tool message.
THEOREM EveryCallIsAnswered == Spec => []ToolCallsAnswered
<1>1. LabelInv /\ ConversationInv => ToolCallsAnswered
  <2> SUFFICES ASSUME LabelInv, Paired(messages, 0)
               PROVE  /\ Role("tool") = UNION {{p + j : j \in DOMAIN messages[p].calls} :
                                                  p \in Role("assistant")}
                      /\ \A p \in Role("assistant") : \A j \in DOMAIN messages[p].calls :
                            messages[p + j].calls = <<messages[p].calls[j]>>
    BY DEF ConversationInv, ToolCallsAnswered
  <2>1. \A p \in DOMAIN messages : /\ DOMAIN messages[p].calls = 1..Len(messages[p].calls)
                                   /\ p # 0
    BY DEF LabelInv, MessageSet
  <2>2. \A p \in Role("assistant") : Answered(messages, p, Len(messages[p].calls))
    BY <2>1 DEF Paired, Role
  <2>3. \A q \in Role("tool") : Owed(messages, q)
    BY DEF Paired, Role
  <2>4. \A q \in Role("tool") : \E p \in Role("assistant") : \E j \in DOMAIN messages[p].calls :
           q = p + j
    BY <2>1, <2>3 DEF Owed, Role
  <2>5. \A p \in Role("assistant") : \A j \in DOMAIN messages[p].calls :
           p + j \in Role("tool") /\ messages[p + j].calls = <<messages[p].calls[j]>>
    BY <2>1, <2>2 DEF Answered, Role
  <2> QED
    BY <2>4, <2>5
<1> QED
  BY <1>1, CallInvInit, CallInvStep, LabelInvInit, LabelInvStep, ConversationInit,
     ConversationStep, PTL DEF Spec

-----------------------------------------------------------------------------
Of(msgs, role) == {p \in DOMAIN msgs : msgs[p].role = role}

LEMMA RoleIsFinite ==
  ASSUME NEW msgs \in Seq(MessageSet), NEW role
  PROVE  IsFiniteSet(Of(msgs, role)) /\ Cardinality(Of(msgs, role)) \in Nat
<1>1. Of(msgs, role) \in SUBSET (1..Len(msgs)) /\ Len(msgs) \in Nat
  BY DEF Of
<1> QED
  BY <1>1, PlacesGrow

\* What appending a message does to the messages of a role and to their places.
LEMMA AppendToRole ==
  ASSUME NEW msgs \in Seq(MessageSet), NEW m \in MessageSet, NEW role
  PROVE  LET t == Append(msgs, m)
         IN  /\ m.role # role => Of(t, role) = Of(msgs, role)
             /\ m.role = role => /\ Of(t, role) = Of(msgs, role) \cup {Len(msgs) + 1}
                                 /\ Cardinality(Of(t, role)) = Cardinality(Of(msgs, role)) + 1
             /\ \A p \in DOMAIN msgs : Place(Of(t, role), p) = Place(Of(msgs, role), p)
             /\ Place(Of(t, role), Len(msgs) + 1) = Cardinality(Of(t, role))
<1> DEFINE t == Append(msgs, m)
           k == Len(msgs) + 1
<1>1. /\ DOMAIN msgs = 1..Len(msgs) /\ Len(msgs) \in Nat /\ DOMAIN t = DOMAIN msgs \cup {k}
      /\ k \notin DOMAIN msgs /\ t[k] = m /\ k \in Nat
      /\ \A q \in DOMAIN msgs : t[q] = msgs[q] /\ q < k /\ q \in Nat
  BY AppendKeeps
<1> HIDE DEF t, k
<1>2. Of(msgs, role) \in SUBSET (1..Len(msgs))
  BY <1>1 DEF Of
<1>3. CASE m.role # role
  <2>1. Of(t, role) = Of(msgs, role)
    BY <1>1, <1>3 DEF Of
  <2>2. {q \in Of(msgs, role) : q <= k} = Of(msgs, role)
    BY <1>1, <1>2
  <2> QED
    BY <1>3, <2>1, <2>2 DEF Place, t, k
<1>4. CASE m.role = role
  <2> DEFINE n == Len(msgs)
  <2>1. n \in Nat /\ Of(msgs, role) \in SUBSET (1..n) /\ DOMAIN msgs = 1..n
    BY <1>1, <1>2
  <2>2. Of(t, role) = Of(msgs, role) \cup {n + 1}
    BY <1>1, <1>4 DEF Of, k
  <2> HIDE DEF n
  <2>3. /\ Cardinality(Of(t, role)) = Cardinality(Of(msgs, role)) + 1
        /\ \A p \in DOMAIN msgs : Place(Of(t, role), p) = Place(Of(msgs, role), p)
        /\ Place(Of(t, role), n + 1) = Cardinality(Of(t, role))
    <3> DEFINE S == Of(msgs, role)
    <3>1. S \in SUBSET (1..n)
      BY <2>1
    <3> HIDE DEF S
    <3>2. /\ Cardinality(S \cup {n + 1}) = Cardinality(S) + 1
          /\ \A p \in 1..n : Place(S \cup {n + 1}, p) = Place(S, p)
          /\ Place(S \cup {n + 1}, n + 1) = Cardinality(S) + 1
      BY <2>1, <3>1, PlacesGrow
    <3> QED
      BY <2>1, <2>2, <3>2 DEF S
  <2> QED
    BY <1>4, <2>2, <2>3 DEF t, k, n
<1> QED
  BY <1>3, <1>4

\* The trace tells the tool messages; the conversation has one assistant message for
\* each iteration, and one more while the calls of an iteration are run.
Told(msgs, tr) ==
    /\ Len(tr) = Cardinality(Of(msgs, "tool"))
    /\ \A p \in Of(msgs, "tool") :
          /\ Place(Of(msgs, "tool"), p) \in DOMAIN tr
          /\ tr[Place(Of(msgs, "tool"), p)] =
                [step  |-> Place(Of(msgs, "assistant"), p) - 1,
                 call  |-> msgs[p].calls[1],
                 error |-> msgs[p].error]

TraceInv ==
    /\ trace \in Seq(TraceSteps)
    /\ Told(messages, trace)
    /\ pc \in {"seed", "list", "loop"} => step = Cardinality(Of(messages, "assistant"))
    /\ pc \in {"tools", "call"} => step = Cardinality(Of(messages, "assistant")) - 1

\* A message that answers no call leaves the trace as it is.
LEMMA ToldByOther ==
  ASSUME NEW msgs \in Seq(MessageSet), NEW m \in MessageSet, m.role # "tool",
         NEW tr, Told(msgs, tr)
  PROVE  Told(Append(msgs, m), tr)
<1> DEFINE t == Append(msgs, m)
<1>1. Of(t, "tool") = Of(msgs, "tool")
  BY AppendToRole
<1>2. \A p \in DOMAIN msgs : /\ t[p] = msgs[p]
                             /\ Place(Of(t, "assistant"), p) = Place(Of(msgs, "assistant"), p)
  BY AppendKeeps, AppendToRole
<1>3. Of(msgs, "tool") \subseteq DOMAIN msgs
  BY DEF Of
<1> HIDE DEF t
<1>4. Told(t, tr)
  BY <1>1, <1>2, <1>3 DEF Told
<1> QED
  BY <1>4 DEF t

\* A tool message comes with a step of the trace.
LEMMA ToldByResult ==
  ASSUME NEW msgs \in Seq(MessageSet), NEW m \in MessageSet, m.role = "tool",
         NEW tr \in Seq(TraceSteps), Told(msgs, tr), NEW e \in TraceSteps,
         e.step = Cardinality(Of(msgs, "assistant")) - 1,
         e.call = m.calls[1], e.error = m.error
  PROVE  Told(Append(msgs, m), Append(tr, e))
<1> DEFINE t == Append(msgs, m)
           u == Append(tr, e)
           k == Len(msgs) + 1
           n == Cardinality(Of(msgs, "tool"))
<1>1. /\ n \in Nat /\ Cardinality(Of(t, "tool")) = n + 1
      /\ Of(t, "tool") = Of(msgs, "tool") \cup {k}
      /\ Place(Of(t, "tool"), k) = n + 1
  BY RoleIsFinite, AppendToRole
<1>2. Place(Of(t, "assistant"), k) = Cardinality(Of(msgs, "assistant"))
  <2>1. Of(t, "assistant") = Of(msgs, "assistant")
    BY AppendToRole
  <2>2. Place(Of(t, "assistant"), k) = Cardinality(Of(t, "assistant"))
    BY AppendToRole
  <2> QED
    BY <2>1, <2>2
<1>3. \A p \in DOMAIN msgs : /\ t[p] = msgs[p]
                             /\ Place(Of(t, "assistant"), p) = Place(Of(msgs, "assistant"), p)
                             /\ Place(Of(t, "tool"), p) = Place(Of(msgs, "tool"), p)
  BY AppendKeeps, AppendToRole
<1>4. t[k] = m
  BY AppendKeeps
<1>5. /\ Len(tr) = n /\ Len(u) = n + 1 /\ u[n + 1] = e
      /\ DOMAIN tr = 1..n /\ DOMAIN u = 1..n + 1
      /\ \A q \in DOMAIN tr : q \in DOMAIN u /\ u[q] = tr[q]
  BY <1>1 DEF Told
<1>6. Of(msgs, "tool") \subseteq DOMAIN msgs
  BY DEF Of
<1>7. e = [step |-> e.step, call |-> e.call, error |-> e.error]
  BY DEF TraceSteps
<1> HIDE DEF t, u, k, n
<1>8. ASSUME NEW p \in Of(msgs, "tool")
      PROVE  /\ Place(Of(t, "tool"), p) \in DOMAIN u
             /\ u[Place(Of(t, "tool"), p)] = [step  |-> Place(Of(t, "assistant"), p) - 1,
                                               call  |-> t[p].calls[1],
                                               error |-> t[p].error]
  BY <1>3, <1>5, <1>6, <1>8 DEF Told
<1>9. /\ Place(Of(t, "tool"), k) \in DOMAIN u
      /\ u[Place(Of(t, "tool"), k)] = [step  |-> Place(Of(t, "assistant"), k) - 1,
                                        call  |-> t[k].calls[1],
                                        error |-> t[k].error]
  BY <1>1, <1>2, <1>4, <1>5, <1>7
<1>10. Told(t, u)
  BY <1>1, <1>5, <1>8, <1>9 DEF Told
<1> QED
  BY <1>10 DEF t, u

LEMMA TraceInvInit == Init => TraceInv
<1> SUFFICES ASSUME Init PROVE TraceInv
  OBVIOUS
<1>1. messages = <<>> /\ trace = <<>> /\ step = 0 /\ pc = "seed"
  BY DEF Init
<1>2. \A role : Of(<<>>, role) = {}
  BY DEF Of
<1>3. Cardinality({}) = 0
  BY FS_EmptySet
<1>4. Told(<<>>, <<>>)
  BY <1>2, <1>3 DEF Told
<1> QED
  BY <1>1, <1>2, <1>3, <1>4 DEF TraceInv

LEMMA TraceInvStep == LoopInv /\ LabelInv /\ CallInv /\ TraceInv /\ [Next]_vars => TraceInv'
<1> SUFFICES ASSUME LoopInv, LabelInv, CallInv, TraceInv, [Next]_vars PROVE TraceInv'
  OBVIOUS
<1> USE DEF TraceInv
<1>0. /\ messages \in Seq(MessageSet) /\ queue \in Seq(Keys)
      /\ queue # <<>> => Head(queue) \in Keys
      /\ Cardinality(Of(messages, "assistant")) \in Nat
  BY RoleIsFinite DEF CallInv, LabelInv
<1>1. CASE ListTools
  <2> DEFINE m == User(EntriesOf(registry))
  <2>1. EntriesOf(registry) \subseteq Entries
    BY EntriesHaveOneMeaning DEF LabelInv
  <2>2. m \in MessageSet /\ m.role = "user"
    BY <2>1 DEF User, Message, MessageSet
  <2>3. messages = <<>> /\ messages' = <<m>> /\ pc = "list" /\ pc' = "loop" /\ UNCHANGED <<step, trace>>
    BY <1>1 DEF ListTools, LabelInv, budgetVars
  <2> HIDE DEF m
  <2>4. messages' = Append(messages, m)
    BY <2>3
  <2>5. Told(messages', trace')
    BY <1>0, <2>2, <2>3, <2>4, ToldByOther
  <2>6. Of(messages', "assistant") = Of(messages, "assistant")
    BY <1>0, <2>2, <2>4, AppendToRole
  <2> QED
    BY <2>3, <2>5, <2>6
<1>2. ASSUME NEW reason, pc = "loop", AskFinal(reason) PROVE TraceInv'
  <2>1. User({}) \in MessageSet /\ User({}).role = "user"
    BY DEF User, Message, MessageSet
  <2>2. messages' = Append(messages, User({})) /\ pc' = "final" /\ trace' = trace
    BY <1>2 DEF AskFinal
  <2> QED
    BY <1>0, <2>1, <2>2, ToldByOther
<1>3. CASE StopAtCap \/ \E p \in Projections : StopOnBudget(p)
  BY <1>2, <1>3 DEF StopAtCap, StopOnBudget
<1>4. ASSUME NEW p \in Projections, NEW u \in UsageFor(p), NEW plan \in Plans,
             PlanTools(p, u, plan)
      PROVE  TraceInv'
  <2> DEFINE m == Assistant(plan)
  <2>1. m \in MessageSet /\ m.role = "assistant"
    BY PlansAreCallLists DEF Assistant, Message, MessageSet
  <2>2. /\ pc = "loop" /\ pc' = "tools" /\ messages' = Append(messages, m)
        /\ UNCHANGED <<step, trace>>
    BY <1>4 DEF PlanTools
  <2> HIDE DEF m
  <2>3. Cardinality(Of(messages', "assistant")) = Cardinality(Of(messages, "assistant")) + 1
    BY <1>0, <2>1, <2>2, AppendToRole
  <2> QED
    BY <1>0, <2>1, <2>2, <2>3, ToldByOther
<1>5. ASSUME NEW m \in MessageSet, m.role = "tool", pc \in {"tools", "call"}, pc' = "tools",
             queue # <<>>, m.calls = <<Head(queue)>>, messages' = Append(messages, m),
             trace' = Append(trace, TraceStep(Head(queue), m.error)), step' = step
      PROVE  TraceInv'
  <2> DEFINE e == TraceStep(Head(queue), m.error)
  <2>1. m.error \in BOOLEAN
    BY DEF MessageSet
  <2>2. step \in Nat
    BY <1>5 DEF LoopInv
  <2>3. e \in TraceSteps /\ e.step = step /\ e.call = m.calls[1] /\ e.error = m.error
    BY <1>0, <1>5, <2>1, <2>2 DEF TraceStep, TraceSteps
  <2>4. trace' = Append(trace, e)
    BY <1>5
  <2> HIDE DEF e
  <2>5. Told(messages', trace')
    BY <1>0, <1>5, <2>3, <2>4, ToldByResult
  <2>6. Of(messages', "assistant") = Of(messages, "assistant")
    BY <1>0, <1>5, AppendToRole
  <2> QED
    BY <1>5, <2>3, <2>4, <2>5, <2>6
<1>6. CASE BlockRepeat
  <2> DEFINE m == ToolResult(Head(queue), {}, TRUE)
  <2>1. m \in MessageSet /\ m.role = "tool" /\ m.calls = <<Head(queue)>> /\ m.error = TRUE
    BY <1>0, <1>6 DEF BlockRepeat, ToolResult, Message, MessageSet
  <2>2. /\ messages' = Append(messages, m) /\ trace' = Append(trace, TraceStep(Head(queue), TRUE))
        /\ pc = "tools" /\ pc' = pc /\ step' = step /\ queue # <<>>
    BY <1>6 DEF BlockRepeat, budgetVars
  <2> HIDE DEF m
  <2> QED
    BY <1>5, <2>1, <2>2
<1>7. ASSUME NEW recs \in Seq(Records), NEW isError \in BOOLEAN, pc = "call",
             Record(recs, isError)
      PROVE  TraceInv'
  <2> DEFINE m == ToolResult(Head(queue), ShownBy(recs), isError)
  <2>1. ShownBy(recs) \subseteq Entries
    BY ResultShowsWhatItAdds DEF LabelInv
  <2>2. queue # <<>>
    BY <1>7 DEF CallInv
  <2>3. m \in MessageSet /\ m.role = "tool" /\ m.calls = <<Head(queue)>> /\ m.error = isError
    BY <1>0, <2>1, <2>2 DEF ToolResult, Message, MessageSet
  <2>4. /\ messages' = Append(messages, m) /\ pc' = "tools" /\ step' = step
        /\ trace' = Append(trace, TraceStep(Head(queue), isError))
    BY <1>7 DEF Record, budgetVars
  <2> HIDE DEF m
  <2> QED
    BY <1>5, <1>7, <2>2, <2>3, <2>4
<1>8. ASSUME NEW recs \in ToolResults, NEW isError \in BOOLEAN, CallReturns(recs, isError)
      PROVE  TraceInv'
  BY <1>7, <1>8, ResultsAreRecordLists DEF CallReturns
<1>9. CASE CallGivesUp
  <2>1. <<>> \in Seq(Records)
    OBVIOUS
  <2> QED
    BY <1>7, <1>9, <2>1 DEF CallGivesUp
<1>10. CASE EndStep
  BY <1>0, <1>10 DEF EndStep
<1>11. CASE StartCall \/ CallRetries
  <2>1. UNCHANGED <<messages, trace, step>> /\ pc \in {"tools", "call"} /\ pc' \in {"tools", "call"}
    BY <1>11 DEF StartCall, CallRetries, budgetVars
  <2> QED
    BY <2>1
<1>12. ASSUME NEW p \in Projections, NEW u \in UsageFor(p),
              NEW cited \in SUBSET (0..Size(registry) + 1),
              PlanAnswer(p, u, cited) \/ FinalAnswer(u, cited)
       PROVE  TraceInv'
  BY <1>12 DEF PlanAnswer, FinalAnswer, Deliver
<1>13. CASE Abort
  BY <1>13 DEF Abort
<1>14. CASE \E recs \in SeedResults : Seed(recs)
  BY <1>14 DEF Seed, budgetVars
<1>15. CASE Ended \/ UNCHANGED vars
  BY <1>15 DEF Ended, vars
<1> QED
  BY <1>1, <1>3, <1>4, <1>6, <1>8, <1>9, <1>10, <1>11, <1>12, <1>13, <1>14, <1>15 DEF Next, Silent

\* The trace returned to the user tells the conversation: every call with its error flag,
\* in order, and the iteration that requested it.
THEOREM TraceIsTrue == Spec => []TraceTellsConversation
<1>1. TraceInv => TraceTellsConversation
  BY DEF TraceInv, Told, TraceTellsConversation, Of, Role
<1> QED
  BY <1>1, LoopInvInit, LoopInvStep, CallInvInit, CallInvStep, LabelInvInit, LabelInvStep, TraceInvInit, TraceInvStep,
     PTL DEF Spec

-----------------------------------------------------------------------------
\* The loop of _to_messages() over a conversation, up to its n-th iteration.
IsLoop(acc, msgs, n) ==
    acc = [i \in 0..n |-> IF i = 0 THEN NothingYet
                                   ELSE TurnAdded(acc[i - 1], msgs[i])]

LEMMA LoopExists ==
  ASSUME NEW msgs, NEW n \in Nat
  PROVE  \E acc : IsLoop(acc, msgs, n)
<1> DEFINE S == {k \in Nat : \E acc : IsLoop(acc, msgs, k)}
<1>1. 0 \in S
  <2> DEFINE acc == [i \in 0..0 |-> NothingYet]
  <2>1. IsLoop(acc, msgs, 0)
    BY DEF IsLoop
  <2> QED
    BY <2>1
<1>2. ASSUME NEW k \in S PROVE k + 1 \in S
  <2>1. k \in Nat
    OBVIOUS
  <2>2. PICK acc : IsLoop(acc, msgs, k)
    OBVIOUS
  <2> DEFINE next == [i \in 0..(k + 1) |-> IF i <= k THEN acc[i] ELSE TurnAdded(acc[k], msgs[i])]
  <2>3. /\ \A i \in 0..k : next[i] = acc[i]
        /\ next[k + 1] = TurnAdded(acc[k], msgs[k + 1])
    BY <2>1
  <2>9. next = [i \in 0..(k + 1) |-> next[i]]
    OBVIOUS
  <2>4. /\ acc[0] = NothingYet
        /\ \A i \in 1..k : acc[i] = TurnAdded(acc[i - 1], msgs[i])
    BY <2>1, <2>2 DEF IsLoop
  <2> HIDE DEF next
  <2> HIDE DEF S
  <2>5. ASSUME NEW i \in 0..(k + 1)
        PROVE  next[i] = IF i = 0 THEN NothingYet
                                  ELSE TurnAdded(next[i - 1], msgs[i])
    <3>1. CASE i = 0
      BY <2>1, <2>3, <2>4, <3>1
    <3>2. CASE i \in 1..k
      <4>1. next[i] = acc[i] /\ next[i - 1] = acc[i - 1] /\ i # 0
        BY <2>1, <2>3, <3>2
      <4> QED
        BY <2>4, <3>2, <4>1
    <3>3. CASE i = k + 1
      <4>1. next[i - 1] = acc[k] /\ i # 0
        BY <2>1, <2>3, <3>3
      <4> QED
        BY <2>3, <3>3, <4>1
    <3> QED
      BY <2>1, <3>1, <3>2, <3>3
  <2>6. IsLoop(next, msgs, k + 1)
    BY <2>5, <2>9 DEF IsLoop
  <2> QED
    BY <2>1, <2>6 DEF S
<1> HIDE DEF S
<1>3. S = Nat
  <2>1. S \subseteq Nat
    BY DEF S
  <2> QED
    BY <1>1, <1>2, <2>1, CountingUp
<1> QED
  BY <1>3 DEF S

\* The loop has done the same after n iterations over conversations that begin alike.
LEMMA LoopsAgree ==
  ASSUME NEW s, NEW t, NEW n \in Nat, NEW k \in Nat, n <= k, \A i \in 1..n : s[i] = t[i],
         NEW acc, IsLoop(acc, s, n), NEW more, IsLoop(more, t, k)
  PROVE  acc[n] = more[n]
<1> DEFINE S == {i \in Nat : i <= n => acc[i] = more[i]}
<1>1. /\ acc[0] = more[0]
      /\ \A i \in 1..n : /\ acc[i] = TurnAdded(acc[i - 1], s[i])
                         /\ more[i] = TurnAdded(more[i - 1], t[i])
  <2>1. \A i \in 1..n : i \in 0..n /\ i \in 0..k /\ i # 0
    OBVIOUS
  <2>2. 0 \in 0..n /\ 0 \in 0..k
    OBVIOUS
  <2> QED
    BY <2>1, <2>2 DEF IsLoop
<1>2. ASSUME NEW i \in S PROVE i + 1 \in S
  <2>1. CASE i + 1 <= n
    <3>1. acc[i] = more[i] /\ i + 1 \in 1..n /\ (i + 1) - 1 = i
      BY <2>1
    <3>2. acc[i + 1] = TurnAdded(acc[i], s[i + 1]) /\ more[i + 1] = TurnAdded(more[i], t[i + 1])
      BY <1>1, <3>1
    <3> QED
      BY <3>1, <3>2
  <2> QED
    BY <2>1
<1>3. 0 \in S /\ S \subseteq Nat
  BY <1>1
<1> HIDE DEF S
<1>4. S = Nat
  BY <1>2, <1>3, CountingUp
<1> QED
  BY <1>4 DEF S

LEMMA GatheredIsLoop ==
  ASSUME NEW msgs \in Seq(MessageSet)
  PROVE  \E acc : IsLoop(acc, msgs, Len(msgs)) /\ Gathered(msgs) = acc[Len(msgs)]
<1>1. \E acc : IsLoop(acc, msgs, Len(msgs))
  <2>1. Len(msgs) \in Nat
    OBVIOUS
  <2> QED
    BY <2>1, LoopExists
<1> QED
  BY <1>1 DEF IsLoop, Gathered

\* One more message is one more iteration.
LEMMA GatheredGrows ==
  /\ Gathered(<<>>) = NothingYet
  /\ \A msgs \in Seq(MessageSet), m \in MessageSet :
        Gathered(Append(msgs, m)) = TurnAdded(Gathered(msgs), m)
<1>1. Gathered(<<>>) = NothingYet
  <2>1. <<>> \in Seq(MessageSet) /\ Len(<<>>) = 0
    OBVIOUS
  <2>2. PICK acc : IsLoop(acc, <<>>, 0) /\ Gathered(<<>>) = acc[0]
    BY <2>1, GatheredIsLoop
  <2> QED
    BY <2>2 DEF IsLoop
<1>2. ASSUME NEW msgs \in Seq(MessageSet), NEW m \in MessageSet
      PROVE  Gathered(Append(msgs, m)) = TurnAdded(Gathered(msgs), m)
  <2> DEFINE t == Append(msgs, m)
             n == Len(msgs)
  <2>1. /\ n \in Nat /\ t \in Seq(MessageSet) /\ Len(t) = n + 1 /\ t[n + 1] = m
        /\ \A i \in 1..n : msgs[i] = t[i]
    OBVIOUS
  <2>2. PICK acc : IsLoop(acc, msgs, n) /\ Gathered(msgs) = acc[n]
    BY GatheredIsLoop
  <2> HIDE DEF t
  <2>3. PICK more : IsLoop(more, t, n + 1) /\ Gathered(t) = more[n + 1]
    BY <2>1, GatheredIsLoop
  <2> HIDE DEF n
  <2>4. acc[n] = more[n]
    BY <2>1, <2>2, <2>3, LoopsAgree
  <2>5. more[n + 1] = TurnAdded(more[n], t[n + 1])
    BY <2>1, <2>3 DEF IsLoop
  <2> QED
    BY <2>1, <2>2, <2>3, <2>4, <2>5 DEF t
<1> QED
  BY <1>1, <1>2

-----------------------------------------------------------------------------
\* What FlattenSeq computes on its way.
IsFlattening(f, s, n) == f = [i \in 1..n |-> IF i = 1 THEN s[i] ELSE f[i - 1] \o s[i]]

LEMMA FlatteningExists ==
  ASSUME NEW s, NEW n \in Nat
  PROVE  \E f : IsFlattening(f, s, n)
<1> DEFINE S == {k \in Nat : \E f : IsFlattening(f, s, k)}
<1>1. 0 \in S
  <2> DEFINE f == [i \in 1..0 |-> s[i]]
  <2>1. IsFlattening(f, s, 0)
    BY DEF IsFlattening
  <2> QED
    BY <2>1
<1>2. ASSUME NEW k \in S PROVE k + 1 \in S
  <2>1. k \in Nat
    OBVIOUS
  <2>2. PICK f : IsFlattening(f, s, k)
    OBVIOUS
  <2> DEFINE next == [i \in 1..(k + 1) |-> IF i <= k THEN f[i]
                                           ELSE IF k = 0 THEN s[i] ELSE f[k] \o s[i]]
  <2>3. /\ \A i \in 1..k : next[i] = f[i]
        /\ next[k + 1] = IF k = 0 THEN s[k + 1] ELSE f[k] \o s[k + 1]
    <3>1. k + 1 \in 1..(k + 1) /\ ~(k + 1 <= k) /\ \A i \in 1..k : i \in 1..(k + 1) /\ i <= k
      BY <2>1
    <3> QED
      BY <3>1
  <2>4. next = [i \in 1..(k + 1) |-> next[i]]
    OBVIOUS
  <2>5. \A i \in 1..k : f[i] = IF i = 1 THEN s[i] ELSE f[i - 1] \o s[i]
    BY <2>1, <2>2 DEF IsFlattening
  <2> HIDE DEF next, S
  <2>6. ASSUME NEW i \in 1..(k + 1)
        PROVE  next[i] = IF i = 1 THEN s[i] ELSE next[i - 1] \o s[i]
    <3>1. CASE i \in 1..k
      <4>1. next[i] = f[i] /\ (i # 1 => next[i - 1] = f[i - 1])
        BY <2>1, <2>3, <3>1
      <4> QED
        BY <2>5, <3>1, <4>1
    <3>2. CASE i = k + 1
      <4>1. /\ i = 1 <=> k = 0
            /\ k # 0 => next[i - 1] = f[k]
        BY <2>1, <2>3, <3>2
      <4> QED
        BY <2>3, <3>2, <4>1
    <3> QED
      BY <2>1, <3>1, <3>2
  <2>7. IsFlattening(next, s, k + 1)
    BY <2>4, <2>6 DEF IsFlattening
  <2> QED
    BY <2>1, <2>7 DEF S
<1>3. S \subseteq Nat
  OBVIOUS
<1> HIDE DEF S
<1>4. S = Nat
  BY <1>1, <1>2, <1>3, CountingUp
<1> QED
  BY <1>4 DEF S

LEMMA FlatteningsAgree ==
  ASSUME NEW X, NEW s \in Seq(Seq(X)), NEW t, NEW k \in Nat, Len(s) <= k,
         \A i \in 1..Len(s) : s[i] = t[i],
         NEW f, IsFlattening(f, s, Len(s)), NEW g, IsFlattening(g, t, k)
  PROVE  \A i \in 1..Len(s) : f[i] = g[i] /\ f[i] \in Seq(X)
<1> DEFINE n == Len(s)
           S == {i \in Nat : i + 1 <= n => f[i + 1] = g[i + 1] /\ f[i + 1] \in Seq(X)}
<1>1. /\ \A i \in 1..n : s[i] \in Seq(X) /\ s[i] = t[i]
      /\ n \in Nat /\ n <= k
      /\ IsFlattening(f, s, n)
  OBVIOUS
<1> HIDE DEF n
<1>2. \A i \in 1..n : /\ f[i] = IF i = 1 THEN s[i] ELSE f[i - 1] \o s[i]
                      /\ g[i] = IF i = 1 THEN s[i] ELSE g[i - 1] \o s[i]
  <2>1. \A i \in 1..n : f[i] = IF i = 1 THEN s[i] ELSE f[i - 1] \o s[i]
    BY <1>1 DEF IsFlattening
  <2>2. \A i \in 1..k : g[i] = IF i = 1 THEN t[i] ELSE g[i - 1] \o t[i]
    BY DEF IsFlattening
  <2>3. \A i \in 1..n : i \in 1..k /\ s[i] = t[i]
    BY <1>1
  <2> QED
    BY <2>1, <2>2, <2>3
<1>3. 0 \in S
  <2>1. CASE 1 <= n
    <3>1. 1 \in 1..n
      BY <1>1, <2>1
    <3> QED
      BY <1>1, <1>2, <3>1
  <2> QED
    BY <1>1, <2>1
<1>4. ASSUME NEW i \in S PROVE i + 1 \in S
  <2>1. CASE (i + 1) + 1 <= n
    <3>1. /\ i + 1 <= n /\ i \in Nat /\ (i + 1) + 1 \in 1..n /\ (i + 1) + 1 # 1
          /\ ((i + 1) + 1) - 1 = i + 1
      BY <1>1, <2>1
    <3>2. f[i + 1] = g[i + 1] /\ f[i + 1] \in Seq(X)
      BY <3>1
    <3>3. /\ f[(i + 1) + 1] = f[i + 1] \o s[(i + 1) + 1]
          /\ g[(i + 1) + 1] = g[i + 1] \o s[(i + 1) + 1]
      BY <1>2, <3>1
    <3>4. s[(i + 1) + 1] \in Seq(X)
      BY <1>1, <3>1
    <3>5. f[i + 1] \o s[(i + 1) + 1] \in Seq(X)
      BY <3>2, <3>4
    <3>6. f[(i + 1) + 1] = g[(i + 1) + 1] /\ f[(i + 1) + 1] \in Seq(X)
      BY <3>2, <3>3, <3>5, Zenon
    <3> QED
      BY <3>1, <3>6
  <2> QED
    BY <2>1
<1>5. S \subseteq Nat
  OBVIOUS
<1> HIDE DEF S
<1>6. S = Nat
  BY <1>3, <1>4, <1>5, CountingUp
<1>7. ASSUME NEW i \in 1..n PROVE f[i] = g[i] /\ f[i] \in Seq(X)
  <2>1. i - 1 \in S /\ (i - 1) + 1 = i /\ i <= n
    BY <1>1, <1>6
  <2> QED
    BY <2>1 DEF S
<1> QED
  BY <1>7 DEF n

LEMMA FlattenIsFlattening ==
  ASSUME NEW s, Len(s) \in Nat, Len(s) # 0
  PROVE  \E f : IsFlattening(f, s, Len(s)) /\ FlattenSeq(s) = f[Len(s)]
<1>1. \E f : IsFlattening(f, s, Len(s))
  BY FlatteningExists
<1> QED
  BY <1>1 DEF IsFlattening, FlattenSeq

\* FlattenSeq goes on at its end.
LEMMA FlattenGrows ==
  ASSUME NEW X
  PROVE  /\ FlattenSeq(<<>>) = <<>>
         /\ \A s \in Seq(Seq(X)), x \in Seq(X) :
               FlattenSeq(s) \in Seq(X) /\ FlattenSeq(Append(s, x)) = FlattenSeq(s) \o x
<1>1. FlattenSeq(<<>>) = <<>>
  BY DEF FlattenSeq
<1>2. ASSUME NEW s \in Seq(Seq(X)) PROVE FlattenSeq(s) \in Seq(X)
  <2>1. CASE Len(s) = 0
    <3>1. s = <<>> /\ <<>> \in Seq(X)
      BY <2>1
    <3> QED
      BY <1>1, <3>1
  <2>2. CASE Len(s) # 0
    <3>1. Len(s) \in Nat /\ Len(s) \in 1..Len(s) /\ Len(s) <= Len(s)
      BY <2>2
    <3>2. PICK f : IsFlattening(f, s, Len(s)) /\ FlattenSeq(s) = f[Len(s)]
      BY <2>2, <3>1, FlattenIsFlattening
    <3>3. \A i \in 1..Len(s) : f[i] \in Seq(X)
      BY <3>1, <3>2, FlatteningsAgree
    <3> QED
      BY <3>1, <3>2, <3>3
  <2> QED
    BY <2>1, <2>2
<1>3. ASSUME NEW s \in Seq(Seq(X)), NEW x \in Seq(X)
      PROVE  FlattenSeq(Append(s, x)) = FlattenSeq(s) \o x
  <2> DEFINE t == Append(s, x)
             n == Len(s)
  <2>1. /\ n \in Nat /\ Len(t) = n + 1 /\ t[n + 1] = x /\ n <= n + 1
        /\ \A i \in 1..n : s[i] = t[i]
        /\ t \in Seq(Seq(X)) 
    OBVIOUS
  <2> HIDE DEF t
  <2>2. Len(t) \in Nat /\ Len(t) # 0
    BY <2>1
  <2>3. PICK g : IsFlattening(g, t, Len(t)) /\ FlattenSeq(t) = g[Len(t)]
    BY <2>2, FlattenIsFlattening
  <2>4. g[n + 1] = IF n + 1 = 1 THEN x ELSE g[n] \o x
    <3>1. n + 1 \in 1..(n + 1) /\ (n + 1) - 1 = n
      BY <2>1
    <3> QED
      BY <2>1, <2>3, <3>1 DEF IsFlattening
  <2>5. CASE n = 0
    <3>1. s = <<>>
      BY <2>5
    <3>2. FlattenSeq(t) = x /\ FlattenSeq(s) = <<>>
      BY <1>1, <2>1, <2>3, <2>4, <2>5, <3>1
    <3> QED
      BY <3>2 DEF t
  <2>6. CASE n # 0
    <3>1. PICK f : IsFlattening(f, s, n) /\ FlattenSeq(s) = f[n]
      BY <2>1, <2>6, FlattenIsFlattening
    <3>2. n \in 1..n
      BY <2>1, <2>6
    <3>3. IsFlattening(g, t, n + 1) /\ n + 1 \in Nat
      BY <2>1, <2>3
    <3>4. /\ Len(s) <= n + 1 /\ \A i \in 1..Len(s) : s[i] = t[i]
          /\ IsFlattening(f, s, Len(s))
      BY <2>1, <3>1
    <3>5. \A i \in 1..Len(s) : f[i] = g[i] /\ f[i] \in Seq(X)
      BY <3>3, <3>4, FlatteningsAgree
    <3>6. f[n] = g[n] /\ n + 1 # 1
      BY <2>1, <2>6, <3>2, <3>5
    <3>7. FlattenSeq(t) = f[n] \o x
      BY <2>1, <2>3, <2>4, <3>6
    <3> QED
      BY <3>1, <3>7 DEF t
  <2> QED
    BY <2>5, <2>6
<1> QED
  BY <1>1, <1>2, <1>3

-----------------------------------------------------------------------------
Results == {Result(m) : m \in MessageSet}

Turns == [role : {"user", "assistant", "tool"}, uses : Seq(Keys), results : Seq(Results)]

\* The turn after one that uses tools.
NextAnswers(turn, next) == next.role = "user" /\ CallsIn(next.results) = turn.uses

\* What the turns made so far, and the results that wait for theirs, have to do with the
\* conversation: the results are the tool messages at its end, the last turn is the message
\* before these, and all other turns that use tools are answered.
Turned(msgs, out, held) ==
    /\ out # <<>> /\ out[1].role = "user"
    /\ LET q == Len(msgs) - Len(held)
       IN  /\ q \in DOMAIN msgs /\ msgs[q].role # "tool" /\ out[Len(out)] = TurnOf(msgs[q])
           /\ \A i \in 1..Len(held) : /\ msgs[q + i].role = "tool"
                                      /\ held[i] = Result(msgs[q + i])
    /\ \A p \in 1..Len(out) : /\ p # Len(out) /\ out[p].uses # <<>> => NextAnswers(out[p], out[p + 1])
                              /\ out[p].results # <<>> => p > 1 /\ out[p - 1].uses # <<>>

\* The turns of a request.
Accepted(turns) ==
    /\ turns # <<>> /\ turns[1].role = "user"
    /\ turns[Len(turns)].role = "user" /\ turns[Len(turns)].uses = <<>>
    /\ \A p \in 1..Len(turns) :
          /\ turns[p].uses # <<>> => p # Len(turns) /\ NextAnswers(turns[p], turns[p + 1])
          /\ turns[p].results # <<>> => p > 1 /\ turns[p - 1].uses # <<>>

Asking(msgs) == \A p \in DOMAIN msgs : msgs[p].role = "assistant" => msgs[p].calls # <<>>

\* The results that wait answer the last turn, all its calls in their order.
LEMMA WaitingAnswer ==
  ASSUME NEW msgs \in Seq(MessageSet), Paired(msgs, 0), Asking(msgs),
         NEW out, NEW held \in Seq(Results), Turned(msgs, out, held),
         NEW q, q = Len(msgs) - Len(held)
  PROVE  /\ msgs[q].role = "assistant" => CallsIn(held) = msgs[q].calls
         /\ msgs[q].role = "assistant" <=> held # <<>>
<1> DEFINE n == Len(msgs)
           k == Len(held)
<1>1. n \in Nat /\ k \in Nat /\ q = n - k /\ q \in 1..n
  BY DEF Turned
<1>2. DOMAIN msgs = 1..n /\ DOMAIN held = 1..k /\ (held # <<>> <=> k > 0)
  OBVIOUS
<1>3. /\ msgs[q].role # "tool"
      /\ \A i \in 1..k : msgs[q + i].role = "tool" /\ held[i] = Result(msgs[q + i])
  BY DEF Turned
<1>4. \A p \in 1..n : /\ msgs[p].calls \in Seq(Keys) /\ Len(msgs[p].calls) \in Nat
                      /\ DOMAIN msgs[p].calls = 1..Len(msgs[p].calls)
                      /\ msgs[p].calls # <<>> => Len(msgs[p].calls) > 0
  <2> SUFFICES ASSUME NEW p \in 1..n PROVE msgs[p].calls \in Seq(Keys)
    OBVIOUS
  <2>1. msgs[p] \in MessageSet
    OBVIOUS
  <2> QED
    BY <2>1 DEF MessageSet
<1> HIDE DEF n, k
<1>5. \A p \in 1..n : msgs[p].role = "assistant" => Answered(msgs, p, Len(msgs[p].calls))
  <2>1. \A p \in 1..n : p # 0
    OBVIOUS
  <2> QED
    BY <1>2, <2>1 DEF Paired
<1>6. ASSUME k > 0 PROVE msgs[q].role = "assistant" /\ k <= Len(msgs[q].calls)
  <2>1. msgs[n].role = "tool" /\ n \in 1..n
    <3>1. k \in 1..k /\ q + k = n /\ n \in 1..n
      BY <1>1, <1>6
    <3> QED
      BY <1>3, <3>1
  <2>2. Owed(msgs, n)
    BY <1>2, <2>1 DEF Paired
  <2>3. PICK p \in 1..n : \E j \in 1..Len(msgs[p].calls) : msgs[p].role = "assistant" /\ n = p + j
    BY <1>2, <2>2 DEF Owed
  <2>4. PICK j \in 1..Len(msgs[p].calls) : n = p + j
    BY <2>3
  <2>5. msgs[p].role = "assistant" /\ Len(msgs[p].calls) \in Nat
    BY <1>4, <2>3
  <2>6. p <= q
    <3> SUFFICES ASSUME p > q PROVE FALSE
      BY <1>1
    <3>1. p - q \in 1..k /\ q + (p - q) = p
      BY <1>1
    <3>2. msgs[q + (p - q)].role = "tool"
      BY <1>3, <3>1
    <3> QED
      BY <2>5, <3>1, <3>2
  <2>7. p = q
    <3> SUFFICES ASSUME p < q PROVE FALSE
      BY <1>1, <2>6
    <3> DEFINE c == Len(msgs[p].calls)
    <3>0. c \in Nat /\ j \in 1..c /\ n = p + j
      BY <2>4, <2>5
    <3> HIDE DEF c
    <3>9. q - p \in 1..c /\ p + (q - p) = q
      BY <1>1, <3>0
    <3>1. q - p \in 1..Len(msgs[p].calls) /\ p + (q - p) = q
      BY <3>9 DEF c
    <3>2. msgs[p + (q - p)].role = "tool"
      BY <1>5, <2>5, <3>1 DEF Answered
    <3> QED
      BY <1>3, <3>1, <3>2
  <2>8. j \in 1..Len(msgs[q].calls) /\ n = q + j
    BY <2>4, <2>7
  <2>9. \A c \in Nat : j \in 1..c /\ n = q + j => k <= c
    BY <1>1
  <2>10. msgs[q].role = "assistant" /\ Len(msgs[q].calls) \in Nat
    BY <2>5, <2>7
  <2> QED
    BY <2>8, <2>9, <2>10
<1>7. ASSUME msgs[q].role = "assistant" PROVE k = Len(msgs[q].calls) /\ k > 0
  <2>1. Len(msgs[q].calls) > 0 /\ Len(msgs[q].calls) \in Nat
    BY <1>1, <1>2, <1>4, <1>7 DEF Asking
  <2>2. Answered(msgs, q, Len(msgs[q].calls)) /\ Len(msgs[q].calls) \in 1..Len(msgs[q].calls)
    BY <1>1, <1>5, <1>7, <2>1
  <2>3. q + Len(msgs[q].calls) \in 1..n
    BY <1>2, <2>2 DEF Answered
  <2>4. k > 0
    BY <1>1, <2>1, <2>3
  <2> QED
    BY <1>1, <1>6, <2>1, <2>3, <2>4
<1>8. ASSUME msgs[q].role = "assistant" PROVE CallsIn(held) = msgs[q].calls
  <2>1. k = Len(msgs[q].calls) /\ DOMAIN msgs[q].calls = 1..k
    BY <1>1, <1>4, <1>7, <1>8
  <2>2. Answered(msgs, q, k)
    BY <1>1, <1>5, <1>8, <2>1
  <2>3. \A i \in 1..k : msgs[q + i].calls = <<msgs[q].calls[i]>>
    BY <2>2 DEF Answered
  <2>4. \A i \in 1..k : Result(msgs[q + i]).call = msgs[q].calls[i]
    BY <2>3 DEF Result
  <2>5. \A i \in 1..k : held[i].call = msgs[q].calls[i]
    BY <1>3, <2>4
  <2>6. msgs[q].calls = [i \in 1..k |-> msgs[q].calls[i]]
    <3> DEFINE c == msgs[q].calls
    <3>1. c \in Seq(Keys) /\ DOMAIN c = 1..k
      BY <1>1, <1>4, <2>1
    <3> HIDE DEF c
    <3>2. c = [i \in 1..k |-> c[i]]
      BY <3>1
    <3> QED
      BY <3>2 DEF c
  <2> QED
    BY <1>2, <2>5, <2>6 DEF CallsIn
<1> QED
  BY <1>2, <1>6, <1>7, <1>8

\* Flushing leaves every turn that uses tools answered.
LEMMA FlushedIsAccepted ==
  ASSUME NEW msgs \in Seq(MessageSet), Paired(msgs, 0), Asking(msgs),
         NEW out \in Seq(Turns), NEW held \in Seq(Results), Turned(msgs, out, held),
         NEW acc, acc = [out |-> out, pending |-> held]
  PROVE  /\ Accepted(Flushed(acc).out) /\ Flushed(acc).out \in Seq(Turns)
         /\ Flushed(acc).pending = <<>>
<1> DEFINE q == Len(msgs) - Len(held)
           n == Len(out)
           last == out[n]
<1>1. /\ q \in DOMAIN msgs /\ msgs[q].role # "tool" /\ last = TurnOf(msgs[q])
      /\ n \in Nat /\ n # 0 /\ out[1].role = "user"
      /\ msgs[q] \in MessageSet
      /\ \A p \in 1..n : out[p] \in Turns
  BY DEF Turned
<1>2. \A p \in 1..n : /\ p # n /\ out[p].uses # <<>> => NextAnswers(out[p], out[p + 1])
                      /\ out[p].results # <<>> => p > 1 /\ out[p - 1].uses # <<>>
  BY DEF Turned
<1>3. /\ last.role = msgs[q].role /\ last.role \in {"user", "assistant"}
      /\ last.uses = IF msgs[q].role = "assistant" THEN msgs[q].calls ELSE <<>>
  BY <1>1 DEF TurnOf, Wire, MessageSet
<1>4. /\ msgs[q].role = "assistant" => CallsIn(held) = msgs[q].calls
      /\ msgs[q].role = "assistant" <=> held # <<>>
  BY WaitingAnswer
<1> HIDE DEF q
<1>5. CASE held = <<>>
  <2>1. Flushed(acc) = acc
    BY <1>5 DEF Flushed
  <2>2. last.role = "user" /\ last.uses = <<>>
    BY <1>3, <1>4, <1>5
  <2> QED
    BY <1>1, <1>2, <1>5, <2>1, <2>2 DEF Accepted
<1>6. CASE held # <<>>
  <2> DEFINE w == Wire("user", <<>>, held)
             turns == Append(out, w)
  <2>1. Flushed(acc) = [out |-> turns, pending |-> <<>>]
    BY <1>6 DEF Flushed
  <2>2. w \in Turns /\ w.role = "user" /\ w.uses = <<>> /\ w.results = held
    BY DEF Wire, Turns
  <2> HIDE DEF w
  <2>3. /\ turns \in Seq(Turns) /\ Len(turns) = n + 1 /\ turns[n + 1] = w
        /\ \A p \in 1..n : turns[p] = out[p]
        /\ turns # <<>>
    BY <2>2
  <2> HIDE DEF turns
  <2>4. last.uses # <<>> /\ NextAnswers(last, w)
    BY <1>1, <1>3, <1>4, <1>6, <2>2 DEF NextAnswers, Asking
  <2>5. ASSUME NEW p \in 1..(n + 1)
        PROVE  /\ turns[p].uses # <<>> => p # n + 1 /\ NextAnswers(turns[p], turns[p + 1])
               /\ turns[p].results # <<>> => p > 1 /\ turns[p - 1].uses # <<>>
    <3>1. CASE p = n + 1
      <4>1. turns[p - 1] = last /\ p > 1 /\ turns[p] = w
        BY <1>1, <2>3, <3>1
      <4> QED
        BY <2>2, <2>4, <4>1
    <3>2. CASE p = n
      <4>1. turns[p] = last /\ turns[p + 1] = w /\ p # n + 1 /\ n \in 1..n
        BY <1>1, <2>3, <3>2
      <4>2. p > 1 => turns[p - 1] = out[p - 1]
        BY <1>1, <2>3, <3>2
      <4> QED
        BY <1>2, <2>4, <3>2, <4>1, <4>2
    <3>3. CASE p \in 1..(n - 1)
      <4>1. /\ p # n + 1 /\ p # n /\ p \in 1..n /\ p + 1 \in 1..n
            /\ p > 1 => p - 1 \in 1..n
        BY <1>1, <3>3
      <4>2. turns[p] = out[p] /\ turns[p + 1] = out[p + 1] /\ (p > 1 => turns[p - 1] = out[p - 1])
        BY <2>3, <4>1
      <4> QED
        BY <1>2, <4>1, <4>2
    <3> QED
      BY <1>1, <3>1, <3>2, <3>3
  <2>6. turns[1].role = "user" /\ turns[Len(turns)].role = "user" /\ turns[Len(turns)].uses = <<>>
    BY <1>1, <2>2, <2>3
  <2>7. Accepted(turns)
    BY <2>3, <2>5, <2>6 DEF Accepted
  <2> QED
    BY <2>1, <2>3, <2>7
<1> QED
  BY <1>5, <1>6

-----------------------------------------------------------------------------
\* A message that is no result makes a turn after the flushed ones.
LEMMA TurnedByOther ==
  ASSUME NEW msgs \in Seq(MessageSet), NEW m \in MessageSet, m.role # "tool",
         NEW turns \in Seq(Turns),
         \/ msgs = <<>> /\ turns = <<>> /\ m.role = "user"
         \/ Accepted(turns)
  PROVE  /\ Turned(Append(msgs, m), Append(turns, TurnOf(m)), <<>>)
         /\ Append(turns, TurnOf(m)) \in Seq(Turns)
<1> DEFINE t == Append(msgs, m)
           w == TurnOf(m)
           out == Append(turns, w)
           n == Len(turns)
<1>1. Len(t) \in DOMAIN t /\ t[Len(t)] = m /\ Len(t) \in Nat
  BY AppendKeeps
<1>2. w \in Turns /\ w.role = m.role /\ w.results = <<>>
  BY DEF TurnOf, Wire, Turns, MessageSet
<1> HIDE DEF t, w
<1>3. /\ n \in Nat /\ out \in Seq(Turns) /\ Len(out) = n + 1 /\ out[n + 1] = w
      /\ \A p \in 1..n : out[p] = turns[p]
      /\ out # <<>> /\ (turns = <<>> <=> n = 0)
  BY <1>2
<1> HIDE DEF out, n
<1>4. out[1].role = "user"
  <2>1. CASE turns = <<>>
    BY <1>2, <1>3, <2>1 DEF Accepted
  <2>2. CASE Accepted(turns) /\ turns # <<>>
    <3>1. 1 \in 1..n
      BY <1>3, <2>2
    <3> QED
      BY <1>3, <2>2, <3>1 DEF Accepted
  <2> QED
    BY <2>1, <2>2
<1>5. ASSUME NEW p \in 1..(n + 1)
      PROVE  /\ p # n + 1 /\ out[p].uses # <<>> => NextAnswers(out[p], out[p + 1])
             /\ out[p].results # <<>> => p > 1 /\ out[p - 1].uses # <<>>
  <2>1. CASE p = n + 1
    BY <1>2, <1>3, <2>1
  <2>2. CASE p \in 1..n
    <3>1. Accepted(turns) /\ n = Len(turns)
      BY <1>3, <2>2 DEF n
    <3>2. /\ out[p] = turns[p] /\ (p # n => p + 1 \in 1..n) /\ (p > 1 => p - 1 \in 1..n)
      BY <1>3, <2>2
    <3>3. /\ p # n => out[p + 1] = turns[p + 1]
          /\ p > 1 => out[p - 1] = turns[p - 1]
      BY <1>3, <3>2
    <3> QED
      BY <2>2, <3>1, <3>2, <3>3 DEF Accepted
  <2> QED
    BY <1>3, <2>1, <2>2
<1>6. Len(<<>>) = 0 /\ Len(t) - 0 = Len(t) /\ 1..0 = {}
  BY <1>1
<1>7. out[Len(out)] = TurnOf(t[Len(t)]) /\ t[Len(t)].role # "tool"
  BY <1>1, <1>3 DEF w
<1>8. Turned(t, out, <<>>)
  BY <1>1, <1>3, <1>4, <1>5, <1>6, <1>7 DEF Turned
<1> QED
  BY <1>3, <1>8 DEF t, out, w

\* A result waits.
LEMMA TurnedByResult ==
  ASSUME NEW msgs \in Seq(MessageSet), NEW m \in MessageSet, m.role = "tool",
         NEW out, NEW held \in Seq(Results), Turned(msgs, out, held)
  PROVE  /\ Turned(Append(msgs, m), out, Append(held, Result(m)))
         /\ Append(held, Result(m)) \in Seq(Results)
<1> DEFINE t == Append(msgs, m)
           n == Len(msgs)
           k == Len(held)
           r == Result(m)
           rs == Append(held, r)
           q == n - k
<1>1. /\ Len(t) = n + 1 /\ n \in Nat /\ DOMAIN msgs = 1..n /\ DOMAIN t = 1..(n + 1) /\ t[n + 1] = m
      /\ \A p \in 1..n : t[p] = msgs[p]
  BY AppendKeeps
<1>2. r \in Results
  BY DEF Results
<1> HIDE DEF r
<1>3. /\ rs \in Seq(Results) /\ Len(rs) = k + 1 /\ rs[k + 1] = r /\ k \in Nat
      /\ \A i \in 1..k : rs[i] = held[i]
  BY <1>2
<1>4. /\ q \in DOMAIN msgs /\ msgs[q].role # "tool" /\ out[Len(out)] = TurnOf(msgs[q])
      /\ \A i \in 1..k : msgs[q + i].role = "tool" /\ held[i] = Result(msgs[q + i])
  BY DEF Turned
<1> HIDE DEF t, rs
<1>5. Len(t) - Len(rs) = q /\ q \in 1..n /\ q \in 1..(n + 1) /\ q + (k + 1) = n + 1
  BY <1>1, <1>3, <1>4
<1>6. \A i \in 1..k : q + i \in 1..n
  BY <1>1, <1>3, <1>5
<1> HIDE DEF n, k, q
<1>7. ASSUME NEW i \in 1..(k + 1) PROVE t[q + i].role = "tool" /\ rs[i] = Result(t[q + i])
  <2>1. CASE i = k + 1
    BY <1>1, <1>3, <1>5, <2>1 DEF r
  <2>2. CASE i \in 1..k
    <3>1. t[q + i] = msgs[q + i]
      BY <1>1, <1>6, <2>2
    <3> QED
      BY <1>3, <1>4, <2>2, <3>1
  <2> QED
    BY <1>3, <2>1, <2>2
<1>8. q \in DOMAIN t /\ t[q] = msgs[q]
  BY <1>1, <1>5
<1>9. Turned(t, out, rs)
  BY <1>3, <1>4, <1>5, <1>7, <1>8 DEF Turned
<1> QED
  BY <1>3, <1>9 DEF t, rs, r

-----------------------------------------------------------------------------
\* The steps of the loop and the conversation: a step says nothing, or it adds a message of
\* the user or the model before the next completion, or the result of the next call
\* together with its step of the trace.
LEMMA ConversationGrows ==
  ASSUME CallInv, LabelInv, [Next]_vars
  PROVE  \/ UNCHANGED <<messages, trace>>
         \/ \E m \in MessageSet : /\ messages' = Append(messages, m) /\ trace' = trace
                                  /\ \/ m.role = "user" /\ (messages = <<>> \/ pc = "loop")
                                     \/ m.role = "assistant" /\ m.calls # <<>> /\ pc = "loop"
         \/ \E m \in MessageSet, k \in Keys :
               /\ m.role = "tool" /\ m.calls = <<k>> /\ pc \in {"tools", "call"}
               /\ messages' = Append(messages, m)
               /\ trace' = Append(trace, TraceStep(k, m.error))
<1> DEFINE Goal == \/ UNCHANGED <<messages, trace>>
                   \/ \E m \in MessageSet :
                         /\ messages' = Append(messages, m) /\ trace' = trace
                         /\ \/ m.role = "user" /\ (messages = <<>> \/ pc = "loop")
                            \/ m.role = "assistant" /\ m.calls # <<>> /\ pc = "loop"
                   \/ \E m \in MessageSet, k \in Keys :
                         /\ m.role = "tool" /\ m.calls = <<k>> /\ pc \in {"tools", "call"}
                         /\ messages' = Append(messages, m)
                         /\ trace' = Append(trace, TraceStep(k, m.error))
<1> SUFFICES Goal
  OBVIOUS
<1>0. /\ queue \in Seq(Keys)
      /\ queue # <<>> => Head(queue) \in Keys
  BY DEF CallInv
<1>1. CASE ListTools
  <2> DEFINE m == User(EntriesOf(registry))
  <2>1. EntriesOf(registry) \subseteq Entries
    BY EntriesHaveOneMeaning DEF LabelInv
  <2>2. m \in MessageSet /\ m.role = "user"
    BY <2>1 DEF User, Message, MessageSet
  <2>3. messages = <<>> /\ messages' = <<m>> /\ trace' = trace
    BY <1>1 DEF ListTools, LabelInv
  <2> HIDE DEF m
  <2>4. messages' = Append(messages, m)
    BY <2>3
  <2> QED
    BY <2>2, <2>3, <2>4
<1>2. ASSUME NEW reason, pc = "loop", AskFinal(reason) PROVE Goal
  <2>1. User({}) \in MessageSet /\ User({}).role = "user"
    BY DEF User, Message, MessageSet
  <2>2. messages' = Append(messages, User({})) /\ trace' = trace
    BY <1>2 DEF AskFinal
  <2> QED
    BY <1>2, <2>1, <2>2
<1>3. CASE StopAtCap \/ \E p \in Projections : StopOnBudget(p)
  BY <1>2, <1>3 DEF StopAtCap, StopOnBudget
<1>4. ASSUME NEW p \in Projections, NEW u \in UsageFor(p), NEW plan \in Plans,
             PlanTools(p, u, plan)
      PROVE  Goal
  <2> DEFINE m == Assistant(plan)
  <2>1. m \in MessageSet /\ m.role = "assistant" /\ m.calls = plan /\ plan # <<>>
    BY PlansAreCallLists DEF Assistant, Message, MessageSet
  <2>2. pc = "loop" /\ messages' = Append(messages, m) /\ trace' = trace
    BY <1>4 DEF PlanTools
  <2> HIDE DEF m
  <2> QED
    BY <2>1, <2>2
<1>5. CASE BlockRepeat
  <2> DEFINE m == ToolResult(Head(queue), {}, TRUE)
  <2>1. queue # <<>> /\ Head(queue) \in Keys
    BY <1>0, <1>5 DEF BlockRepeat
  <2>2. m \in MessageSet /\ m.role = "tool" /\ m.calls = <<Head(queue)>> /\ m.error = TRUE
    BY <1>0, <2>1 DEF ToolResult, Message, MessageSet
  <2>3. /\ messages' = Append(messages, m) /\ trace' = Append(trace, TraceStep(Head(queue), TRUE))
        /\ pc = "tools"
    BY <1>5 DEF BlockRepeat
  <2> HIDE DEF m
  <2> QED
    BY <2>1, <2>2, <2>3
<1>6. ASSUME NEW recs \in Seq(Records), NEW isError \in BOOLEAN, pc = "call",
             Record(recs, isError)
      PROVE  Goal
  <2> DEFINE m == ToolResult(Head(queue), ShownBy(recs), isError)
  <2>1. ShownBy(recs) \subseteq Entries
    BY ResultShowsWhatItAdds DEF LabelInv
  <2>2. queue # <<>> /\ Head(queue) \in Keys
    BY <1>0, <1>6 DEF CallInv
  <2>3. m \in MessageSet /\ m.role = "tool" /\ m.calls = <<Head(queue)>> /\ m.error = isError
    BY <1>0, <2>1, <2>2 DEF ToolResult, Message, MessageSet
  <2>4. /\ messages' = Append(messages, m)
        /\ trace' = Append(trace, TraceStep(Head(queue), isError))
    BY <1>6 DEF Record
  <2> HIDE DEF m
  <2> QED
    BY <1>6, <2>2, <2>3, <2>4
<1>7. ASSUME NEW recs \in ToolResults, NEW isError \in BOOLEAN, CallReturns(recs, isError)
      PROVE  Goal
  BY <1>6, <1>7, ResultsAreRecordLists DEF CallReturns
<1>8. CASE CallGivesUp
  <2>1. <<>> \in Seq(Records)
    OBVIOUS
  <2> QED
    BY <1>6, <1>8, <2>1 DEF CallGivesUp
<1>9. CASE EndStep \/ StartCall \/ CallRetries \/ Abort
  BY <1>9 DEF EndStep, StartCall, CallRetries, Abort
<1>10. ASSUME NEW p \in Projections, NEW u \in UsageFor(p),
              NEW cited \in SUBSET (0..Size(registry) + 1),
              PlanAnswer(p, u, cited) \/ FinalAnswer(u, cited)
       PROVE  Goal
  BY <1>10 DEF PlanAnswer, FinalAnswer, Deliver
<1>11. CASE \E recs \in SeedResults : Seed(recs)
  BY <1>11 DEF Seed
<1>12. CASE Ended \/ UNCHANGED vars
  BY <1>12 DEF Ended, vars
<1> HIDE DEF Goal
<1>13. CASE Silent
  BY <1>1, <1>3, <1>4, <1>9, <1>10, <1>11, <1>13 DEF Silent
<1> QED
  BY <1>5, <1>7, <1>8, <1>9, <1>12, <1>13 DEF Next

-----------------------------------------------------------------------------
\* The turns made of the conversation so far.
WireInv ==
    /\ Asking(messages)
    /\ LET acc == Gathered(messages)
       IN  /\ acc = [out |-> acc.out, pending |-> acc.pending]
           /\ acc.out \in Seq(Turns) /\ acc.pending \in Seq(Results)
           /\ messages = <<>> => acc = NothingYet
           /\ messages # <<>> => Turned(messages, acc.out, acc.pending)

LEMMA WireInit == Init => WireInv
<1> SUFFICES ASSUME messages = <<>> PROVE WireInv
  BY DEF Init
<1>1. Gathered(messages) = NothingYet
  BY GatheredGrows
<1>2. /\ NothingYet.out \in Seq(Turns) /\ NothingYet.pending \in Seq(Results)
      /\ NothingYet = [out |-> NothingYet.out, pending |-> NothingYet.pending]
  BY DEF NothingYet
<1>3. Asking(messages)
  BY DEF Asking
<1> QED
  BY <1>1, <1>2, <1>3 DEF WireInv

LEMMA WireStep == CallInv /\ LabelInv /\ ConversationInv /\ WireInv /\ [Next]_vars => WireInv'
<1> SUFFICES ASSUME CallInv, LabelInv, ConversationInv, WireInv, [Next]_vars PROVE WireInv'
  OBVIOUS
<1> DEFINE acc == Gathered(messages)
<1>0. /\ messages \in Seq(MessageSet)
      /\ pc \in {"tools", "call"} => messages # <<>>
      /\ pc = "loop" => Paired(messages, 0) /\ messages # <<>>
  BY DEF LabelInv, ConversationInv
<1>1. /\ acc = [out |-> acc.out, pending |-> acc.pending]
      /\ acc.out \in Seq(Turns) /\ acc.pending \in Seq(Results)
      /\ messages = <<>> => acc = NothingYet
      /\ messages # <<>> => Turned(messages, acc.out, acc.pending)
      /\ Asking(messages)
  BY DEF WireInv
<1>2. CASE messages' = messages
  BY <1>2 DEF WireInv
<1>3. ASSUME NEW m \in MessageSet, messages' = Append(messages, m)
      PROVE  /\ Gathered(messages') = TurnAdded(acc, m)
             /\ messages' # <<>>
             /\ (m.role = "assistant" => m.calls # <<>>) => Asking(messages')
  <2>1. Gathered(messages') = TurnAdded(acc, m)
    BY <1>0, <1>3, GatheredGrows
  <2>2. /\ DOMAIN messages' = DOMAIN messages \cup {Len(messages) + 1}
        /\ \A p \in DOMAIN messages : messages'[p] = messages[p]
        /\ messages'[Len(messages) + 1] = m
        /\ messages' # <<>>
    BY <1>0, <1>3, AppendKeeps
  <2> QED
    BY <1>1, <2>1, <2>2 DEF Asking
<1> HIDE DEF acc
<1>4. ASSUME NEW m \in MessageSet, messages' = Append(messages, m), m.role # "tool",
             m.role = "assistant" => m.calls # <<>>,
             pc = "loop" \/ (messages = <<>> /\ m.role = "user")
      PROVE  WireInv'
  <2>1. /\ Flushed(acc).out \in Seq(Turns) /\ Flushed(acc).pending = <<>>
        /\ \/ messages = <<>> /\ Flushed(acc).out = <<>> /\ m.role = "user"
           \/ Accepted(Flushed(acc).out)
    <3>1. CASE messages = <<>> /\ m.role = "user"
      <4>1. Flushed(acc).out = <<>> /\ Flushed(acc).pending = <<>>
        BY <1>1, <3>1 DEF NothingYet, Flushed
      <4> QED
        BY <3>1, <4>1
    <3>2. CASE pc = "loop"
      BY <1>0, <1>1, <3>2, FlushedIsAccepted
    <3> QED
      BY <1>4, <3>1, <3>2
  <2>2. TurnAdded(acc, m) = [out |-> Append(Flushed(acc).out, TurnOf(m)), pending |-> <<>>]
    BY <1>4, <2>1 DEF TurnAdded
  <2> DEFINE turns == Flushed(acc).out
             longer == Append(turns, TurnOf(m))
  <2>3. turns \in Seq(Turns) /\ ((messages = <<>> /\ turns = <<>> /\ m.role = "user") \/ Accepted(turns))
    BY <2>1
  <2> HIDE DEF turns
  <2>4. Turned(messages', longer, <<>>) /\ longer \in Seq(Turns)
    BY <1>0, <1>4, <2>3, TurnedByOther
  <2>5. Gathered(messages') = [out |-> longer, pending |-> <<>>]
    BY <1>3, <1>4, <2>2 DEF turns
  <2>6. <<>> \in Seq(Results) /\ messages' # <<>> /\ Asking(messages')
    BY <1>3, <1>4
  <2> HIDE DEF longer
  <2> QED
    BY <2>4, <2>5, <2>6 DEF WireInv
<1>5. ASSUME NEW m \in MessageSet, messages' = Append(messages, m), m.role = "tool",
             pc \in {"tools", "call"}
      PROVE  WireInv'
  <2> DEFINE more == Append(acc.pending, Result(m))
  <2>1. Turned(messages', acc.out, more) /\ more \in Seq(Results)
    BY <1>0, <1>1, <1>5, TurnedByResult
  <2>2. TurnAdded(acc, m) = [out |-> acc.out, pending |-> more]
    BY <1>1, <1>5 DEF TurnAdded
  <2>3. Gathered(messages') = [out |-> acc.out, pending |-> more]
    BY <1>3, <1>5, <2>2
  <2>4. messages' # <<>> /\ Asking(messages')
    BY <1>3, <1>5
  <2> HIDE DEF more
  <2> QED
    BY <1>1, <2>1, <2>3, <2>4 DEF WireInv
<1> QED
  BY <1>2, <1>4, <1>5, ConversationGrows

\* What Claude is sent is accepted: the results of a turn that uses tools come back in
\* one turn, its own, in order.
THEOREM ToolTurnsPair == Spec => []TurnsPair
<1>1. LabelInv /\ ConversationInv /\ WireInv => TurnsPair
  <2> SUFFICES ASSUME LabelInv, ConversationInv, WireInv, Requesting PROVE TurnsPair
    BY DEF TurnsPair
  <2> DEFINE acc == Gathered(messages)
             turns == AnthropicTurns(messages)
  <2>1. Accepted(Flushed(acc).out) /\ Flushed(acc).out \in Seq(Turns)
    <3>1. /\ messages \in Seq(MessageSet) /\ messages # <<>> /\ Paired(messages, 0)
          /\ Asking(messages)
      BY DEF Requesting, LabelInv, ConversationInv, WireInv
    <3>2. /\ acc = [out |-> acc.out, pending |-> acc.pending]
          /\ acc.out \in Seq(Turns) /\ acc.pending \in Seq(Results)
          /\ Turned(messages, acc.out, acc.pending)
      BY <3>1 DEF WireInv
    <3> HIDE DEF acc
    <3> QED
      BY <3>1, <3>2, FlushedIsAccepted
  <2>2. Accepted(turns) /\ turns \in Seq(Turns)
    BY <2>1 DEF AnthropicTurns
  <2> HIDE DEF turns
  <2>3. DOMAIN turns = 1..Len(turns)
    BY <2>2
  <2>4. /\ turns[1].role = "user" /\ turns[Len(turns)].role = "user"
        /\ \A p \in DOMAIN turns : turns[p].uses # <<>> =>
              turns[p + 1].role = "user" /\ CallsIn(turns[p + 1].results) = turns[p].uses
        /\ \A p \in DOMAIN turns : turns[p].results # <<>> => p > 1 /\ turns[p - 1].uses # <<>>
    BY <2>2, <2>3 DEF Accepted, NextAnswers
  <2> QED
    BY <2>4 DEF TurnsPair, turns
<1> QED
  BY <1>1, CallInvInit, CallInvStep, LabelInvInit, LabelInvStep, ConversationInit,
     ConversationStep, WireInit, WireStep, PTL DEF Spec

-----------------------------------------------------------------------------
\* The calls and the results on the wire, when a wire message is added.
LEMMA UsesGrow ==
  ASSUME NEW K, NEW W, \A w \in W : w.uses \in Seq(K)
  PROVE  /\ Uses(<<>>) = <<>>
         /\ \A wire \in Seq(W), w \in W :
               Uses(wire) \in Seq(K) /\ Uses(Append(wire, w)) = Uses(wire) \o w.uses
<1> DEFINE Each(wire) == [p \in DOMAIN wire |-> wire[p].uses]
<1>1. Each(<<>>) = <<>>
  OBVIOUS
<1>2. ASSUME NEW wire \in Seq(W), NEW w \in W
      PROVE  /\ Each(wire) \in Seq(Seq(K)) /\ w.uses \in Seq(K)
             /\ Each(Append(wire, w)) = Append(Each(wire), w.uses)
  <2>1. \A p \in 1..Len(wire) : wire[p].uses \in Seq(K)
    OBVIOUS
  <2>2. Each(wire) \in Seq(Seq(K)) /\ Len(Each(wire)) = Len(wire)
    BY <2>1
  <2>3. Each(Append(wire, w)) = Append(Each(wire), w.uses)
    BY <2>1
  <2> QED
    BY <2>2, <2>3
<1>3. \A wire : Uses(wire) = FlattenSeq(Each(wire))
  BY DEF Uses
<1> HIDE DEF Each
<1>4. /\ FlattenSeq(<<>>) = <<>>
      /\ \A s \in Seq(Seq(K)), x \in Seq(K) :
            FlattenSeq(s) \in Seq(K) /\ FlattenSeq(Append(s, x)) = FlattenSeq(s) \o x
  BY FlattenGrows
<1> QED
  BY <1>1, <1>2, <1>3, <1>4

LEMMA AnswersGrow ==
  ASSUME NEW K, NEW W, \A w \in W : w.results \in Seq(K)
  PROVE  /\ Answers(<<>>) = <<>>
         /\ \A wire \in Seq(W), w \in W :
               Answers(wire) \in Seq(K) /\ Answers(Append(wire, w)) = Answers(wire) \o w.results
<1> DEFINE Each(wire) == [p \in DOMAIN wire |-> wire[p].results]
<1>1. Each(<<>>) = <<>>
  OBVIOUS
<1>2. ASSUME NEW wire \in Seq(W), NEW w \in W
      PROVE  /\ Each(wire) \in Seq(Seq(K)) /\ w.results \in Seq(K)
             /\ Each(Append(wire, w)) = Append(Each(wire), w.results)
  <2>1. \A p \in 1..Len(wire) : wire[p].results \in Seq(K)
    OBVIOUS
  <2>2. Each(wire) \in Seq(Seq(K)) /\ Len(Each(wire)) = Len(wire)
    BY <2>1
  <2>3. Each(Append(wire, w)) = Append(Each(wire), w.results)
    BY <2>1
  <2> QED
    BY <2>2, <2>3
<1>3. \A wire : Answers(wire) = FlattenSeq(Each(wire))
  BY DEF Answers
<1> HIDE DEF Each
<1>4. /\ FlattenSeq(<<>>) = <<>>
      /\ \A s \in Seq(Seq(K)), x \in Seq(K) :
            FlattenSeq(s) \in Seq(K) /\ FlattenSeq(Append(s, x)) = FlattenSeq(s) \o x
  BY FlattenGrows
<1> QED
  BY <1>1, <1>2, <1>3, <1>4

-----------------------------------------------------------------------------
\* What OpenAI is sent for one message.
Plain == {[call |-> m.calls[1]] : m \in MessageSet}

Sent(m) == IF m.role = "tool" THEN Wire("tool", <<>>, <<[call |-> m.calls[1]]>>) ELSE TurnOf(m)

Sents == [role : {"system", "user", "assistant", "tool"}, uses : Seq(Keys), results : Seq(Plain)]

LEMMA OpenAIGrows ==
  /\ OpenAIMessages(<<>>) = <<Wire("system", <<>>, <<>>)>>
  /\ Wire("system", <<>>, <<>>) \in Sents
  /\ \A msgs \in Seq(MessageSet) : OpenAIMessages(msgs) \in Seq(Sents)
  /\ \A msgs \in Seq(MessageSet), m \in MessageSet :
        Sent(m) \in Sents /\ OpenAIMessages(Append(msgs, m)) = Append(OpenAIMessages(msgs), Sent(m))
<1> DEFINE system == Wire("system", <<>>, <<>>)
           Rest(msgs) == [p \in DOMAIN msgs |-> Sent(msgs[p])]
<1>1. system \in Sents
  BY DEF Wire, Sents
<1>2. ASSUME NEW m \in MessageSet PROVE Sent(m) \in Sents
  <2>1. [call |-> m.calls[1]] \in Plain
    BY DEF Plain
  <2> QED
    BY <2>1 DEF Sent, Sents, Wire, TurnOf, MessageSet
<1>3. \A msgs : OpenAIMessages(msgs) = <<system>> \o Rest(msgs)
  BY DEF OpenAIMessages, Sent
<1> HIDE DEF system
<1>4. ASSUME NEW msgs \in Seq(MessageSet)
      PROVE  Rest(msgs) \in Seq(Sents) /\ Len(Rest(msgs)) = Len(msgs)
  BY <1>2
<1>5. ASSUME NEW msgs \in Seq(MessageSet), NEW m \in MessageSet
      PROVE  Rest(Append(msgs, m)) = Append(Rest(msgs), Sent(m))
  BY <1>2
<1>6. Rest(<<>>) = <<>>
  OBVIOUS
<1> HIDE DEF Rest
<1>7. ASSUME NEW msgs \in Seq(MessageSet), NEW m \in MessageSet
      PROVE  <<system>> \o Append(Rest(msgs), Sent(m)) = Append(<<system>> \o Rest(msgs), Sent(m))
  BY <1>1, <1>2, <1>4
<1>8. <<system>> \o <<>> = <<system>> /\ \A s \in Seq(Sents) : <<system>> \o s \in Seq(Sents)
  BY <1>1
<1>9. \A msgs \in Seq(MessageSet) : OpenAIMessages(msgs) \in Seq(Sents)
  BY <1>3, <1>4, <1>8
<1>10. \A msgs \in Seq(MessageSet), m \in MessageSet :
          OpenAIMessages(Append(msgs, m)) = Append(OpenAIMessages(msgs), Sent(m))
  BY <1>3, <1>5, <1>7
<1>11. OpenAIMessages(<<>>) = <<system>>
  BY <1>3, <1>6, <1>8
<1> QED
  BY <1>1, <1>2, <1>9, <1>10, <1>11 DEF system

\* The calls in one more result.
LEMMA CallsInGrow ==
  ASSUME NEW R, NEW s \in Seq(R), NEW r \in R
  PROVE  CallsIn(s \o <<r>>) = Append(CallsIn(s), r.call)
<1>1. Len(s \o <<r>>) = Len(s) + 1 /\ \A i \in 1..Len(s) : (s \o <<r>>)[i] = s[i]
  OBVIOUS
<1>2. (s \o <<r>>)[Len(s) + 1] = r
  OBVIOUS
<1>3. /\ DOMAIN CallsIn(s \o <<r>>) = 1..(Len(s) + 1)
      /\ \A i \in 1..Len(s) : CallsIn(s \o <<r>>)[i] = s[i].call
      /\ CallsIn(s \o <<r>>)[Len(s) + 1] = r.call
  BY <1>1, <1>2 DEF CallsIn
<1> QED
  BY <1>3 DEF CallsIn

-----------------------------------------------------------------------------
Called(tr)   == [n \in DOMAIN tr |-> tr[n].call]
Reported(tr) == [n \in DOMAIN tr |-> [call |-> tr[n].call, error |-> tr[n].error]]

\* What is on the wire is what the trace tells: the results that wait are the last ones.
WireTold ==
    LET acc == Gathered(messages)
        gpt == OpenAIMessages(messages)
    IN  /\ Uses(acc.out) = Uses(gpt)
        /\ CallsIn(Answers(gpt)) = Called(trace)
        /\ Answers(acc.out) \o acc.pending = Reported(trace)

\* Uses and Answers, for the turns of Claude and the messages of GPT.
LEMMA CarriedGrow ==
  /\ Uses(<<>>) = <<>> /\ Answers(<<>>) = <<>>
  /\ \A wire \in Seq(Turns), w \in Turns :
        /\ Uses(wire) \in Seq(Keys) /\ Uses(Append(wire, w)) = Uses(wire) \o w.uses
        /\ Answers(wire) \in Seq(Results)
        /\ Answers(Append(wire, w)) = Answers(wire) \o w.results
  /\ \A wire \in Seq(Sents), w \in Sents :
        /\ Uses(wire) \in Seq(Keys) /\ Uses(Append(wire, w)) = Uses(wire) \o w.uses
        /\ Answers(wire) \in Seq(Plain)
        /\ Answers(Append(wire, w)) = Answers(wire) \o w.results
<1>1. /\ \A w \in Turns : w.uses \in Seq(Keys)
      /\ \A w \in Turns : w.results \in Seq(Results)
      /\ \A w \in Sents : w.uses \in Seq(Keys)
      /\ \A w \in Sents : w.results \in Seq(Plain)
  BY DEF Turns, Sents
<1>2. \A wire \in Seq(Turns), w \in Turns :
         Uses(wire) \in Seq(Keys) /\ Uses(Append(wire, w)) = Uses(wire) \o w.uses
  BY <1>1, UsesGrow
<1>3. \A wire \in Seq(Sents), w \in Sents :
         Uses(wire) \in Seq(Keys) /\ Uses(Append(wire, w)) = Uses(wire) \o w.uses
  BY <1>1, UsesGrow
<1>4. \A wire \in Seq(Turns), w \in Turns :
         Answers(wire) \in Seq(Results) /\ Answers(Append(wire, w)) = Answers(wire) \o w.results
  BY <1>1, AnswersGrow
<1>5. \A wire \in Seq(Sents), w \in Sents :
         Answers(wire) \in Seq(Plain) /\ Answers(Append(wire, w)) = Answers(wire) \o w.results
  BY <1>1, AnswersGrow
<1>6. Uses(<<>>) = <<>> /\ Answers(<<>>) = <<>>
  BY DEF Uses, Answers, FlattenSeq
<1> QED
  BY <1>2, <1>3, <1>4, <1>5, <1>6

LEMMA FlushedTold ==
  ASSUME NEW acc, acc.out \in Seq(Turns), acc.pending \in Seq(Results)
  PROVE  /\ Flushed(acc).out \in Seq(Turns) /\ (acc.pending # <<>> => Flushed(acc).pending = <<>>)
         /\ Uses(Flushed(acc).out) = Uses(acc.out)
         /\ Answers(Flushed(acc).out) = Answers(acc.out) \o acc.pending
<1>0. Wire("user", <<>>, acc.pending) \in Turns
  BY DEF Wire, Turns
<1>1. Uses(acc.out) \in Seq(Keys)
  BY <1>0, CarriedGrow
<1>2. Answers(acc.out) \in Seq(Results)
  BY <1>0, CarriedGrow
<1>3. CASE acc.pending = <<>>
  <2>1. Flushed(acc) = acc
    BY <1>3 DEF Flushed
  <2>2. Answers(acc.out) \o <<>> = Answers(acc.out)
    BY <1>2
  <2> QED
    BY <1>3, <2>1, <2>2
<1>4. CASE acc.pending # <<>>
  <2> DEFINE w == Wire("user", <<>>, acc.pending)
  <2>1. w \in Turns /\ w.uses = <<>> /\ w.results = acc.pending
    BY DEF Wire, Turns
  <2>2. Flushed(acc) = [out |-> Append(acc.out, w), pending |-> <<>>]
    BY <1>4 DEF Flushed
  <2> HIDE DEF w
  <2>3. Uses(Append(acc.out, w)) = Uses(acc.out) \o <<>>
    BY <2>1, CarriedGrow
  <2>4. Answers(Append(acc.out, w)) = Answers(acc.out) \o acc.pending
    BY <2>1, CarriedGrow
  <2>5. Uses(acc.out) \o <<>> = Uses(acc.out) /\ Append(acc.out, w) \in Seq(Turns)
    BY <1>1, <2>1
  <2>6. Flushed(acc).out = Append(acc.out, w) /\ Flushed(acc).pending = <<>>
    BY <2>2
  <2> QED
    BY <2>3, <2>4, <2>5, <2>6
<1> QED
  BY <1>3, <1>4

LEMMA ToldInit == Init => WireTold
<1> SUFFICES ASSUME messages = <<>>, trace = <<>> PROVE WireTold
  BY DEF Init
<1> DEFINE s == Wire("system", <<>>, <<>>)
<1>1. Gathered(messages).out = <<>> /\ Gathered(messages).pending = <<>>
  BY GatheredGrows DEF NothingYet
<1>2. OpenAIMessages(messages) = Append(<<>>, s) /\ s \in Sents
  BY OpenAIGrows
<1>3. s.uses = <<>> /\ s.results = <<>>
  BY DEF Wire
<1>4. <<>> \in Seq(Sents) /\ <<>> \o <<>> = <<>>
  OBVIOUS
<1> HIDE DEF s
<1>5. Uses(<<>>) = <<>> /\ Uses(Append(<<>>, s)) = <<>>
  BY <1>2, <1>3, <1>4, CarriedGrow
<1>6. Answers(Append(<<>>, s)) = <<>> /\ Answers(<<>>) = <<>>
  BY <1>2, <1>3, <1>4, CarriedGrow
<1>7. CallsIn(<<>>) = <<>> /\ Called(<<>>) = <<>> /\ Reported(<<>>) = <<>>
  BY DEF CallsIn, Called, Reported
<1> QED
  BY <1>1, <1>2, <1>4, <1>5, <1>6, <1>7 DEF WireTold

LEMMA ToldStep ==
  CallInv /\ LabelInv /\ ConversationInv /\ WireInv /\ TraceInv /\ WireTold /\ [Next]_vars => WireTold'
<1> SUFFICES ASSUME CallInv, LabelInv, ConversationInv, WireInv, TraceInv, WireTold, [Next]_vars
             PROVE  WireTold'
  OBVIOUS
<1> DEFINE acc == Gathered(messages)
           gpt == OpenAIMessages(messages)
           acc2 == Gathered(messages')
           gpt2 == OpenAIMessages(messages')
<1>0. messages \in Seq(MessageSet) /\ trace \in Seq(TraceSteps)
  BY DEF LabelInv, TraceInv
<1>1. /\ acc.out \in Seq(Turns) /\ acc.pending \in Seq(Results) /\ gpt \in Seq(Sents)
      /\ acc = [out |-> acc.out, pending |-> acc.pending]
  BY <1>0, OpenAIGrows DEF WireInv
<1>2. /\ Uses(acc.out) = Uses(gpt)
      /\ CallsIn(Answers(gpt)) = Called(trace)
      /\ Answers(acc.out) \o acc.pending = Reported(trace)
  BY DEF WireTold
<1>3. CASE UNCHANGED <<messages, trace>>
  BY <1>3 DEF WireTold
<1>4. ASSUME NEW m \in MessageSet, messages' = Append(messages, m)
      PROVE  acc2 = TurnAdded(acc, m) /\ gpt2 = Append(gpt, Sent(m)) /\ Sent(m) \in Sents
  BY <1>0, <1>4, GatheredGrows, OpenAIGrows
<1> HIDE DEF acc, gpt, acc2, gpt2
<1>5. /\ Uses(acc.out) \in Seq(Keys) /\ Answers(acc.out) \in Seq(Results)
      /\ Uses(gpt) \in Seq(Keys) /\ Answers(gpt) \in Seq(Plain)
  <2>1. Wire("system", <<>>, <<>>) \in Sents /\ Wire("user", <<>>, <<>>) \in Turns
    BY DEF Wire, Sents, Turns
  <2> QED
    BY <1>1, <2>1, CarriedGrow
<1>6. ASSUME /\ Uses(acc2.out) = Uses(gpt2)
             /\ CallsIn(Answers(gpt2)) = Called(trace')
             /\ Answers(acc2.out) \o acc2.pending = Reported(trace')
      PROVE  WireTold'
  BY <1>6 DEF WireTold, acc2, gpt2
<1>7. ASSUME NEW m \in MessageSet, messages' = Append(messages, m), m.role # "tool",
             trace' = trace
      PROVE  WireTold'
  <2> DEFINE out == Flushed(acc).out
             w == TurnOf(m)
  <2>1. w \in Turns /\ w.results = <<>> /\ Sent(m) = w
    BY <1>7 DEF TurnOf, Wire, Turns, Sent, MessageSet
  <2>2. acc2.out = Append(out, w) /\ gpt2 = Append(gpt, w) /\ w \in Sents
    BY <1>4, <1>7, <2>1 DEF TurnAdded
  <2>3. acc2.pending = <<>>
    BY <1>1, <1>4, <1>7, FlushedTold DEF TurnAdded, Flushed
  <2>4. /\ out \in Seq(Turns) /\ Uses(out) = Uses(acc.out)
        /\ Answers(out) = Answers(acc.out) \o acc.pending
    BY <1>1, FlushedTold
  <2> HIDE DEF out, w
  <2>5. Uses(acc2.out) = Uses(out) \o w.uses
    BY <2>1, <2>2, <2>4, CarriedGrow
  <2>6. Uses(gpt2) = Uses(gpt) \o w.uses
    BY <1>1, <2>2, CarriedGrow
  <2>7. Answers(acc2.out) = Answers(out) \o <<>> /\ Answers(out) \in Seq(Results)
    BY <2>1, <2>2, <2>4, CarriedGrow
  <2>8. Answers(gpt2) = Answers(gpt) \o <<>>
    BY <1>1, <2>1, <2>2, CarriedGrow
  <2>9. /\ Answers(gpt) \o <<>> = Answers(gpt)
        /\ Answers(out) \o <<>> = Answers(out)
    BY <1>5, <2>7
  <2>10. /\ Uses(acc2.out) = Uses(gpt2)
         /\ CallsIn(Answers(gpt2)) = Called(trace')
         /\ Answers(acc2.out) \o acc2.pending = Reported(trace')
    BY <1>2, <1>7, <2>3, <2>4, <2>5, <2>6, <2>7, <2>8, <2>9
  <2> QED
    BY <1>6, <2>10
<1>8. ASSUME NEW m \in MessageSet, NEW k \in Keys, m.role = "tool", m.calls = <<k>>,
             messages' = Append(messages, m), trace' = Append(trace, TraceStep(k, m.error))
      PROVE  WireTold'
  <2> DEFINE r == Result(m)
             w == Sent(m)
             plain == [call |-> k]
             e == TraceStep(k, m.error)
  <2>1. r = [call |-> k, error |-> m.error] /\ r \in Results
    BY <1>8 DEF Result, Results
  <2>2. w \in Sents /\ w.uses = <<>> /\ w.results = <<plain>> /\ plain \in Plain
    BY <1>4, <1>8 DEF Sent, Wire, Plain
  <2>3. acc2.out = acc.out /\ acc2.pending = Append(acc.pending, r)
    BY <1>1, <1>4, <1>8 DEF TurnAdded
  <2>4. gpt2 = Append(gpt, w)
    BY <1>4, <1>8
  <2>5. e.call = k /\ e.error = m.error
    BY DEF TraceStep
  <2>6. trace' = Append(trace, e)
    BY <1>8
  <2> HIDE DEF r, w, e
  <2>7. /\ Called(trace') = Append(Called(trace), k)
        /\ Reported(trace') = Append(Reported(trace), r)
    <3>1. /\ Len(trace') = Len(trace) + 1 /\ trace'[Len(trace) + 1] = e
          /\ DOMAIN trace' = 1..(Len(trace) + 1) /\ DOMAIN trace = 1..Len(trace)
          /\ \A n \in 1..Len(trace) : trace'[n] = trace[n]
          /\ Len(trace) \in Nat
      BY <1>0, <2>6
    <3>2. Called(trace') = Append(Called(trace), k)
      BY <2>5, <3>1 DEF Called
    <3>3. Reported(trace') = Append(Reported(trace), r)
      BY <2>1, <2>5, <3>1 DEF Reported
    <3> QED
      BY <3>2, <3>3
  <2> HIDE DEF plain
  <2>8. Uses(gpt2) = Uses(gpt) \o <<>>
    BY <1>1, <2>2, <2>4, CarriedGrow
  <2>9. Answers(gpt2) = Answers(gpt) \o <<plain>>
    BY <1>1, <2>2, <2>4, CarriedGrow
  <2>10. CallsIn(Answers(gpt2)) = Append(CallsIn(Answers(gpt)), k)
    <3>1. CallsIn(Answers(gpt) \o <<plain>>) = Append(CallsIn(Answers(gpt)), plain.call)
      BY <1>5, <2>2, CallsInGrow
    <3> QED
      BY <2>9, <3>1 DEF plain
  <2>11. Answers(acc.out) \o Append(acc.pending, r) = Append(Answers(acc.out) \o acc.pending, r)
    <3> DEFINE a == Answers(acc.out)
               b == acc.pending
    <3>1. a \in Seq(Results) /\ b \in Seq(Results)
      BY <1>1, <1>5
    <3> HIDE DEF a, b
    <3>2. a \o Append(b, r) = Append(a \o b, r)
      BY <2>1, <3>1
    <3> QED
      BY <3>2 DEF a, b
  <2>12. Uses(gpt) \o <<>> = Uses(gpt)
    BY <1>5
  <2> QED
    BY <1>2, <1>6, <2>3, <2>7, <2>8, <2>10, <2>11, <2>12
<1> QED
  BY <1>3, <1>7, <1>8, ConversationGrows

\* Claude and GPT are told the same calls and answers, those of the trace.
THEOREM BothAreTold == Spec => []ProvidersToldTheSame
<1>1. WireInv /\ WireTold /\ TraceInv => ProvidersToldTheSame
  <2> SUFFICES ASSUME WireInv, WireTold, TraceInv PROVE ProvidersToldTheSame
    OBVIOUS
  <2> DEFINE acc == Gathered(messages)
             claude == AnthropicTurns(messages)
             gpt == OpenAIMessages(messages)
  <2>1. acc.out \in Seq(Turns) /\ acc.pending \in Seq(Results)
    BY DEF WireInv
  <2>2. /\ Uses(acc.out) = Uses(gpt)
        /\ CallsIn(Answers(gpt)) = Called(trace)
        /\ Answers(acc.out) \o acc.pending = Reported(trace)
    BY DEF WireTold
  <2>3. claude = Flushed(acc).out
    BY DEF AnthropicTurns
  <2> HIDE DEF acc, claude, gpt
  <2>4. Uses(claude) = Uses(gpt) /\ Answers(claude) = Reported(trace)
    BY <2>1, <2>2, <2>3, FlushedTold
  <2>5. CallsIn(Reported(trace)) = Called(trace)
    BY DEF CallsIn, Reported, Called
  <2>6. /\ Uses(claude) = Uses(gpt)
        /\ CallsIn(Answers(claude)) = CallsIn(Answers(gpt))
        /\ Answers(claude) = [n \in DOMAIN trace |->
                                [call |-> trace[n].call, error |-> trace[n].error]]
    BY <2>2, <2>4, <2>5 DEF Reported
  <2> QED
    BY <2>6 DEF ProvidersToldTheSame, claude, gpt
<1> QED
  BY <1>1, LoopInvInit, LoopInvStep, CallInvInit, CallInvStep, LabelInvInit, LabelInvStep,
     ConversationInit, ConversationStep, TraceInvInit, TraceInvStep, WireInit, WireStep,
     ToldInit, ToldStep, PTL DEF Spec

-----------------------------------------------------------------------------
\* What is sent.
Events == {Event(AnswerEvents[n]) : n \in 1..4} \cup {Event("error")}
          \cup {ToolCallEvent(k) : k \in Keys}
          \cup {ToolResultEvent(k, isError) : k \in Keys, isError \in BOOLEAN}

Has(s, type) == \E i \in DOMAIN s : s[i].type = type

EndsWith(type) == stream # <<>> /\ stream[Len(stream)].type = type

\* An error is sent only at the end; "done" is the last event of an answer; and a stream
\* without "done" ends because of an error or because the client has gone.
StreamInv ==
    /\ stream \in Seq(Events)
    /\ phase \in {"connecting", "serving", "closing", "over"}
    /\ phase # "over" => ~Has(stream, "error")
    /\ \A i \in DOMAIN stream : stream[i].type = "error" => i = Len(stream)
    /\ phase = "connecting" => stream = <<>>
    /\ phase = "serving" /\ Has(stream, "done") => pc = "done" /\ EndsWith("done")
    /\ phase = "closing" /\ ~gone /\ pending # "error" => EndsWith("done")
    /\ phase = "over" /\ ~gone => EndsWith("done") \/ EndsWith("error")

-----------------------------------------------------------------------------
\* A step of a request is a step of its loop, or none.
LEMMA ChatStepsLoop == [ChatNext]_allVars => [Next]_vars
  BY DEF ChatNext, Session, EnterContext, Connected, ConnectRaises, Serve, DeliverEvent,
         Exhausted, LoopRaises, Stall, Disconnect, CloseContext, Finish, Over, allVars, Next, Silent

\* The request runs the agent loop: every theorem about the loop is one about requests.
THEOREM ChatRunsLoop == ChatSpec => Spec
  <1>1. ChatInit => Init
    BY DEF ChatInit
  <1> QED
    BY <1>1, ChatStepsLoop, PTL DEF ChatSpec, Spec

\* No way out of a request leaves a transport or a session behind.
THEOREM SessionIsClosed == ChatSpec => []NoSessionLeft
  <1>1. ChatInit => NoSessionLeft
    BY DEF ChatInit, NoSessionLeft
  <1>2. NoSessionLeft /\ [ChatNext]_allVars => NoSessionLeft'
    BY DEF NoSessionLeft, ChatNext, Session, EnterContext, Connected, ConnectRaises, Serve,
           Serving, DeliverEvent, Exhausted, LoopRaises, Stall, Disconnect, AfterCancel,
           CloseContext, Finish, Over, allVars, chatVars
  <1> QED
    BY <1>1, <1>2, PTL DEF ChatSpec

-----------------------------------------------------------------------------
\* What sending leaves and adds.
LEMMA Sending ==
    ASSUME NEW s \in Seq(Events), NEW e \in Seq(Events)
    PROVE  /\ s \o e \in Seq(Events)
           /\ \A type : Has(s \o e, type) <=> Has(s, type) \/ Has(e, type)
           /\ e = <<>> => s \o e = s
           /\ e # <<>> => /\ s \o e # <<>>
                          /\ (s \o e)[Len(s \o e)] = e[Len(e)]
  <1> DEFINE t == s \o e
  <1>1. /\ t \in Seq(Events) /\ Len(t) = Len(s) + Len(e)
        /\ \A i \in 1..Len(s) : t[i] = s[i]
        /\ \A i \in 1..Len(e) : t[Len(s) + i] = e[i]
        /\ Len(s) \in Nat /\ Len(e) \in Nat
        /\ DOMAIN s = 1..Len(s) /\ DOMAIN e = 1..Len(e) /\ DOMAIN t = 1..Len(t)
    OBVIOUS
  <1>2. e = <<>> => t = s
    <2>1. s \o <<>> = s
      BY ConcatEmptySeq
    <2> QED
      BY <2>1
  <1>3. e # <<>> => Len(e) \in 1..Len(e)
    OBVIOUS
  <1> HIDE DEF t
  <1>4. \A i \in 1..Len(t) : i \in 1..Len(s) \/ \E j \in 1..Len(e) : i = Len(s) + j
    <2> SUFFICES ASSUME NEW i \in 1..Len(t), i \notin 1..Len(s)
                 PROVE  \E j \in 1..Len(e) : i = Len(s) + j
      OBVIOUS
    <2>1. i - Len(s) \in 1..Len(e) /\ i = Len(s) + (i - Len(s))
      BY <1>1
    <2> QED
      BY <2>1
  <1>5. ASSUME NEW type PROVE Has(t, type) <=> Has(s, type) \/ Has(e, type)
    <2>1. ASSUME Has(t, type) PROVE Has(s, type) \/ Has(e, type)
      <3>1. PICK i \in 1..Len(t) : t[i].type = type
        BY <1>1, <2>1 DEF Has
      <3> QED
        BY <1>1, <1>4, <3>1 DEF Has
    <2>2. \A i \in 1..Len(s) : i \in DOMAIN t /\ t[i] = s[i]
      BY <1>1
    <2>3. \A i \in 1..Len(e) : Len(s) + i \in DOMAIN t /\ t[Len(s) + i] = e[i]
      BY <1>1
    <2> QED
      BY <1>1, <2>1, <2>2, <2>3 DEF Has
  <1>6. e # <<>> => t # <<>> /\ t[Len(t)] = e[Len(e)]
    BY <1>1, <1>3
  <1> QED
    BY <1>1, <1>2, <1>5, <1>6 DEF t

\* A step of the loop that sends tool events, from a stream that has no answer yet.
LEMMA ToolEventsKeepInv ==
    ASSUME StreamInv, phase = "serving", phase' = phase, gone' = gone, pending' = pending,
           pc # "done", NEW e \in Seq(Events), ~Has(e, "error"), ~Has(e, "done"), Send(e)
    PROVE  StreamInv'
  <1>1. stream' \in Seq(Events) /\ ~Has(stream', "error") /\ ~Has(stream', "done")
    BY Sending DEF StreamInv, Send
  <1> QED
    BY <1>1 DEF StreamInv, Has

LEMMA StreamInit == ChatInit => StreamInv
  BY DEF ChatInit, StreamInv, Has

\* A step that sends nothing and stays in its phase.
LEMMA QuietKeepsInv ==
    ASSUME StreamInv, stream' = stream, phase' = phase, gone' = gone,
           pending' = pending \/ pending' = "error", phase = "serving" /\ pc = "done" => pc' = "done"
    PROVE  StreamInv'
  BY DEF StreamInv, EndsWith, Has

LEMMA StreamStep == CallInv /\ StreamInv /\ [ChatNext]_allVars => StreamInv'
  <1> SUFFICES ASSUME CallInv, StreamInv, [ChatNext]_allVars PROVE StreamInv'
    OBVIOUS
  <1>0. /\ queue # <<>> => Head(queue) \in Keys
        /\ pc = "call" => queue # <<>>
    BY DEF CallInv
  <1>1. CASE EnterContext
    BY <1>1, QuietKeepsInv DEF EnterContext, vars, gone
  <1>2. CASE Connected \/ ConnectRaises
    <2>1. /\ stream = <<>> /\ stream' = stream /\ gone' = gone
          /\ phase' = "serving" \/ (phase' = "closing" /\ pending' = "error")
      BY <1>2 DEF Connected, ConnectRaises, StreamInv, gone
    <2> QED
      BY <2>1 DEF StreamInv, Has
  <1>3. CASE Serving /\ Silent /\ UNCHANGED stream
    <2>1. pc # "done"
      BY <1>3 DEF Silent, Seed, ListTools, StopAtCap, StopOnBudget, PlanAnswer, PlanTools,
                  CallRetries, EndStep, FinalAnswer
    <2> QED
      BY <1>3, <2>1, QuietKeepsInv DEF Serving, gone
  <1>4. ASSUME NEW k \in Keys, NEW isError \in BOOLEAN, Serving, pc # "done",
               \/ Send(<<ToolCallEvent(k)>>)
               \/ Send(<<ToolResultEvent(k, isError)>>)
               \/ Send(<<ToolCallEvent(k), ToolResultEvent(k, isError)>>)
        PROVE  StreamInv'
    <2> DEFINE c == ToolCallEvent(k)
               r == ToolResultEvent(k, isError)
    <2>1. /\ c \in Events /\ r \in Events
          /\ c.type \notin {"done", "error"} /\ r.type \notin {"done", "error"}
      BY DEF Events, ToolCallEvent, ToolResultEvent
    <2> HIDE DEF c, r
    <2>2. \A e \in {<<c>>, <<r>>, <<c, r>>} :
             e \in Seq(Events) /\ ~Has(e, "error") /\ ~Has(e, "done")
      <3>1. <<c>> \in Seq(Events) /\ <<r>> \in Seq(Events) /\ <<c, r>> \in Seq(Events)
        BY <2>1
      <3>2. \A e \in {<<c>>, <<r>>, <<c, r>>} : \A i \in DOMAIN e : e[i] \in {c, r}
        OBVIOUS
      <3> QED
        BY <2>1, <3>1, <3>2 DEF Has
    <2>3. PICK e \in {<<c>>, <<r>>, <<c, r>>} : Send(e)
      BY <1>4 DEF c, r
    <2>4. e \in Seq(Events) /\ ~Has(e, "error") /\ ~Has(e, "done")
      BY <2>2
    <2> QED
      BY <1>4, <2>3, <2>4, ToolEventsKeepInv DEF Serving, gone
  <1>5. CASE Serving /\ BlockRepeat /\ Send(RepeatEvents(Head(queue)))
    BY <1>0, <1>4, <1>5 DEF BlockRepeat, RepeatEvents
  <1>6. CASE Serving /\ StartCall /\ Send(<<ToolCallEvent(Head(queue))>>)
    BY <1>0, <1>4, <1>6 DEF StartCall
  <1>7. ASSUME NEW recs \in ToolResults, NEW isError \in BOOLEAN, Serving,
               CallReturns(recs, isError), Send(<<ToolResultEvent(Head(queue), isError)>>)
        PROVE  StreamInv'
    BY <1>0, <1>4, <1>7 DEF CallReturns
  <1>8. CASE Serving /\ CallGivesUp /\ Send(<<ToolResultEvent(Head(queue), TRUE)>>)
    BY <1>0, <1>4, <1>8 DEF CallGivesUp
  <1>9. ASSUME NEW n \in 1..4, DeliverEvent(n)
        PROVE  StreamInv'
    <2> DEFINE e == Event(AnswerEvents[n])
    <2>1. e \in Events /\ e.type = AnswerEvents[n] /\ AnswerEvents[n] # "error"
      BY DEF Events, Event, AnswerEvents
    <2>2. ~Has(stream, "done")
      <3>1. Has(stream, "done") => AnswerEvents[4] \in Delivered
        BY DEF Has, Delivered, AnswerEvents
      <3>2. \A k \in 1..3 : AnswerEvents[k] # AnswerEvents[4]
        BY DEF AnswerEvents
      <3>3. Delivered \subseteq {AnswerEvents[k] : k \in 1..n - 1} /\ 1..n - 1 \subseteq 1..3
        BY <1>9 DEF DeliverEvent
      <3> QED
        BY <3>1, <3>2, <3>3
    <2>3. n # 4 => e.type # "done"
      BY <2>1 DEF AnswerEvents
    <2>4. n = 4 => e.type = "done"
      BY <2>1 DEF AnswerEvents
    <2> HIDE DEF e
    <2>5. <<e>> \in Seq(Events) /\ stream' = stream \o <<e>> /\ pc = "done" /\ pc' = "done"
          /\ phase = "serving" /\ phase' = "serving" /\ gone' = gone
      BY <1>9, <2>1 DEF DeliverEvent, Serving, Send, e, vars, gone
    <2>6. /\ Has(<<e>>, "done") <=> n = 4
          /\ ~Has(<<e>>, "error") /\ Len(<<e>>) = 1 /\ <<e>>[1] = e
      BY <2>1, <2>3, <2>4 DEF Has
    <2>7. /\ stream' \in Seq(Events) /\ ~Has(stream', "error")
          /\ Has(stream', "done") <=> n = 4
          /\ stream'[Len(stream')] = e /\ stream' # <<>>
      BY <2>2, <2>5, <2>6, Sending DEF StreamInv
    <2> QED
      BY <2>4, <2>5, <2>7 DEF StreamInv, EndsWith, Has
  <1>10. CASE Exhausted
    <2>1. Has(stream, "done")
      BY <1>10 DEF Exhausted, Delivered, Has
    <2> QED
      BY <1>10, <2>1 DEF Exhausted, StreamInv, EndsWith, Has, gone
  <1>11. CASE LoopRaises
    BY <1>11 DEF LoopRaises, StreamInv, Has, gone
  <1>12. CASE Disconnect
    BY <1>12 DEF Disconnect, AfterCancel, StreamInv, Has, gone
  <1>13. ASSUME NEW raises \in BOOLEAN, CloseContext(raises) PROVE StreamInv'
    BY <1>13, QuietKeepsInv DEF CloseContext, gone
  <1>14. CASE Finish
    <2>1. phase = "closing" /\ phase' = "over" /\ gone' = gone /\ stream' = stream \o ErrorEvents
      BY <1>14 DEF Finish, Send, gone
    <2>2. CASE pending = "error" /\ ~gone
      <3> DEFINE e == Event("error")
      <3>1. e \in Events /\ e.type = "error" /\ ErrorEvents = <<e>>
        BY <2>2 DEF Events, Event, ErrorEvents
      <3> HIDE DEF e
      <3>2. /\ <<e>> \in Seq(Events) /\ <<e>> # <<>> /\ Len(<<e>>) = 1 /\ <<e>>[1] = e
            /\ stream' = stream \o <<e>>
        BY <2>1, <3>1
      <3>3. stream' \in Seq(Events) /\ stream' # <<>> /\ stream'[Len(stream')] = e
        BY <3>2, Sending DEF StreamInv
      <3>4. \A i \in DOMAIN stream' : i # Len(stream') => i \in DOMAIN stream /\ stream'[i] = stream[i]
        BY <3>2 DEF StreamInv
      <3> QED
        BY <2>1, <3>1, <3>3, <3>4 DEF StreamInv, EndsWith, Has
    <2>3. CASE ~(pending = "error" /\ ~gone)
      <3>1. ErrorEvents = <<>> /\ <<>> \in Seq(Events)
        BY <2>3 DEF ErrorEvents
      <3>2. stream' = stream
        BY <2>1, <3>1, Sending DEF StreamInv
      <3> QED
        BY <2>1, <2>3, <3>2 DEF StreamInv, EndsWith, Has
    <2> QED
      BY <2>2, <2>3
  <1>15. CASE Over \/ UNCHANGED allVars
    BY <1>15, QuietKeepsInv DEF Over, allVars, chatVars, vars, gone
  <1>16. CASE Stall
    BY <1>16, QuietKeepsInv DEF Stall, vars, gone
  <1> QED
    BY <1>1, <1>2, <1>3, <1>5, <1>6, <1>7, <1>8, <1>9, <1>10, <1>11, <1>12, <1>13, <1>14, <1>15, <1>16
    DEF ChatNext, Session, Serve

\* A client that stays learns how its request ended, and nothing follows an error.
THEOREM StreamIsEnded == ChatSpec => []StreamEndsWell
  <1>1. StreamInv => StreamEndsWell
    BY DEF StreamInv, StreamEndsWell, EndsWith
  <1> QED
    BY <1>1, CallInvInit, CallInvStep, ChatStepsLoop, StreamInit, StreamStep, PTL
    DEF ChatSpec, ChatInit

-----------------------------------------------------------------------------
ResultsOf(s) == {j \in DOMAIN s : s[j].type = "tool_result"}

\* The trace tells the results of a stream.
Seen(s, tr) ==
    /\ Len(tr) = Cardinality(ResultsOf(s))
    /\ \A j \in ResultsOf(s) :
          /\ Place(ResultsOf(s), j) \in DOMAIN tr
          /\ LET told == tr[Place(ResultsOf(s), j)]
             IN  /\ s[j].call = told.call /\ s[j].error = told.error
                 /\ j > 1 /\ s[j - 1] = ToolCallEvent(told.call)

\* While a tool call is attempted, its announcement is the last event.
SeenInv ==
    /\ Seen(stream, trace)
    /\ pc = "call" => /\ phase = "serving"
                      /\ EndsWith("tool_call")
                      /\ stream[Len(stream)] = ToolCallEvent(Head(queue))
    /\ phase = "connecting" => pc = "seed"

\* An event that is no result.
LEMMA SeenByOther ==
  ASSUME NEW s \in Seq(Events), NEW e \in Events, e.type # "tool_result", NEW tr, Seen(s, tr)
  PROVE  Seen(Append(s, e), tr)
<1> DEFINE t == Append(s, e)
<1>1. /\ DOMAIN s = 1..Len(s) /\ Len(s) \in Nat /\ DOMAIN t = 1..Len(s) + 1
      /\ t[Len(s) + 1] = e
      /\ \A j \in DOMAIN s : t[j] = s[j]
  OBVIOUS
<1> HIDE DEF t
<1>2. ResultsOf(t) = ResultsOf(s) /\ ResultsOf(s) \subseteq DOMAIN s
  BY <1>1 DEF ResultsOf
<1>3. ASSUME NEW j \in ResultsOf(s)
      PROVE  t[j] = s[j] /\ (j > 1 => t[j - 1] = s[j - 1])
  BY <1>1, <1>2
<1>4. Seen(t, tr)
  BY <1>2, <1>3 DEF Seen
<1> QED
  BY <1>4 DEF t

\* The result of the call announced last, with its step of the trace.
LEMMA SeenByResult ==
  ASSUME NEW s \in Seq(Events), s # <<>>, NEW k \in Keys, NEW isError \in BOOLEAN,
         s[Len(s)] = ToolCallEvent(k),
         NEW tr \in Seq(TraceSteps), Seen(s, tr),
         NEW x \in TraceSteps, x.call = k, x.error = isError
  PROVE  Seen(Append(s, ToolResultEvent(k, isError)), Append(tr, x))
<1> DEFINE e == ToolResultEvent(k, isError)
           t == Append(s, e)
           u == Append(tr, x)
           n == Len(s)
           c == Cardinality(ResultsOf(s))
<1>1. e \in Events /\ e.type = "tool_result" /\ e.call = k /\ e.error = isError
  BY DEF Events, ToolResultEvent
<1> HIDE DEF e
<1>2. /\ DOMAIN s = 1..n /\ n \in Nat /\ n > 0 /\ DOMAIN t = 1..n + 1
      /\ t[n + 1] = e
      /\ \A j \in DOMAIN s : t[j] = s[j]
  BY <1>1
<1> HIDE DEF t, n
<1>3. ResultsOf(s) \in SUBSET (1..n)
  BY <1>2 DEF ResultsOf
<1>4. ResultsOf(t) = ResultsOf(s) \cup {n + 1}
  BY <1>1, <1>2 DEF ResultsOf
<1>5. /\ c \in Nat /\ Cardinality(ResultsOf(t)) = c + 1
      /\ \A j \in 1..n : Place(ResultsOf(t), j) = Place(ResultsOf(s), j)
      /\ Place(ResultsOf(t), n + 1) = c + 1
  <2> HIDE DEF c
  <2>1. n \in Nat
    BY <1>2
  <2> QED
    BY <1>3, <1>4, <2>1, PlacesGrow DEF c
<1>6. /\ Len(tr) = c /\ Len(u) = c + 1 /\ u[c + 1] = x
      /\ DOMAIN u = 1..c + 1
      /\ \A q \in DOMAIN tr : q \in DOMAIN u /\ u[q] = tr[q]
  BY <1>5 DEF Seen
<1> HIDE DEF u, c
<1>7. ASSUME NEW j \in ResultsOf(s)
      PROVE  /\ Place(ResultsOf(t), j) \in DOMAIN u
             /\ t[j].call = u[Place(ResultsOf(t), j)].call
             /\ t[j].error = u[Place(ResultsOf(t), j)].error
             /\ j > 1 /\ t[j - 1] = ToolCallEvent(u[Place(ResultsOf(t), j)].call)
  <2>1. j \in 1..n /\ t[j] = s[j] /\ (j > 1 => t[j - 1] = s[j - 1])
    BY <1>2, <1>3
  <2> QED
    BY <1>5, <1>6, <2>1 DEF Seen
<1>8. /\ Place(ResultsOf(t), n + 1) \in DOMAIN u
      /\ t[n + 1].call = u[Place(ResultsOf(t), n + 1)].call
      /\ t[n + 1].error = u[Place(ResultsOf(t), n + 1)].error
      /\ n + 1 > 1 /\ t[(n + 1) - 1] = ToolCallEvent(u[Place(ResultsOf(t), n + 1)].call)
  <2>1. u[Place(ResultsOf(t), n + 1)] = x /\ Place(ResultsOf(t), n + 1) \in DOMAIN u
    BY <1>5, <1>6
  <2>2. (n + 1) - 1 = n /\ n \in DOMAIN s /\ n + 1 > 1
    BY <1>2
  <2>3. t[n] = ToolCallEvent(k)
    BY <1>2, <2>2 DEF n
  <2> QED
    BY <1>1, <1>2, <2>1, <2>2, <2>3
<1>9. Seen(t, u)
  BY <1>4, <1>5, <1>6, <1>7, <1>8 DEF Seen
<1> QED
  BY <1>9 DEF t, u, e

LEMMA SeenInit == ChatInit => SeenInv
<1> SUFFICES ASSUME ChatInit PROVE SeenInv
  OBVIOUS
<1>1. stream = <<>> /\ trace = <<>> /\ pc = "seed" /\ phase = "connecting"
  BY DEF ChatInit, Init
<1>2. ResultsOf(<<>>) = {} /\ Cardinality({}) = 0
  BY FS_EmptySet DEF ResultsOf
<1>3. Seen(<<>>, <<>>)
  BY <1>2 DEF Seen
<1> QED
  BY <1>1, <1>3 DEF SeenInv

LEMMA SeenStep ==
  LoopInv /\ CallInv /\ ReportInv /\ StreamInv /\ SeenInv /\ [ChatNext]_allVars => SeenInv'
<1> SUFFICES ASSUME LoopInv, CallInv, ReportInv, StreamInv, SeenInv, [ChatNext]_allVars
             PROVE  SeenInv'
  OBVIOUS
<1> USE DEF SeenInv
<1>0. /\ stream \in Seq(Events) /\ trace \in Seq(TraceSteps) /\ step \in Nat
      /\ queue \in Seq(Keys)
      /\ queue # <<>> => Head(queue) \in Keys
      /\ pc = "call" => queue # <<>>
  BY DEF LoopInv, CallInv, ReportInv, StreamInv
<1>1. CASE UNCHANGED <<stream, vars, phase>>
  BY <1>1 DEF vars, EndsWith
<1>2. CASE Connected \/ ConnectRaises
  BY <1>2 DEF Connected, ConnectRaises, vars
<1>3. CASE Serving /\ Silent /\ UNCHANGED stream
  <2>1. /\ trace' = trace
        /\ phase = "serving" /\ phase' = phase
        /\ pc' = "call" => pc = "call" /\ queue' = queue
    BY <1>3 DEF Serving, Silent, Seed, ListTools, StopAtCap, StopOnBudget, AskFinal, PlanAnswer,
                PlanTools, Deliver, CallRetries, EndStep, FinalAnswer
  <2> QED
    BY <1>3, <2>1 DEF EndsWith
<1>4. ASSUME NEW k \in Keys, Serving, Send(<<ToolCallEvent(k)>>), trace' = trace
      PROVE  /\ Seen(stream', trace') /\ phase' = "serving"
             /\ stream'[Len(stream')] = ToolCallEvent(k) /\ stream' # <<>>
             /\ ToolCallEvent(k).type = "tool_call"
  <2>1. ToolCallEvent(k) \in Events /\ ToolCallEvent(k).type = "tool_call"
    BY DEF Events, ToolCallEvent
  <2>2. stream' = Append(stream, ToolCallEvent(k))
    BY <1>0, <1>4, <2>1, AppendIsConcat DEF Send
  <2> QED
    BY <1>0, <1>4, <2>1, <2>2, SeenByOther DEF Serving
<1>5. CASE Serving /\ StartCall /\ Send(<<ToolCallEvent(Head(queue))>>)
  <2>1. Head(queue) \in Keys /\ UNCHANGED <<trace, queue>> /\ pc' = "call"
    BY <1>0, <1>5 DEF StartCall
  <2> QED
    BY <1>4, <1>5, <2>1 DEF EndsWith
<1>6. ASSUME NEW s \in Seq(Events), s # <<>>, s[Len(s)] = ToolCallEvent(Head(queue)),
             Seen(s, trace), queue # <<>>, NEW isError \in BOOLEAN,
             stream' = Append(s, ToolResultEvent(Head(queue), isError)),
             trace' = Append(trace, TraceStep(Head(queue), isError))
      PROVE  Seen(stream', trace')
  <2> DEFINE x == TraceStep(Head(queue), isError)
  <2>1. x \in TraceSteps /\ x.call = Head(queue) /\ x.error = isError
    BY <1>0, <1>6 DEF TraceStep, TraceSteps
  <2>2. trace' = Append(trace, x)
    BY <1>6
  <2> HIDE DEF x
  <2> QED
    BY <1>0, <1>6, <2>1, <2>2, SeenByResult
<1>7. CASE Serving /\ BlockRepeat /\ Send(RepeatEvents(Head(queue)))
  <2> DEFINE k == Head(queue)
             c == ToolCallEvent(k)
             r == ToolResultEvent(k, TRUE)
             s == Append(stream, c)
  <2>1. /\ queue # <<>> /\ k \in Keys /\ pc = "tools" /\ pc' = "tools" /\ phase' = "serving"
        /\ trace' = Append(trace, TraceStep(k, TRUE))
        /\ stream' = stream \o <<c, r>>
    BY <1>0, <1>7 DEF BlockRepeat, Serving, Send, RepeatEvents
  <2>2. c \in Events /\ r \in Events /\ c.type = "tool_call"
    <3>1. k \in Keys /\ TRUE \in BOOLEAN
      BY <2>1
    <3> HIDE DEF k
    <3>2. \A b \in BOOLEAN : ToolResultEvent(k, b) \in Events
      BY <3>1 DEF Events
    <3>3. c \in Events /\ c.type = "tool_call"
      BY <3>1 DEF Events, ToolCallEvent
    <3> QED
      BY <3>1, <3>2, <3>3
  <2> HIDE DEF c, r
  <2>3. stream' = Append(s, r)
    <3>1. stream \o <<c, r>> = Append(Append(stream, c), r)
      BY <1>0, <2>2
    <3> QED
      BY <2>1, <3>1
  <2>4. s \in Seq(Events) /\ s # <<>> /\ s[Len(s)] = c /\ Seen(s, trace)
    <3>1. stream \in Seq(Events) /\ c \in Events /\ c.type # "tool_result" /\ Seen(stream, trace)
      BY <1>0, <2>2
    <3> QED
      BY <3>1, SeenByOther
  <2> HIDE DEF s
  <2>5. Seen(stream', trace')
    BY <1>6, <2>1, <2>3, <2>4 DEF c, r
  <2> QED
    BY <2>1, <2>5
<1>8. ASSUME NEW recs, NEW isError \in BOOLEAN, Serving, pc = "call", Record(recs, isError),
             Send(<<ToolResultEvent(Head(queue), isError)>>)
      PROVE  SeenInv'
  <2>1. /\ queue # <<>> /\ Head(queue) \in Keys /\ pc' = "tools" /\ phase' = "serving"
        /\ trace' = Append(trace, TraceStep(Head(queue), isError))
        /\ stream # <<>> /\ stream[Len(stream)] = ToolCallEvent(Head(queue))
    BY <1>0, <1>8 DEF Record, Serving, EndsWith
  <2>2. ToolResultEvent(Head(queue), isError) \in Events
    BY <2>1 DEF Events
  <2>3. stream' = Append(stream, ToolResultEvent(Head(queue), isError))
    BY <1>0, <1>8, <2>2, AppendIsConcat DEF Send
  <2>4. Seen(stream', trace')
    BY <1>0, <1>6, <2>1, <2>3
  <2> QED
    BY <2>1, <2>4
<1>9. ASSUME NEW n \in 1..4, DeliverEvent(n) PROVE SeenInv'
  <2> DEFINE e == Event(AnswerEvents[n])
  <2>1. e \in Events /\ e.type # "tool_result"
    BY DEF Events, Event, AnswerEvents
  <2>2. /\ stream' = Append(stream, e) /\ pc = "done" /\ pc' = pc /\ trace' = trace
        /\ phase = "serving" /\ phase' = phase
    BY <1>0, <1>9, <2>1, AppendIsConcat DEF DeliverEvent, Serving, Send, vars
  <2> HIDE DEF e
  <2>3. Seen(stream', trace')
    BY <1>0, <2>1, <2>2, SeenByOther
  <2> QED
    BY <2>2, <2>3
<1>10. CASE Exhausted
  <2>1. Has(stream, "done")
    BY <1>10 DEF Exhausted, Delivered, Has
  <2>2. pc = "done" /\ UNCHANGED <<stream, vars>> /\ phase' = "closing"
    BY <1>10, <2>1 DEF Exhausted, StreamInv
  <2> QED
    BY <2>2 DEF vars
<1>11. CASE LoopRaises
  BY <1>11 DEF LoopRaises, Abort
<1>12. CASE Disconnect
  <2>1. phase' = "closing" /\ UNCHANGED <<stream, trace>> /\ (pc' = "failed" \/ (pc' = pc /\ pc # "call"))
    <3>1. phase' = "closing" /\ stream' = stream
      BY <1>12 DEF Disconnect, AfterCancel
    <3>2. CASE Abort
      <4>1. pc' = "failed" /\ trace' = trace
        BY <3>2 DEF Abort
      <4> QED
        BY <3>1, <4>1
    <3>3. CASE UNCHANGED vars /\ (phase # "serving" \/ pc = "done")
      BY <3>1, <3>3 DEF vars
    <3> QED
      BY <1>12, <3>2, <3>3 DEF Disconnect
  <2> QED
    BY <2>1
<1>13. CASE Finish
  <2>1. /\ pc' = pc /\ trace' = trace /\ pc # "call" /\ phase' = "over"
        /\ stream' = stream \o ErrorEvents
    BY <1>13 DEF Finish, Send, vars
  <2>2. ErrorEvents = <<>> \/ ErrorEvents = <<Event("error")>>
    BY DEF ErrorEvents
  <2>3. Event("error") \in Events /\ Event("error").type # "tool_result"
    BY DEF Events, Event
  <2>4. stream' = stream \/ stream' = Append(stream, Event("error"))
    BY <1>0, <2>1, <2>2, <2>3, AppendIsConcat, ConcatEmptySeq
  <2>5. Seen(stream', trace')
    BY <1>0, <2>1, <2>3, <2>4, SeenByOther
  <2> QED
    BY <2>1, <2>5
<1>14. CASE \/ EnterContext \/ (\E raises \in BOOLEAN : CloseContext(raises)) \/ Stall \/ Over
             \/ UNCHANGED allVars
  BY <1>1, <1>14 DEF EnterContext, CloseContext, Stall, Over, allVars, chatVars
<1> QED
  BY <1>2, <1>3, <1>5, <1>7, <1>8, <1>9, <1>10, <1>11, <1>12, <1>13, <1>14
  DEF ChatNext, Session, Serve, CallReturns, CallGivesUp

\* What the client has been told of the tool calls is what the trace tells.
THEOREM StreamIsTrue == ChatSpec => []StreamTellsTrace
<1>1. SeenInv => StreamTellsTrace
  BY DEF SeenInv, Seen, StreamTellsTrace, ResultsOf, ResultsAt
<1> QED
  BY <1>1, LoopInvInit, LoopInvStep, CallInvInit, CallInvStep, ReportInit, ReportStep,
     ChatStepsLoop, StreamInit, StreamStep, SeenInit, SeenStep, PTL
  DEF ChatSpec, ChatInit
=============================================================================
