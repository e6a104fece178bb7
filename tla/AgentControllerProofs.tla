------------------------ MODULE AgentControllerProofs ------------------------
(***************************************************************************)
(* Proofs about AgentController, for every limit of iterations and every   *)
(* answer of the model.                                                    *)
(*                                                                         *)
(* Until a failure control is in one place: the controller's thread is at  *)
(* work, or one event waits for somebody to handle it, or the run is over  *)
(* (Single).  The first failure leaves it with the thread that reports it, *)
(* and with the observation that _reset adds for the failed action.        *)
(***************************************************************************)
EXTENDS AgentController, TLAPS, SequenceTheorems

\* Event i waits for the subscriber that does something with it.
Live(i) ==
    \/ Kind(i) \in {"run", "think"} /\ i > seen["runtime"]
    \/ Kind(i) = "recall" /\ i > seen["memory"]
    \/ Kind(i) = "state" /\ stream[i].to = "awaiting" /\ i > seen["main"]
    \/ Kind(i) \notin {"run", "think", "recall", "state"} /\ i > seen["controller"]
NoneLive == \A i \in Ids : ~Live(i)

\* What is observed was handled, and the history holds events and no state changes.
Grounded ==
    /\ \A k \in Ids : Kind(k) = "observation" =>
           /\ stream[k].cause <= Newest
           /\ \A i \in Ids : i = stream[k].cause =>
                  /\ Kind(i) = "run" => i <= seen["runtime"]
                  /\ Kind(i) = "recall" => i <= seen["memory"]
    /\ \A i \in history : i \in Ids /\ Kind(i) # "state"

\* Without a failure: nobody reports one, and what is run is observed, though the
\* controller may not have come to the observation.
Calm ==
    /\ \A t \in Reporter : fault[t] = "none"
    /\ \A k \in Ids : Kind(k) # "failure"
    /\ \A i \in Runs(Ids) :
           \/ AnsweredIn(i, history)
           \/ Live(i)
           \/ \E k \in Ids : k > seen["controller"] /\ Kind(k) = "observation" /\ stream[k].cause = i

\* Whose turn it is.
Turn ==
    /\ \A i, k \in Ids : Live(i) /\ Live(k) => i = k
    /\ place = "llm" => NoneLive
    /\ place = "check" => \A i \in Ids : Live(i) => Kind(i) # "run" /\ pending # 0
    /\ agentState \in EndState => NoneLive /\ place = "idle"
    /\ main # "polling" => agentState \in EndState
    /\ \A i \in Runs(Ids) : Live(i) => pending = i

Single == Calm /\ Turn

\* The runtime has raised while it handled action j, and has not reported it.
Unreported(j) ==
    /\ fault["runtime"] = "raised" /\ fault["memory"] = "none"
    /\ NoneLive
    /\ place = "idle"
    /\ pending = j
    /\ agentState \notin EndState /\ main = "polling"
    /\ ~AnsweredIn(j, Ids)

\* It has reported it, and the controller has not come to the observation.
Reported(j) ==
    /\ fault["runtime"] # "raised" /\ fault["memory"] = "none"
    /\ \E k \in Ids :
           /\ Kind(k) = "failure" /\ stream[k].cause = j
           /\ k > seen["controller"]
           /\ \A i \in Ids : Live(i) => i = k
    /\ place = "idle"
    /\ main \in {"polling", "ended"}

\* The first failure is that of event j.
FailedAt(j) ==
    /\ Raised(j)
    /\ \A i \in Runs(Ids) : i < j => AnsweredIn(i, history)
    /\ Kind(j) = "run" => AnsweredIn(j, history) \/ Unreported(j) \/ Reported(j)

Controlled ==
    /\ TypeOK
    /\ Grounded
    /\ Single \/ \E j \in Ids : FailedAt(j)

-----------------------------------------------------------------------------
(* Steps only add: to the stream, to what was handled, to the history       *)

EventSet == [kind : AgentAction \cup UserMessage \cup Observations
                      \cup {"recall", "condense", "state"},
             cause : Nat, to : AgentState \cup {"none"}]

Grows ==
    /\ stream' \in Seq(EventSet)
    /\ Newest \in Nat /\ Newest' \in Nat /\ Newest <= Newest'
    /\ \A i \in Ids : stream'[i] = stream[i]

LEMMA EventTypes ==
  /\ \A kind \in AgentAction \cup UserMessage \cup {"recall", "condense"} : Act(kind) \in EventSet
  /\ \A to \in AgentState : Changed(to) \in EventSet
  /\ \A cause \in Nat : Observe(cause) \in EventSet /\ Event("failure", cause, "none") \in EventSet
  BY DEF EventSet, Act, Changed, Observe, Event, Observations

LEMMA AppendGrows ==
  ASSUME TypeOK, NEW e \in EventSet, stream' = Append(stream, e)
  PROVE  Grows /\ Newest' = Newest + 1 /\ stream'[Newest + 1] = e
<1>1. stream \in Seq(EventSet)
  BY DEF TypeOK, EventSet
<1> QED BY <1>1, AppendProperties, LenProperties DEF Grows, Newest, Ids

LEMMA SameGrows ==
  ASSUME TypeOK, UNCHANGED stream
  PROVE  Grows /\ Newest' = Newest
<1>1. stream \in Seq(EventSet)
  BY DEF TypeOK, EventSet
<1> QED BY <1>1, LenProperties DEF Grows, Newest, Ids

\* SetState alone ...
LEMMA SetStateGrows ==
  ASSUME TypeOK, NEW to \in AgentState, SetState(to, <<>>)
  PROVE  /\ Grows /\ agentState' = to
         /\ \/ Newest' = Newest
            \/ Newest' = Newest + 1 /\ stream'[Newest + 1] = Changed(to)
<1>1. stream \in Seq(EventSet) /\ Changed(to) \in EventSet
  BY EventTypes DEF TypeOK, EventSet
<1>2. stream \o <<>> = stream /\ stream \o <<Changed(to)>> = Append(stream, Changed(to))
  BY <1>1, ConcatEmptySeq, AppendIsConcat
<1>3. CASE to = agentState
  BY <1>2, <1>3, SameGrows DEF SetState
<1>4. CASE to # agentState
  BY <1>1, <1>2, <1>4, AppendGrows DEF SetState
<1> QED BY <1>3, <1>4

\* ... and with the recall before it.
LEMMA RecallGrows ==
  ASSUME TypeOK, SetState("running", <<Act("recall")>>)
  PROVE  /\ Grows /\ agentState' = "running"
         /\ stream'[Newest + 1] = Act("recall")
         /\ \/ Newest' = Newest + 1
            \/ Newest' = Newest + 2 /\ stream'[Newest + 2] = Changed("running")
<1> DEFINE r == Act("recall")
           c == Changed("running")
           a == Append(stream, r)
<1>1. stream \in Seq(EventSet) /\ r \in EventSet /\ c \in EventSet
  BY EventTypes DEF TypeOK, EventSet, AgentState
<1>2. stream \o <<r>> = a /\ a \in Seq(EventSet)
  BY <1>1, AppendIsConcat, AppendProperties
<1>3. a \o <<>> = a /\ a \o <<c>> = Append(a, c)
  BY <1>1, <1>2, ConcatEmptySeq, AppendIsConcat
<1>4. stream' = a \/ stream' = Append(a, c)
  BY <1>2, <1>3 DEF SetState
<1>5. CASE stream' = a
  BY <1>1, <1>5, AppendGrows DEF SetState
<1>6. CASE stream' = Append(a, c)
  <2>1. Len(stream) \in Nat /\ Len(a) = Len(stream) + 1 /\ Len(Append(a, c)) = Len(a) + 1
    BY <1>1, <1>2, AppendProperties, LenProperties
  <2>2. Append(a, c) \in Seq(EventSet) /\ Append(a, c)[Len(a) + 1] = c
    BY <1>1, <1>2, AppendProperties
  <2>3. \A i \in 1..Len(a) : Append(a, c)[i] = a[i]
    BY <1>1, <1>2, AppendProperties
  <2>4. a[Len(stream) + 1] = r /\ \A i \in 1..Len(stream) : a[i] = stream[i]
    BY <1>1, AppendProperties
  <2> HIDE DEF a, c, r
  <2>5. \A i \in 1..Len(stream) : stream'[i] = stream[i]
    BY <1>6, <2>1, <2>3, <2>4
  <2>6. stream'[Len(stream) + 1] = r /\ stream'[Len(stream) + 2] = c /\ Len(stream') = Len(stream) + 2
    BY <1>6, <2>1, <2>2, <2>3, <2>4
  <2>7. Grows
    BY <1>6, <2>1, <2>2, <2>5, <2>6 DEF Grows, Newest, Ids
  <2>8. agentState' = "running"
    BY DEF SetState
  <2> QED BY <2>6, <2>7, <2>8 DEF r, c, Newest
<1> QED BY <1>4, <1>5, <1>6

\* The type invariant follows from where the stream, the handled events, the history
\* and the pending action may go.
LEMMA TypeFromParts ==
  ASSUME TypeOK, Grows,
         seen' \in [Subscriber -> 0..Newest'], history' \subseteq Ids', agentState' \in AgentState,
         pending' \in 0..Newest', iteration' \in 0..MaxIterations,
         place' \in {"idle", "check", "llm"}, queue' \in Seq(AgentAction),
         fault' \in [Reporter -> {"none", "raised", "clear", "state"}],
         main' \in {"polling", "ended", "rewritten", "closed"}
  PROVE  TypeOK'
BY DEF TypeOK, Grows, EventSet

\* What stays is still within the stream.
LEMMA Wider ==
  ASSUME TypeOK, Grows
  PROVE  /\ Newest' \in Nat /\ 0..Newest \subseteq 0..Newest' /\ Ids \subseteq Ids'
         /\ Ids = 1..Newest /\ Ids' = 1..Newest'
         /\ seen \in [Subscriber -> 0..Newest'] /\ history \subseteq Ids'
         /\ pending \in 0..Newest'
BY DEF TypeOK, Grows, Ids, Newest

LEMMA NewIds ==
  ASSUME TypeOK, Grows
  PROVE  /\ Newest' = Newest => Ids' \ Ids = {}
         /\ Newest' = Newest + 1 => Ids' \ Ids = {Newest + 1}
         /\ Newest' = Newest + 2 => Ids' \ Ids = {Newest + 1, Newest + 2}
BY Wider DEF Grows

\* The events that a step adds.
New == Ids' \ Ids

LEMMA NewAppend ==
  ASSUME TypeOK, NEW e \in EventSet, stream' = Append(stream, e)
  PROVE  New = {Newest + 1} /\ stream'[Newest + 1] = e
BY AppendGrows, NewIds DEF New

LEMMA NewSame ==
  ASSUME TypeOK, UNCHANGED stream
  PROVE  New = {}
BY DEF New, Ids

\* What they are: an action, an observation, a change of the state.
LEMMA NewAct ==
  ASSUME TypeOK, NEW kind \in AgentAction \cup UserMessage \cup {"recall", "condense"},
         stream' = Append(stream, Act(kind))
  PROVE  /\ New = {Newest + 1} /\ Newest' = Newest + 1
         /\ stream'[Newest + 1].kind = kind /\ stream'[Newest + 1].cause = 0
<1>1. Act(kind) \in EventSet
  BY EventTypes
<1>2. New = {Newest + 1} /\ Newest' = Newest + 1 /\ stream'[Newest + 1] = Act(kind)
  BY <1>1, NewAppend, AppendGrows
<1>3. Act(kind).kind = kind /\ Act(kind).cause = 0
  BY DEF Act, Event
<1> QED BY <1>2, <1>3 DEF Kind, Newest

LEMMA NewObserve ==
  ASSUME TypeOK, NEW cause \in Nat, stream' = Append(stream, Observe(cause))
  PROVE  /\ New = {Newest + 1} /\ Newest' = Newest + 1
         /\ stream'[Newest + 1].kind = "observation" /\ stream'[Newest + 1].cause = cause
<1>1. Observe(cause) \in EventSet
  BY EventTypes
<1>2. New = {Newest + 1} /\ Newest' = Newest + 1 /\ stream'[Newest + 1] = Observe(cause)
  BY <1>1, NewAppend, AppendGrows
<1>3. Observe(cause).kind = "observation" /\ Observe(cause).cause = cause
  BY DEF Observe, Event
<1> QED BY <1>2, <1>3

LEMMA NewFailure ==
  ASSUME TypeOK, NEW cause \in Nat, stream' = Append(stream, Event("failure", cause, "none"))
  PROVE  /\ New = {Newest + 1} /\ Newest' = Newest + 1
         /\ stream'[Newest + 1].kind = "failure" /\ stream'[Newest + 1].cause = cause
<1> DEFINE e == Event("failure", cause, "none")
<1>1. e \in EventSet
  BY EventTypes
<1>2. New = {Newest + 1} /\ Newest' = Newest + 1 /\ stream'[Newest + 1] = e
  BY <1>1, NewAppend, AppendGrows
<1>3. e.kind = "failure" /\ e.cause = cause
  BY DEF Event
<1> QED BY <1>2, <1>3

LEMMA NewChanged ==
  ASSUME TypeOK, NEW to \in AgentState, stream' = Append(stream, Changed(to))
  PROVE  /\ New = {Newest + 1} /\ Newest' = Newest + 1
         /\ stream'[Newest + 1].kind = "state" /\ stream'[Newest + 1].to = to
<1>1. Changed(to) \in EventSet
  BY EventTypes
<1>2. New = {Newest + 1} /\ Newest' = Newest + 1 /\ stream'[Newest + 1] = Changed(to)
  BY <1>1, NewAppend, AppendGrows
<1>3. Changed(to).kind = "state" /\ Changed(to).to = to
  BY DEF Changed, Event
<1> QED BY <1>2, <1>3 DEF Kind, Newest

LEMMA NewSetState ==
  ASSUME TypeOK, NEW to \in AgentState, SetState(to, <<>>)
  PROVE  /\ \A k \in New : stream'[k].kind = "state" /\ stream'[k].to = to
         /\ New = {} \/ New = {Newest + 1}
         /\ agentState' = to
<1>1. Changed(to).kind = "state" /\ Changed(to).to = to
  BY DEF Changed, Event
<1> QED BY <1>1, SetStateGrows, NewIds DEF New, Kind

LEMMA NewRecall ==
  ASSUME TypeOK, SetState("running", <<Act("recall")>>)
  PROVE  /\ Newest + 1 \in New /\ stream'[Newest + 1].kind = "recall"
         /\ \A k \in New : k # Newest + 1 => stream'[k].kind = "state" /\ stream'[k].to = "running"
         /\ agentState' = "running"
<1>1. Changed("running").kind = "state" /\ Changed("running").to = "running" /\ Act("recall").kind = "recall"
  BY DEF Changed, Event, Act
<1> QED BY <1>1, RecallGrows, NewIds DEF New, Kind, Newest

LEMMA TakeTypes ==
  ASSUME TypeOK, NEW i \in Ids, Take(i), Grows
  PROVE  seen' \in [Subscriber -> 0..Newest'] /\ history' \subseteq Ids'
<1>1. i \in 0..Newest' /\ i \in Ids' /\ "controller" \in Subscriber
  BY Wider DEF Ids, Newest, Subscriber
<1> QED BY <1>1, Wider DEF Take

\* A step of the agent issues one action.
LEMMA IssueOfStep ==
  ASSUME TypeOK, EndStep
  PROVE  \E action \in AgentAction : Issue(action) /\ queue' \in Seq(AgentAction)
<1>0. queue \in Seq(AgentAction)
  BY DEF TypeOK
<1>1. CASE queue # <<>>
  BY <1>0, <1>1, HeadTailProperties DEF EndStep
<1>2. CASE queue = <<>> /\ Exiting
  BY <1>0, <1>2 DEF EndStep, AgentAction
<1>3. CASE queue = <<>> /\ ~Exiting
  <2>1. PICK r \in Response : Issue(Head(r)) /\ queue' = Tail(r)
    BY <1>3 DEF EndStep
  <2> QED BY <2>1, ControllerAssumption, HeadTailProperties
<1> QED BY <1>1, <1>2, <1>3

\* Every step of the type invariant.
LEMMA TypeStep == TypeOK /\ [Next]_vars => TypeOK' /\ Grows
<1> SUFFICES ASSUME TypeOK, [Next]_vars PROVE TypeOK' /\ Grows
  OBVIOUS
<1> USE ControllerAssumption
<1> DEFINE Parts == /\ agentState \in AgentState /\ iteration \in 0..MaxIterations
                    /\ place \in {"idle", "check", "llm"} /\ queue \in Seq(AgentAction)
                    /\ fault \in [Reporter -> {"none", "raised", "clear", "state"}]
                    /\ main \in {"polling", "ended", "rewritten", "closed"}
<1>0. Parts
  BY DEF TypeOK
<1>1. CASE UNCHANGED vars
  <2>1. Grows
    BY <1>1, SameGrows DEF vars
  <2> QED BY <1>0, <1>1, <2>1, Wider, TypeFromParts DEF vars
<1>2. ASSUME NEW i \in Ids, HandleUserMessage(i) PROVE TypeOK' /\ Grows
  <2>1. Grows /\ agentState' = "running" /\ Newest + 1 \in 0..Newest'
    BY <1>2, RecallGrows DEF HandleUserMessage, Grows
  <2> QED BY <1>0, <1>2, <2>1, TakeTypes, TypeFromParts DEF HandleUserMessage, Take, AgentState
<1>3. ASSUME NEW i \in Ids, HandleAgentMessage(i) PROVE TypeOK' /\ Grows
  <2>1. Grows /\ agentState' \in AgentState
    BY <1>0, <1>3, SetStateGrows, SameGrows DEF HandleAgentMessage, AgentState
  <2> QED BY <1>0, <1>3, <2>1, TakeTypes, Wider, TypeFromParts DEF HandleAgentMessage, Take
<1>4. ASSUME NEW i \in Ids, HandleEnd(i) PROVE TypeOK' /\ Grows
  <2>1. Grows /\ agentState' \in AgentState
    BY <1>0, <1>4, SetStateGrows DEF HandleEnd, AgentState
  <2> QED BY <1>0, <1>4, <2>1, TakeTypes, Wider, TypeFromParts DEF HandleEnd, Take
<1>5. ASSUME NEW i \in Ids, HandleObservation(i) PROVE TypeOK' /\ Grows
  <2>1. Grows
    BY <1>5, SameGrows DEF HandleObservation
  <2>2. pending' \in 0..Newest'
    BY <1>5, <2>1, Wider DEF HandleObservation
  <2> QED BY <1>0, <1>5, <2>1, <2>2, TakeTypes, TypeFromParts DEF HandleObservation, Take
<1>6. ASSUME NEW i \in Ids, HandleOther(i) PROVE TypeOK' /\ Grows
  <2>1. Grows
    BY <1>6, SameGrows DEF HandleOther
  <2> QED BY <1>0, <1>6, <2>1, TakeTypes, Wider, TypeFromParts DEF HandleOther, Take
<1>7. CASE BeginStep
  <2>1. Grows /\ agentState' \in AgentState
    BY <1>0, <1>7, SetStateGrows, SameGrows DEF BeginStep, ToError, AgentState
  <2>2. iteration' \in 0..MaxIterations /\ place' \in {"idle", "check", "llm"}
    BY <1>0, <1>7 DEF BeginStep
  <2> QED BY <1>0, <1>7, <2>1, <2>2, Wider, TypeFromParts DEF BeginStep
<1>8. CASE EndStep
  <2>1. PICK action \in AgentAction : Issue(action) /\ queue' \in Seq(AgentAction)
    BY <1>8, IssueOfStep
  <2>2. Grows /\ Newest' = Newest + 1
    BY <2>1, EventTypes, AppendGrows DEF Issue
  <2>3. pending' \in 0..Newest'
    BY <2>1, <2>2, Wider DEF Issue
  <2> QED BY <1>0, <1>8, <2>1, <2>2, <2>3, Wider, TypeFromParts DEF EndStep
<1>9. CASE FailStep
  <2>1. Grows /\ agentState' \in AgentState
    BY <1>0, <1>9, SetStateGrows, AppendGrows, EventTypes DEF FailStep, ToError, AgentState
  <2> QED BY <1>0, <1>9, <2>1, Wider, TypeFromParts DEF FailStep
<1>10. ASSUME NEW t \in Reporter, NEW i \in Ids, Answer(t, i) PROVE TypeOK' /\ Grows
  <2>1. Grows
    BY <1>10, EventTypes, AppendGrows DEF Answer, Ids
  <2>2. seen' \in [Subscriber -> 0..Newest']
    BY <1>10, <2>1, Wider DEF Answer, Reporter, Subscriber
  <2> QED BY <1>0, <1>10, <2>1, <2>2, Wider, TypeFromParts DEF Answer
<1>11. ASSUME NEW t \in Reporter, NEW i \in Ids, Raise(t, i) PROVE TypeOK' /\ Grows
  <2>1. Grows
    BY <1>11, SameGrows DEF Raise
  <2>2. seen' \in [Subscriber -> 0..Newest']
    BY <1>11, <2>1, Wider DEF Raise, Reporter, Subscriber
  <2> QED BY <1>0, <1>11, <2>1, <2>2, Wider, TypeFromParts DEF Raise
<1>12. ASSUME NEW t \in Reporter, ReportError(t) PROVE TypeOK' /\ Grows
  <2>1. Grows
    BY <1>12, EventTypes, SameGrows, AppendGrows DEF ReportError, TypeOK
  <2> QED BY <1>0, <1>12, <2>1, Wider, TypeFromParts DEF ReportError
<1>13. ASSUME NEW t \in Reporter, ClearPending(t) PROVE TypeOK' /\ Grows
  <2>1. Grows
    BY <1>13, SameGrows DEF ClearPending
  <2>2. 0 \in 0..Newest'
    BY <2>1, Wider
  <2> QED BY <1>0, <1>13, <2>1, <2>2, Wider, TypeFromParts DEF ClearPending
<1>14. ASSUME NEW t \in Reporter, EnterError(t) PROVE TypeOK' /\ Grows
  <2>1. Grows /\ "error" \in AgentState
    BY <1>14, EventTypes, AppendGrows DEF EnterError, AgentState
  <2> QED BY <1>0, <1>14, <2>1, Wider, TypeFromParts DEF EnterError
<1>15. CASE Reply
  <2>1. PICK i \in Ids, message \in UserMessage :
            seen' = [seen EXCEPT !["main"] = i] /\ stream' = Append(stream, Act(message))
    BY <1>15 DEF Reply, NextOf, AwaitingUser
  <2>2. Grows
    BY <2>1, EventTypes, AppendGrows
  <2>3. seen' \in [Subscriber -> 0..Newest']
    BY <2>1, <2>2, Wider DEF Subscriber
  <2> QED BY <1>0, <1>15, <2>2, <2>3, Wider, TypeFromParts DEF Reply
<1>16. CASE PollEnd
  <2>1. Grows
    BY <1>16, SameGrows DEF PollEnd
  <2> QED BY <1>0, <1>16, <2>1, Wider, TypeFromParts DEF PollEnd
<1>17. CASE RewriteHistory
  <2>1. Grows
    BY <1>17, SameGrows DEF RewriteHistory
  <2>2. history' \subseteq Ids'
    BY <1>17, <2>1, Wider DEF RewriteHistory
  <2> QED BY <1>0, <1>17, <2>1, <2>2, Wider, TypeFromParts DEF RewriteHistory
<1>18. CASE Unsubscribe
  <2>1. Grows
    BY <1>18, SameGrows DEF Unsubscribe
  <2> QED BY <1>0, <1>18, <2>1, Wider, TypeFromParts DEF Unsubscribe
<1> QED
  BY <1>1, <1>2, <1>3, <1>4, <1>5, <1>6, <1>7, <1>8, <1>9, <1>10, <1>11, <1>12, <1>13, <1>14,
     <1>15, <1>16, <1>17, <1>18
  DEF Next, Controller, OnEvent, RunAction, Recall, NextOf, OfKind, Report, Main, Reporter

\* An observation that a step adds answers an event that the step has handled ...
NewAnswers ==
    \A k \in New : stream'[k].kind = "observation" =>
        /\ stream'[k].cause <= Newest
        /\ \A c \in Ids : c = stream'[k].cause =>
               /\ Kind(c) = "run" => seen["runtime"] < c /\ c <= seen'["runtime"]
               /\ Kind(c) = "recall" => seen["memory"] < c /\ c <= seen'["memory"]

\* ... and a runnable action that it has handled is observed, or has raised.
Handles ==
    \A i \in Ids : Kind(i) = "run" /\ seen["runtime"] < i /\ i <= seen'["runtime"] =>
        \/ fault'["runtime"] = "raised"
        \/ \E k \in New : stream'[k].kind = "observation" /\ stream'[k].cause = i

Adds ==
    /\ Grows
    /\ NewAnswers
    /\ Handles
    /\ \A s \in Subscriber : seen'[s] \in Nat /\ seen[s] <= seen'[s] /\ seen'[s] <= Newest
    /\ history \subseteq history'
    /\ \A i \in history' : i \in Ids /\ Kind(i) # "state"
    /\ \A i \in Ids : seen["controller"] < i /\ i <= seen'["controller"] =>
           i \in history' \/ Kind(i) = "state"

LEMMA AddsStep == TypeOK /\ Grounded /\ [Next]_vars => Adds
<1> SUFFICES ASSUME TypeOK, Grounded, [Next]_vars PROVE Adds
  OBVIOUS
<1>1. Grows
  BY TypeStep
<1>2. Ids = 1..Newest /\ Ids' = 1..Newest' /\ Newest \in Nat /\ Newest' \in Nat
  BY <1>1, Wider DEF Grows
<1>3. \A s \in Subscriber : seen[s] <= seen'[s] /\ seen'[s] <= Newest
  <2> USE DEF Subscriber, Reporter, Unhandled, Ids, Newest
  <2>0. seen \in [Subscriber -> 0..Newest] /\ Newest \in Nat
    BY DEF TypeOK
  <2>1. ASSUME NEW i \in Ids, i = seen["controller"] + 1, OnEvent(i)
        PROVE  \A s \in Subscriber : seen[s] <= seen'[s] /\ seen'[s] <= Newest
    <3>1. seen' = [seen EXCEPT !["controller"] = i]
      BY <2>1 DEF OnEvent, HandleUserMessage, HandleAgentMessage, HandleEnd, HandleObservation,
         HandleOther, Take
    <3> QED BY <2>0, <2>1, <3>1
  <2>2. CASE RunAction
    BY <2>0, <2>2 DEF RunAction, Answer, Raise, NextOf
  <2>3. CASE Recall
    BY <2>0, <2>3 DEF Recall, Answer, Raise, NextOf
  <2>4. CASE Reply
    BY <2>0, <2>4 DEF Reply, NextOf
  <2>5. CASE UNCHANGED seen
    BY <2>0, <2>5
  <2> QED BY <2>1, <2>2, <2>3, <2>4, <2>5
      DEF Next, Controller, vars, BeginStep, EndStep, FailStep, Report, ReportError, ClearPending,
          EnterError, Main, PollEnd, RewriteHistory, Unsubscribe
<1>4. /\ history \subseteq history' /\ \A i \in history' : i \in Ids /\ Kind(i) # "state"
      /\ \A n \in Ids : seen["controller"] < n /\ n <= seen'["controller"] =>
             n \in history' \/ Kind(n) = "state"
  <2> DEFINE Goal == /\ history \subseteq history' /\ \A i \in history' : i \in Ids /\ Kind(i) # "state"
                     /\ \A n \in Ids : seen["controller"] < n /\ n <= seen'["controller"] =>
                            n \in history' \/ Kind(n) = "state"
  <2>0. seen \in [Subscriber -> Nat] /\ seen["controller"] \in Nat
    BY DEF TypeOK, Subscriber
  <2>1. ASSUME NEW i \in Ids, i = seen["controller"] + 1, OnEvent(i) PROVE Goal
    <3>1. Take(i)
      BY <2>1 DEF OnEvent, HandleUserMessage, HandleAgentMessage, HandleEnd, HandleObservation,
         HandleOther
    <3>2. seen'["controller"] = i
      BY <2>0, <3>1 DEF Take, Subscriber
    <3> QED BY <1>2, <2>0, <2>1, <3>1, <3>2 DEF Take, Grounded
  <2>2. CASE UNCHANGED history /\ seen'["controller"] = seen["controller"]
    BY <1>2, <2>0, <2>2 DEF Grounded
  <2>3. CASE RunAction
    BY <2>0, <2>2, <2>3 DEF RunAction, Answer, Raise, Subscriber
  <2>4. CASE Recall
    BY <2>0, <2>2, <2>4 DEF Recall, Answer, Raise, Subscriber
  <2>5. CASE Reply
    BY <2>0, <2>2, <2>5 DEF Reply, Subscriber
  <2>6. CASE RewriteHistory
    BY <1>2, <2>0, <2>6 DEF RewriteHistory, Grounded
  <2>7. CASE UNCHANGED <<seen, history>>
    BY <2>2, <2>7
  <2> QED BY <2>1, <2>3, <2>4, <2>5, <2>6, <2>7
      DEF Next, Controller, vars, BeginStep, EndStep, FailStep,
          Report, ReportError, ClearPending, EnterError, Main, PollEnd, Unsubscribe
<1>5. NewAnswers
  <2>1. ASSUME NEW t \in Reporter, NEW i \in Ids, i > seen[t], Answer(t, i),
               Kind(i) = "run" => t = "runtime", Kind(i) = "recall" => t = "memory"
        PROVE  NewAnswers
    <3>0. i \in Nat /\ stream' = Append(stream, Observe(i))
      BY <2>1, <1>2 DEF Answer
    <3>1. New = {Newest + 1} /\ stream'[Newest + 1].cause = i
      BY <3>0, NewObserve
    <3>2. seen'[t] = i
      BY <2>1 DEF Answer, TypeOK, Reporter, Subscriber
    <3>3. i <= seen'[t] /\ seen[t] < i
      BY <2>1, <3>2, <1>2
    <3>4. i <= Newest
      BY <2>1, <1>2
    <3>5. \A c \in Ids : c = i => /\ Kind(c) = "run" => seen["runtime"] < c /\ c <= seen'["runtime"]
                                  /\ Kind(c) = "recall" => seen["memory"] < c /\ c <= seen'["memory"]
      BY <2>1, <3>3
    <3> QED BY <3>1, <3>4, <3>5 DEF NewAnswers
  <2>2. ASSUME \A k \in New : stream'[k].kind = "observation" => stream'[k].cause = 0
        PROVE  NewAnswers
    BY <2>2, <1>2 DEF NewAnswers
  <2>3. ASSUME NEW i \in Ids, OnEvent(i) PROVE NewAnswers
    <3>1. CASE HandleUserMessage(i)
      BY <2>2, <3>1, NewRecall DEF HandleUserMessage
    <3>2. CASE HandleAgentMessage(i)
      BY <2>2, <3>2, NewSetState, NewSame DEF HandleAgentMessage, AgentState
    <3>3. CASE HandleEnd(i)
      BY <2>2, <3>3, NewSetState DEF HandleEnd, AgentState
    <3>4. CASE UNCHANGED stream
      BY <2>2, <3>4, NewSame
    <3> QED BY <2>3, <3>1, <3>2, <3>3, <3>4 DEF OnEvent, HandleObservation, HandleOther
  <2>4. CASE UNCHANGED stream
    BY <2>2, <2>4, NewSame
  <2>5. CASE BeginStep
    BY <2>2, <2>5, NewSetState, NewSame DEF BeginStep, ToError, AgentState
  <2>6. CASE EndStep
    <3>1. PICK action \in AgentAction : Issue(action)
      BY <2>6, IssueOfStep
    <3>2. New = {Newest + 1} /\ stream'[Newest + 1].cause = 0
      BY <3>1, NewAct DEF Issue
    <3> QED BY <2>2, <3>2
  <2>7. CASE FailStep
    <3>1. CASE stream' = Append(stream, Observe(0))
      BY <2>2, <3>1, NewObserve
    <3>2. CASE stream' = Append(stream, Act("condense"))
      <4>1. New = {Newest + 1} /\ stream'[Newest + 1].cause = 0
        BY <3>2, NewAct
      <4> QED BY <2>2, <4>1
    <3>3. CASE ToError \/ SetState("rate_limited", <<>>)
      BY <2>2, <3>3, NewSetState DEF ToError, AgentState
    <3> QED BY <2>4, <2>7, <3>1, <3>2, <3>3 DEF FailStep
  <2>8. ASSUME NEW t \in Reporter, ReportError(t) PROVE NewAnswers
    <3>1. pending \in Nat
      BY DEF TypeOK
    <3>2. CASE stream' = Append(stream, Event("failure", pending, "none"))
      <4>1. New = {Newest + 1} /\ stream'[Newest + 1].kind = "failure"
        BY <3>1, <3>2, NewFailure
      <4> QED BY <2>2, <4>1
    <3> QED BY <2>4, <2>8, <3>2 DEF ReportError
  <2>9. ASSUME NEW t \in Reporter, EnterError(t) PROVE NewAnswers
    BY <2>2, <2>9, NewChanged DEF EnterError, AgentState
  <2>10. CASE Reply
    <3>1. PICK message \in UserMessage : stream' = Append(stream, Act(message))
      BY <2>10 DEF Reply
    <3>2. New = {Newest + 1} /\ stream'[Newest + 1].cause = 0
      BY <3>1, NewAct
    <3> QED BY <2>2, <3>2
  <2> QED BY <2>1, <2>3, <2>4, <2>5, <2>6, <2>7, <2>8, <2>9, <2>10
      DEF Next, Controller, vars, RunAction, Recall, Raise, NextOf, OfKind, Unhandled, Reporter,
          Report, ClearPending, Main, PollEnd, RewriteHistory, Unsubscribe
<1>6. Handles
  <2>0. seen["runtime"] \in Nat /\ seen \in [Subscriber -> Nat] /\ DOMAIN fault = Reporter
         /\ fault = [t \in Reporter |-> fault[t]]
    BY DEF TypeOK, Subscriber
  <2>1. CASE RunAction
    <3>1. PICK i \in NextOf("runtime", OfKind({"run", "think"})) :
              Answer("runtime", i) \/ (Kind(i) = "run" /\ Raise("runtime", i))
      BY <2>1 DEF RunAction
    <3>2. i \in Ids /\ seen'["runtime"] = i
      BY <2>0, <3>1 DEF NextOf, OfKind, Answer, Raise, Subscriber
    <3>3. ASSUME NEW n \in Ids, Kind(n) = "run", seen["runtime"] < n, n <= i PROVE n = i
      BY <3>1, <3>2, <3>3, <1>2, <2>0 DEF NextOf, OfKind, Unhandled
    <3>4. CASE Answer("runtime", i)
      <4>1. i \in Nat /\ stream' = Append(stream, Observe(i))
        BY <1>2, <3>2, <3>4 DEF Answer
      <4>2. New = {Newest + 1} /\ stream'[Newest + 1].cause = i
            /\ stream'[Newest + 1].kind = "observation"
        BY <4>1, NewObserve
      <4> QED BY <3>2, <3>3, <4>2 DEF Handles
    <3>5. CASE Raise("runtime", i)
      BY <2>0, <3>5 DEF Raise, Handles, Reporter
    <3> QED BY <3>1, <3>4, <3>5
  <2>2. CASE UNCHANGED seen
    BY <2>0, <2>2, <1>2 DEF Handles
  <2>3. CASE seen'["runtime"] = seen["runtime"]
    BY <2>0, <2>3, <1>2 DEF Handles
  <2>4. ASSUME NEW i \in Ids, OnEvent(i) PROVE Handles
    BY <2>0, <2>3, <2>4 DEF OnEvent, HandleUserMessage, HandleAgentMessage, HandleEnd,
       HandleObservation, HandleOther, Take, Subscriber
  <2>5. CASE Recall
    BY <2>0, <2>3, <2>5 DEF Recall, Answer, Raise, Subscriber
  <2>6. CASE Reply
    BY <2>0, <2>3, <2>6 DEF Reply, Subscriber
  <2> QED BY <2>1, <2>2, <2>4, <2>5, <2>6
      DEF Next, Controller, vars, BeginStep, EndStep, FailStep,
          Report, ReportError, ClearPending, EnterError, Main, PollEnd, RewriteHistory, Unsubscribe
<1>7. \A s \in Subscriber : seen'[s] \in Nat
  BY TypeStep, <1>2 DEF TypeOK
<1> QED BY <1>1, <1>3, <1>4, <1>5, <1>6, <1>7 DEF Adds

-----------------------------------------------------------------------------
(* The invariant                                                            *)

\* What a step leaves as it is.
LEMMA Stays ==
  ASSUME TypeOK, Adds
  PROVE  /\ Ids' = Ids \cup New /\ Ids = 1..Newest /\ Newest \in Nat
         /\ \A i \in New : i \in Nat /\ i > Newest
         /\ \A i \in Ids : i \in Nat /\ Kind(i)' = Kind(i) /\ stream'[i] = stream[i]
         /\ \A i \in Ids : Live(i)' => Live(i)
<1>1. /\ Ids' = Ids \cup New /\ Ids = 1..Newest /\ Newest \in Nat
      /\ \A i \in New : i \in Nat /\ i > Newest
  BY Wider DEF Adds, New, Grows
<1>2. \A i \in Ids : i \in Nat /\ Kind(i)' = Kind(i) /\ stream'[i] = stream[i]
  BY <1>1 DEF Adds, Grows, Kind
<1>3. \A s \in Subscriber : seen[s] \in Nat /\ seen'[s] \in Nat /\ seen[s] <= seen'[s]
  BY DEF Adds, TypeOK
<1> QED BY <1>1, <1>2, <1>3 DEF Live, Subscriber

LEMMA AnsweredStays ==
  ASSUME TypeOK, Adds, NEW i
  PROVE  /\ AnsweredIn(i, history) => AnsweredIn(i, history)'
         /\ AnsweredIn(i, history) => AnsweredIn(i, Ids)
BY Stays DEF AnsweredIn, Adds, TypeOK

LEMMA GroundedStep ==
  ASSUME TypeOK, Grounded, Adds
  PROVE  Grounded'
<1>0. \A s \in Subscriber : seen[s] \in Nat /\ seen'[s] \in Nat /\ seen[s] <= seen'[s]
  BY DEF Adds, TypeOK
<1>1. Newest' \in Nat /\ Newest <= Newest' /\ stream' \in Seq(EventSet)
  BY DEF Adds, Grows
<1>2. \A k \in Ids' : stream'[k] \in EventSet /\ stream'[k].cause \in Nat
  <2>1. \A k \in Ids' : stream'[k] \in EventSet
    BY <1>1 DEF Ids
  <2> QED BY <2>1 DEF EventSet
<1> USE Stays
<1>3. ASSUME NEW k \in Ids', Kind(k)' = "observation"
      PROVE  /\ stream'[k].cause <= Newest
             /\ \A i \in Ids : i = stream'[k].cause =>
                    /\ Kind(i) = "run" => i <= seen'["runtime"]
                    /\ Kind(i) = "recall" => i <= seen'["memory"]
  <2>1. CASE k \in Ids
    <3>1. Kind(k) = "observation" /\ stream'[k].cause = stream[k].cause
      BY <1>3, <2>1
    <3>2. /\ stream[k].cause <= Newest
          /\ \A i \in Ids : i = stream[k].cause =>
                 /\ Kind(i) = "run" => i <= seen["runtime"]
                 /\ Kind(i) = "recall" => i <= seen["memory"]
      BY <2>1, <3>1 DEF Grounded
    <3> QED BY <1>0, <3>1, <3>2 DEF Subscriber
  <2>2. CASE k \in New
    BY <1>3, <2>2 DEF Adds, NewAnswers, Kind
  <2> QED BY <2>1, <2>2
<1>4. \A k \in Ids' : Kind(k)' = "observation" =>
           /\ stream'[k].cause <= Newest'
           /\ \A i \in Ids' : i = stream'[k].cause =>
                  /\ Kind(i)' = "run" => i <= seen'["runtime"]
                  /\ Kind(i)' = "recall" => i <= seen'["memory"]
  BY <1>1, <1>2, <1>3
<1>5. \A i \in history' : i \in Ids' /\ Kind(i)' # "state"
  BY DEF Adds
<1> QED BY <1>4, <1>5 DEF Grounded

\* Calm goes on unless a thread raises.
LEMMA CalmStep ==
  ASSUME TypeOK, Adds, Calm, UNCHANGED fault, \A k \in New : stream'[k].kind # "failure"
  PROVE  Calm'
<1> USE Stays
<1>0. \A s \in Subscriber : seen[s] \in Nat /\ seen'[s] \in Nat /\ seen'[s] <= Newest
  BY DEF Adds, TypeOK
<1>1. \A t \in Reporter : fault'[t] = "none"
  BY DEF Calm
<1>2. \A k \in Ids' : Kind(k)' # "failure"
  BY DEF Calm, Kind
<1>3. ASSUME NEW i \in Ids', Kind(i)' = "run"
      PROVE  \/ AnsweredIn(i, history)'
             \/ Live(i)'
             \/ \E k \in Ids' : /\ k > seen'["controller"] /\ Kind(k)' = "observation"
                               /\ stream'[k].cause = i
  <2>1. CASE i \in New
    BY <1>0, <1>3, <2>1 DEF Live, Subscriber
  <2>2. CASE i \in Ids /\ AnsweredIn(i, history)
    BY <2>2, AnsweredStays
  <2>3. CASE i \in Ids /\ Live(i)
    <3>1. CASE i > seen'["runtime"]
      BY <1>3, <3>1 DEF Live
    <3>2. CASE i <= seen'["runtime"]
      <4>1. Kind(i) = "run" /\ seen["runtime"] < i
        BY <1>0, <1>3, <2>3 DEF Live, Subscriber
      <4>2. fault'["runtime"] # "raised"
        BY <1>1 DEF Reporter
      <4>3. PICK k \in New : stream'[k].kind = "observation" /\ stream'[k].cause = i
        BY <2>3, <3>2, <4>1, <4>2 DEF Adds, Handles
      <4> QED BY <1>0, <4>3 DEF Kind, Subscriber
    <3> QED BY <1>0, <2>3, <3>1, <3>2 DEF Subscriber
  <2>4. ASSUME i \in Ids,
               NEW k \in Ids, k > seen["controller"], Kind(k) = "observation", stream[k].cause = i
        PROVE  \/ AnsweredIn(i, history)'
               \/ k > seen'["controller"] /\ Kind(k)' = "observation" /\ stream'[k].cause = i
    <3>1. CASE k > seen'["controller"]
      BY <2>4, <3>1
    <3>2. CASE k <= seen'["controller"]
      <4>1. k \in history'
        BY <1>0, <2>4, <3>2 DEF Adds, Subscriber
      <4> QED BY <2>4, <4>1 DEF AnsweredIn, Observations
    <3> QED BY <1>0, <3>1, <3>2 DEF Subscriber
  <2> QED BY <1>3, <2>1, <2>2, <2>3, <2>4 DEF Calm, Runs
<1> QED BY <1>1, <1>2, <1>3 DEF Calm, Runs

\* The event whose turn it is, and what the controller takes.
LEMMA Handled ==
  ASSUME Turn, NEW i \in Ids, Live(i)
  PROVE  /\ \A k \in Ids : Live(k) => k = i
         /\ place # "llm" /\ agentState \notin EndState /\ main = "polling"
BY DEF Turn, NoneLive

LEMMA Taken ==
  ASSUME TypeOK, NEW i \in Ids, i = seen["controller"] + 1, Take(i)
  PROVE  /\ seen'["controller"] = i /\ place = "idle" /\ main' = main
         /\ \A s \in Subscriber : s # "controller" => seen'[s] = seen[s]
         /\ Kind(i) \notin {"run", "think", "recall", "state"} => Live(i) /\ (Kind(i)' = Kind(i) => ~Live(i)')
<1>1. seen \in [Subscriber -> Nat] /\ seen["controller"] \in Nat /\ "controller" \in Subscriber
  BY DEF TypeOK, Subscriber
<1>2. /\ seen'["controller"] = i /\ place = "idle" /\ main' = main
      /\ \A s \in Subscriber : s # "controller" => seen'[s] = seen[s]
  BY <1>1 DEF Take
<1> QED BY <1>1, <1>2 DEF Live

\* The controller's steps hand the turn on.
LEMMA TurnUserMessage ==
  ASSUME TypeOK, Adds, Turn, NEW i \in Ids, i = seen["controller"] + 1, HandleUserMessage(i)
  PROVE  Turn'
<1> USE Stays
<1>1. Live(i) /\ ~Live(i)' /\ main = "polling" /\ main' = main
  BY Taken, Handled DEF HandleUserMessage, UserMessage
<1>2. \A k \in Ids : ~Live(k)'
  BY <1>1, Handled
<1>3. \A k \in New : Live(k)' => k = Newest + 1 /\ Kind(k)' = "recall"
  BY NewRecall DEF HandleUserMessage, Live, Kind
<1>4. agentState' = "running" /\ place' = "check" /\ pending' = Newest + 1
  BY NewRecall DEF HandleUserMessage
<1> QED BY <1>1, <1>2, <1>3, <1>4 DEF Turn, Runs, EndState

LEMMA TurnAgentMessage ==
  ASSUME TypeOK, Adds, Turn, NEW i \in Ids, i = seen["controller"] + 1, HandleAgentMessage(i)
  PROVE  Turn'
<1> USE Stays
<1>1. Live(i) /\ ~Live(i)' /\ main = "polling" /\ main' = main /\ agentState \notin EndState
  BY Taken, Handled DEF HandleAgentMessage
<1>2. \A k \in Ids : ~Live(k)'
  BY <1>1, Handled
<1>3. \A k \in New : Kind(k)' # "run" /\ (New = {} \/ New = {Newest + 1})
  BY NewSetState, NewSame DEF HandleAgentMessage, AgentState, Kind
<1>4. agentState' \notin EndState
  BY <1>1, NewSetState DEF HandleAgentMessage, AgentState, EndState
<1>5. place' = "idle" \/ (place' = "check" /\ New = {})
  <2>1. CASE Kind(i) = "ask"
    BY <2>1, NewSetState DEF HandleAgentMessage, AgentState
  <2>2. CASE UNCHANGED stream
    BY <2>2, NewSame DEF HandleAgentMessage
  <2> QED BY <2>1, <2>2 DEF HandleAgentMessage
<1> QED BY <1>1, <1>2, <1>3, <1>4, <1>5 DEF Turn, Runs

LEMMA TurnEnd ==
  ASSUME TypeOK, Adds, Turn, NEW i \in Ids, i = seen["controller"] + 1, HandleEnd(i)
  PROVE  Turn'
<1> USE Stays
<1>1. Live(i) /\ ~Live(i)' /\ main = "polling" /\ main' = main /\ place' = "idle"
  BY Taken, Handled DEF HandleEnd
<1>2. \A k \in Ids : ~Live(k)'
  BY <1>1, Handled
<1>3. \A k \in New : ~Live(k)'
  BY NewSetState DEF HandleEnd, AgentState, Live, Kind
<1> QED BY <1>1, <1>2, <1>3 DEF Turn, NoneLive, Runs

LEMMA TurnObservation ==
  ASSUME TypeOK, Adds, Turn, NEW i \in Ids, i = seen["controller"] + 1, HandleObservation(i)
  PROVE  Turn'
<1> USE Stays
<1>1. Live(i) /\ ~Live(i)' /\ main = "polling" /\ main' = main /\ agentState \notin EndState
  BY Taken, Handled DEF HandleObservation, Observations
<1>2. New = {} /\ agentState' = agentState
  BY NewSame DEF HandleObservation
<1>3. \A k \in Ids' : ~Live(k)'
  BY <1>1, <1>2, Handled
<1> QED BY <1>1, <1>2, <1>3 DEF Turn, NoneLive, Runs

LEMMA TurnOther ==
  ASSUME TypeOK, Adds, Turn, NEW i \in Ids, i = seen["controller"] + 1, HandleOther(i)
  PROVE  Turn'
<1> USE Stays
<1>1. Ids' = Ids /\ place' = place /\ main' = main /\ agentState' = agentState /\ pending' = pending
  BY NewSame DEF HandleOther, Take
<1>2. \A k \in Ids : Live(k)' => Live(k)
  OBVIOUS
<1>3. \A k \in Ids : Kind(k)' = Kind(k)
  OBVIOUS
<1> QED BY <1>1, <1>2, <1>3 DEF Turn, NoneLive, Runs

LEMMA TurnBegin ==
  ASSUME TypeOK, Adds, Turn, BeginStep
  PROVE  Turn'
<1> USE Stays
<1>1. agentState \notin EndState /\ main = "polling" /\ main' = main /\ pending' = pending
  BY DEF BeginStep, Turn
<1>2. CASE UNCHANGED <<agentState, stream>> /\ place' = "idle"
  <2>1. Ids' = Ids
    BY <1>2, NewSame
  <2> QED BY <1>1, <1>2, <2>1 DEF Turn, Runs
<1>3. CASE pending = 0
  <2>1. \A k \in Ids : ~Live(k)'
    BY <1>3 DEF BeginStep, Turn
  <2>2. CASE UNCHANGED <<agentState, stream>>
    <3>1. Ids' = Ids
      BY <2>2, NewSame
    <3>2. place' \in {"llm", "idle"}
      BY <1>3 DEF BeginStep
    <3> QED BY <1>1, <2>1, <2>2, <3>1, <3>2 DEF Turn, Runs, NoneLive
  <2>3. CASE ToError /\ place' = "idle"
    <3>1. \A k \in New : ~Live(k)'
      BY <2>3, NewSetState DEF ToError, AgentState, Live, Kind
    <3> QED BY <1>1, <2>1, <2>3, <3>1 DEF Turn, Runs, NoneLive
  <2> QED BY <2>2, <2>3 DEF BeginStep
<1> QED BY <1>2, <1>3 DEF BeginStep

LEMMA TurnEndStep ==
  ASSUME TypeOK, Adds, Turn, EndStep
  PROVE  Turn'
<1> USE Stays
<1>1. /\ agentState \notin EndState /\ agentState' = agentState
      /\ main = "polling" /\ main' = main /\ place' = "idle"
  BY DEF EndStep, Turn
<1>2. \A k \in Ids : ~Live(k)'
  BY DEF EndStep, Turn, NoneLive
<1>3. PICK action \in AgentAction : Issue(action)
  BY IssueOfStep
<1>4. New = {Newest + 1} /\ stream'[Newest + 1].kind = action
  BY <1>3, NewAct DEF Issue
<1>5. action = "run" => pending' = Newest + 1
  BY <1>3 DEF Issue
<1>6. \A k \in New : Kind(k)' = action
  BY <1>4 DEF Kind
<1> QED BY <1>1, <1>2, <1>4, <1>5, <1>6 DEF Turn, Runs

LEMMA TurnFailStep ==
  ASSUME TypeOK, Adds, Turn, FailStep
  PROVE  Turn'
<1> USE Stays
<1>1. agentState \notin EndState /\ main = "polling" /\ main' = main /\ place' = "idle"
  BY DEF FailStep, Turn
<1>2. \A k \in Ids : ~Live(k)'
  BY DEF FailStep, Turn, NoneLive
<1>3. CASE stream' = Append(stream, Observe(0)) /\ UNCHANGED agentState
  <2>1. New = {Newest + 1} /\ stream'[Newest + 1].kind = "observation"
    BY <1>3, NewObserve
  <2> QED BY <1>1, <1>2, <1>3, <2>1 DEF Turn, Runs, Kind
<1>4. CASE stream' = Append(stream, Act("condense")) /\ UNCHANGED agentState
  <2>1. New = {Newest + 1} /\ stream'[Newest + 1].kind = "condense"
    BY <1>4, NewAct
  <2> QED BY <1>1, <1>2, <1>4, <2>1 DEF Turn, Runs, Kind
<1>5. CASE ToError \/ SetState("rate_limited", <<>>)
  <2>1. \A k \in New : ~Live(k)'
    BY <1>5, NewSetState DEF ToError, AgentState, Live, Kind
  <2> QED BY <1>1, <1>2, <2>1 DEF Turn, Runs, NoneLive
<1> QED BY <1>3, <1>4, <1>5 DEF FailStep

\* An answer and a reply hand it back to the controller.
LEMMA TurnBack ==
  ASSUME TypeOK, Adds, Turn, NEW i \in Ids, Live(i), ~Live(i)',
         New = {Newest + 1}, stream'[Newest + 1].kind # "run",
         UNCHANGED <<agentState, pending, place, main>>
  PROVE  Turn'
<1> USE Stays
<1>1. \A k \in Ids : ~Live(k)'
  BY Handled
<1>2. \A k \in New : Kind(k)' # "run"
  BY DEF Kind
<1>3. place # "llm" /\ agentState \notin EndState /\ main = "polling"
  BY Handled
<1>4. place = "check" => pending # 0
  BY DEF Turn
<1> QED BY <1>1, <1>2, <1>3, <1>4 DEF Turn, Runs

\* A raise ends it: the first failure.
LEMMA FirstFailure ==
  ASSUME TypeOK, Grounded, Adds, Single, NEW t \in Reporter, NEW i \in Ids, i > seen[t],
         (Kind(i) = "run" /\ t = "runtime") \/ (Kind(i) = "recall" /\ t = "memory"),
         Raise(t, i)
  PROVE  FailedAt(i)'
<1> USE Stays
<1>0. \A s \in Subscriber : seen[s] \in Nat
  BY DEF TypeOK
<1>1. New = {} /\ Ids' = Ids /\ stream' = stream /\ history' = history
  BY NewSame DEF Raise
<1>2. Live(i)
  BY DEF Live
<1>3. \A k \in Ids : Live(k) => k = i
  BY <1>2, Handled DEF Single
<1>4. i \in Nat /\ seen'[t] = i
  BY DEF Raise, TypeOK, Reporter, Subscriber
<1>5. \A k \in Ids : Kind(k) \in Observations => stream[k].cause # i
  BY <1>0 DEF Grounded, Single, Calm, Observations, Subscriber
<1>6. Raised(i)'
  BY <1>1, <1>4, <1>5 DEF Raised, Observations
<1>7. ASSUME NEW k \in Ids, Kind(k) = "run", k # i PROVE AnsweredIn(k, history)
  <2>1. ~Live(k)
    BY <1>3, <1>7
  <2>2. ASSUME NEW o \in Ids, o > seen["controller"], Kind(o) = "observation" PROVE FALSE
    <3>1. Live(o)
      BY <2>2 DEF Live
    <3> QED BY <1>3, <2>2, <3>1
  <2> QED BY <1>7, <2>1, <2>2 DEF Single, Calm, Runs
<1>8. \A k \in Ids' : Kind(k)' = "run" /\ k < i => AnsweredIn(k, history)'
  BY <1>1, <1>4, <1>7, AnsweredStays
<1>9. ASSUME Kind(i) = "run" PROVE Unreported(i)'
  <2>1. t = "runtime"
    BY <1>9
  <2>2. fault'["runtime"] = "raised" /\ fault'["memory"] = "none"
    BY <2>1 DEF Raise, Single, Calm, Reporter, TypeOK
  <2>3. \A k \in Ids : ~Live(k)'
    BY <1>1, <1>3, <1>4, <1>9, <2>1 DEF Live
  <2>4. place \in {"idle", "check"}
    BY <1>2, Handled DEF Single, TypeOK
  <2>5. place = "idle" /\ pending = i /\ agentState \notin EndState /\ main = "polling"
    BY <1>2, <1>9, <2>4, Handled DEF Single, Turn, Runs
  <2>6. ~AnsweredIn(i, Ids)'
    BY <1>1, <1>5 DEF AnsweredIn
  <2>7. NoneLive'
    BY <1>1, <2>3 DEF NoneLive
  <2>8. place' = place /\ pending' = pending /\ agentState' = agentState /\ main' = main
    BY DEF Raise
  <2> QED BY <2>2, <2>5, <2>6, <2>7, <2>8 DEF Unreported
<1> QED BY <1>1, <1>6, <1>8, <1>9 DEF FailedAt, Runs

LEMMA SingleStep ==
  ASSUME TypeOK, Grounded, Adds, Single, [Next]_vars
  PROVE  Single' \/ \E j \in Ids : FailedAt(j)'
<1> USE Stays
<1>0. TypeOK /\ Turn /\ Calm
  BY DEF Single
<1>1. ASSUME NEW i \in Ids, i = seen["controller"] + 1, OnEvent(i) PROVE Single'
  <2>1. Turn'
    BY <1>0, <1>1, TurnUserMessage, TurnAgentMessage, TurnEnd, TurnObservation, TurnOther DEF OnEvent
  <2>2. \A k \in New : stream'[k].kind # "failure"
    <3>1. CASE HandleUserMessage(i)
      BY <3>1, NewRecall DEF HandleUserMessage
    <3>2. CASE UNCHANGED stream
      BY <3>2, NewSame
    <3>3. CASE SetState("awaiting", <<>>) \/ HandleEnd(i)
      BY <3>3, NewSetState DEF HandleEnd, AgentState
    <3> QED BY <1>1, <3>1, <3>2, <3>3
            DEF OnEvent, HandleAgentMessage, HandleObservation, HandleOther
  <2>3. UNCHANGED fault
    BY <1>1 DEF OnEvent, HandleUserMessage, HandleAgentMessage, HandleEnd, HandleObservation,
       HandleOther, Take
  <2> QED BY <1>0, <2>1, <2>2, <2>3, CalmStep DEF Single
<1>2. CASE BeginStep
  <2>1. \A k \in New : stream'[k].kind # "failure"
    BY <1>2, NewSetState, NewSame DEF BeginStep, ToError, AgentState
  <2> QED BY <1>0, <1>2, <2>1, TurnBegin, CalmStep DEF Single, BeginStep
<1>3. CASE EndStep
  <2>1. PICK action \in AgentAction : Issue(action)
    BY <1>3, IssueOfStep
  <2>2. \A k \in New : stream'[k].kind = action
    BY <2>1, NewAct DEF Issue
  <2> QED BY <1>0, <1>3, <2>2, TurnEndStep, CalmStep DEF Single, EndStep, AgentAction
<1>4. CASE FailStep
  <2>1. CASE stream' = Append(stream, Observe(0))
    <3>1. \A k \in New : stream'[k].kind = "observation"
      BY <2>1, NewObserve
    <3> QED BY <1>0, <1>4, <3>1, TurnFailStep, CalmStep DEF Single, FailStep
  <2>2. CASE stream' = Append(stream, Act("condense"))
    <3>1. \A k \in New : stream'[k].kind = "condense"
      BY <2>2, NewAct
    <3> QED BY <1>0, <1>4, <3>1, TurnFailStep, CalmStep DEF Single, FailStep
  <2>3. CASE ToError \/ SetState("rate_limited", <<>>)
    <3>1. \A k \in New : stream'[k].kind = "state"
      BY <2>3, NewSetState DEF ToError, AgentState
    <3> QED BY <1>0, <1>4, <3>1, TurnFailStep, CalmStep DEF Single, FailStep
  <2> QED BY <1>4, <2>1, <2>2, <2>3 DEF FailStep
<1>5. ASSUME NEW t \in Reporter, NEW i \in Ids, i > seen[t], Live(i), Answer(t, i),
             (Kind(i) \in {"run", "think"} /\ t = "runtime") \/ (Kind(i) = "recall" /\ t = "memory")
      PROVE  Single'
  <2>1. i \in Nat /\ stream' = Append(stream, Observe(i)) /\ seen'[t] = i
    BY <1>5 DEF Answer, TypeOK, Reporter, Subscriber
  <2>2. New = {Newest + 1} /\ stream'[Newest + 1].kind = "observation"
    BY <2>1, NewObserve
  <2>3. ~Live(i)'
    BY <1>5, <2>1 DEF Live
  <2> QED BY <1>0, <1>5, <2>2, <2>3, TurnBack, CalmStep DEF Single, Answer
<1>6. CASE RunAction
  <2>1. PICK i \in NextOf("runtime", OfKind({"run", "think"})) :
            Answer("runtime", i) \/ (Kind(i) = "run" /\ Raise("runtime", i))
    BY <1>6 DEF RunAction
  <2>2. i \in Ids /\ i > seen["runtime"] /\ Kind(i) \in {"run", "think"} /\ "runtime" \in Reporter
    BY DEF NextOf, OfKind, Unhandled, Reporter
  <2>3. Live(i)
    BY <2>2 DEF Live
  <2> QED BY <1>5, <2>1, <2>2, <2>3, FirstFailure
<1>7. CASE Recall
  <2>1. PICK i \in NextOf("memory", OfKind({"recall"})) : Answer("memory", i) \/ Raise("memory", i)
    BY <1>7 DEF Recall
  <2>2. i \in Ids /\ i > seen["memory"] /\ Kind(i) = "recall" /\ "memory" \in Reporter
    BY DEF NextOf, OfKind, Unhandled, Reporter
  <2>3. Live(i)
    BY <2>2 DEF Live
  <2> QED BY <1>5, <2>1, <2>2, <2>3, FirstFailure
<1>8. ASSUME NEW t \in Reporter, Report(t) PROVE FALSE
  BY <1>0, <1>8 DEF Calm, Report, ReportError, ClearPending, EnterError
<1>9. CASE Reply
  <2>1. PICK i \in NextOf("main", AwaitingUser), message \in UserMessage :
            /\ seen' = [seen EXCEPT !["main"] = i]
            /\ stream' = Append(stream, Act(message))
    BY <1>9 DEF Reply
  <2>2. i \in Ids /\ i > seen["main"] /\ stream[i] = Changed("awaiting")
    BY DEF NextOf, AwaitingUser, Unhandled
  <2>3. Kind(i) = "state" /\ stream[i].to = "awaiting"
    BY <2>2 DEF Kind, Changed, Event
  <2>4. seen'["main"] = i /\ i \in Nat
    BY <2>1, <2>2 DEF TypeOK, Subscriber
  <2>5. Live(i) /\ ~Live(i)'
    BY <2>2, <2>3, <2>4 DEF Live
  <2>6. New = {Newest + 1} /\ stream'[Newest + 1].kind = message
    BY <2>1, NewAct
  <2>7. message \notin {"run", "failure"}
    BY DEF UserMessage
  <2> QED BY <1>0, <1>9, <2>2, <2>5, <2>6, <2>7, TurnBack, CalmStep DEF Single, Reply
<1>10. CASE UNCHANGED <<stream, seen, agentState, pending, place, fault>> /\ (main' # main => agentState \in EndState)
  <2>1. New = {} /\ Ids' = Ids
    BY <1>10, NewSame
  <2>2. Turn'
    BY <1>0, <1>10, <2>1 DEF Turn, Runs, NoneLive
  <2> QED BY <1>0, <1>10, <2>1, <2>2, CalmStep DEF Single
<1>11. CASE Main \/ UNCHANGED vars
  BY <1>0, <1>10, <1>11 DEF Main, PollEnd, RewriteHistory, Unsubscribe, Turn, vars
<1> QED BY <1>1, <1>2, <1>3, <1>4, <1>6, <1>7, <1>8, <1>9, <1>11 DEF Next, Controller, Reporter

\* The blame stays.
LEMMA RaisedStays ==
  ASSUME TypeOK, Adds, NEW j \in Ids, Raised(j)
  PROVE  Raised(j)'
<1> USE Stays
<1>1. seen["runtime"] \in Nat /\ seen["memory"] \in Nat
  BY DEF TypeOK, Subscriber
<1>2. /\ seen'["runtime"] \in Nat /\ seen["runtime"] <= seen'["runtime"]
      /\ seen'["memory"] \in Nat /\ seen["memory"] <= seen'["memory"]
  BY DEF Adds, Subscriber
<1>3. ASSUME NEW k \in Ids', Kind(k)' = "observation", stream'[k].cause = j PROVE FALSE
  <2>1. CASE k \in Ids
    BY <1>3, <2>1 DEF Raised
  <2>2. CASE k \in New
    BY <1>1, <1>3, <2>2 DEF Adds, NewAnswers, Raised, Kind
  <2> QED BY <2>1, <2>2
<1> QED BY <1>1, <1>2, <1>3 DEF Raised

\* Before the report nothing happens but the report.
LEMMA UnreportedStep ==
  ASSUME TypeOK, Adds, NEW j \in Ids, Kind(j) = "run", Unreported(j), [Next]_vars
  PROVE  Unreported(j)' \/ Reported(j)'
<1> USE Stays
<1>1. \A i \in Ids : ~Live(i)
  BY DEF Unreported, NoneLive
<1>2. CASE UNCHANGED <<stream, seen, agentState, pending, place, fault, main>>
  <2>1. Ids' = Ids /\ New = {}
    BY <1>2, NewSame
  <2>2. NoneLive'
    BY <1>1, <2>1 DEF NoneLive
  <2>3. ~AnsweredIn(j, Ids)'
    BY <1>2, <2>1 DEF Unreported, AnsweredIn
  <2> QED BY <1>2, <2>2, <2>3 DEF Unreported
<1>3. ASSUME NEW i \in Ids, i = seen["controller"] + 1, OnEvent(i) PROVE Unreported(j)'
  <2>1. Take(i)
    BY <1>3 DEF OnEvent, HandleUserMessage, HandleAgentMessage, HandleEnd, HandleObservation,
       HandleOther
  <2>2. Kind(i) \in {"run", "think", "recall", "state"}
    BY <1>1, <1>3, <2>1, Taken
  <2>3. HandleOther(i)
    BY <1>3, <2>2 DEF OnEvent, HandleUserMessage, HandleAgentMessage, HandleEnd, HandleObservation,
       UserMessage, Observations
  <2>4. UNCHANGED <<stream, agentState, pending, place, fault, main>>
    BY <2>3 DEF HandleOther, Take
  <2>5. Ids' = Ids /\ New = {}
    BY <2>4, NewSame
  <2>6. NoneLive'
    BY <1>1, <2>5 DEF NoneLive
  <2>7. ~AnsweredIn(j, Ids)'
    BY <2>4, <2>5 DEF Unreported, AnsweredIn
  <2> QED BY <2>4, <2>6, <2>7 DEF Unreported
<1>4. ASSUME BeginStep \/ EndStep \/ FailStep PROVE FALSE
  BY <1>4 DEF BeginStep, EndStep, FailStep, Unreported
<1>5. ASSUME RunAction \/ Recall PROVE FALSE
  BY <1>1, <1>5 DEF RunAction, Recall, NextOf, OfKind, Unhandled, Live
<1>6. ASSUME Reply PROVE FALSE
  <2>1. PICK i \in NextOf("main", AwaitingUser) : TRUE
    BY <1>6 DEF Reply
  <2>2. i \in Ids /\ i > seen["main"] /\ stream[i] = Changed("awaiting")
    BY DEF NextOf, AwaitingUser, Unhandled
  <2> QED BY <1>1, <2>2 DEF Live, Kind, Changed, Event
<1>7. ASSUME Main PROVE FALSE
  BY <1>7 DEF Main, PollEnd, RewriteHistory, Unsubscribe, Unreported
<1>8. ASSUME Report("memory") PROVE FALSE
  BY <1>8 DEF Report, ReportError, ClearPending, EnterError, Unreported
<1>9. ASSUME Report("runtime") PROVE Reported(j)'
  <2>1. ReportError("runtime") /\ agentState # "error" /\ pending = j
    BY <1>9 DEF Report, ReportError, ClearPending, EnterError, Unreported, EndState
  <2>2. ~FoundObservation(pending)
    BY <2>1 DEF Unreported, FoundObservation, AnsweredIn, TypeOK
  <2>3. j # 0 /\ j \in Nat
    OBVIOUS
  <2>4. stream' = Append(stream, Event("failure", j, "none")) /\ fault' = [fault EXCEPT !["runtime"] = "clear"]
    BY <2>1, <2>2, <2>3 DEF ReportError
  <2>5. /\ New = {Newest + 1} /\ stream'[Newest + 1].kind = "failure"
        /\ stream'[Newest + 1].cause = j
    BY <2>3, <2>4, NewFailure
  <2>6. fault'["runtime"] # "raised" /\ fault'["memory"] = "none"
    BY <2>4 DEF Unreported, TypeOK, Reporter
  <2>7. place' = "idle" /\ main' = "polling" /\ seen' = seen
    BY <2>1 DEF ReportError, Unreported
  <2>8. Newest + 1 > seen'["controller"]
    BY <2>7 DEF TypeOK, Subscriber
  <2>9. \A i \in Ids' : Live(i)' => i = Newest + 1
    BY <1>1, <2>5
  <2>10. Newest + 1 \in Ids' /\ \A k \in {Newest + 1} : Kind(k)' = "failure"
    BY <2>5 DEF Kind
  <2> QED BY <2>5, <2>6, <2>7, <2>8, <2>9, <2>10 DEF Reported
<1> QED BY <1>2, <1>3, <1>4, <1>5, <1>6, <1>7, <1>8, <1>9 DEF Next, Controller, vars

\* After it the controller comes to the observation, or the history is rewritten.
LEMMA ReportedStep ==
  ASSUME TypeOK, Adds, NEW j \in Ids, Reported(j), [Next]_vars
  PROVE  Reported(j)' \/ AnsweredIn(j, history)'
<1> USE Stays
<1>1. PICK k \in Ids : /\ Kind(k) = "failure" /\ stream[k].cause = j /\ k > seen["controller"]
                       /\ \A i \in Ids : Live(i) => i = k
  BY DEF Reported
<1>2. ASSUME \A i \in New : ~Live(i)', k > seen'["controller"], place' = "idle",
             main' \in {"polling", "ended"},
             fault'["runtime"] # "raised", fault'["memory"] = "none"
      PROVE  Reported(j)'
  <2>1. \A i \in Ids' : Live(i)' => i = k
    BY <1>1, <1>2
  <2>2. k \in Ids' /\ Kind(k)' = "failure" /\ stream'[k].cause = j
    BY <1>1
  <2> QED BY <1>2, <2>1, <2>2 DEF Reported
<1>3. CASE UNCHANGED <<stream, seen, place, fault>> /\ main' \in {"polling", "ended"}
  BY <1>1, <1>2, <1>3, NewSame DEF Reported
<1>4. ASSUME NEW i \in Ids, i = seen["controller"] + 1, OnEvent(i)
      PROVE  Reported(j)' \/ AnsweredIn(j, history)'
  <2>1. Take(i)
    BY <1>4 DEF OnEvent, HandleUserMessage, HandleAgentMessage, HandleEnd, HandleObservation,
       HandleOther
  <2>2. CASE i = k
    BY <1>1, <2>1, <2>2 DEF AnsweredIn, Take, Observations
  <2>3. CASE i # k
    <3>1. Kind(i) \in {"run", "think", "recall", "state"}
      BY <1>1, <1>4, <2>1, <2>3, Taken
    <3>2. HandleOther(i)
      BY <1>4, <3>1 DEF OnEvent, HandleUserMessage, HandleAgentMessage, HandleEnd,
         HandleObservation, UserMessage, Observations
    <3>3. UNCHANGED <<stream, place, fault, main>> /\ seen'["controller"] = i
      BY <1>4, <2>1, <3>2, Taken DEF HandleOther, Take
    <3>4. k > i
      <4>1. seen["controller"] \in Nat /\ k \in Nat
        BY DEF TypeOK, Subscriber
      <4> QED BY <1>1, <1>4, <2>3, <4>1
    <3>5. New = {}
      BY <3>3, NewSame
    <3> QED BY <1>2, <3>3, <3>4, <3>5 DEF Reported
  <2> QED BY <2>2, <2>3
<1>5. ASSUME BeginStep \/ EndStep \/ FailStep PROVE FALSE
  BY <1>5 DEF BeginStep, EndStep, FailStep, Reported
<1>6. ASSUME RunAction \/ Recall PROVE FALSE
  BY <1>1, <1>6 DEF RunAction, Recall, NextOf, OfKind, Unhandled, Live
<1>7. ASSUME Reply PROVE FALSE
  <2>1. PICK i \in NextOf("main", AwaitingUser) : TRUE
    BY <1>7 DEF Reply
  <2>2. i \in Ids /\ i > seen["main"] /\ stream[i] = Changed("awaiting")
    BY DEF NextOf, AwaitingUser, Unhandled
  <2>3. Kind(i) = "state" /\ Live(i)
    BY <2>2 DEF Live, Kind, Changed, Event
  <2> QED BY <1>1, <2>2, <2>3
<1>8. CASE Main
  <2>1. CASE RewriteHistory
    <3>1. k \in history'
      BY <1>1, <2>1 DEF RewriteHistory
    <3> QED BY <1>1, <3>1 DEF AnsweredIn, Observations
  <2>2. CASE PollEnd
    BY <1>3, <2>2 DEF PollEnd
  <2> QED BY <1>8, <2>1, <2>2 DEF Main, Unsubscribe, Reported
<1>9. ASSUME Report("memory") PROVE FALSE
  BY <1>9 DEF Report, ReportError, ClearPending, EnterError, Reported
<1>10. CASE Report("runtime")
  <2>1. ClearPending("runtime") \/ EnterError("runtime")
    BY <1>10 DEF Report, ReportError, Reported
  <2>2. /\ seen' = seen /\ place' = "idle" /\ main' \in {"polling", "ended"}
        /\ fault'["runtime"] # "raised" /\ fault'["memory"] = "none"
    BY <2>1 DEF ClearPending, EnterError, Reported, TypeOK, Reporter
  <2>3. \A i \in New : ~Live(i)'
    <3>1. CASE ClearPending("runtime")
      BY <3>1, NewSame DEF ClearPending
    <3>2. CASE EnterError("runtime")
      <4>1. New = {Newest + 1} /\ stream'[Newest + 1].kind = "state" /\ stream'[Newest + 1].to = "error"
        BY <3>2, NewChanged DEF EnterError, AgentState
      <4> QED BY <4>1 DEF Live, Kind
    <3> QED BY <2>1, <3>1, <3>2
  <2> QED BY <1>1, <1>2, <2>2, <2>3
<1> QED BY <1>3, <1>4, <1>5, <1>6, <1>7, <1>8, <1>9, <1>10 DEF Next, Controller, vars, Reported

LEMMA FailedStep ==
  ASSUME TypeOK, Adds, NEW j \in Ids, FailedAt(j), [Next]_vars
  PROVE  FailedAt(j)'
<1> USE Stays
<1>1. Raised(j)'
  BY RaisedStays DEF FailedAt
<1>2. \A i \in Ids' : Kind(i)' = "run" /\ i < j => AnsweredIn(i, history)'
  BY AnsweredStays DEF FailedAt, Runs
<1>3. Kind(j) = "run" => AnsweredIn(j, history)' \/ Unreported(j)' \/ Reported(j)'
  BY AnsweredStays, UnreportedStep, ReportedStep DEF FailedAt
<1> QED BY <1>1, <1>2, <1>3 DEF FailedAt, Runs

-----------------------------------------------------------------------------
(* The theorems                                                             *)

LEMMA ControlledInit == Init => Controlled
<1> SUFFICES ASSUME Init PROVE Controlled
  OBVIOUS
<1> USE ControllerAssumption
<1>1. Act("task") \in EventSet /\ Act("task").kind = "task"
  <2>1. Act("task") \in EventSet
    BY EventTypes DEF UserMessage
  <2> QED BY <2>1 DEF Act, Event
<1>2. stream \in Seq(EventSet) /\ Newest = 1 /\ Ids = {1} /\ stream[1].kind = "task"
  BY <1>1 DEF Init, Newest, Ids
<1>3. TypeOK
  BY <1>2 DEF Init, TypeOK, EventSet, AgentState, Ids
<1>4. Grounded
  BY <1>2 DEF Init, Grounded, Kind
<1>5. Calm
  BY <1>2 DEF Init, Calm, Runs, Kind
<1>6. Turn
  BY <1>2 DEF Init, Turn, Runs, Kind, EndState
<1> QED BY <1>3, <1>4, <1>5, <1>6 DEF Controlled, Single

LEMMA ControlledStep == Controlled /\ [Next]_vars => Controlled'
<1> SUFFICES ASSUME Controlled, [Next]_vars PROVE Controlled'
  OBVIOUS
<1>1. TypeOK /\ Grounded /\ Adds /\ TypeOK'
  BY AddsStep, TypeStep DEF Controlled
<1>2. Grounded' /\ Ids \subseteq Ids'
  BY <1>1, GroundedStep, Stays
<1>3. CASE Single
  BY <1>1, <1>2, <1>3, SingleStep DEF Controlled
<1>4. ASSUME NEW j \in Ids, FailedAt(j) PROVE Controlled'
  BY <1>1, <1>2, <1>4, FailedStep DEF Controlled
<1> QED BY <1>3, <1>4 DEF Controlled

LEMMA AlwaysControlled == Spec => []Controlled
<1> QED BY ControlledInit, ControlledStep, PTL DEF Spec

\* Types of all variables: the stream, what each subscriber has handled of it, the
\* history and the pending action are within it, and the limit of iterations holds.
THEOREM TypeCorrect == Spec => []TypeOK
<1>1. Controlled => TypeOK
  BY DEF Controlled
<1> QED BY <1>1, AlwaysControlled, PTL

\* At every call of the model each runnable action has its observation in the history,
\* except for actions issued after the failure of an earlier event.
THEOREM StepsAnswered == Spec => []AnswersBeforeStep
<1>1. Controlled => AnswersBeforeStep
  <2> SUFFICES ASSUME Controlled, place = "llm", NEW i \in Ids, Kind(i) = "run"
               PROVE  AnsweredIn(i, history) \/ \E j \in Ids : j < i /\ Raised(j)
    BY DEF AnswersBeforeStep, Runs
  <2>0. \A n \in Ids : n \in Nat
    BY DEF Ids
  <2>1. CASE Single
    <3>1. ~Live(i)
      BY <2>1 DEF Single, Turn, NoneLive
    <3>2. ASSUME NEW k \in Ids, k > seen["controller"], Kind(k) = "observation" PROVE FALSE
      <4>1. Live(k)
        BY <3>2 DEF Live
      <4> QED BY <2>1, <4>1 DEF Single, Turn, NoneLive
    <3> QED BY <2>1, <3>1, <3>2 DEF Single, Calm, Runs
  <2>2. ASSUME NEW j \in Ids, FailedAt(j)
        PROVE  AnsweredIn(i, history) \/ (j < i /\ Raised(j))
    <3>1. i < j \/ i = j \/ j < i
      BY <2>0
    <3>2. Raised(j) /\ (i < j => AnsweredIn(i, history))
      BY <2>2 DEF FailedAt, Runs
    <3>3. i = j => AnsweredIn(i, history)
      BY <2>2 DEF FailedAt, Unreported, Reported
    <3> QED BY <3>1, <3>2, <3>3
  <2> QED BY <2>1, <2>2 DEF Controlled
<1> QED BY <1>1, AlwaysControlled, PTL

\* The history that is handed on lacks an observation only of actions issued after the
\* failure of an earlier event.
THEOREM HandedOnAnswered == Spec => []UnansweredAfterFailure
<1>1. Controlled => UnansweredAfterFailure
  <2> SUFFICES ASSUME Controlled, main \in {"rewritten", "closed"}, NEW i \in history, Kind(i) = "run"
               PROVE  AnsweredIn(i, history) \/ \E j \in Ids : j < i /\ Raised(j)
    BY DEF UnansweredAfterFailure, Runs
  <2>0. (\A n \in Ids : n \in Nat) /\ i \in Ids
    BY DEF Ids, Controlled, Grounded
  <2>1. CASE Single
    <3>1. ~Live(i)
      BY <2>0, <2>1 DEF Single, Turn, NoneLive
    <3>2. ASSUME NEW k \in Ids, k > seen["controller"], Kind(k) = "observation" PROVE FALSE
      <4>1. Live(k)
        BY <3>2 DEF Live
      <4> QED BY <2>1, <4>1 DEF Single, Turn, NoneLive
    <3> QED BY <2>0, <2>1, <3>1, <3>2 DEF Single, Calm, Runs
  <2>2. ASSUME NEW j \in Ids, FailedAt(j)
        PROVE  AnsweredIn(i, history) \/ (j < i /\ Raised(j))
    <3>1. i < j \/ i = j \/ j < i
      BY <2>0
    <3>2. Raised(j) /\ (i < j => AnsweredIn(i, history))
      BY <2>0, <2>2 DEF FailedAt, Runs
    <3>3. i = j => AnsweredIn(i, history)
      BY <2>2 DEF FailedAt, Unreported, Reported
    <3> QED BY <3>1, <3>2, <3>3
  <2> QED BY <2>1, <2>2 DEF Controlled
<1> QED BY <1>1, AlwaysControlled, PTL
=============================================================================
