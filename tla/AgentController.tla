--------------------------- MODULE AgentController ---------------------------
(***************************************************************************)
(* One agent run without a user: run_controller (openhands/core/main.py)   *)
(* with its polling loop (core/loop.py), the AgentController               *)
(* (openhands/controller/agent_controller.py), and what the runtime        *)
(* (runtime/base.py) and the memory (memory/memory.py) do with events.     *)
(*                                                                         *)
(* Each subscriber of the event stream has a thread and gets the events in *)
(* the order of the stream (EventDispatch.InOrder).  The threads share the *)
(* controller: an exception in the runtime's or the memory's thread sets   *)
(* its state to ERROR from there, in several steps.                        *)
(*                                                                         *)
(* Left out: delegates, confirmation mode, replay, the budget, and a user  *)
(* who interferes while the agent runs.                                    *)
(***************************************************************************)
EXTENDS Naturals, Sequences, FiniteSetsExt

CONSTANTS MaxIterations,  \* state.max_iterations
          Response        \* what the language model may answer: sequences of actions

\* The actions of the agent: a runnable one, a thought, a message that waits for an
\* answer and one that does not, the end.
AgentAction == {"run", "think", "ask", "say", "finish", "reject"}

ASSUME ControllerAssumption ==
    /\ MaxIterations \in Nat
    /\ Response \subseteq Seq(AgentAction) \ {<<>>}

VARIABLES
    stream,      \* the events of the event stream; an id is an index
    seen,        \* seen[s]: the last event that subscriber s has handled
    history,     \* state.history, as the set of the ids of its events
    agentState,  \* state.agent_state
    pending,     \* _pending_action, as id; 0 for None
    iteration,   \* state.iteration
    place,       \* where the controller's thread is in _on_event
    queue,       \* the agent's pending_actions
    fault,       \* fault[t]: where thread t is in setting the state to ERROR
    main         \* where run_controller is

vars == <<stream, seen, history, agentState, pending, iteration, place, queue, fault, main>>

Subscriber == {"controller", "runtime", "memory", "main"}
Reporter == {"runtime", "memory"}
AgentState == {"loading", "running", "awaiting", "finished", "rejected", "error",
               "rate_limited"}
EndState == {"finished", "rejected", "error"}
UserMessage == {"task", "exit"}    \* "exit": the message /exit

\* Observations and state changes have a cause and a state.  "failure" is the
\* ErrorObservation of _reset.
Event(kind, cause, to) == [kind |-> kind, cause |-> cause, to |-> to]
Act(kind) == Event(kind, 0, "none")
Observe(cause) == Event("observation", cause, "none")
Changed(to) == Event("state", 0, to)
Observations == {"observation", "failure"}

Ids == 1..Len(stream)
Newest == Len(stream)
Kind(i) == stream[i].kind
Unhandled(s) == {i \in Ids : i > seen[s]}

Init ==
    /\ stream = <<Act("task")>>
    /\ seen = [s \in Subscriber |-> 0]
    /\ history = {}
    /\ agentState = "loading"
    /\ pending = 0
    /\ iteration = 0
    /\ place = "idle"
    /\ queue = <<>>
    /\ fault = [t \in Reporter |-> "none"]
    /\ main = "polling"

-----------------------------------------------------------------------------
(* The controller's thread: on_event                                        *)

\* set_agent_state_to, except for ERROR: the state, and the event it emits.
SetState(to, events) ==
    /\ agentState' = to
    /\ stream' = stream \o events
                 \o (IF to = agentState THEN <<>> ELSE <<Changed(to)>>)

Take(i) ==
    /\ place = "idle"
    /\ main # "closed"
    /\ seen' = [seen EXCEPT !["controller"] = i]
    /\ history' = IF Kind(i) = "state" THEN history ELSE history \cup {i}
    /\ UNCHANGED <<iteration, queue, fault, main>>

\* A message of the user: the recall is pending before it is published, and the
\* message itself asks for a step.
HandleUserMessage(i) ==
    /\ Take(i)
    /\ Kind(i) \in UserMessage
    /\ SetState("running", <<Act("recall")>>)
    /\ pending' = Newest + 1
    /\ place' = "check"

\* A message of the agent: one that waits stops the agent, one that does not lets it
\* go on.
HandleAgentMessage(i) ==
    /\ Take(i)
    /\ Kind(i) \in {"ask", "say"}
    /\ IF Kind(i) = "ask" THEN SetState("awaiting", <<>>)
       ELSE UNCHANGED <<agentState, stream>>
    /\ place' = IF agentState' = "awaiting" THEN "idle" ELSE "check"
    /\ UNCHANGED pending

HandleEnd(i) ==
    /\ Take(i)
    /\ Kind(i) \in {"finish", "reject"}
    /\ SetState(IF Kind(i) = "finish" THEN "finished" ELSE "rejected", <<>>)
    /\ UNCHANGED <<pending, place>>

\* An observation clears the pending action that it answers, and asks for a step
\* whether it answers it or not; so does a condensation.
HandleObservation(i) ==
    /\ Take(i)
    /\ Kind(i) \in Observations \cup {"condense"}
    /\ pending' = IF Kind(i) # "condense" /\ stream[i].cause = pending THEN 0 ELSE pending
    /\ place' = "check"
    /\ UNCHANGED <<agentState, stream>>

HandleOther(i) ==
    /\ Take(i)
    /\ Kind(i) \in {"run", "think", "recall", "state"}
    /\ UNCHANGED <<agentState, stream, pending, place>>

\* set_agent_state_to(ERROR) in the controller's own thread, where nothing is pending.
ToError == SetState("error", <<>>)

\* _step up to the call of the agent.
BeginStep_ignoresPending ==
    /\ place = "check"
    /\ IF agentState # "running"
       THEN /\ place' = "idle"
            /\ UNCHANGED <<iteration, agentState, stream>>
       ELSE \/ /\ iteration < MaxIterations
               /\ iteration' = iteration + 1
               /\ place' = "llm"
               /\ UNCHANGED <<agentState, stream>>
            \/ /\ ToError
               /\ place' = "idle"
               /\ UNCHANGED iteration
    /\ UNCHANGED <<seen, history, pending, queue, fault, main>>
\* The agent is called, unless the run is at its limit or found to be stuck in a loop.
BeginStep ==
    /\ place = "check"
    /\ IF agentState # "running" \/ pending # 0
       THEN /\ place' = "idle"
            /\ UNCHANGED <<iteration, agentState, stream>>
       ELSE \/ /\ iteration < MaxIterations
               /\ iteration' = iteration + 1
               /\ place' = "llm"
               /\ UNCHANGED <<agentState, stream>>
            \/ /\ ToError
               /\ place' = "idle"
               /\ UNCHANGED iteration
    /\ UNCHANGED <<seen, history, pending, queue, fault, main>>

Exiting ==
    LET messages == {i \in history : Kind(i) \in UserMessage} IN
    messages # {} /\ Kind(Max(messages)) = "exit"

\* agent.step returns an action: a queued one, the end after /exit, or the first of
\* those of a new answer.  A runnable action is pending before it is published.
Issue(action) ==
    /\ stream' = Append(stream, Act(action))
    /\ pending' = IF action = "run" THEN Newest + 1 ELSE pending
EndStep ==
    /\ place = "llm"
    /\ IF queue # <<>> THEN Issue(Head(queue)) /\ queue' = Tail(queue)
       ELSE IF Exiting THEN Issue("finish") /\ UNCHANGED queue
       ELSE \E r \in Response : Issue(Head(r)) /\ queue' = Tail(r)
    /\ place' = "idle"
    /\ UNCHANGED <<seen, history, agentState, iteration, fault, main>>

\* The answer is malformed, the context is too long, the call fails, or its rate is
\* limited.
FailStep_silent ==
    /\ place = "llm"
    /\ queue = <<>> /\ ~Exiting
    /\ \/ UNCHANGED <<stream, agentState>>
       \/ stream' = Append(stream, Act("condense")) /\ UNCHANGED agentState
       \/ ToError
       \/ SetState("rate_limited", <<>>)
    /\ place' = "idle"
    /\ UNCHANGED <<seen, history, pending, iteration, queue, fault, main>>
FailStep ==
    /\ place = "llm"
    /\ queue = <<>> /\ ~Exiting
    /\ \/ stream' = Append(stream, Observe(0)) /\ UNCHANGED agentState
       \/ stream' = Append(stream, Act("condense")) /\ UNCHANGED agentState
       \/ ToError
       \/ SetState("rate_limited", <<>>)
    /\ place' = "idle"
    /\ UNCHANGED <<seen, history, pending, iteration, queue, fault, main>>

-----------------------------------------------------------------------------
(* The threads of the runtime, the memory and the user                      *)

\* The next event that subscriber s does something with, of those it may.
NextOf(s, events) == {i \in Unhandled(s) \cap events :
                          \A j \in Unhandled(s) \cap events : i <= j}
OfKind(kinds) == {i \in Ids : Kind(i) \in kinds}
AwaitingUser == {i \in Ids : stream[i] = Changed("awaiting")}

\* Thread t has run an action or recalled knowledge, and observes it or has raised.
Answer(t, i) ==
    /\ fault[t] = "none"
    /\ seen' = [seen EXCEPT ![t] = i]
    /\ stream' = Append(stream, Observe(i))
    /\ UNCHANGED <<history, agentState, pending, iteration, place, queue, fault, main>>
Raise(t, i) ==
    /\ fault[t] = "none"
    /\ seen' = [seen EXCEPT ![t] = i]
    /\ fault' = [fault EXCEPT ![t] = "raised"]
    /\ UNCHANGED <<stream, history, agentState, pending, iteration, place, queue, main>>

RunAction == \E i \in NextOf("runtime", OfKind({"run", "think"})) :
                 Answer("runtime", i) \/ (Kind(i) = "run" /\ Raise("runtime", i))
Recall == \E i \in NextOf("memory", OfKind({"recall"})) : Answer("memory", i) \/ Raise("memory", i)

\* Is there an observation with the tool call metadata of action p in the history?
\* A recall has none, and neither has what observes it.
FoundObservation(p) ==
    \E i \in history :
        /\ Kind(i) \in Observations
        /\ \/ stream[i].cause = p
           \/ /\ Kind(p) = "recall"
              /\ stream[i].cause = 0 \/ Kind(stream[i].cause) = "recall"

\* set_agent_state_to(ERROR) in thread t, up to the add_event of _reset.  The memory
\* has posted the report to its own event loop, which runs again for its next event.
ReportError_noObservation(t) ==
    /\ fault[t] = "raised"
    /\ t = "memory" => Unhandled(t) # {}
    /\ fault' = [fault EXCEPT ![t] = IF agentState = "error" THEN "none" ELSE "clear"]
    /\ UNCHANGED <<stream, seen, history, agentState, pending, iteration, place, queue, main>>
ReportError(t) ==
    /\ fault[t] = "raised"
    /\ t = "memory" => Unhandled(t) # {}
    /\ IF agentState = "error"
       THEN fault' = [fault EXCEPT ![t] = "none"] /\ UNCHANGED stream
       ELSE /\ fault' = [fault EXCEPT ![t] = "clear"]
            /\ stream' = IF pending # 0 /\ ~FoundObservation(pending)
                         THEN Append(stream, Event("failure", pending, "none")) ELSE stream
    /\ UNCHANGED <<seen, history, agentState, pending, iteration, place, queue, main>>

\* The rest of _reset ...
ClearPending(t) ==
    /\ fault[t] = "clear"
    /\ pending' = 0
    /\ fault' = [fault EXCEPT ![t] = "state"]
    /\ UNCHANGED <<stream, seen, history, agentState, iteration, place, queue, main>>

\* ... and of set_agent_state_to.
EnterError(t) ==
    /\ fault[t] = "state"
    /\ agentState' = "error"
    /\ stream' = Append(stream, Changed("error"))
    /\ fault' = [fault EXCEPT ![t] = "none"]
    /\ UNCHANGED <<seen, history, pending, iteration, place, queue, main>>

\* The subscriber MAIN answers for the user.
Reply ==
    \E i \in NextOf("main", AwaitingUser), message \in UserMessage :
        /\ seen' = [seen EXCEPT !["main"] = i]
        /\ stream' = Append(stream, Act(message))
        /\ UNCHANGED <<history, agentState, pending, iteration, place, queue, fault, main>>

-----------------------------------------------------------------------------
(* run_controller                                                           *)

PollEnd ==
    /\ main = "polling"
    /\ agentState \in EndState
    /\ main' = "ended"
    /\ UNCHANGED <<stream, seen, history, agentState, pending, iteration, place, queue, fault>>

\* close replaces the history by what the stream has, while the threads go on ...
RewriteHistory ==
    /\ main = "ended"
    /\ history' = {i \in Ids : Kind(i) # "state"}
    /\ main' = "rewritten"
    /\ UNCHANGED <<stream, seen, agentState, pending, iteration, place, queue, fault>>

\* ... and unsubscribes the controller.
Unsubscribe ==
    /\ main = "rewritten"
    /\ main' = "closed"
    /\ UNCHANGED <<stream, seen, history, agentState, pending, iteration, place, queue, fault>>

-----------------------------------------------------------------------------
OnEvent(i) == HandleUserMessage(i) \/ HandleAgentMessage(i) \/ HandleEnd(i)
              \/ HandleObservation(i) \/ HandleOther(i)
Controller == (\E i \in Ids \cap {seen["controller"] + 1} : OnEvent(i)) \/ BeginStep \/ EndStep \/ FailStep
Report(t) == ReportError(t) \/ ClearPending(t) \/ EnterError(t)
Main == PollEnd \/ RewriteHistory \/ Unsubscribe

Next == Controller \/ RunAction \/ Recall \/ Report("runtime") \/ Report("memory")
        \/ Reply \/ Main

\* Every thread runs; the model, the runtime and the memory answer or raise.
Fairness ==
    /\ WF_vars(Controller) /\ WF_vars(RunAction) /\ WF_vars(Recall)
    /\ WF_vars(Report("runtime")) /\ WF_vars(Report("memory"))
    /\ WF_vars(Reply) /\ WF_vars(Main)

Spec == Init /\ [][Next]_vars /\ Fairness

-----------------------------------------------------------------------------
(* Properties                                                               *)

\* Types of all variables.
TypeOK ==
    /\ stream \in Seq([kind : AgentAction \cup UserMessage \cup Observations
                                \cup {"recall", "condense", "state"},
                       cause : Nat, to : AgentState \cup {"none"}])
    /\ seen \in [Subscriber -> 0..Newest]
    /\ history \subseteq Ids
    /\ agentState \in AgentState
    /\ pending \in 0..Newest
    /\ iteration \in 0..MaxIterations
    /\ place \in {"idle", "check", "llm"}
    /\ queue \in Seq(AgentAction)
    /\ fault \in [Reporter -> {"none", "raised", "clear", "state"}]
    /\ main \in {"polling", "ended", "rewritten", "closed"}

AnsweredIn(i, ids) == \E j \in ids : Kind(j) \in Observations /\ stream[j].cause = i
Runs(ids) == {i \in ids : Kind(i) = "run"}

\* The thread that handled event i has raised instead of observing it.
Raised(i) ==
    /\ \/ Kind(i) = "run" /\ i <= seen["runtime"]
       \/ Kind(i) = "recall" /\ i <= seen["memory"]
    /\ ~ \E j \in Ids : Kind(j) = "observation" /\ stream[j].cause = i

\* The agent is never asked for its next action while a runnable one that it has issued
\* lacks an observation in its history, also while another thread resets the
\* controller: except for an action issued after the failure of an earlier event, whose
\* report may let the controller pass before the state is ERROR.
AnswersBeforeStep ==
    place = "llm" =>
        \A i \in Runs(Ids) :
            AnsweredIn(i, history) \/ \E j \in Ids : j < i /\ Raised(j)

\* A runnable action of the history that is handed on after the run lacks an observation
\* only if it was issued after the failure of an earlier event: the failure of the action
\* itself, and the end of the run while it executes, leave it with one.
UnansweredAfterFailure ==
    main \in {"rewritten", "closed"} =>
        \A i \in Runs(history) :
            AnsweredIn(i, history) \/ \E j \in Ids : j < i /\ Raised(j)

\* Every run ends and is closed, unless the rate of the model is limited, which is no
\* end state of the polling loop, or the memory has posted the report of a failure to
\* its own event loop and gets no further event that would run it.
EndsUnlessUnreported ==
    \/ <>(main = "closed" \/ agentState = "rate_limited")
    \/ <>[](fault["memory"] = "raised")
=============================================================================
