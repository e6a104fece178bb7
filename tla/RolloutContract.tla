--------------------------- MODULE RolloutContract ---------------------------
(***************************************************************************)
(* What one call of CodeActAgentGroup.generate_trajectories_pipeline       *)
(* (verl/workers/agentic/codeact.py) promises its caller, with the queues, *)
(* tasks and budgets of the implementation left out: every trajectory is   *)
(* settled exactly once, by an initialization error, a run error or a      *)
(* finished run; only a finished run is evaluated, once; and the call      *)
(* returns only when every trajectory is settled, which is the assertion   *)
(* at the head of _convert_results_to_dataproto.                           *)
(***************************************************************************)
CONSTANT Item            \* the trajectories of the batch

VARIABLES results,       \* results[i]: what self.results holds for i
          returned       \* the call has returned its DataProto

vars == <<results, returned>>

Outcome == {"init_error", "run_error", "ran"}
Result == Outcome \cup {"none", "evaluated"}

Init ==
    /\ results = [i \in Item |-> "none"]
    /\ returned = FALSE

\* A trajectory gets its first and only outcome.
Settle(i) ==
    /\ ~returned
    /\ results[i] = "none"
    /\ \E o \in Outcome : results' = [results EXCEPT ![i] = o]
    /\ UNCHANGED returned

\* The evaluator adds its verdict to the result of a finished run.
Evaluate(i) ==
    /\ ~returned
    /\ results[i] = "ran"
    /\ results' = [results EXCEPT ![i] = "evaluated"]
    /\ UNCHANGED returned

\* The call returns: nothing is missing.
Return ==
    /\ ~returned
    /\ \A i \in Item : results[i] # "none"
    /\ returned' = TRUE
    /\ UNCHANGED results

Next ==
    \/ \E i \in Item : Settle(i) \/ Evaluate(i)
    \/ Return

Spec == Init /\ [][Next]_vars
=============================================================================
