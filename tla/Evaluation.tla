------------------------------ MODULE Evaluation ------------------------------
(***************************************************************************)
(* How one trajectory gets its verdict: _evaluate_agent and what it calls  *)
(* in verl/workers/agentic/codeact.py (_apply_patch_and_evaluate,          *)
(* _reset_evaluator_workspace), the retry loop of evaluator_validity.py,   *)
(* then what becomes of the result on its way to the trainer:              *)
(* fill_empty_trajectory_messages, _convert_results_to_dataproto and       *)
(* Stage1BSWEBenchRewardManager.verify.                                    *)
(*                                                                         *)
(* The evaluator talks to a sandbox.  A command may fail without effect,   *)
(* or have its effect and lose its answer, and eval.sh runs there in the   *)
(* background, whether the evaluator still waits for it or not, changing   *)
(* the workspace meanwhile.                                                *)
(***************************************************************************)
EXTENDS Integers, Sequences, FiniteSets

CONSTANT MaxRetries   \* evaluate_patch_with_retry's max_retries

ASSUME MaxRetriesAssumption == MaxRetries \in Nat

Attempt == 1..(MaxRetries + 1)

VARIABLES
    patch,      \* the trajectory's git_patch: "none", "applies", "conflicts"
    messages,   \* whether it has messages
    step,       \* what happens next
    attempt,    \* the evaluator's attempt
    workspace,  \* /testbed: what it has beyond the image, "patch" (or part of it), "tests"
    alive,      \* the attempts whose eval.sh is running
    writers,    \* the attempts whose eval.sh has written to eval_output.log
    graded,     \* the writers of the log that was graded
    errors,     \* the exceptions met: what raised, and whether it counts as infrastructure
    result      \* the fields of the trajectory's result

sandbox == <<workspace, alive, writers>>
vars == <<patch, messages, step, attempt, sandbox, graded, errors, result>>

Steps == {"start", "create", "copy", "apply", "launch", "poll", "read", "grade",
          "reset", "convert", "verify", "done"}

\* What may raise in an attempt: the command of a step or the grading, a patch that
\* does not apply, the polling that gives up.
ErrorKind == {"copy", "apply", "launch", "poll", "read", "grade", "conflict", "timeout"}

Error == [kind: ErrorKind, infra: BOOLEAN]

\* A report with tests, a report without, no report.
Report == {"full", "degenerate", "none"}

\* reward_valid may be missing from a result; it then counts as true.
Fields == [valid: {"unset", "yes", "no"}, report: Report,
           attempts: 0..(MaxRetries + 1), infra: BOOLEAN]

\* The result comes from run_one_agent, and is evaluated; or the trajectory was
\* never initialized or run, or generate_trajectories_pipeline did not wait for
\* its evaluation, and it goes to the conversion as it is.
Init ==
    /\ patch \in {"none", "applies", "conflicts"}
    /\ messages \in BOOLEAN
    /\ messages \/ patch = "none"
    /\ step \in {"start", "convert"}
    /\ attempt = 1
    /\ workspace = {}
    /\ alive = {}
    /\ writers = {}
    /\ graded = {}
    /\ errors = <<>>
    /\ result = [valid |-> "unset", report |-> "none", attempts |-> 0, infra |-> FALSE]

-----------------------------------------------------------------------------
(* _evaluate_agent                                                          *)

Unpatched == <<patch, messages>>

\* make_test_spec raises before the try: eval_one_agent only notes the error.
SpecFails ==
    /\ step = "start"
    /\ step' = "convert"
    /\ UNCHANGED <<Unpatched, attempt, sandbox, graded, errors, result>>

NoPatch ==
    /\ step = "start"
    /\ patch = "none"
    /\ step' = "convert"
    /\ result' = [result EXCEPT !.valid = "yes"]
    /\ UNCHANGED <<Unpatched, attempt, sandbox, graded, errors>>

HasPatch ==
    /\ step = "start"
    /\ patch # "none"
    /\ step' = "create"
    /\ UNCHANGED <<Unpatched, attempt, sandbox, graded, errors, result>>

\* The except branch: setdefault, so that fields already set stay.
Failed == [result EXCEPT !.valid = IF @ = "unset" THEN "no" ELSE @, !.infra = TRUE]

\* create_runtime and runtime.connect
CreateFails ==
    /\ step = "create"
    /\ step' = "convert"
    /\ result' = Failed
    /\ UNCHANGED <<Unpatched, attempt, sandbox, graded, errors>>

Create ==
    /\ step = "create"
    /\ step' = "copy"
    /\ UNCHANGED <<Unpatched, attempt, sandbox, graded, errors, result>>

-----------------------------------------------------------------------------
(* evaluate_patch_with_retry: what follows an attempt                       *)

\* The attempt raised in k; c tells whether is_evaluator_infrastructure_error says
\* so, which for untyped exceptions depends on words of the message.
Raise_unlimited(k, c) ==
    /\ errors' = Append(errors, [kind |-> k, infra |-> c])
    /\ IF c
       THEN step' = "reset" /\ UNCHANGED result
       ELSE /\ step' = "convert"
            /\ result' = [result EXCEPT !.valid = "yes", !.attempts = attempt]
Raise_lastIsValid(k, c) ==
    /\ errors' = Append(errors, [kind |-> k, infra |-> c])
    /\ IF c /\ attempt <= MaxRetries
       THEN step' = "reset" /\ UNCHANGED result
       ELSE /\ step' = "convert"
            /\ result' = [result EXCEPT !.valid = "yes", !.attempts = attempt, !.infra = c]
Raise(k, c) ==
    /\ errors' = Append(errors, [kind |-> k, infra |-> c])
    /\ IF c /\ attempt <= MaxRetries
       THEN step' = "reset" /\ UNCHANGED result
       ELSE /\ step' = "convert"
            /\ result' = [result EXCEPT !.valid = IF c THEN "no" ELSE "yes",
                                        !.attempts = attempt,
                                        !.infra = c]

\* The attempt returned report r, or None.
Outcome_forgetsInfra(r) ==
    /\ step' = "convert"
    /\ result' = [valid |-> "yes", report |-> r, attempts |-> attempt, infra |-> FALSE]
Outcome(r) ==
    /\ step' = "convert"
    /\ result' = [valid |-> "yes", report |-> r, attempts |-> attempt,
                  infra |-> \E k \in 1..Len(errors) : errors[k].infra]

\* _reset_evaluator_workspace, which does not look for processes.
Reset_noClean ==
    /\ step = "reset"
    /\ step' = "copy"
    /\ attempt' = attempt + 1
    /\ UNCHANGED <<Unpatched, sandbox, graded, errors, result>>
Reset ==
    /\ step = "reset"
    /\ step' = "copy"
    /\ attempt' = attempt + 1
    /\ workspace' = {}
    /\ UNCHANGED <<Unpatched, alive, writers, graded, errors, result>>

\* It raises out of evaluate_patch_with_retry, into _evaluate_agent.
ResetFails ==
    /\ step = "reset"
    /\ step' = "convert"
    /\ result' = Failed
    /\ UNCHANGED <<Unpatched, attempt, sandbox, graded, errors>>

-----------------------------------------------------------------------------
(* _apply_patch_and_evaluate                                                *)

\* A command that fails, or whose answer is lost, raises; the answer to a file
\* copy, a chmod, a ps and a cat leaves nothing behind.
CommandFails(c) ==
    /\ step \in {"copy", "apply", "launch", "poll", "read"}
    /\ Raise(step, c)
    /\ UNCHANGED <<Unpatched, attempt, sandbox, graded>>

\* patch.diff, eval.sh, chmod
Copy ==
    /\ step = "copy"
    /\ step' = "apply"
    /\ UNCHANGED <<Unpatched, attempt, sandbox, graded, errors, result>>

\* git apply; failing that, patch --batch, which takes a patch that is already there
\* for a reversed one, and removes it.
Patched ==
    IF "patch" \in workspace THEN workspace \ {"patch"} ELSE workspace \cup {"patch"}

Apply ==
    /\ step = "apply"
    /\ patch = "applies"
    /\ workspace' = Patched
    /\ step' = "launch"
    /\ UNCHANGED <<Unpatched, attempt, alive, writers, graded, errors, result>>

ApplyAnswerLost(c) ==
    /\ step = "apply"
    /\ patch = "applies"
    /\ workspace' = Patched
    /\ Raise("apply", c)
    /\ UNCHANGED <<Unpatched, attempt, alive, writers, graded>>

\* APPLY_PATCH_FAIL: the message carries the output of git apply and patch, with
\* the names of the files; patch may have applied some hunks.  A patch that applies
\* to the image may be refused by a workspace that is no longer the image's.
ApplyFails(c) ==
    /\ step = "apply"
    /\ patch = "conflicts" \/ workspace # {}
    /\ workspace' \in {workspace, workspace \cup {"patch"}}
    /\ Raise("conflict", c)
    /\ UNCHANGED <<Unpatched, attempt, alive, writers, graded>>

\* eval.sh > eval_output.log &
Start == alive' = alive \cup {attempt} /\ writers' = {}

Launch ==
    /\ step = "launch"
    /\ Start
    /\ step' = "poll"
    /\ UNCHANGED <<Unpatched, attempt, workspace, graded, errors, result>>

LaunchAnswerLost(c) ==
    /\ step = "launch"
    /\ Start
    /\ Raise("launch", c)
    /\ UNCHANGED <<Unpatched, attempt, workspace, graded>>

\* ps finds the process no more.
PollDone_anyOther ==
    /\ step = "poll"
    /\ attempt \notin alive \/ Cardinality(alive) > 1
    /\ step' = "read"
    /\ UNCHANGED <<Unpatched, attempt, sandbox, graded, errors, result>>
PollDone ==
    /\ step = "poll"
    /\ attempt \notin alive
    /\ step' = "read"
    /\ UNCHANGED <<Unpatched, attempt, sandbox, graded, errors, result>>

\* seconds_elapsed > timeout
PollTimeout_never(c) ==
    /\ step = "poll"
    /\ attempt \notin alive
    /\ Raise("timeout", c)
    /\ UNCHANGED <<Unpatched, attempt, sandbox, graded>>
PollTimeout(c) ==
    /\ step = "poll"
    /\ Raise("timeout", c)
    /\ UNCHANGED <<Unpatched, attempt, sandbox, graded>>

\* cat eval_output.log
Read ==
    /\ step = "read"
    /\ graded' = writers
    /\ step' = "grade"
    /\ UNCHANGED <<Unpatched, attempt, sandbox, errors, result>>

\* cat exits with an error: the function returns None.
ReadNothing ==
    /\ step = "read"
    /\ Outcome("none")
    /\ UNCHANGED <<Unpatched, attempt, sandbox, graded, errors>>

\* get_eval_report
Grade ==
    /\ step = "grade"
    /\ \E r \in {"full", "degenerate"} : Outcome(r)
    /\ UNCHANGED <<Unpatched, attempt, sandbox, graded, errors>>

GradeFails(c) ==
    /\ step = "grade"
    /\ Raise("grade", c)
    /\ UNCHANGED <<Unpatched, attempt, sandbox, graded>>

\* The sandbox runs until _evaluate_agent's finally block closes the runtime.
SandboxUp == step \in Steps \ {"start", "create", "convert", "verify", "done"}

\* eval.sh checks out the test files, patches them, runs them and checks them out
\* again.  (Hunks of the model's patch in test files go with the checkout.)
Tested == {workspace \cup {"tests"}, workspace \ {"tests"}}

EvalWrites(a) ==
    /\ SandboxUp
    /\ a \in alive
    /\ writers' = writers \cup {a}
    /\ workspace' \in Tested
    /\ UNCHANGED <<Unpatched, step, attempt, alive, graded, errors, result>>

EvalEnds(a) ==
    /\ SandboxUp
    /\ a \in alive
    /\ alive' = alive \ {a}
    /\ writers' = writers \cup {a}
    /\ workspace' \in Tested
    /\ UNCHANGED <<Unpatched, step, attempt, graded, errors, result>>

-----------------------------------------------------------------------------
(* From the result to the training sample                                   *)

\* fill_empty_trajectory_messages: a trajectory without messages is given some
\* to tokenize, and its verdict is withdrawn.
Filled ==
    IF messages THEN result ELSE [result EXCEPT !.valid = "no", !.infra = TRUE]

\* _convert_results_to_dataproto: bool(result.get('reward_valid', True))
Convert ==
    /\ step = "convert"
    /\ step' = "verify"
    /\ result' = [Filled EXCEPT !.valid = IF @ = "unset" THEN "yes" ELSE @]
    /\ UNCHANGED <<Unpatched, attempt, sandbox, graded, errors>>

\* A patch whose report counts no FAIL_TO_PASS tests makes the row invalid.
Verify ==
    /\ step = "verify"
    /\ step' = "done"
    /\ result' = [result EXCEPT !.valid =
                    IF patch # "none" /\ result.report # "full" THEN "no" ELSE @]
    /\ UNCHANGED <<Unpatched, attempt, sandbox, graded, errors>>

\* What the evaluator does when its commands are answered.
Proceeds ==
    \/ NoPatch \/ HasPatch \/ Create
    \/ Reset
    \/ Copy \/ Apply \/ Launch \/ PollDone \/ Read \/ Grade
    \/ \E c \in BOOLEAN : ApplyFails(c) \/ PollTimeout(c)
    \/ Convert \/ Verify

\* What may break.
Breaks ==
    \/ SpecFails \/ CreateFails \/ ResetFails \/ ReadNothing
    \/ \E c \in BOOLEAN :
         \/ CommandFails(c) \/ ApplyAnswerLost(c) \/ LaunchAnswerLost(c) \/ GradeFails(c)

Next ==
    \/ Proceeds \/ Breaks
    \/ \E a \in Attempt : EvalWrites(a) \/ EvalEnds(a)

Spec == Init /\ [][Next]_vars

\* The evaluator's thread runs, its commands have hard timeouts and its polling
\* stops after 20 minutes.  That eval.sh ever ends is not assumed, nor that
\* anything ever breaks.
FairSpec == Spec /\ WF_vars(Proceeds)

-----------------------------------------------------------------------------
(* Properties                                                               *)

\* Every variable has its type.
TypeOK ==
    /\ patch \in {"none", "applies", "conflicts"}
    /\ messages \in BOOLEAN
    /\ step \in Steps
    /\ attempt \in Attempt
    /\ workspace \subseteq {"patch", "tests"}
    /\ alive \subseteq Attempt
    /\ writers \subseteq Attempt
    /\ graded \subseteq Attempt
    /\ errors \in Seq(Error)
    /\ result \in Fields

\* The attempts that ended without having seen their eval.sh end: the reset, which
\* kills nothing, may have left it running.
Abandoned == {k \in 1..Len(errors) : errors[k].kind \in {"launch", "poll", "timeout"}}

\* An attempt applies the patch to the image's files, never over what an earlier
\* attempt applied, even when the answer to an earlier command was lost.  Only an
\* eval.sh that an earlier attempt abandoned may have changed the test files since
\* the reset, so that a good patch may be refused.
AppliesOnClean ==
    step = "apply" => workspace = {} \/ (workspace = {"tests"} /\ Abandoned # {})

\* A row with a patch that the trainer learns from was judged on output that its own
\* last attempt's eval.sh wrote, in a workspace that had the patch: a crash, a lost
\* answer, a retry, an evaluation the pipeline did not wait for never turn into the
\* reward of a patch that was not there or not run.
JudgedOnPatch ==
    step = "done" /\ result.valid = "yes" /\ patch # "none"
        => "patch" \in workspace /\ attempt \in graded

\* Infrastructure failures in every attempt leave the result invalid, before
\* the reward manager has looked at it ("Two infrastructure failures leave
\* `reward_valid=False`").
InfraIsInvalid ==
    step = "convert" /\ Len(errors) = MaxRetries + 1 /\ (\A k \in 1..Len(errors) : errors[k].infra)
        => result.valid = "no"

\* "... still counting the encountered infrastructure error": a result tells of the
\* infrastructure failures met, whether a retry then succeeds, finds nothing to read
\* or fails likewise, or the reset before it fails.  (When a retry fails for the
\* patch, that verdict alone is reported.)
InfraIsCounted ==
    step \in {"convert", "verify", "done"} /\ Len(errors) > 0 /\ errors[Len(errors)].infra
        => result.infra

\* Every evaluation comes to an end, whatever the sandbox does.
Terminates == <>(step = "done")

\* A report is made of output to which this attempt's eval.sh has written to its
\* end: a retry never grades what an earlier attempt left in the log, nor a log
\* that is not finished.  (It may hold the earlier attempt's output as well:
\* Reset leaves that attempt's processes alone.)
OwnOutputGraded == step = "grade" => attempt \in graded

\* "A patch/evaluation failure attributable to the model (for example an
\* unapplicable patch) is a valid negative reward".
ConflictIsValid ==
    step = "done" /\ messages /\ errors = <<[kind |-> "conflict", infra |-> FALSE]>>
        => result.valid = "yes"

-----------------------------------------------------------------------------
(* The inductive invariant behind the proofs.                               *)

InAttempt == {"copy", "apply", "launch", "poll", "read", "grade"}

\* One exception per finished attempt, and a reset only before a further one.
ErrorCount ==
    /\ step \in {"start", "create"} => attempt = 1 /\ Len(errors) = 0
    /\ step \in InAttempt => Len(errors) = attempt - 1
    /\ step = "reset" => Len(errors) = attempt /\ attempt <= MaxRetries

EvalInv == TypeOK /\ ErrorCount /\ InfraIsInvalid

\* Before it is applied the patch is not in the workspace, and nothing else is unless
\* an eval.sh was abandoned; the only other eval.sh is the one that is polled for.
CleanUntilApplied ==
    /\ step \in {"start", "create", "copy", "apply"} =>
         "patch" \notin workspace /\ (Abandoned = {} => workspace = {})
    /\ Abandoned = {} => IF step = "poll" THEN alive \subseteq {attempt} ELSE alive = {}

\* The eval.sh that an attempt waits for is its own, and so is what it wrote.
OwnOutput ==
    /\ step = "poll" => attempt \in alive \cup writers
    /\ step = "read" => attempt \in writers
    /\ OwnOutputGraded

\* What is launched, polled for and graded runs on the patch, and a report exists
\* only of that.
PatchInPlace ==
    /\ step \in {"launch", "poll", "read", "grade"} => "patch" \in workspace
    /\ result.report # "none" =>
         /\ step \in {"convert", "verify", "done"}
         /\ "patch" \in workspace
         /\ attempt \in graded
    /\ JudgedOnPatch

\* A further attempt follows infrastructure failures only.
InfraMet ==
    /\ step \in InAttempt \cup {"reset"} => \A k \in 1..Len(errors) : errors[k].infra
    /\ step \in {"start", "create"} => Len(errors) = 0
    /\ InfraIsCounted
=============================================================================
