--------------------------- MODULE EvaluationProofs ---------------------------
(***************************************************************************)
(* Proofs about Evaluation for every number of retries: an evaluation that *)
(* only met infrastructure failures is invalid; the output that is graded  *)
(* was written by the attempt that grades it; the result tells of the      *)
(* infrastructure failures met; the patch is applied to the image's files, *)
(* but for what an abandoned eval.sh does to the tests; and a valid row    *)
(* with a patch was judged on that patch.                                  *)
(***************************************************************************)
EXTENDS Evaluation, TLAPS

\* A result that comes from run_one_agent satisfies the invariant, and so does
\* one that skips the evaluation.
LEMMA InitEvalInv == Init => EvalInv
<1> SUFFICES ASSUME Init PROVE EvalInv
  OBVIOUS
<1>1. TypeOK
  <2>1. result \in Fields
    BY MaxRetriesAssumption DEF Init, Fields, Report
  <2>2. errors \in Seq(Error)
    BY DEF Init
  <2> QED
    BY <2>1, <2>2, MaxRetriesAssumption DEF Init, TypeOK, Steps, Attempt
<1>2. ErrorCount
  BY DEF Init, ErrorCount, InAttempt
<1>3. InfraIsInvalid
  BY MaxRetriesAssumption DEF Init, InfraIsInvalid
<1> QED
  BY <1>1, <1>2, <1>3 DEF EvalInv

\* A failed attempt ends in a reset when it may be repeated, and otherwise in a
\* result whose validity follows from its last exception.
LEMMA RaiseStep ==
    ASSUME EvalInv, NEW k \in ErrorKind,
           NEW c \in BOOLEAN, Raise(k, c), step \in InAttempt,
           workspace' \subseteq {"patch", "tests"}, alive' \subseteq Attempt,
           writers' \subseteq Attempt,
           UNCHANGED <<patch, messages, attempt, graded>>
    PROVE  EvalInv'
<1>1. attempt \in Int /\ 1 <= attempt /\ attempt <= MaxRetries + 1 /\ MaxRetries \in Nat
  BY MaxRetriesAssumption DEF EvalInv, TypeOK, Attempt
<1>2. errors \in Seq(Error) /\ Len(errors) = attempt - 1
  BY DEF EvalInv, TypeOK, ErrorCount
<1>3. [kind |-> k, infra |-> c] \in Error
  BY DEF Error
<1>4. /\ errors' \in Seq(Error)
      /\ Len(errors') = attempt
      /\ errors'[attempt].infra = c
  BY <1>1, <1>2, <1>3 DEF Raise
<1>5. result' \in Fields
  <2>1. CASE c /\ attempt <= MaxRetries
    BY <2>1 DEF EvalInv, TypeOK, Raise
  <2>2. CASE ~(c /\ attempt <= MaxRetries)
    <3>1. result' = [result EXCEPT !.valid = IF c THEN "no" ELSE "yes",
                                   !.attempts = attempt, !.infra = c]
      BY <2>2 DEF Raise
    <3>2. attempt \in 0..(MaxRetries + 1)
      BY <1>1
    <3> QED
      BY <3>1, <3>2 DEF EvalInv, TypeOK, Fields
  <2> QED
    BY <2>1, <2>2
<1>6. TypeOK'
  BY <1>4, <1>5 DEF EvalInv, TypeOK, Raise, Steps
<1>7. step' \in {"reset", "convert"} /\ (step' = "reset" => attempt <= MaxRetries)
  BY DEF Raise
<1>8. ErrorCount'
  BY <1>1, <1>4, <1>7 DEF ErrorCount, InAttempt
<1>9. InfraIsInvalid'
  <2> SUFFICES ASSUME step' = "convert", Len(errors') = MaxRetries + 1,
                      \A j \in 1..Len(errors') : errors'[j].infra
               PROVE  result'.valid = "no"
    BY DEF InfraIsInvalid
  <2>1. attempt = MaxRetries + 1 /\ c = TRUE
    BY <1>1, <1>4
  <2> QED
    BY <2>1, <1>1 DEF Raise, EvalInv, TypeOK, Fields
<1> QED
  BY <1>6, <1>8, <1>9 DEF EvalInv

\* An attempt that returns a report, or None, leaves fewer exceptions than
\* attempts.
LEMMA OutcomeStep ==
    ASSUME EvalInv, NEW r \in Report, Outcome(r), step \in {"read", "grade"},
           UNCHANGED <<patch, messages, attempt, sandbox, graded, errors>>
    PROVE  EvalInv'
<1>1. attempt \in Int /\ 1 <= attempt /\ attempt <= MaxRetries + 1 /\ MaxRetries \in Nat
  BY MaxRetriesAssumption DEF EvalInv, TypeOK, Attempt
<1>2. Len(errors) = attempt - 1
  BY DEF EvalInv, ErrorCount, InAttempt
<1>3. result' \in Fields
  <2> DEFINE met == \E k \in 1..Len(errors) : errors[k].infra
  <2>1. met \in BOOLEAN
    OBVIOUS
  <2> HIDE DEF met
  <2>2. result' = [valid |-> "yes", report |-> r, attempts |-> attempt, infra |-> met]
    BY DEF Outcome, met
  <2> QED
    BY <1>1, <2>1, <2>2 DEF Fields
<1>4. TypeOK'
  BY <1>3 DEF EvalInv, TypeOK, Outcome, sandbox, Steps
<1>5. ErrorCount'
  BY DEF Outcome, ErrorCount, InAttempt
<1>6. InfraIsInvalid'
  BY <1>1, <1>2 DEF InfraIsInvalid
<1> QED
  BY <1>4, <1>5, <1>6 DEF EvalInv

\* The steps of an attempt that do not fail preserve the invariant.
LEMMA AttemptStep ==
    ASSUME EvalInv, Copy \/ Apply \/ Launch \/ PollDone \/ Read
    PROVE  EvalInv'
<1>1. TypeOK'
  BY DEF EvalInv, TypeOK, Steps, Copy, Apply, Patched, Launch, Start, PollDone, Read,
         Unpatched, sandbox
<1>2. ErrorCount' /\ InfraIsInvalid'
  BY DEF EvalInv, ErrorCount, InfraIsInvalid, InAttempt, Copy, Apply, Launch, PollDone, Read, Unpatched, sandbox
<1> QED
  BY <1>1, <1>2 DEF EvalInv

\* What happens around the attempts preserves the invariant.
LEMMA AroundStep ==
    ASSUME EvalInv,
           \/ SpecFails \/ NoPatch \/ HasPatch \/ CreateFails \/ Create
           \/ Reset \/ ResetFails \/ Convert \/ Verify
    PROVE  EvalInv'
<1>1. attempt \in Int /\ 1 <= attempt /\ attempt <= MaxRetries + 1 /\ MaxRetries \in Nat
  BY MaxRetriesAssumption DEF EvalInv, TypeOK, Attempt
<1>2. result' \in Fields
  BY DEF EvalInv, TypeOK, Fields, SpecFails, NoPatch, HasPatch, CreateFails, Create,
         Reset, ResetFails, Convert, Verify, Filled, Failed
<1>3. attempt' \in Attempt
  BY <1>1 DEF EvalInv, TypeOK, ErrorCount, Attempt, SpecFails, NoPatch, HasPatch,
         CreateFails, Create, Reset, ResetFails, Convert, Verify
<1>4. TypeOK'
  BY <1>2, <1>3 DEF EvalInv, TypeOK, Steps, SpecFails, NoPatch, HasPatch, CreateFails,
         Create, Reset, ResetFails, Convert, Verify, Filled, Unpatched, sandbox
<1>5. ErrorCount' /\ InfraIsInvalid'
  <2>1. CASE SpecFails \/ NoPatch \/ HasPatch \/ CreateFails \/ Create
    <3>1. /\ step \in {"start", "create"}
          /\ step' \in {"create", "copy", "convert"}
          /\ UNCHANGED <<attempt, errors>>
      BY <2>1 DEF SpecFails, NoPatch, HasPatch, CreateFails, Create
    <3>2. attempt = 1 /\ Len(errors) = 0
      BY <3>1 DEF EvalInv, ErrorCount
    <3> QED
      BY <1>1, <3>1, <3>2 DEF ErrorCount, InfraIsInvalid, InAttempt
  <2>2. CASE Reset \/ ResetFails
    BY <1>1, <2>2 DEF EvalInv, ErrorCount, InfraIsInvalid, InAttempt, Reset, ResetFails
  <2>3. CASE Convert \/ Verify
    <3>1. step' \in {"verify", "done"}
      BY <2>3 DEF Convert, Verify
    <3> QED
      BY <3>1 DEF ErrorCount, InfraIsInvalid, InAttempt
  <2> QED
    BY <2>1, <2>2, <2>3
<1> QED
  BY <1>4, <1>5 DEF EvalInv

\* The background processes touch the sandbox only.
LEMMA SandboxStep ==
    ASSUME EvalInv, NEW a \in Attempt, EvalWrites(a) \/ EvalEnds(a)
    PROVE  EvalInv'
BY DEF EvalInv, TypeOK, ErrorCount, InfraIsInvalid, EvalWrites, EvalEnds, Tested, Unpatched

\* Every step preserves the invariant.
LEMMA NextEvalInv == EvalInv /\ [Next]_vars => EvalInv'
<1> SUFFICES ASSUME EvalInv, [Next]_vars PROVE EvalInv'
  OBVIOUS
<1>1. ASSUME NEW c \in BOOLEAN,
             \/ CommandFails(c) \/ ApplyAnswerLost(c) \/ ApplyFails(c)
             \/ LaunchAnswerLost(c) \/ PollTimeout(c) \/ GradeFails(c)
      PROVE  EvalInv'
  <2>1. PICK k \in ErrorKind : Raise(k, c)
    BY <1>1 DEF ErrorKind, CommandFails, ApplyAnswerLost, ApplyFails, LaunchAnswerLost,
                PollTimeout, GradeFails
  <2>2. step \in InAttempt
    BY <1>1 DEF CommandFails, ApplyAnswerLost, ApplyFails, LaunchAnswerLost,
                PollTimeout, GradeFails, InAttempt
  <2>3. /\ workspace' \subseteq {"patch", "tests"}
        /\ alive' \subseteq Attempt
        /\ writers' \subseteq Attempt
        /\ UNCHANGED <<patch, messages, attempt, graded>>
    BY <1>1 DEF EvalInv, TypeOK, CommandFails, ApplyAnswerLost, ApplyFails,
                LaunchAnswerLost, PollTimeout, GradeFails, Patched, Start, Unpatched, sandbox
  <2> QED
    BY <2>1, <2>2, <2>3, RaiseStep
<1>2. CASE ReadNothing \/ Grade
  <2>1. PICK r \in Report : Outcome(r)
    BY <1>2 DEF ReadNothing, Grade, Report
  <2>2. step \in {"read", "grade"} /\ UNCHANGED <<patch, messages, attempt, sandbox, graded, errors>>
    BY <1>2 DEF ReadNothing, Grade, Unpatched
  <2> QED
    BY <2>1, <2>2, OutcomeStep
<1>3. CASE Copy \/ Apply \/ Launch \/ PollDone \/ Read
  BY <1>3, AttemptStep
<1>4. CASE \/ SpecFails \/ NoPatch \/ HasPatch \/ CreateFails \/ Create
           \/ Reset \/ ResetFails \/ Convert \/ Verify
  BY <1>4, AroundStep
<1>5. CASE \E a \in Attempt : EvalWrites(a) \/ EvalEnds(a)
  BY <1>5, SandboxStep
<1>6. CASE UNCHANGED vars
  BY <1>6 DEF vars, sandbox, EvalInv, TypeOK, ErrorCount, InfraIsInvalid
<1> QED
  BY <1>1, <1>2, <1>3, <1>4, <1>5, <1>6 DEF Next, Proceeds, Breaks

\* EvalInv is an invariant of the evaluation, whatever max_retries is.
THEOREM EvalInvariance == Spec => []EvalInv
BY InitEvalInv, NextEvalInv, PTL DEF Spec

\* Every reachable state has the types of TypeOK.
THEOREM TypeCorrect == Spec => []TypeOK
<1>1. EvalInv => TypeOK
  BY DEF EvalInv
<1> QED
  BY <1>1, EvalInvariance, PTL

\* Infrastructure failures in every attempt leave the result invalid.
THEOREM InfraStaysInvalid == Spec => []InfraIsInvalid
<1>1. EvalInv => InfraIsInvalid
  BY DEF EvalInv
<1> QED
  BY <1>1, EvalInvariance, PTL

-----------------------------------------------------------------------------
(* Whose output is graded                                                   *)

\* While an attempt polls, its own eval.sh runs or has written its output; once
\* it has found the process gone, the output is there and stays.
LEMMA InitOwnOutput == Init => OwnOutput
BY DEF Init, OwnOutput, OwnOutputGraded

LEMMA NextOwnOutput == OwnOutput /\ [Next]_vars => OwnOutput'
<1> SUFFICES ASSUME OwnOutput, [Next]_vars PROVE OwnOutput'
  OBVIOUS
<1>1. ASSUME NEW k, NEW c, Raise(k, c)
      PROVE  OwnOutput'
  BY <1>1 DEF Raise, OwnOutput, OwnOutputGraded
<1>2. ASSUME NEW c \in BOOLEAN,
             \/ CommandFails(c) \/ ApplyAnswerLost(c) \/ ApplyFails(c)
             \/ LaunchAnswerLost(c) \/ PollTimeout(c) \/ GradeFails(c)
      PROVE  OwnOutput'
  BY <1>1, <1>2 DEF CommandFails, ApplyAnswerLost, ApplyFails, LaunchAnswerLost,
                    PollTimeout, GradeFails
<1>3. CASE Launch \/ PollDone \/ Read
  BY <1>3 DEF Launch, Start, PollDone, Read, OwnOutput, OwnOutputGraded, Unpatched, sandbox
<1>4. CASE \E a \in Attempt : EvalWrites(a) \/ EvalEnds(a)
  BY <1>4 DEF EvalWrites, EvalEnds, OwnOutput, OwnOutputGraded, Unpatched
<1>5. ASSUME \/ SpecFails \/ NoPatch \/ HasPatch \/ CreateFails \/ Create
             \/ Reset \/ ResetFails \/ ReadNothing \/ Grade
             \/ Copy \/ Apply \/ Convert \/ Verify
      PROVE  OwnOutput'
  <2>1. step' \notin {"poll", "read", "grade"}
    BY <1>5 DEF SpecFails, NoPatch, HasPatch, CreateFails, Create, Reset, ResetFails,
           ReadNothing, Grade, Outcome, Copy, Apply, Convert, Verify
  <2> QED
    BY <2>1 DEF OwnOutput, OwnOutputGraded
<1>6. CASE UNCHANGED vars
  BY <1>6 DEF vars, sandbox, OwnOutput, OwnOutputGraded
<1> QED
  BY <1>2, <1>3, <1>4, <1>5, <1>6 DEF Next, Proceeds, Breaks

\* The output that is graded was written by the eval.sh of the attempt that
\* grades it, to its end.
THEOREM GradesOwnOutput == Spec => []OwnOutputGraded
<1>1. OwnOutput => OwnOutputGraded
  BY DEF OwnOutput
<1> QED
  BY <1>1, InitOwnOutput, NextOwnOutput, PTL DEF Spec

-----------------------------------------------------------------------------
(* Which failures a report still tells of                                   *)

LEMMA InitInfraMet == Init => InfraMet
BY DEF Init, InfraMet, InfraIsCounted

\* A failed attempt is repeated only when it failed for the infrastructure.
LEMMA RaiseInfraMet ==
    ASSUME TypeOK, InfraMet, NEW k, NEW c \in BOOLEAN, Raise(k, c), step \in InAttempt
    PROVE  InfraMet'
<1>1. errors \in Seq(Error) /\ errors' = Append(errors, [kind |-> k, infra |-> c])
  BY DEF TypeOK, Raise
<1>2. \A j \in 1..Len(errors) : errors[j].infra
  BY DEF InfraMet
<1>3. c => \A j \in 1..Len(errors') : errors'[j].infra
  BY <1>1, <1>2
<1>4. Len(errors') > 0 /\ errors'[Len(errors')].infra = c
  BY <1>1
<1>5. step' \in {"reset", "convert"} /\ (step' = "reset" => c)
  BY DEF Raise
<1>6. step' = "convert" => result'.infra = c
  BY DEF TypeOK, Fields, Raise
<1> QED
  BY <1>3, <1>4, <1>5, <1>6 DEF InfraMet, InfraIsCounted, InAttempt

LEMMA NextInfraMet == TypeOK /\ InfraMet /\ [Next]_vars => InfraMet'
<1> SUFFICES ASSUME TypeOK, InfraMet, [Next]_vars PROVE InfraMet'
  OBVIOUS
<1>1. ASSUME NEW c \in BOOLEAN,
             \/ CommandFails(c) \/ ApplyAnswerLost(c) \/ ApplyFails(c)
             \/ LaunchAnswerLost(c) \/ PollTimeout(c) \/ GradeFails(c)
      PROVE  InfraMet'
  <2>1. (\E k \in ErrorKind : Raise(k, c)) /\ step \in InAttempt
    BY <1>1 DEF ErrorKind, CommandFails, ApplyAnswerLost, ApplyFails, LaunchAnswerLost,
                PollTimeout, GradeFails, InAttempt
  <2> QED
    BY <2>1, RaiseInfraMet
<1>2. CASE ReadNothing \/ Grade
  <2>1. PICK r : Outcome(r)
    BY <1>2 DEF ReadNothing, Grade
  <2>2. errors' = errors /\ step' = "convert" /\ \A j \in 1..Len(errors) : errors[j].infra
    BY <1>2, <2>1 DEF ReadNothing, Grade, Outcome, InfraMet, InAttempt
  <2>3. Len(errors) \in Nat
    BY DEF TypeOK
  <2>4. Len(errors) > 0 => result'.infra
    <3> SUFFICES ASSUME Len(errors) > 0 PROVE result'.infra
      OBVIOUS
    <3>1. \E j \in 1..Len(errors) : errors[j].infra
      BY <2>2, <2>3
    <3> QED
      BY <2>1, <3>1 DEF Outcome
  <2> QED
    BY <2>2, <2>4 DEF InfraMet, InfraIsCounted, InAttempt
<1>3. CASE \/ Copy \/ Apply \/ Launch \/ PollDone \/ Read \/ Reset
           \/ SpecFails \/ NoPatch \/ HasPatch \/ CreateFails \/ Create
           \/ ResetFails
  <2>1. errors' = errors /\ step \notin {"convert", "verify", "done"}
    BY <1>3 DEF Copy, Apply, Launch, PollDone, Read, Reset, SpecFails, NoPatch,
           HasPatch, CreateFails, Create, ResetFails
  <2>2. ResetFails => result'.infra
    BY DEF TypeOK, Fields, ResetFails, Failed
  <2>3. \/ step \in {"start", "create"} /\ step' \in {"convert", "create"}
        \/ /\ step \in InAttempt \cup {"reset"}
           /\ step' \notin {"start", "create", "convert", "verify", "done"}
        \/ step = "create" /\ step' = "copy"
        \/ ResetFails /\ step' = "convert"
    BY <1>3 DEF Copy, Apply, Launch, PollDone, Read, Reset, SpecFails, NoPatch,
           HasPatch, CreateFails, Create, ResetFails, InAttempt
  <2>4. Len(errors) \in Nat /\ (step \in {"start", "create"} => Len(errors) = 0)
    BY DEF TypeOK, InfraMet
  <2> QED
    BY <2>1, <2>2, <2>3, <2>4 DEF InfraMet, InfraIsCounted, InAttempt
<1>4. CASE Convert \/ Verify
  <2>1. /\ errors' = errors
        /\ step \in {"convert", "verify"} /\ step' \in {"verify", "done"}
    BY <1>4 DEF Convert, Verify
  <2>2. result.infra => result'.infra
    BY <1>4 DEF TypeOK, Fields, Convert, Verify, Filled
  <2> QED
    BY <2>1, <2>2 DEF InfraMet, InfraIsCounted, InAttempt
<1>5. CASE \E a \in Attempt : EvalWrites(a) \/ EvalEnds(a)
  BY <1>5 DEF EvalWrites, EvalEnds, InfraMet, InfraIsCounted, Unpatched
<1>6. CASE UNCHANGED vars
  BY <1>6 DEF vars, InfraMet, InfraIsCounted
<1> QED
  BY <1>1, <1>2, <1>3, <1>4, <1>5, <1>6 DEF Next, Proceeds, Breaks

\* A result tells of the infrastructure failures met, whether a retry then succeeds or
\* the reset before it fails.
THEOREM InfraStaysCounted == Spec => []InfraIsCounted
<1>1. InfraMet => InfraIsCounted
  BY DEF InfraMet
<1> QED
  BY <1>1, InitInfraMet, NextInfraMet, TypeCorrect, PTL DEF Spec

-----------------------------------------------------------------------------
(* What is in the workspace                                                 *)

\* An error that is added takes the place after those there are, and abandons an
\* eval.sh when it is of such a kind.
LEMMA RaiseAbandoned ==
    ASSUME TypeOK, NEW k \in ErrorKind, NEW c \in BOOLEAN, Raise(k, c)
    PROVE  Abandoned' = {} => Abandoned = {} /\ k \notin {"launch", "poll", "timeout"}
<1>1. errors \in Seq(Error) /\ errors' = Append(errors, [kind |-> k, infra |-> c])
  BY DEF TypeOK, Raise
<1>2. Len(errors) \in Nat /\ Len(errors') = Len(errors) + 1
  BY <1>1
<1>3. errors'[Len(errors')].kind = k
  BY <1>1
<1>4. \A j \in 1..Len(errors) : j \in 1..Len(errors') /\ errors'[j] = errors[j]
  BY <1>1
<1>5. Len(errors') \in 1..Len(errors')
  BY <1>2
<1> QED
  BY <1>3, <1>4, <1>5 DEF Abandoned

LEMMA InitClean == Init => CleanUntilApplied
BY DEF Init, CleanUntilApplied, Abandoned

\* A failed attempt leaves an eval.sh running only if it launched or polled.
LEMMA RaiseClean ==
    ASSUME TypeOK, CleanUntilApplied, NEW c \in BOOLEAN,
           \/ CommandFails(c) \/ ApplyAnswerLost(c) \/ ApplyFails(c)
           \/ LaunchAnswerLost(c) \/ PollTimeout(c) \/ GradeFails(c)
    PROVE  CleanUntilApplied'
<1>1. PICK k \in ErrorKind :
        /\ Raise(k, c)
        /\ step \in {"launch", "poll"} => k \in {"launch", "poll", "timeout"}
  BY DEF ErrorKind, CommandFails, ApplyAnswerLost, ApplyFails, LaunchAnswerLost,
         PollTimeout, GradeFails
<1>2. step' \in {"reset", "convert"}
  BY <1>1 DEF Raise
<1>3. step \notin {"launch", "poll"} => alive' = alive
  BY DEF CommandFails, ApplyAnswerLost, ApplyFails, LaunchAnswerLost, PollTimeout,
         GradeFails, sandbox
<1>4. Abandoned' = {} => Abandoned = {} /\ step \notin {"launch", "poll"}
  BY <1>1, RaiseAbandoned
<1>5. Abandoned' = {} => alive' = {}
  BY <1>3, <1>4 DEF CleanUntilApplied
<1> QED
  BY <1>2, <1>5 DEF CleanUntilApplied

\* The workspace stays as it is until the patch is applied, unless an abandoned
\* eval.sh changes it, which has only the tests to change.
LEMMA NextClean == TypeOK /\ CleanUntilApplied /\ [Next]_vars => CleanUntilApplied'
<1> SUFFICES ASSUME TypeOK, CleanUntilApplied, [Next]_vars PROVE CleanUntilApplied'
  OBVIOUS
<1>1. ASSUME NEW c \in BOOLEAN,
             \/ CommandFails(c) \/ ApplyAnswerLost(c) \/ ApplyFails(c)
             \/ LaunchAnswerLost(c) \/ PollTimeout(c) \/ GradeFails(c)
      PROVE  CleanUntilApplied'
  BY <1>1, RaiseClean
<1>2. CASE \E a \in Attempt : EvalWrites(a) \/ EvalEnds(a)
  <2>1. PICK a \in alive : EvalWrites(a) \/ EvalEnds(a)
    BY <1>2 DEF EvalWrites, EvalEnds
  <2>2. errors' = errors /\ step' = step /\ alive' \subseteq alive /\ workspace' \in Tested
    BY <2>1 DEF EvalWrites, EvalEnds
  <2>3. Abandoned' = Abandoned
    BY <2>2 DEF Abandoned
  <2>4. Abandoned = {} => step = "poll"
    BY DEF CleanUntilApplied
  <2>5. Abandoned = {} => alive' \subseteq {attempt'}
    BY <2>1, <2>2, <2>4 DEF CleanUntilApplied, EvalWrites, EvalEnds
  <2>6. "patch" \notin workspace => "patch" \notin workspace'
    BY <2>2 DEF Tested
  <2> QED
    BY <2>2, <2>3, <2>4, <2>5, <2>6 DEF CleanUntilApplied
<1>3. CASE Launch \/ PollDone
  BY <1>3 DEF CleanUntilApplied, Abandoned, Launch, Start, PollDone, Unpatched, sandbox
<1>4. CASE \/ SpecFails \/ NoPatch \/ HasPatch \/ CreateFails \/ Create
           \/ Reset \/ ResetFails \/ ReadNothing \/ Grade
           \/ Copy \/ Apply \/ Read \/ Convert \/ Verify
  <2>1. errors' = errors /\ alive' = alive /\ step # "poll" /\ step' # "poll"
    BY <1>4 DEF SpecFails, NoPatch, HasPatch, CreateFails, Create, Reset, ResetFails,
           ReadNothing, Grade, Outcome, Copy, Apply, Read, Convert, Verify, sandbox
  <2>2. Abandoned' = Abandoned
    BY <2>1 DEF Abandoned
  <2>3. step' \in {"start", "create", "copy", "apply"} =>
          \/ workspace' = {}
          \/ workspace' = workspace /\ step \in {"start", "create", "copy", "apply"}
    BY <1>4 DEF SpecFails, NoPatch, HasPatch, CreateFails, Create, Reset, ResetFails,
           ReadNothing, Grade, Outcome, Copy, Apply, Read, Convert, Verify, sandbox
  <2> QED
    BY <2>1, <2>2, <2>3 DEF CleanUntilApplied
<1>5. CASE UNCHANGED vars
  BY <1>5 DEF vars, sandbox, CleanUntilApplied, Abandoned
<1> QED
  BY <1>1, <1>2, <1>3, <1>4, <1>5 DEF Next, Proceeds, Breaks

\* CleanUntilApplied is an invariant, whatever max_retries is.
LEMMA CleanInvariance == Spec => []CleanUntilApplied
BY InitClean, NextClean, TypeCorrect, PTL DEF Spec

\* Every attempt applies the patch to the image's files, except that an abandoned
\* eval.sh may have changed the tests.
THEOREM AttemptsAreClean == Spec => []AppliesOnClean
<1>1. TypeOK /\ CleanUntilApplied => AppliesOnClean
  BY DEF TypeOK, CleanUntilApplied, AppliesOnClean
<1> QED
  BY <1>1, CleanInvariance, TypeCorrect, PTL

-----------------------------------------------------------------------------
(* What a verdict is about                                                  *)

LEMMA InitPatchInPlace == Init => PatchInPlace
BY DEF Init, PatchInPlace, JudgedOnPatch

\* A failed attempt sets no report.
LEMMA RaisePatchInPlace ==
    ASSUME TypeOK, PatchInPlace, NEW k, NEW c \in BOOLEAN, Raise(k, c), step \in InAttempt
    PROVE  PatchInPlace'
<1>1. result'.report = "none"
  BY DEF TypeOK, Fields, PatchInPlace, InAttempt, Raise
<1>2. step' \in {"reset", "convert"}
  BY DEF Raise
<1> QED
  BY <1>1, <1>2 DEF PatchInPlace, JudgedOnPatch

\* The patch stays from its application to the verdict: an eval.sh changes the tests.
LEMMA NextPatchInPlace ==
    TypeOK /\ CleanUntilApplied /\ OwnOutput /\ PatchInPlace /\ [Next]_vars => PatchInPlace'
<1> SUFFICES ASSUME TypeOK, CleanUntilApplied, OwnOutput, PatchInPlace, [Next]_vars
             PROVE  PatchInPlace'
  OBVIOUS
<1>1. ASSUME NEW c \in BOOLEAN,
             \/ CommandFails(c) \/ ApplyAnswerLost(c) \/ ApplyFails(c)
             \/ LaunchAnswerLost(c) \/ PollTimeout(c) \/ GradeFails(c)
      PROVE  PatchInPlace'
  <2>1. (\E k : Raise(k, c)) /\ step \in InAttempt
    BY <1>1 DEF CommandFails, ApplyAnswerLost, ApplyFails, LaunchAnswerLost,
                PollTimeout, GradeFails, InAttempt
  <2> QED
    BY <2>1, RaisePatchInPlace
<1>2. CASE \E a \in Attempt : EvalWrites(a) \/ EvalEnds(a)
  BY <1>2 DEF EvalWrites, EvalEnds, Tested, PatchInPlace, JudgedOnPatch, Unpatched
<1>3. CASE Apply
  BY <1>3 DEF Apply, Patched, CleanUntilApplied, PatchInPlace, JudgedOnPatch
<1>4. CASE Launch \/ PollDone \/ Read
  BY <1>4 DEF Launch, PollDone, Read, PatchInPlace, JudgedOnPatch, Unpatched, sandbox
<1>5. CASE ReadNothing
  BY <1>5 DEF ReadNothing, Outcome, PatchInPlace, JudgedOnPatch
<1>6. CASE Grade
  BY <1>6 DEF Grade, Outcome, PatchInPlace, JudgedOnPatch, OwnOutput, OwnOutputGraded,
         Unpatched, sandbox
<1>7. ASSUME \/ SpecFails \/ NoPatch \/ HasPatch \/ CreateFails \/ Create
             \/ Reset \/ ResetFails \/ Copy
      PROVE  PatchInPlace'
  <2>1. /\ step \notin {"convert", "verify", "done"}
        /\ step' \in {"create", "copy", "apply", "convert"}
    BY <1>7 DEF SpecFails, NoPatch, HasPatch, CreateFails, Create, Reset, ResetFails, Copy
  <2>2. result'.report = "none"
    BY <1>7, <2>1 DEF TypeOK, Fields, PatchInPlace, SpecFails, NoPatch, HasPatch,
           CreateFails, Create, Reset, ResetFails, Copy, Failed
  <2> QED
    BY <2>1, <2>2 DEF PatchInPlace, JudgedOnPatch
<1>8. CASE Convert
  <2>1. step = "convert" /\ step' = "verify" /\ result'.report = result.report
    BY <1>8 DEF TypeOK, Fields, Convert, Filled
  <2> QED
    BY <1>8, <2>1 DEF Convert, PatchInPlace, JudgedOnPatch, sandbox
<1>9. CASE Verify
  <2>1. /\ step = "verify" /\ step' = "done" /\ result'.report = result.report
        /\ patch # "none" /\ result'.valid = "yes" => result.report = "full"
    BY <1>9 DEF TypeOK, Fields, Verify
  <2> QED
    BY <1>9, <2>1 DEF Verify, PatchInPlace, JudgedOnPatch, Unpatched, sandbox
<1>10. CASE UNCHANGED vars
  BY <1>10 DEF vars, sandbox, PatchInPlace, JudgedOnPatch
<1> QED
  BY <1>1, <1>2, <1>3, <1>4, <1>5, <1>6, <1>7, <1>8, <1>9, <1>10 DEF Next, Proceeds, Breaks

\* A valid row with a patch was judged on output of its last attempt's own eval.sh, in
\* a workspace with the patch.
THEOREM VerdictsAreOnPatch == Spec => []JudgedOnPatch
<1>1. Spec => []OwnOutput
  BY InitOwnOutput, NextOwnOutput, PTL DEF Spec
<1>2. PatchInPlace => JudgedOnPatch
  BY DEF PatchInPlace
<1> QED
  BY <1>1, <1>2, InitPatchInPlace, NextPatchInPlace, TypeCorrect, CleanInvariance, PTL DEF Spec
=============================================================================
