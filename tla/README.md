# Verification of the SkyRL training system

SkyRL trains a language model to solve software engineering tasks with
reinforcement learning. `verl` (with the agentic workers under
`verl/workers/agentic`) runs the training loop; a vendored OpenHands
(`SkyRL-OpenHands/openhands`) runs each agent in a sandbox and records what it
does as a stream of events. This directory models the parts whose correctness
depends on the order of steps: the rollout pipeline, the evaluation of its
results, the event stream, the agent controller on top of it, the server that
hands out sandboxes, the training step with the hand-over of weights, and the
training run across crashes. TLC checks small instances, TLAPS proves the central
invariants for every size.

Paths below are relative to the repository root.

## Inventory

**Rollout pipeline** (`verl/workers/agentic/codeact.py`,
`CodeActAgentGroup.generate_trajectories_pipeline`). State: three asyncio
queues, three counters of tasks still needed, three sets of active tasks,
`self.results`. Operations: the tasks `initialize_one_runtime`,
`run_one_agent`, `eval_one_agent`, each of which takes one trajectory and
re-creates itself in its `finally` block; the coroutine that starts them, joins
the queues and waits for what is left. Hard: failures change counters that decide
how many tasks exist; queues are bounded; joins are skipped when a queue is
momentarily empty; the final wait covers a snapshot. Correct when no trajectory
is lost or doubled, each gets one result, each finished run is evaluated, the
coroutine returns, and the number of idle sandboxes is bounded.

**Evaluation** (`codeact.py` `_evaluate_agent`, `_apply_patch_and_evaluate`,
`_reset_evaluator_workspace`; `evaluator_validity.py`;
`result_normalization.py`; `verl/workers/reward_manager/swebench_stage1b.py`,
`swebench_report.py`). State: the sandbox (workspace, background processes, log),
the attempt, the fields of the result. Hard: lost answers, time-outs, retries in
the same sandbox, processes that outlive their attempt, defaults for results that
nobody judged. Correct when only judged patches count as valid, infrastructure
failures are never turned into rewards, and a retry applies the patch to the image's
files and grades its own output of it.

**Event log** (`openhands/events/stream.py` `add_event`, `_store_cache_page`;
`event_store.py`; `openhands/storage/local.py`). State: `cur_id`, the write
page, one file per event, one file per full page. Hard: ids are given under a
lock and files written outside it, by several threads; pages are stored before
their neighbours' files; the process may die anywhere; a new process derives
`cur_id` from the directory. Correct when an event that subscribers saw is
durable, is never overwritten, and is found by every later search.

**Event dispatch** (`stream.py` `_process_queue`, `subscribe`, `unsubscribe`,
`_clean_up_subscriber`, `close`). State: the queue, the registry of callbacks,
their thread pools. Hard: the dispatcher reads two dictionaries that other
threads change without a lock. Correct when each callback gets the events in
order and without gaps, is quiet after its removal, and `close` returns.

**Agent controller** (`openhands/controller/agent_controller.py`, with
`core/main.py`, `core/loop.py`, `memory/memory.py`, `runtime/base.py`, and the
agent's `step` in `codeact.py`). State: the agent's state, the pending action,
the history, the iteration, the agent's queue of actions. Hard: three threads
change the agent's state; a failure is reported by another thread in several
steps; the memory posts its report to a loop that has stopped. Correct when the
agent acts only on answered actions, the history that goes into training is
complete, and every run ends and is closed.

**Remote runtime server** (`openhands/runtime/remote_runtime_server/managers/runtime.py`,
`main.py`, `runtime/utils/system.py`). State: active runtimes and sessions, the ports
in flight, the containers of the Docker daemon. Hard: requests overlap at every
await; ports are searched, held and released; a start that fails stops itself while
others stop it too. Correct when no two runtimes share a port, records lead to live
runtimes, no container is left behind, and every request is answered.

**Training step** (`verl/trainer/ppo/ray_trainer.py` `fit`,
`_stage1b_candidate_group`, `_run_stage1b_training_batch`, `_validate`,
`_balance_batch`; `verl/protocol.py`; `single_controller`;
`workers/agentic/fsdp_sgl.py`, `async_rollout.py`; `workers/lora_utils.py`,
`fsdp_workers.py`, `actor/dp_actor.py`; `utils/seqlen_balancing.py`;
`core_algos.py`). State: the batch, the calls of the worker group, the version of
the weights and what each engine has loaded. Hard: rows are joined by position
after they were padded, repeated, chunked, gathered, balanced and split; all ranks
must take part in every collective; weights reach the engine in chunks. Correct when
every field stays with its row, every row is trained on once against its whole
group, no rollout uses old weights, and no rank waits for ever.

**Training run, sampler, checkpoints** (`ray_trainer.py`, `stage1b_sampling.py`,
`verl/utils/checkpoint`). State: step, sampler history, data position, weights,
saved directories, the tracker file. Hard: many ranks write many files; old
checkpoints are deleted before the new one is named; a crash may come anywhere.
Correct when a resumed run is exactly the saved one, asks for the same candidates,
and its history fits its weights.

**Left aside**: language model clients, session server, resolver, integrations,
security, front end, documentation and evaluation benchmarks: not on the training
path, or input and output. `PROJECT.json` lists all of them; "Not modelled" below
says what is left out of the components that are modelled.

How they interact: the trainer chunks a batch over the ranks; the first rank of
each replica loads the weights into its engine and runs one pipeline; each init task
asks the runtime server for a sandbox; each run task drives an agent controller,
which talks to its runtime and memory only through an event stream (calls to
`add_event`, callbacks from the dispatcher); the evaluation task uses a fresh
runtime directly; the results go through the conversion to the reward manager, the
sampler and the update; the trainer saves.

## Modules

| module | models | state and actions |
|---|---|---|
| `RolloutContract` | what a call of the pipeline promises | `results`, `returned`; `Settle`, `Evaluate`, `Return` |
| `RolloutPipeline` | `generate_trajectories_pipeline` | `queue`, `unfinished`, `needed` are the asyncio queues, their join counts and the counters; `pc`, `holds` the tasks; `main`, `awaited` the coroutine. One action per stretch of code between two awaits |
| `RolloutPipelineProofs` | theorems about it | |
| `Evaluation` | one trajectory's way to its verdict | `step` is the place in the code, `workspace`, `alive`, `writers` the sandbox, `result` the fields; every command can succeed, fail, or succeed and lose its answer |
| `EvaluationProofs` | theorems about it | |
| `EventLog`, `EventLogMC` | the persistent side of an event stream | `pc[e]` is how far `add_event(e)` has come; a write is an open and a write; `search` is one generator; `Restart` is a crash and a new stream |
| `EventLogProofs` | theorems about it | |
| `EventDispatch`, `EventDispatchMC` | the live side of an event stream | `disp` is the dispatcher's place in `_process_queue`, `owner` that of the thread that subscribes, unsubscribes and closes, `pool`, `pending`, `running`, `handled` the thread pools |
| `EventDispatchProofs` | theorems about it | |
| `AgentController`, `AgentControllerMC` | one headless agent run | `stream` is the event stream, `seen[s]` how far subscriber `s` has come, `place` the controller's place in `_on_event`, `fault[t]` that of another thread in setting the state to ERROR, `main` that of `run_controller` |
| `AgentControllerProofs` | theorems about it | |
| `RuntimeServer` | the handlers of the runtime server over Docker | `start[r]` is the place of `start_runtime`, `place[h]` of a handler that stops, pauses or resumes; a step ends with the effect of the next call to Docker |
| `RuntimeServerProofs` | theorems about it | |
| `SeqlenBalancing` | `karmarkar_karp` and what uses it | operators |
| `TrainingStep`, `TrainingStepMC` | one step of `fit` | `phase` is the driver's place, `worker[r]` the call of rank `r`, `engine` the version of each tensor in each engine; a collective is one step of all its ranks |
| `TrainingStepProofs` | theorems about it | |
| `Stage1BSampler` | `Stage1BSampler`, `classify_group` | operators on the sampler's state, shared by `TrainingStep` and `Trainer` |
| `ResumableTraining` | what saving and resuming promise | `live`, `saved`; `Advance`, `Commit`, `Crash`, `Resume` |
| `Trainer`, `TrainerMC` | a Stage1B training run under crashes | `pc` is the driver's place, `rankPc`, `savedPaths` those of the checkpoint managers, `disk`, `tracker` the files |
| `TrainerProofs` | theorems about it | |

`RolloutPipeline` implements `RolloutContract` (`ImplementsContract`, with
`returned <- (main = "done")`). `Trainer` implements `ResumableTraining`
(`ResumesExactly`): the saved state is what the tracker file names, so that the
write that names a directory is the atomic save, and every other write is a stutter.

`TrainingStep` and `Trainer` share the sampler and divide the trainer between
them: the first goes through one step in full, with outcomes decided by the
engines, the second takes a step as one action and goes through many, with files and
crashes. `AgentController` takes from `EventDispatch` that each subscriber handles
the events one by one in the order of the stream, which is proved there.

Definitions whose name has a suffix (`Respawn_initOnly`) are faulty variants of
the definition that follows them. They are used by no specification; with one of
them in place of the original, TLC finds the property that `PROJECT.json` pairs
with it violated. They document which property guards which line.

### Abstractions

- A trajectory is a number; a runtime, an agent's run and an evaluation are one
  step of a task each, between a start and an end, and may take arbitrarily long.
  Which trajectories may fail is a constant. A task chain (a task and the
  successors it creates) is one worker, since at most one of them is alive.
- In `Evaluation` the patch either applies to the image's workspace or conflicts. Of the
  workspace the model knows whether it has (some of) the patch and whether an `eval.sh`
  has changed test files, which a good patch may touch, and then fail, or not. On a
  workspace that has the patch already, `patch --batch` takes it out. Whether an error
  counts as the infrastructure's is free, because the code decides by words of the
  message. A reset cleans what git tracks or would add.
  Results that reach the conversion without an evaluation start at `convert`.
- In `EventLog` an event's content is its identity; filters of a search are left
  out; a search goes over the whole stream, in either direction.
- In `EventDispatch` events are numbered in the order of the queue (which the
  two modules share: `Put` there follows `Put` in `EventLog`). The event loops
  that `_clean_up_subscriber` stops are left out: its errors are caught. One
  thread owns the stream; a callback that closes the stream from its own pool is
  not modelled.
- In `AgentController` an action is its kind and an answer of the model a sequence
  of kinds. Prompts, parsing, and what an observation says are left out; whether an
  answer is malformed, the context too long or the agent stuck in a loop is free. The
  history is the set of its events: nothing modelled depends on their order, which is
  that of their ids.
- In `RuntimeServer` a start takes one port where the code takes four in the same
  way. A container has the name of its session. Each call to Docker succeeds or is
  refused; how often refusals and used-up searches happen is bounded.
- In `TrainingStep` a row is its identity with the fields that are joined to it; a
  collective is one step of all its ranks; a tensor is a size and a version. The
  weights go to the engine in the chunks of the streamed LoRA payload; without LoRA
  the same chunks come from a list made before. An advantage is known up to a
  positive factor. One epoch of updates; gradients that are not finite and
  `critic_warmup` are left out.
- In `Trainer` the weights are the set of updates that went into them, each named
  by the process and the step that made it, so that two histories never look alike.
  A file that was half written by a crash counts as no file, except the tracker,
  which `open(..., "w")` has emptied. The contents of a shard are the weights.

## What is checked

| run | instance | shows |
|---|---|---|
| `pipeline_faults` | 5 trajectories, 2 run tasks, 1 evaluation task, one trajectory may fail to initialize, another to run | the ledger of needed tasks, no trajectory lost or doubled, complete results, bounded idle runtimes, the contract, every trajectory settles, termination unless a counter was overdrawn |
| `pipeline_hang` | 2 trajectories, 2 tasks per stage, one failure | the pipeline may never return |
| `pipeline_late_eval` | 3 trajectories, 1 evaluation task, no failure | it may return before an evaluation ends |
| `evaluation` | 2 retries | the patch meets nothing but what an abandoned `eval.sh` changes, valid rows were judged on their patch, infrastructure failures stay invalid and counted, each attempt grades its own output, termination |
| `evaluation_conflict` | 1 retry | a conflict ends up invalid |
| `event_log` | 4 events, 2 threads, pages of 2, 1 restart, 1 failing write | durability, immutability, pages agree with files, searches are complete |
| `event_dispatch` | 2 events, 3 callbacks of 2 subscribers | order, quiet after removal, delivery, `close` returns |
| `dispatcher_dies` | 1 event, 2 callbacks | removal during dispatch ends the dispatcher |
| `agent_controller` | 2 model calls; every kind of action, answers of two actions | no step while an action lacks its observation, the history handed on is paired except after a failure, every run ends unless a failure stays unreported |
| `runtime_server` | 2 starts, 2 sessions, 2 ports, 1 request to stop, pause or resume, 1 refusal, 1 used-up search | exclusive ports, sessions lead to their runtimes, no container is lost, every request is answered |
| `training_step` | 8 configurations | every field stays with its row, every row trained on once, complete groups, fresh weights, bounded micro-batches, the step ends |
| `trainer_crashes` | 3 tasks, 2 candidates per step, 2 ranks, 2 epochs of 2 batches, a save after each step, 2 crashes | a resumed run is exactly the saved one, asks for the same candidates, its history fits its weights, how many directories stay, how far a resumed run overshoots |

Why these bounds suffice.

- Five trajectories with stages of width two and one fill both bounded queues, block
  puts on them, let each chain re-create itself several times and let failures fall
  before and after the last re-creation.
- Two retries are one more than the code uses.
- Two threads and pages of two let a page be stored before its neighbour's file, at
  aligned and unaligned starts. Two events let the dispatcher be in the middle of
  one while another waits.
- Two model calls, with answers of one and of two actions, let an action be queued
  behind another, be issued while an earlier failure is being reported, and fail
  itself. With three calls a search with fewer answers went through all 1 882 239
  states, and one with all of them through 9.5 million to depth 42, without an
  error; the run uses two because the check of `EndsUnlessUnreported` is slow.
- Two starts for one or two sessions and one more request give every pair of
  handlers that can meet. A safety search with a second request went through
  13.7 million states without an error.
- The configurations of `training_step` are one or two replicas of one or two
  engines, with Stage1B (3 tasks, groups of 3 or 4) and without (2 or 3 prompts, 1, 3
  or 4 rollouts each), so that numbers do and do not divide; with and without
  validation, balancing, dynamic micro-batches and required weight updates. Tensors
  of sizes 3, 1 and 2 make a chunk of two tensors and a last one that never fills
  (exchange size 3), or a chunk of one tensor and one that fills with the last
  (exchange size 2). `TrainingStepMC` also evaluates
  `DifferencingIsBalanced`, a statement about `karmarkar_karp` over all lists of four
  lengths up to 3. The operator was compared with the code on 400 random inputs.
- Two epochs of two batches with `SaveFreq` 1 let a save delete what the one before
  the last has written, and two crashes let the second one hit a resumed process,
  also after the last step.

`MaxId`, `MaxCrashes`, `MaxErrors`, `MaxEvents`, `MaxRefusals` and `MaxExhausted`
bound what would otherwise be unbounded. The runs disable TLC's deadlock check
because the systems stop by themselves: a finished evaluation, a closed stream, all
events added, all requests answered, a finished or failed training, or the
pipeline's hang. Where this could hide a real wait for ever, a liveness property of
the run covers it.

The type invariants are not among the runs' properties. They are proved for the
pipeline, the evaluation, the dispatcher, the runtime server, the trainer and, as
part of `LogInv`, for the event log.

### Fairness

- Pipeline: weak fairness of every task and of the coroutine. asyncio resumes
  whatever can be resumed; an agent has an iteration limit and an evaluation a
  time-out, so the stages' own work ends.
- Evaluation: weak fairness of the evaluator's own steps (`Proceeds`). Its commands
  have hard time-outs and it stops polling after 20 minutes. Nothing is assumed of
  `eval.sh`, and no failure (`Breaks`) is ever made to happen.
- Dispatch: weak fairness of the dispatcher, of each worker and of a call of the
  owner that has begun. Nobody has to put events or call the stream.
- Agent controller: weak fairness of every thread. The model, the runtime and the
  memory answer or raise, since each has a time-out. No failure has to happen.
- Runtime server: weak fairness of every handler that has begun. The event loop
  resumes what can be resumed, and Docker answers or refuses. Nobody has to send a
  request.
- Training step: weak fairness of the next-state relation as a whole. The driver
  and every rank go on as long as one of them can; `StepCompletes` then says that no
  state is reached in which all of them wait for each other.
- The event log and the trainer have safety properties only and no fairness.

### Disagreements found

- A failed initialization late in a batch, or a batch smaller than
  `max_parallel_agents`, makes the pipeline wait for ever (`pipeline_hang`).
- The pipeline may return while an evaluation is running; the trajectory then
  counts as not judged (`pipeline_late_eval`). `FewUnevaluated` states what is left
  of the promise, at most `P` and at most twice `E` runs without a verdict, and `JudgedOnPatch`
  that no reward comes of it.
- A patch that does not apply is documented as a valid negative reward and becomes
  an invalid row (`evaluation_conflict`).
- Removing a callback during dispatch can end the dispatcher thread
  (`dispatcher_dies`); so can an event that arrives inside `subscribe`.

Two more of this kind appear as exceptions in properties, not as runs.

- The comment at `agent_controller.py:554` wants an observation for every runnable
  action. `_reset` gives one to the pending action only, and runs in the thread that
  reports the error (`set_agent_state_to(ERROR)`, lines 575-582 and 642). Between
  clearing the pending action and setting the state, the controller's own thread may
  still ask the agent and issue an action that nothing will answer
  (`UnansweredAfterFailure`).
- Resuming a run from the checkpoint of its last step trains one more step
  (`OvershootBound` says one for each resume).

Seen while reading, and reflected in the properties' exceptions or left to the reader:

- After a crash a stored page may show an event that was lost (`PageAgrees`,
  `SearchComplete`); a truncated event file makes a search raise; the log graded by
  a retry may also hold output of the earlier attempt, whose processes the reset
  leaves alone.
- For the same reason an `eval.sh` that an attempt abandoned (it could not be polled to
  its end) goes on checking out and patching test files in `/testbed` after the reset
  (`codeact.py:1318`). A good patch that touches them may then be refused by the retry,
  which reports a valid model failure with `infra_error` false; the reward manager drops
  the row for want of a report. `AppliesOnClean` says that nothing else than this can be
  in the workspace. The tests of the retry may be disturbed likewise, and no property
  excludes it.
- A retry that fails for the patch after an infrastructure failure reports
  `infra_error` false (`evaluator_validity.py:77`); the design promises the count only
  for a retry that yields a report. `InfraIsCounted` leaves this case out.
- `RATE_LIMITED` is no end state of the polling loop, so that a headless run waits
  for ever; the memory posts the report of a failed recall to its own event loop,
  which runs again only for its next event (`EndsUnlessUnreported`).
- When all attempts to find a free port fail, `find_available_tcp_port` returns a
  port in use; `resume_runtime` starts a container whose port may meanwhile be used
  by another (`PortsExclusive` speaks of the ports in flight only).
- With one checkpoint to keep, the tracked directory is deleted before the new one
  is named, and a crash between the two leaves nothing to resume from; a crash while
  the tracker is rewritten leaves it empty, and the next start fails in `int('')`.
- A weight update that the engine refuses is ignored unless
  `SKYRL_REQUIRE_ROLLOUT_WEIGHT_SYNC` is set (`FreshWeights`).
- `_validate` unpads by the number of prompts that were added, after the rollouts
  multiplied them by `n` (`ray_trainer.py:907`); with `n > 1` and padding the sizes
  do not match and the step fails (`Fits`).
- `rearrange_micro_batches` promises micro-batches smaller than `max_token_len`
  (`seqlen_balancing.py:225`); they may exceed it by less than the longest row
  (`MicroBatchBound`).
- `async_rollout.py:109` divides the limits of a replica by its number of ranks; a
  limit below that becomes 0.

## What is proved

TLAPS checks the following for every value of the constants that satisfies the
named assumptions: `SizesAssumption`, `FaultsAssumption`, `MaxRetriesAssumption`,
`ContentsAssumption`, `SetsAssumption`, `ServerAssumption`, `LimitsAssumption`,
`TrainerAssumption`, `OrderAssumption`, `ControllerAssumption`, `StepAssumption`.
They say that sizes are positive, that bounds are natural numbers, and that sets are
of the kind their names say; `OrderAssumption` also that an epoch's order of the
candidates names none twice, as a permutation, and `StepAssumption` that neither that
order nor a batch of prompts names a task twice (both samplers of the loader go through
the dataset without replacement, `ray_trainer.py:536-548`) and that a row is no longer
than `MaxTokenLen`, which `rearrange_micro_batches` asserts
(`seqlen_balancing.py:230`). Where a specification states fairness,
the theorems do not use it.

- `RolloutPipelineProofs`: `TypeCorrect`, `BudgetCorrect` and
  `ResultsAreComplete`, from the inductive invariant `IInv` (`Invariance`).
  `ResultsComplete` alone is not inductive: it needs where a trajectory without
  a result can be (`PendingLocated`), what each wait has established (`MainInv`),
  that join counts are queue lengths plus busy tasks (`JoinCounts`), and who
  holds what (`HoldsInv`). `TaskBudget` is a sum over tasks; the lemmas
  `CountStep`, `TakeMove`, `BlockMove`, `EndMove` and `BudgetStep` reduce each
  step to the change of four cardinalities.
  `KeepsContract` (the pipeline implements `RolloutContract`) and `AllAccounted`
  rest on `Account`: a trajectory is in at most one place (`Single`), its result says
  how far it has come (`Status`), and an unsettled one is somewhere (`Located`).
  For `RuntimesBounded`, idle runtimes are in a run queue of at most `P` entries
  (`Room`) or held by one of the `P` init tasks. For `FewAreUnevaluated`, once the
  evaluation queue has been found drained, the finished runs that no evaluator holds
  (`Late`) and the runs still under way are at most `P` together (`LateBound`): no run
  starts any more, and the final wait knows all that are under way (`Snapshot`).
- `EvaluationProofs`: `TypeCorrect` and `InfraStaysInvalid` from `EvalInv`: there is
  one recorded error per ended attempt. `GradesOwnOutput`, `InfraStaysCounted`,
  `AttemptsAreClean` and `VerdictsAreOnPatch` have an inductive invariant each. The
  eval.sh that an attempt waits for is its own and runs or has written its output
  (`OwnOutput`). A further attempt follows infrastructure failures only (`InfraMet`).
  Until it is applied the patch is not in the workspace, and unless an eval.sh was
  abandoned nothing is, because no other one runs (`CleanUntilApplied`). From then on the
  patch stays, whatever an eval.sh does to the tests, and a report exists only of graded
  output of the last attempt (`PatchInPlace`, which needs the others).
- `EventLogProofs`: `QueuedIsDurable` and `FilesAreImmutable` (an action
  property), from `LogInv`: ids are fresh (`IdsFresh`) and the content of a file
  follows from the progress of its `add_event` (`FileProgress`). `PagesAgree` needs that the
  write page ends where the next id begins and that no page grows past `CacheSize`
  (`PagesInv`): a page that `add_event` found full cannot change while it is written.
  `SearchesAreComplete` adds that a search has seen, in order, the events that it must
  see of the ids that it has passed, or those that took their ids (`SearchInv`), over
  pages and single files alike.
- `EventDispatchProofs`: `TypeCorrect`, `EventsInOrder` and `QuietWhenRemoved`, from
  `Orderly`. `InOrder` says nothing about which event comes next; `Progress` adds
  it: between two events every open callback has been given the event the
  dispatcher distributes or, while the dispatcher has yet to come to it, the one
  before. It needs that the queue has no gap (`Consecutive`), that the dispatcher
  comes to each callback once per event (`Turn`), and what `close`, `subscribe` and
  `_clean_up_subscriber` have done when the pool is open, shut or gone (`Closing`,
  `Fresh`, `Removal`). `StreamStep` and `SubmitExtendsStream` show that only a
  submission changes what a callback has been given.
- `AgentControllerProofs`: `TypeCorrect`, `StepsAnswered` and `HandedOnAnswered`, from
  `Controlled`. Until a failure control is in one place (`Single`): the controller's
  thread is at work, or one event waits for the subscriber that does something with
  it (`Live`), or the run is over; so no thread can overtake another, although nothing
  locks the controller. The first failure ends that and is followed by name
  (`FailedAt`): the thread that raised has yet to report it (`Unreported`), or `_reset`
  has added the observation and the controller has yet to come to it (`Reported`), or
  the action is answered. After that two threads may be at work, and nothing is claimed
  of the actions they issue. `Adds` is what every step has in common.
- `RuntimeServerProofs`: `TypeCorrect`, `PortsStayExclusive`, `SessionsAlwaysResolve`
  and `NothingEverLeaks`. `Reachable` collects which containers and ports a place in
  a handler admits; `NothingLeaks` is proved for all containers that are leaked or
  will be (`Doomed`): a step dooms one only when Docker refuses it (`Charged`).
- `TrainerProofs`: `TypeCorrect`, `OvershootBounded`, `CandidatesReplayed`, and
  `ResumeIsExact`: the trainer implements `ResumableTraining` when at least two
  checkpoints are kept. `Exact` says that the tracker lags behind (`TrackerBehind`),
  that of the paths a rank remembers only the last can be the one that the tracker
  names or that is being saved (`PathsOrdered`), and what the places passed in a save
  have written (`Written`); every step but the one that opens the tracker leaves the
  saved state as it is. `HistoryFitsWeights` asks the same relation of the state in
  memory and of the checkpoint that a restart would load
  (`HistoryInv`), with the candidates tried so far while a step collects its groups
  (`MatchesIn`). For `KeptAreBounded`, each earlier process leaves at most `Keep`
  directories that the present one does not know (`KeepInv`).
- `TrainingStepProofs`: `RolloutsAreFresh`, from `FreshInv`. The barriers keep all ranks
  in one part of a call (`Together`), so no engine loads while another rolls out; a
  tensor that was made whole is loaded or in the chunk to be sent (`Loading`), at the
  barrier nothing is left to send (`Sending`), and what a replica generated stays fresh
  when it is divided over the ranks (`Fresh`).

  The other four, `RowsAreTrainedOnce`, `FieldsStayWithTheirRows`, `GroupsAreCompared`
  and `MicroBatchesAreBounded`, follow from `StepInv`, which `StepInit` and `StepNext`
  prove inductive. It says of each phase what the rows are:
  1. `GenerationInv`: in a generation every rank has the same block of the prompts that
     the driver asked for, a replica the blocks of its ranks, and what it returns is each
     prompt `n` times, in order (`DividedRows`, `RolledRows`, `CollectedRows`); so what
     `Collect` joins is what was asked for, whatever the mesh.
  2. `AcceptedInv`: the groups that a Stage1B collection has accepted are complete, of
     different tasks and informative. That no candidate comes twice is `Attempting`.
  3. `BatchInv`: the batch has `n` rows of each of its tasks (`Complete`), every rank's
     share is as long (`Shared`), masks are those of valid rows (`MasksFit`), and from
     the update on log-probabilities and advantages are the rows' own (`Ready`).
     Balancing reorders the batch by a permutation, which keeps all of it
     (`BalanceKeeps`), and the advantages of a group are linear in its rewards, so they
     add up to 0 (`GroupTotals`).
  4. `TrainingInv`: a rank's micro-batches divide its mini-batch, the passes so far are
     over the first of them, and what was trained before are the earlier mini-batches
     (`Trains`, `Recomputes`, `Propagates`); reverting the order puts the log
     probabilities back where their rows are (`RevertOrderKeepsTraining`).
  5. `TrainedInv`: nothing is trained on before the update, and after it every rank has
     trained on its share.

  Under 3 and 4 is `BalancedPartitionsDivide`: for all lengths and every `k`,
  Karmarkar-Karp differencing returns `k` parts, every row in exactly one of them, whose
  sums differ by the longest row at the most. The heap's invariant (`Heap`) is that
  its states hold different rows, all rows together, and that in each the sets differ
  by at most the longest row; a merge of the largest with the smallest keeps this
  (`MergeShapes`), and two states are always ordered, so the heap gives two and one
  is left in the end (`HeapsExist`). As a part's sum exceeds the least by at most
  the longest row, and the least is no more than the mean, which the number of
  micro-batches keeps within the limit, `MicroBatchBound` follows (`PartIsBounded`), also
  on a rank that gets more micro-batches than it needs because another needs them.

Sequences that are built up, sums over sets and repeated merges are recursive functions,
which the library leaves to induction principles with an operator parameter.
`NatSetInduction` and `FiniteSetInduction` state those principles for a set
instead; they are proved from `NatMin`, that a set of naturals has a least one, and
carry `Flattens`, `TotalIsAdditive`, `HeapsExist` and `TotalLinear`.

Model-checked only: all liveness properties, because the prover does not handle
`ENABLED`. Every invariant that a passing run checks is also a theorem.

## Not modelled

Left out of the modelled components:

- Trainer: critic, reference policy and reward model workers, copies to HDFS, export
  of the model (`save_hf`), more than one epoch of updates.
- Rewards and objectives: the reward formulas and failure classes of the managers,
  losses, and the advantage estimators other than GRPO. They are arithmetic on
  tensors and text, keep no state, and the repository tests them with examples.
- Training step: Ulysses sequence parallelism, which gathers the rows of a group of
  ranks before a pass and splits the result after it (`fsdp_workers.py:519-520`, `542`,
  `610-615`) and multiplies the micro-batch limit by the size of the group
  (`dp_actor.py:264`, `337`). The model has groups of one rank, where all of this is the
  identity: the default of `ppo_trainer.yaml`, which the scripts for the SWE agent
  keep. (Some of the recipes and examples for other tasks set 2 or 8.)
- Weight sync: separate actor and rollout groups, which the trainer rules out by its
  assertion of `hybrid_engine`; fingerprints of weights; the start of an engine.
- Runtime server: a restart of the server, which loses the records and orphans
  containers; builds, status and health queries, the image cache.
- Agent controller: delegates, confirmation mode, replay, the budget, and a user who
  interferes. The headless training path uses none of them.
- Event stream: filters of a search, and a callback that closes the stream from its own
  pool.

Not modelled at all: the stuck detector (a function of the history, whose answer is
free in `AgentController`), the session server, language model clients, resolver,
integrations, security, front end, documentation, evaluation benchmarks and the
sandboxes themselves. They are outside the training path, or input and output with
no order of steps that the code has to get right.

Worth proving next: an abstract specification of one training step - rows asked for,
generated, compared and trained on - that `TrainingStep` implements; `StepInv` has what
its steps need.
