--------------------------- MODULE RolloutPipeline ---------------------------
(***************************************************************************)
(* CodeActAgentGroup.generate_trajectories_pipeline                        *)
(* (verl/workers/agentic/codeact.py): N trajectories flow through three    *)
(* stages, initialize_one_runtime -> run_one_agent -> eval_one_agent, each *)
(* served by asyncio tasks that take one trajectory from the stage's queue *)
(* and, in their finally block, create their own successor when the        *)
(* stage's counter of needed tasks is still positive.  The coroutine that  *)
(* started them joins the queues and then waits for a snapshot of the      *)
(* tasks.                                                                  *)
(*                                                                         *)
(* asyncio runs the code between two awaits without interruption, so one   *)
(* action here is one such stretch of one task.  A worker <<s, k>> is the  *)
(* k-th chain of tasks of stage s: the task started at the beginning and   *)
(* its successors, of which at most one is alive at a time.                *)
(***************************************************************************)
EXTENDS Integers, Sequences, FiniteSets

CONSTANTS N,            \* num_trajectories * len(batch)
          P,            \* max_parallel_agents
          E,            \* max_eval_parallel_agents
          MayFailInit,  \* trajectories whose initialization may raise
          MayFailRun    \* trajectories whose run may raise

ASSUME SizesAssumption ==
    /\ N \in Nat \ {0}
    /\ P \in Nat \ {0}
    /\ E \in Nat \ {0}

ASSUME FaultsAssumption == MayFailInit \subseteq 1..N /\ MayFailRun \subseteq 1..N

Item == 1..N
None == 0

Stage == {"init", "run", "eval"}

\* How many tasks of a stage are started at the beginning.
Width == [init |-> IF P <= N THEN P ELSE N, run |-> P, eval |-> E]

Worker == {w \in Stage \X (1..(N + P + E)) : w[2] <= Width[w[1]]}

VARIABLES
    queue,       \* queue[s]: the asyncio.Queue the tasks of stage s get from
    unfinished,  \* unfinished[s]: its count of put items not yet task_done
    needed,      \* needed[s]: need_init_tasks, needed_run_tasks, needed_eval_tasks
    pc,          \* pc[w]: where the live task of chain w is suspended
    holds,       \* holds[w]: the trajectory it works on
    results,     \* results[i]: self.results for trajectory i
    main,        \* where generate_trajectories_pipeline itself is suspended
    awaited      \* the tasks its final asyncio.wait still waits for

vars == <<queue, unfinished, needed, pc, holds, results, main, awaited>>

TaskPC == {"get",    \* created, or suspended in queue.get()
           "work",   \* suspended in the stage's own coroutine
           "put",    \* suspended in put() on the full queue of the next stage
           "exit"}   \* ended without a successor

MainPC == {"joinInit", "initDone", "joinRun", "runDone", "joinEval", "evalDone",
           "wait", "done"}

\* A join that is waiting for stage s, and the state its wake-up leads to.
\* The wake-up is latched: join() does not look at the queue again.
Joining == [init |-> "joinInit", run |-> "joinRun", eval |-> "joinEval"]
Joined == [init |-> "initDone", run |-> "runDone", eval |-> "evalDone"]

NextStage(s) == IF s = "init" THEN "run" ELSE "eval"

-----------------------------------------------------------------------------
(* Initially every first task has been created and none has run yet: the   *)
(* coroutine is at its first await, init_queue.join().                      *)

Init ==
    /\ queue = [s \in Stage |-> IF s = "init" THEN [i \in Item |-> i] ELSE <<>>]
    /\ unfinished = [s \in Stage |-> IF s = "init" THEN N ELSE 0]
    /\ needed = [s \in Stage |-> N - Width[s]]
    /\ pc = [w \in Worker |-> "get"]
    /\ holds = [w \in Worker |-> None]
    /\ results = [i \in Item |-> "none"]
    /\ main = "joinInit"
    /\ awaited = {}

\* The event loop runs tasks only until the coroutine has returned.
LoopRunning == main # "done"

\* asyncio.Queue.full(): the queue of initializations is unbounded, the others
\* hold as many trajectories as the stage has tasks.
Full_unbounded(s) == FALSE
Full(s) == s # "init" /\ Len(queue[s]) >= Width[s]

Get(w) ==
    LET s == w[1] IN
    /\ LoopRunning
    /\ pc[w] = "get"
    /\ queue[s] # <<>>
    /\ holds' = [holds EXCEPT ![w] = Head(queue[s])]
    /\ queue' = [queue EXCEPT ![s] = Tail(@)]
    /\ pc' = [pc EXCEPT ![w] = "work"]
    /\ UNCHANGED <<unfinished, needed, results, main, awaited>>

\* Whether the finally block of a task of stage s creates a successor, when
\* the counters are nd.  Only initialization also looks at its queue.
Respawn_initOnly(s, nd) == s = "init" /\ nd[s] > 0 /\ queue[s] # <<>>
Respawn(s, nd) == nd[s] > 0 /\ (s = "init" => queue[s] # <<>>)

\* The end of w's task: task_done(), which wakes a join when it was the last
\* unfinished item, then the successor.  unf and nd are the counters as the
\* body of the task left them.
EndTask(w, unf, nd) ==
    LET s == w[1] IN
    /\ unfinished' = [unf EXCEPT ![s] = @ - 1]
    /\ main' = IF unf[s] = 1 /\ main = Joining[s] THEN Joined[s] ELSE main
    /\ pc' = [pc EXCEPT ![w] = IF Respawn(s, nd) THEN "get" ELSE "exit"]
    /\ needed' = [nd EXCEPT ![s] = IF Respawn(s, nd) THEN @ - 1 ELSE @]
    /\ holds' = [holds EXCEPT ![w] = None]
    /\ awaited' = awaited \ {w}

\* await next_queue.put(item), which ends the task when there is room and
\* suspends it when there is not.
PutOrWait_dropWhenFull(w) ==
    LET t == NextStage(w[1]) IN
    \/ /\ ~Full(t)
       /\ queue' = [queue EXCEPT ![t] = Append(@, holds[w])]
       /\ EndTask(w, [unfinished EXCEPT ![t] = @ + 1], needed)
    \/ /\ Full(t)
       /\ EndTask(w, unfinished, needed)
       /\ UNCHANGED queue
PutOrWait(w) ==
    LET t == NextStage(w[1]) IN
    \/ /\ ~Full(t)
       /\ queue' = [queue EXCEPT ![t] = Append(@, holds[w])]
       /\ EndTask(w, [unfinished EXCEPT ![t] = @ + 1], needed)
    \/ /\ Full(t)
       /\ pc[w] = "work"
       /\ pc' = [pc EXCEPT ![w] = "put"]
       /\ UNCHANGED <<queue, unfinished, needed, holds, main, awaited>>

\* A suspended put() finds room.
ResumePut(w) ==
    /\ LoopRunning
    /\ pc[w] = "put"
    /\ PutOrWait(w)
    /\ UNCHANGED results

Working(w, s) == LoopRunning /\ w[1] = s /\ pc[w] = "work"

-----------------------------------------------------------------------------
(* initialize_one_runtime                                                   *)

\* _initialize_runtime_for_agent returned: the runtime is connected.
InitOk(w) ==
    /\ Working(w, "init")
    /\ PutOrWait(w)
    /\ UNCHANGED results

\* It raised (and closed the runtime): the trajectory will be neither run nor
\* evaluated, so one task fewer of each kind is needed.
InitFail_keepEvalBudget(w) ==
    /\ Working(w, "init")
    /\ holds[w] \in MayFailInit
    /\ results' = [results EXCEPT ![holds[w]] = "init_error"]
    /\ EndTask(w, unfinished, [needed EXCEPT !["run"] = @ - 1])
    /\ UNCHANGED queue
InitFail(w) ==
    /\ Working(w, "init")
    /\ holds[w] \in MayFailInit
    /\ results' = [results EXCEPT ![holds[w]] = "init_error"]
    /\ EndTask(w, unfinished, [needed EXCEPT !["run"] = @ - 1, !["eval"] = @ - 1])
    /\ UNCHANGED queue

(* run_one_agent                                                            *)

\* _run_agent returned, with the agent's outcome or with an error result of
\* its own; it has closed the runtime either way.
RunOk(w) ==
    /\ Working(w, "run")
    /\ results' = [results EXCEPT ![holds[w]] = "ran"]
    /\ PutOrWait(w)

\* _run_agent raised: its error handler calls get_final_messages again.
RunRaise_takeRunBudget(w) ==
    /\ Working(w, "run")
    /\ holds[w] \in MayFailRun
    /\ results' = [results EXCEPT ![holds[w]] = "run_error"]
    /\ EndTask(w, unfinished, [needed EXCEPT !["run"] = @ - 1, !["eval"] = @ - 1])
    /\ UNCHANGED queue
RunRaise(w) ==
    /\ Working(w, "run")
    /\ holds[w] \in MayFailRun
    /\ results' = [results EXCEPT ![holds[w]] = "run_error"]
    /\ EndTask(w, unfinished, [needed EXCEPT !["eval"] = @ - 1])
    /\ UNCHANGED queue

(* eval_one_agent                                                           *)

\* _evaluate_agent returned or raised: the result carries a verdict either way.
EvalEnd(w) ==
    /\ Working(w, "eval")
    /\ results' = [results EXCEPT ![holds[w]] = "evaluated"]
    /\ EndTask(w, unfinished, needed)
    /\ UNCHANGED queue

-----------------------------------------------------------------------------
(* The body of generate_trajectories_pipeline after its first join.         *)

\* active_init_tasks | active_run_tasks | active_eval_tasks
ActiveTasks_noRun == {w \in Worker : pc[w] # "exit" /\ w[1] # "run"}
ActiveTasks == {w \in Worker : pc[w] # "exit"}

\* asyncio.wait on the tasks active now; their successors are not among them.
WaitForTasks ==
    /\ awaited' = ActiveTasks
    /\ main' = IF ActiveTasks = {} THEN "done" ELSE "wait"

JoinEvalOrWait ==
    IF queue["eval"] # <<>> THEN main' = "joinEval" /\ UNCHANGED awaited
                            ELSE WaitForTasks

Others == <<queue, unfinished, needed, pc, holds, results>>

AfterInitJoin_skipRunJoin ==
    /\ main = "initDone"
    /\ JoinEvalOrWait
    /\ UNCHANGED Others
AfterInitJoin ==
    /\ main = "initDone"
    /\ IF queue["run"] # <<>> THEN main' = "joinRun" /\ UNCHANGED awaited
                              ELSE JoinEvalOrWait
    /\ UNCHANGED Others

AfterRunJoin == main = "runDone" /\ JoinEvalOrWait /\ UNCHANGED Others

AfterEvalJoin == main = "evalDone" /\ WaitForTasks /\ UNCHANGED Others

\* asyncio.wait returns when every task of the snapshot has ended.
FinishWait_firstCompleted ==
    /\ main = "wait"
    /\ awaited # {w \in Worker : pc[w] # "exit"}
    /\ main' = "done"
    /\ UNCHANGED <<Others, awaited>>
FinishWait ==
    /\ main = "wait"
    /\ awaited = {}
    /\ main' = "done"
    /\ UNCHANGED <<Others, awaited>>

Main == AfterInitJoin \/ AfterRunJoin \/ AfterEvalJoin \/ FinishWait

\* One stretch of one task.
Task(w) ==
    \/ Get(w) \/ ResumePut(w)
    \/ InitOk(w) \/ InitFail(w)
    \/ RunOk(w) \/ RunRaise(w)
    \/ EvalEnd(w)

\* The coroutine has returned; nothing else happens.
Returned == main = "done" /\ UNCHANGED vars

Next ==
    \/ \E w \in Worker : Task(w)
    \/ Main
    \/ Returned

Spec == Init /\ [][Next]_vars

\* asyncio resumes every task that can be resumed, and each stage's own work
\* ends: the agent has an iteration limit, the evaluator a timeout.
Fairness == (\A w \in Worker : WF_vars(Task(w))) /\ WF_vars(Main)

FairSpec == Spec /\ Fairness

-----------------------------------------------------------------------------
(* Properties                                                               *)

Result == {"none", "init_error", "run_error", "ran", "evaluated"}

\* Every variable has its type; in particular no queue's task_done() is called
\* more often than items were put (asyncio raises ValueError if it is).
TypeOK ==
    /\ queue \in [Stage -> Seq(Item)]
    /\ unfinished \in [Stage -> Nat]
    /\ needed \in [Stage -> Int]
    /\ pc \in [Worker -> TaskPC]
    /\ holds \in [Worker -> Item \cup {None}]
    /\ results \in [Item -> Result]
    /\ main \in MainPC
    /\ awaited \subseteq Worker

Idle(s) == {w \in Worker : w[1] = s /\ pc[w] = "get"}
Busy(s) == {w \in Worker : w[1] = s /\ pc[w] \in {"work", "put"}}

\* Trajectories that may still come to a run task, and to an evaluation task:
\* those in the stage's queue and everything before it.
ComingToRun == Len(queue["init"]) + Cardinality(Busy("init")) + Len(queue["run"])
ComingToEval == ComingToRun + Cardinality(Busy("run")) + Len(queue["eval"])

\* The ledger that replaces a pool: idle run (evaluation) tasks plus the ones
\* still to be created are exactly the trajectories that can still arrive,
\* through every interleaving of failures, respawns and blocked puts.
TaskBudget ==
    /\ Cardinality(Idle("run")) + needed["run"] = ComingToRun
    /\ Cardinality(Idle("eval")) + needed["eval"] = ComingToEval

\* Where trajectory i is: the tasks that hold it and its places in the queues.
Holders(i) == {w \in Worker : holds[w] = i}
Places(i) == UNION {{s} \X {k \in 1..Len(queue[s]) : queue[s][k] = i} : s \in Stage}

\* A trajectory that is not settled for good is in exactly one place, and a
\* settled one in none: no interleaving of puts, gets and failures loses a
\* trajectory or runs or evaluates it twice.
TrajectoryAccounted ==
    \A i \in Item :
        Cardinality(Holders(i)) + Cardinality(Places(i)) =
            IF results[i] \in {"none", "ran"} THEN 1 ELSE 0

\* When the coroutine returns every trajectory has a result: the assertion at
\* the head of _convert_results_to_dataproto cannot fail, although the run
\* queue is joined only if it happens to be non-empty.
ResultsComplete == main = "done" => \A i \in Item : results[i] # "none"

\* When the coroutine returns no finished run is left without a verdict
\* ("Wait for all eval tasks to complete").
AllEvaluated == main = "done" => \A i \in Item : results[i] # "ran"

\* What holds instead.  The evaluation queue was drained before the final wait
\* began, so only the P runs then under way are evaluated later; and all of them
\* have been handed on by the end, to a bounded queue and E evaluation tasks.
FewUnevaluated ==
    main = "done" =>
        LET unevaluated == {i \in Item : results[i] = "ran"}
        IN  Cardinality(unevaluated) <= P /\ Cardinality(unevaluated) <= 2 * E

\* Runtimes that are up and idle: initialized, in run_queue or in the hands of a
\* task that waits for room there.
IdleRuntimes ==
    Len(queue["run"]) + Cardinality({w \in Worker : w[1] = "init" /\ pc[w] = "put"})

\* The bounded run queue is what limits the sandboxes: at most twice
\* max_parallel_agents are up without an agent, whatever the batch size.
RuntimeBound == IdleRuntimes <= 2 * P

\* The pipeline keeps the promise of RolloutContract.
Contract == INSTANCE RolloutContract WITH returned <- (main = "done")
ImplementsContract == Contract!Spec

\* Every trajectory gets a result, whatever fails.
EveryTrajectorySettles == <>(\A i \in Item : results[i] # "none")

\* The coroutine returns.
Terminates == <>(main = "done")

\* It returns unless a failure drove a counter of needed tasks below zero,
\* that is, unless it happened after the last task of that kind was created.
TerminatesUnlessOverdrawn ==
    [](\A s \in {"run", "eval"} : needed[s] >= 0) => Terminates
-----------------------------------------------------------------------------
(* The inductive invariant behind the proofs.                               *)

\* A task holds a trajectory exactly while it works on it or hands it on; a run
\* hands it on with its result, and evaluation hands nothing on.
HoldsInv ==
    \A w \in Worker :
        /\ pc[w] \in {"work", "put"} <=> holds[w] \in Item
        /\ w[1] = "eval" => pc[w] # "put"
        /\ w[1] = "run" /\ pc[w] = "put" => results[holds[w]] # "none"

\* asyncio's count of unfinished items: the queued ones and those in the hands
\* of the stage's tasks.
JoinCounts ==
    \A s \in Stage : unfinished[s] = Len(queue[s]) + Cardinality(Busy(s))

InQueue(i, s) == \E k \in 1..Len(queue[s]) : queue[s][k] = i
RunningIn(i) == {w \in Worker : w[1] = "run" /\ pc[w] = "work" /\ holds[w] = i}

\* A trajectory without a result is somewhere before the end of its run.
PendingLocated ==
    \A i \in Item :
        results[i] = "none" =>
            \/ InQueue(i, "init")
            \/ \E w \in Worker : w[1] = "init" /\ holds[w] = i
            \/ InQueue(i, "run")
            \/ RunningIn(i) # {}

\* What each wait of the coroutine has established.
MainInv ==
    /\ main # "joinInit" => unfinished["init"] = 0
    /\ main \in {"runDone", "joinEval", "evalDone", "wait", "done"} => queue["run"] = <<>>
    /\ main \in {"wait", "done"} =>
           \A w \in Worker : w[1] = "run" /\ pc[w] = "work" => w \in awaited
    /\ main = "done" => awaited = {}

IInv == TypeOK /\ HoldsInv /\ JoinCounts /\ TaskBudget /\ PendingLocated /\ MainInv
=============================================================================
