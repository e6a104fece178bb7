------------------------ MODULE RolloutPipelineProofs ------------------------
(***************************************************************************)
(* Machine-checked proofs about RolloutPipeline, for every batch size N,   *)
(* every max_parallel_agents P, every max_eval_parallel_agents E and every *)
(* set of failing trajectories.  First the inductive invariant IInv and    *)
(* what it gives: every trajectory has a result when the coroutine         *)
(* returns.  Then that the pipeline implements RolloutContract: no         *)
(* trajectory is lost, doubled or settled twice on its way through the     *)
(* tasks and queues.  Last the bounds on what waits between the stages:    *)
(* runtimes up without an agent at any time, and runs left without a       *)
(* grade when the coroutine returns.                                       *)
(***************************************************************************)
EXTENDS RolloutPipeline, FiniteSetTheorems, SequenceTheorems, TLAPS

-----------------------------------------------------------------------------
(* The inductive invariant                                                  *)

\* The chains of tasks are finitely many.
LEMMA WorkersFinite == IsFiniteSet(Worker)
<1>1. N + P + E \in Nat
  BY SizesAssumption
<1>2. IsFiniteSet(1..(N + P + E))
  BY <1>1, FS_Interval
<1>3. IsFiniteSet(Stage)
  <2>1. IsFiniteSet({"init"})
    BY FS_Singleton
  <2>2. IsFiniteSet({"init"} \cup {"run"})
    BY <2>1, FS_AddElement
  <2>3. IsFiniteSet(({"init"} \cup {"run"}) \cup {"eval"})
    BY <2>2, FS_AddElement
  <2>4. ({"init"} \cup {"run"}) \cup {"eval"} = Stage
    BY DEF Stage
  <2> QED
    BY <2>3, <2>4
<1>4. IsFiniteSet(Stage \X (1..(N + P + E)))
  BY <1>2, <1>3, FS_Product
<1> QED
  BY <1>4, FS_Subset DEF Worker

\* The idle and the busy tasks of a stage are finitely many.
LEMMA CountsAreNat ==
  ASSUME NEW s \in Stage
  PROVE  /\ IsFiniteSet(Idle(s)) /\ Cardinality(Idle(s)) \in Nat
         /\ IsFiniteSet(Busy(s)) /\ Cardinality(Busy(s)) \in Nat
         /\ Cardinality(Busy(s))' \in Nat
<1>1. Idle(s) \in SUBSET Worker /\ Busy(s) \in SUBSET Worker /\ Busy(s)' \in SUBSET Worker
  BY DEF Idle, Busy
<1> QED
  BY <1>1, WorkersFinite, FS_Subset, FS_CardinalityType

\* When one task moves to v, the counts of its stage change by at most one and
\* the counts of the other stages not at all.
LEMMA CountStep ==
  ASSUME TypeOK, NEW w \in Worker, NEW v \in TaskPC,
         pc' = [pc EXCEPT ![w] = v], NEW s \in Stage
  PROVE  /\ Cardinality(Idle(s)) \in Nat /\ Cardinality(Busy(s)) \in Nat
         /\ w[1] # s => /\ Cardinality(Idle(s))' = Cardinality(Idle(s))
                        /\ Cardinality(Busy(s))' = Cardinality(Busy(s))
         /\ w[1] = s =>
              /\ Cardinality(Idle(s))' =
                   IF v = "get"
                     THEN IF pc[w] = "get" THEN Cardinality(Idle(s)) ELSE Cardinality(Idle(s)) + 1
                     ELSE IF pc[w] = "get" THEN Cardinality(Idle(s)) - 1 ELSE Cardinality(Idle(s))
              /\ Cardinality(Busy(s))' =
                   IF v \in {"work", "put"}
                     THEN IF pc[w] \in {"work", "put"} THEN Cardinality(Busy(s)) ELSE Cardinality(Busy(s)) + 1
                     ELSE IF pc[w] \in {"work", "put"} THEN Cardinality(Busy(s)) - 1 ELSE Cardinality(Busy(s))
<1> USE DEF TypeOK, TaskPC
<1>1. Cardinality(Idle(s)) \in Nat /\ Cardinality(Busy(s)) \in Nat
      /\ IsFiniteSet(Idle(s)) /\ IsFiniteSet(Busy(s))
  BY CountsAreNat
<1>2. Idle(s)' = IF w[1] # s THEN Idle(s)
                 ELSE IF v = "get" THEN Idle(s) \cup {w} ELSE Idle(s) \ {w}
  BY DEF Idle
<1>3. Busy(s)' = IF w[1] # s THEN Busy(s)
                 ELSE IF v \in {"work", "put"} THEN Busy(s) \cup {w} ELSE Busy(s) \ {w}
  BY DEF Busy
<1>4. w[1] = s => (w \in Idle(s) <=> pc[w] = "get") /\ (w \in Busy(s) <=> pc[w] \in {"work", "put"})
  BY DEF Idle, Busy
<1>5. /\ Cardinality(Idle(s) \cup {w}) = IF w \in Idle(s) THEN Cardinality(Idle(s)) ELSE Cardinality(Idle(s)) + 1
      /\ Cardinality(Idle(s) \ {w}) = IF w \in Idle(s) THEN Cardinality(Idle(s)) - 1 ELSE Cardinality(Idle(s))
      /\ Cardinality(Busy(s) \cup {w}) = IF w \in Busy(s) THEN Cardinality(Busy(s)) ELSE Cardinality(Busy(s)) + 1
      /\ Cardinality(Busy(s) \ {w}) = IF w \in Busy(s) THEN Cardinality(Busy(s)) - 1 ELSE Cardinality(Busy(s))
  BY <1>1, FS_AddElement, FS_RemoveElement
<1>6. Cardinality(Idle(s))' = Cardinality(Idle(s)') /\ Cardinality(Busy(s))' = Cardinality(Busy(s)')
  OBVIOUS
<1>7. CASE w[1] # s
  BY <1>1, <1>2, <1>3, <1>6, <1>7
<1>8. CASE w[1] = s
  BY <1>1, <1>2, <1>3, <1>4, <1>5, <1>6, <1>8
<1> QED
  BY <1>7, <1>8

\* A change by d in the stage of w, and in no other.
Delta(w, d) == [t \in Stage |-> IF t = w[1] THEN d ELSE 0]

\* Such a change is an integer in every stage.
LEMMA DeltaType ==
  ASSUME NEW w, NEW d \in Int
  PROVE  Delta(w, d) \in [Stage -> Int]
BY DEF Delta

\* The three moves a task makes: it takes a trajectory, ...
LEMMA TakeMove ==
  ASSUME TypeOK, NEW w \in Worker, pc[w] = "get", pc' = [pc EXCEPT ![w] = "work"],
         NEW s \in Stage
  PROVE  /\ Cardinality(Idle(s))' = Cardinality(Idle(s)) + Delta(w, -1)[s]
         /\ Cardinality(Busy(s))' = Cardinality(Busy(s)) + Delta(w, 1)[s]
<1>1. "work" \in TaskPC
  BY DEF TaskPC
<1>2. /\ Cardinality(Idle(s)) \in Nat /\ Cardinality(Busy(s)) \in Nat
      /\ Cardinality(Idle(s))' = IF w[1] = s THEN Cardinality(Idle(s)) - 1 ELSE Cardinality(Idle(s))
      /\ Cardinality(Busy(s))' = IF w[1] = s THEN Cardinality(Busy(s)) + 1 ELSE Cardinality(Busy(s))
  BY <1>1, CountStep
<1> QED
  BY <1>2 DEF Delta

\* ... it blocks while it hands the trajectory on, ...
LEMMA BlockMove ==
  ASSUME TypeOK, NEW w \in Worker, pc[w] = "work", pc' = [pc EXCEPT ![w] = "put"],
         NEW s \in Stage
  PROVE  /\ Cardinality(Idle(s))' = Cardinality(Idle(s))
         /\ Cardinality(Busy(s))' = Cardinality(Busy(s))
<1>1. "put" \in TaskPC
  BY DEF TaskPC
<1> QED
  BY <1>1, CountStep

\* ... and it ends, with a successor or without.
LEMMA EndMove ==
  ASSUME TypeOK, NEW w \in Worker, pc[w] \in {"work", "put"}, NEW v \in {"get", "exit"},
         pc' = [pc EXCEPT ![w] = v], NEW s \in Stage
  PROVE  /\ Cardinality(Idle(s))' = Cardinality(Idle(s)) + Delta(w, IF v = "get" THEN 1 ELSE 0)[s]
         /\ Cardinality(Busy(s))' = Cardinality(Busy(s)) + Delta(w, -1)[s]
<1>1. v \in TaskPC /\ v \notin {"work", "put"} /\ pc[w] # "get"
  BY DEF TaskPC
<1>2. /\ Cardinality(Idle(s)) \in Nat /\ Cardinality(Busy(s)) \in Nat
      /\ Cardinality(Idle(s))' =
           IF w[1] = s /\ v = "get" THEN Cardinality(Idle(s)) + 1 ELSE Cardinality(Idle(s))
      /\ Cardinality(Busy(s))' = IF w[1] = s THEN Cardinality(Busy(s)) - 1 ELSE Cardinality(Busy(s))
  BY <1>1, CountStep
<1> QED
  BY <1>2 DEF Delta

\* A step changes the counts: per stage, by idle[s] idle tasks, busy[s]
\* trajectories in hand, len[s] queued ones and need[s] needed tasks.
Shift(idle, busy, len, need) ==
    \A s \in Stage : /\ Cardinality(Idle(s))' = Cardinality(Idle(s)) + idle[s]
                     /\ Cardinality(Busy(s))' = Cardinality(Busy(s)) + busy[s]
                     /\ Len(queue'[s]) = Len(queue[s]) + len[s]
                     /\ needed'[s] = needed[s] + need[s]

\* Both sides of the task budget change alike.
Balanced(idle, busy, len, need) ==
    /\ idle["run"] + need["run"] = len["init"] + busy["init"] + len["run"]
    /\ idle["eval"] + need["eval"] =
         len["init"] + busy["init"] + len["run"] + busy["run"] + len["eval"]

\* When what a step adds to the idle tasks and to the needed ones is what it adds
\* to the trajectories to come, the ledger TaskBudget stays balanced.
LEMMA BudgetStep ==
  ASSUME IInv,
         NEW idle \in [Stage -> Int], NEW busy \in [Stage -> Int],
         NEW len \in [Stage -> Int], NEW need \in [Stage -> Int],
         Shift(idle, busy, len, need), Balanced(idle, busy, len, need)
  PROVE  TaskBudget'
<1>1. \A s \in Stage : Len(queue[s]) \in Nat /\ needed[s] \in Int
  BY LenProperties DEF IInv, TypeOK
<1>2. \A s \in Stage : Cardinality(Idle(s)) \in Nat /\ Cardinality(Busy(s)) \in Nat
  BY CountsAreNat
<1> DEFINE ir == idle["run"]   ie == idle["eval"]  nr == need["run"]  ne == need["eval"]
           qi == len["init"]   qr == len["run"]    qe == len["eval"]
           bi == busy["init"]  br == busy["run"]
           xr == Cardinality(Idle("run"))   xe == Cardinality(Idle("eval"))
           yr == needed["run"]              ye == needed["eval"]
           ci == Len(queue["init"])         cr == Len(queue["run"])
           ce == Len(queue["eval"])
           di == Cardinality(Busy("init"))  dr == Cardinality(Busy("run"))
<1>3. /\ xr \in Int /\ xe \in Int /\ yr \in Int /\ ye \in Int
      /\ ci \in Int /\ cr \in Int /\ ce \in Int /\ di \in Int /\ dr \in Int
      /\ ir \in Int /\ ie \in Int /\ nr \in Int /\ ne \in Int
      /\ qi \in Int /\ qr \in Int /\ qe \in Int /\ bi \in Int /\ br \in Int
  BY <1>1, <1>2 DEF Stage
<1>4. xr + yr = ci + di + cr /\ xe + ye = ci + di + cr + dr + ce
  BY DEF IInv, TaskBudget, ComingToRun, ComingToEval
<1>5. /\ (xr + ir) + (yr + nr) = (ci + qi) + (di + bi) + (cr + qr)
      /\ (xe + ie) + (ye + ne) = (ci + qi) + (di + bi) + (cr + qr) + (dr + br) + (ce + qe)
  <2>1. ir + nr = qi + bi + qr /\ ie + ne = qi + bi + qr + br + qe
    BY DEF Balanced
  <2> HIDE DEF xr, xe, yr, ye, ci, cr, ce, di, dr, ir, ie, nr, ne, qi, qr, qe, bi, br
  <2>2. (xr + ir) + (yr + nr) = (ci + qi) + (di + bi) + (cr + qr)
    BY <1>3, <1>4, <2>1
  <2>3. (xe + ie) + (ye + ne) = (ci + qi) + (di + bi) + (cr + qr) + (dr + br) + (ce + qe)
    BY <1>3, <1>4, <2>1
  <2> QED
    BY <2>2, <2>3
<1> QED
  BY <1>5 DEF TaskBudget, ComingToRun, ComingToEval, Shift, Stage

-----------------------------------------------------------------------------
(* The invariant holds initially.                                           *)

\* With the first tasks created and every trajectory in init_queue, the
\* inductive invariant holds.
LEMMA InitIInv == Init => IInv
<1> SUFFICES ASSUME Init PROVE IInv
  OBVIOUS
<1> USE SizesAssumption
<1>1. TypeOK
  <2>1. [i \in Item |-> i] \in Seq(Item) /\ Len([i \in Item |-> i]) = N
    BY DEF Item
  <2>2. \A s \in Stage : Width[s] \in Nat
    BY DEF Width, Stage
  <2>3. queue \in [Stage -> Seq(Item)]
    BY <2>1 DEF Init
  <2> QED
    BY <2>2, <2>3 DEF Init, TypeOK, TaskPC, MainPC, Result, Item
<1>2. HoldsInv
  BY DEF Init, HoldsInv, Item, None
<1>3. \A s \in Stage : Busy(s) = {} /\ Idle(s) = {w \in Worker : w[1] = s}
  BY DEF Init, Busy, Idle
<1>4. \A s \in Stage : Cardinality(Busy(s)) = 0
  BY <1>3, FS_EmptySet
<1>5. Len(queue["init"]) = N /\ Len(queue["run"]) = 0 /\ Len(queue["eval"]) = 0
  BY DEF Init, Stage, Item
<1>6. JoinCounts
  BY <1>4, <1>5 DEF JoinCounts, Init, Stage
<1>7. TaskBudget
  <2>1. ASSUME NEW s \in {"run", "eval"}
        PROVE  Cardinality(Idle(s)) = Width[s]
    <3>1. Width[s] \in Nat /\ Width[s] <= N + P + E
      BY DEF Width
    <3> DEFINE f == [k \in 1..Width[s] |-> <<s, k>>]
    <3>2. f \in Bijection(1..Width[s], Idle(s))
      <4>1. \A k \in 1..Width[s] : <<s, k>> \in Idle(s)
        BY <3>1, <1>3 DEF Worker, Stage
      <4>2. \A w \in Idle(s) : w = <<s, w[2]>> /\ w[2] \in 1..Width[s]
        BY <1>3 DEF Worker, Stage
      <4>3. f \in [1..Width[s] -> Idle(s)]
        BY <4>1
      <4>4. \A j, k \in 1..Width[s] : f[j] = f[k] => j = k
        OBVIOUS
      <4>5. \A w \in Idle(s) : \E k \in 1..Width[s] : f[k] = w
        BY <4>2
      <4> QED
        BY <4>3, <4>4, <4>5 DEF Bijection, Injection, Surjection, IsInjective
    <3>3. ExistsBijection(1..Width[s], Idle(s))
      BY <3>2 DEF ExistsBijection
    <3> QED
      BY <3>1, <3>3, FS_CountingElements
  <2>2. \A s \in {"run", "eval"} : needed[s] = N - Width[s] /\ Width[s] \in Nat
    BY DEF Init, Stage, Width
  <2> QED
    BY <2>1, <2>2, <1>4, <1>5 DEF TaskBudget, ComingToRun, ComingToEval, Stage
<1>8. PendingLocated
  BY <1>5 DEF PendingLocated, InQueue, Init, Stage, Item
<1>9. MainInv
  BY DEF MainInv, Init
<1> QED
  BY <1>1, <1>2, <1>6, <1>7, <1>8, <1>9 DEF IInv
-----------------------------------------------------------------------------
(* Preservation, one lemma per shape of a step.                             *)

\* A task that takes a trajectory from its queue (await queue.get()) preserves
\* the invariant.
LEMMA GetStep ==
  ASSUME IInv, NEW w \in Worker, Get(w)
  PROVE  IInv'
<1> DEFINE s == w[1]
<1>1. s \in Stage
  BY DEF Worker
<1>2. /\ queue \in [Stage -> Seq(Item)] /\ queue[s] \in Seq(Item) /\ queue[s] # <<>>
      /\ queue' = [queue EXCEPT ![s] = Tail(queue[s])]
      /\ holds' = [holds EXCEPT ![w] = Head(queue[s])]
      /\ pc' = [pc EXCEPT ![w] = "work"] /\ pc[w] = "get" /\ main # "done"
      /\ UNCHANGED <<unfinished, needed, results, main, awaited>>
  BY <1>1 DEF Get, IInv, TypeOK, LoopRunning
<1>3. /\ Head(queue[s]) \in Item /\ Tail(queue[s]) \in Seq(Item)
      /\ Len(Tail(queue[s])) = Len(queue[s]) - 1
      /\ \A k \in 1..Len(Tail(queue[s])) : Tail(queue[s])[k] = queue[s][k+1]
      /\ Head(queue[s]) = queue[s][1]
      /\ Len(queue[s]) \in Nat \ {0}
  BY <1>2, HeadTailProperties, EmptySeq
<1>4. TypeOK'
  BY <1>1, <1>2, <1>3 DEF IInv, TypeOK, TaskPC
<1>5. HoldsInv'
  BY <1>1, <1>2, <1>3 DEF IInv, TypeOK, HoldsInv
<1>6. \A t \in Stage :
        /\ Cardinality(Idle(t))' = Cardinality(Idle(t)) + Delta(w, -1)[t]
        /\ Cardinality(Busy(t))' = Cardinality(Busy(t)) + Delta(w, 1)[t]
        /\ Len(queue'[t]) = Len(queue[t]) + Delta(w, -1)[t]
        /\ needed'[t] = needed[t] + Delta(w, 0)[t]
  <2> TAKE t \in Stage
  <2>1. /\ Cardinality(Idle(t))' = Cardinality(Idle(t)) + Delta(w, -1)[t]
        /\ Cardinality(Busy(t))' = Cardinality(Busy(t)) + Delta(w, 1)[t]
    BY <1>2, TakeMove DEF IInv
  <2>2. Len(queue'[t]) = Len(queue[t]) + Delta(w, -1)[t]
    BY <1>1, <1>2, <1>3, LenProperties DEF Delta
  <2>3. needed'[t] = needed[t] + Delta(w, 0)[t]
    BY <1>2 DEF IInv, TypeOK, Delta
  <2> QED
    BY <2>1, <2>2, <2>3
<1>7. JoinCounts'
  <2> SUFFICES ASSUME NEW t \in Stage
               PROVE  unfinished'[t] = Len(queue'[t]) + Cardinality(Busy(t))'
    BY DEF JoinCounts
  <2>1. Len(queue[t]) \in Nat /\ Cardinality(Busy(t)) \in Nat
    BY LenProperties, CountsAreNat DEF IInv, TypeOK
  <2> QED
    BY <2>1, <1>2, <1>6 DEF IInv, JoinCounts, Delta
<1>8. TaskBudget'
  <2>1. /\ Delta(w, -1)["run"] + Delta(w, 0)["run"] =
             Delta(w, -1)["init"] + Delta(w, 1)["init"] + Delta(w, -1)["run"]
        /\ Delta(w, -1)["eval"] + Delta(w, 0)["eval"] =
             Delta(w, -1)["init"] + Delta(w, 1)["init"] + Delta(w, -1)["run"]
               + Delta(w, 1)["run"] + Delta(w, -1)["eval"]
    BY <1>1 DEF Delta, Stage
  <2> DEFINE up == Delta(w, 1)  down == Delta(w, -1)  zero == Delta(w, 0)
  <2>2. up \in [Stage -> Int] /\ down \in [Stage -> Int] /\ zero \in [Stage -> Int]
    BY DeltaType
  <2>3. Shift(down, up, down, zero)
    BY <1>6 DEF Shift
  <2>4. Balanced(down, up, down, zero)
    BY <2>1 DEF Balanced
  <2> HIDE DEF up, down, zero
  <2> QED
    BY <2>2, <2>3, <2>4, BudgetStep
<1>9. PendingLocated'
  <2> SUFFICES ASSUME NEW i \in Item, results[i] = "none"
               PROVE  \/ InQueue(i, "init")'
                      \/ \E v \in Worker : v[1] = "init" /\ holds'[v] = i
                      \/ InQueue(i, "run")'
                      \/ RunningIn(i)' # {}
    BY <1>2 DEF PendingLocated
  <2>1. ASSUME NEW t \in Stage, InQueue(i, t)
        PROVE  InQueue(i, t)' \/ (t = s /\ holds'[w] = i)
    <3>1. PICK k \in 1..Len(queue[t]) : queue[t][k] = i
      BY <2>1 DEF InQueue
    <3>2. CASE t # s
      BY <3>1, <3>2, <1>1, <1>2 DEF InQueue
    <3>3. CASE t = s /\ k = 1
      BY <3>1, <3>3, <1>2, <1>3 DEF IInv, TypeOK
    <3>4. CASE t = s /\ k # 1
      <4>1. k - 1 \in 1..Len(Tail(queue[s])) /\ Tail(queue[s])[k - 1] = i
        BY <3>1, <3>4, <1>3
      <4> QED
        BY <4>1, <3>4, <1>1, <1>2 DEF InQueue
    <3> QED
      BY <3>2, <3>3, <3>4
  <2>2. ASSUME NEW v \in Worker, holds[v] = i
        PROVE  v # w /\ holds'[v] = i /\ pc'[v] = pc[v]
    BY <2>2, <1>2 DEF IInv, TypeOK, HoldsInv
  <2>3. \/ InQueue(i, "init") \/ \E v \in Worker : v[1] = "init" /\ holds[v] = i
        \/ InQueue(i, "run") \/ RunningIn(i) # {}
    BY DEF IInv, PendingLocated
  <2>4. pc'[w] = "work"
    BY <1>2 DEF IInv, TypeOK
  <2> QED
    BY <2>1, <2>2, <2>3, <2>4 DEF RunningIn, Stage
<1>10. MainInv'
  <2>1. ~(s = "run" /\ main \in {"wait", "done"})
    BY <1>2 DEF IInv, MainInv
  <2>2. main \in {"runDone", "joinEval", "evalDone", "wait", "done"} => queue'["run"] = <<>>
    BY <1>1, <1>2 DEF IInv, MainInv, Stage
  <2> QED
    BY <2>1, <2>2, <1>2 DEF IInv, MainInv, TypeOK
<1> QED
  BY <1>4, <1>5, <1>7, <1>8, <1>9, <1>10 DEF IInv
\* A task ends having lengthened the queues by len and changed the needed tasks
\* by lost, in proportion: what leaves the stage of w moves on or is given up.
Settles(w, len, lost, unf, nd) ==
    /\ \A t \in Stage : /\ unf[t] = unfinished[t] + len[t]
                        /\ nd[t] = needed[t] + lost[t]
                        /\ Len(queue'[t]) = Len(queue[t]) + len[t]
    /\ len["init"] = 0
    /\ w[1] # "init" => len["run"] = 0
    /\ lost["run"] = Delta(w, -1)["init"] + len["run"]
    /\ lost["eval"] = Delta(w, -1)["init"] + len["run"] + Delta(w, -1)["run"] + len["eval"]

\* The end of a task keeps the ledger and the join counts: task_done() and the
\* finally block's successor match what the body did to the queues.
LEMMA EndCounts ==
  ASSUME IInv, NEW w \in Worker, pc[w] \in {"work", "put"},
         NEW len \in [Stage -> Int], NEW lost \in [Stage -> Int],
         NEW unf \in [Stage -> Int], NEW nd \in [Stage -> Int],
         queue' \in [Stage -> Seq(Item)],
         EndTask(w, unf, nd), Settles(w, len, lost, unf, nd)
  PROVE  /\ JoinCounts' /\ TaskBudget'
         /\ unfinished' \in [Stage -> Nat] /\ needed' \in [Stage -> Int]
<1>1. w[1] \in Stage /\ TypeOK
  BY DEF Worker, IInv
<1>2. PICK v \in {"get", "exit"} :
        /\ pc' = [pc EXCEPT ![w] = v]
        /\ needed' = [nd EXCEPT ![w[1]] = IF v = "get" THEN nd[w[1]] - 1 ELSE nd[w[1]]]
  <2>1. CASE Respawn(w[1], nd)
    BY <2>1 DEF EndTask
  <2>2. CASE ~Respawn(w[1], nd)
    BY <2>2 DEF EndTask
  <2> QED
    BY <2>1, <2>2
<1>3. unfinished' = [unf EXCEPT ![w[1]] = unf[w[1]] - 1]
  BY DEF EndTask
<1>4. PICK g \in {0, 1} : g = IF v = "get" THEN 1 ELSE 0
  OBVIOUS
<1> DEFINE idle == Delta(w, g)
           busy == Delta(w, -1)
           back == Delta(w, 0 - g)
           need == [t \in Stage |-> lost[t] + back[t]]
<1>5. idle \in [Stage -> Int] /\ busy \in [Stage -> Int] /\ back \in [Stage -> Int]
  BY <1>4, DeltaType
<1>6. need \in [Stage -> Int]
  <2> HIDE DEF back
  <2> QED
    BY <1>5
<1>7. Shift(idle, busy, len, need)
  <2> SUFFICES ASSUME NEW t \in Stage
               PROVE  /\ Cardinality(Idle(t))' = Cardinality(Idle(t)) + idle[t]
                      /\ Cardinality(Busy(t))' = Cardinality(Busy(t)) + busy[t]
                      /\ Len(queue'[t]) = Len(queue[t]) + len[t]
                      /\ needed'[t] = needed[t] + need[t]
    BY DEF Shift
  <2>1. /\ Cardinality(Idle(t))' = Cardinality(Idle(t)) + idle[t]
        /\ Cardinality(Busy(t))' = Cardinality(Busy(t)) + busy[t]
    BY <1>1, <1>2, <1>4, EndMove
  <2>2. /\ Len(queue'[t]) = Len(queue[t]) + len[t] /\ nd[t] = needed[t] + lost[t]
        /\ needed[t] \in Int /\ lost[t] \in Int
    BY <1>1 DEF Settles, TypeOK
  <2>3. needed'[t] = needed[t] + need[t]
    <3>1. CASE t = w[1]
      <4>1. need[t] = lost[t] + (0 - g)
        BY <3>1 DEF Delta
      <4>2. nd[t] \in Int /\ needed'[t] = IF v = "get" THEN nd[t] - 1 ELSE nd[t]
        BY <3>1, <1>2
      <4>3. needed'[t] = nd[t] - g
        BY <4>2, <1>4
      <4>4. (needed[t] + lost[t]) - g = needed[t] + (lost[t] + (0 - g))
        <5>1. \A x, y, z \in Int : (x + y) - z = x + (y + (0 - z))
          OBVIOUS
        <5> HIDE DEF need, back, busy, idle
        <5>2. g \in Int
          BY <1>4
        <5> QED
          BY <2>2, <5>1, <5>2, Zenon
      <4> QED
        BY <2>2, <4>1, <4>3, <4>4
    <3>2. CASE t # w[1]
      BY <2>2, <3>2, <1>1, <1>2 DEF Delta
    <3> QED
      BY <3>1, <3>2
  <2> QED
    BY <2>1, <2>2, <2>3
<1>8. ASSUME NEW t \in Stage
      PROVE  /\ unfinished'[t] = Len(queue'[t]) + Cardinality(Busy(t))'
             /\ unfinished'[t] \in Nat
  <2>1. /\ Len(queue[t]) \in Nat /\ Len(queue'[t]) \in Nat
        /\ Cardinality(Busy(t)) \in Nat /\ Cardinality(Busy(t))' \in Nat
    BY <1>1, LenProperties, CountsAreNat DEF TypeOK
  <2> DEFINE a == Len(queue[t])   b == Cardinality(Busy(t))   c == len[t]   d == busy[t]
             x == Len(queue'[t])  y == Cardinality(Busy(t))'  u == unfinished'[t]
  <2>2. x = a + c /\ y = b + d
    BY <1>7 DEF Shift
  <2>3. unfinished[t] = a + b /\ unf[t] = unfinished[t] + c /\ unf[t] \in Int
    BY DEF IInv, JoinCounts, Settles
  <2>4. u = unf[t] + d
    <3>1. CASE t = w[1]
      BY <3>1, <2>3, <1>3 DEF Delta
    <3>2. CASE t # w[1]
      BY <3>2, <2>3, <1>3 DEF Delta
    <3> QED
      BY <3>1, <3>2
  <2>5. a \in Nat /\ b \in Nat /\ c \in Int /\ d \in Int /\ x \in Nat /\ y \in Nat
    BY <2>1, <1>5
  <2>6. u = ((a + b) + c) + d
    BY <2>3, <2>4
  <2>7. u = x + y /\ u \in Nat
    <3> HIDE DEF a, b, c, d, x, y, u
    <3> QED
      BY <2>2, <2>5, <2>6
  <2> QED
    BY <2>7
<1>9. Balanced(idle, busy, len, need)
  <2> DEFINE x == back["run"]    y == back["eval"]
             a == busy["init"]   b == busy["run"]
             c == len["run"]     d == len["eval"]
             i == idle["run"]    j == idle["eval"]
  <2>1. /\ x \in Int /\ y \in Int /\ a \in Int /\ b \in Int /\ c \in Int /\ d \in Int
        /\ i \in Int /\ j \in Int
    BY <1>5 DEF Stage
  <2>2. i + x = 0 /\ j + y = 0
    BY <1>4 DEF Delta, Stage
  <2>3. need["run"] = (a + c) + x /\ need["eval"] = (a + c + b + d) + y
    BY DEF Settles, Stage
  <2>4. i + ((a + c) + x) = 0 + a + c /\ j + ((a + c + b + d) + y) = 0 + a + c + b + d
    <3> HIDE DEF x, y, a, b, c, d, i, j
    <3> QED
      BY <2>1, <2>2
  <2>5. len["init"] = 0
    BY DEF Settles
  <2> QED
    BY <2>3, <2>4, <2>5 DEF Balanced
<1>10. TaskBudget'
  <2> HIDE DEF idle, need, busy
  <2> QED
    BY <1>5, <1>6, <1>7, <1>9, BudgetStep
<1>11. unfinished' \in [Stage -> Nat]
  <2>1. unfinished' = [t \in Stage |-> unfinished'[t]]
    BY <1>3
  <2> QED
    BY <2>1, <1>8
<1>12. needed' \in [Stage -> Int]
  <2>1. nd[w[1]] \in Int /\ nd[w[1]] - 1 \in Int
    BY <1>1
  <2> QED
    BY <2>1, <1>2
<1> QED
  BY <1>8, <1>10, <1>11, <1>12 DEF JoinCounts
\* The trajectory of w has its result or is in the run queue; the others stay
\* where they were.
Keeps(w) ==
    /\ \A t \in Stage, i \in Item : InQueue(i, t) => InQueue(i, t)'
    /\ \A i \in Item : results'[i] = "none" => results[i] = "none"
    /\ \A i \in Item : holds[w] = i /\ results'[i] = "none" => InQueue(i, "run")'

\* The end of a task preserves the invariant.
LEMMA EndStep ==
  ASSUME IInv, NEW w \in Worker, pc[w] \in {"work", "put"}, main # "done",
         NEW len \in [Stage -> Int], NEW lost \in [Stage -> Int],
         NEW unf \in [Stage -> Int], NEW nd \in [Stage -> Int],
         queue' \in [Stage -> Seq(Item)], results' \in [Item -> Result],
         EndTask(w, unf, nd), Settles(w, len, lost, unf, nd), Keeps(w)
  PROVE  IInv'
<1>1. w[1] \in Stage /\ TypeOK
  BY DEF Worker, IInv
<1>2. PICK v \in {"get", "exit"} : pc' = [pc EXCEPT ![w] = v]
  <2>1. CASE Respawn(w[1], nd)
    BY <2>1 DEF EndTask
  <2>2. CASE ~Respawn(w[1], nd)
    BY <2>2 DEF EndTask
  <2> QED
    BY <2>1, <2>2
<1>3. /\ unfinished' = [unf EXCEPT ![w[1]] = unf[w[1]] - 1]
      /\ holds' = [holds EXCEPT ![w] = None]
      /\ awaited' = awaited \ {w}
      /\ main' = IF unf[w[1]] = 1 /\ main = Joining[w[1]] THEN Joined[w[1]] ELSE main
  BY DEF EndTask
<1>4. /\ JoinCounts' /\ TaskBudget'
      /\ unfinished' \in [Stage -> Nat] /\ needed' \in [Stage -> Int]
  BY EndCounts
<1>5. TypeOK'
  <2>1. main' \in MainPC
    <3>1. \A s \in Stage : Joined[s] \in MainPC
      BY DEF Stage, MainPC, Joined
    <3> QED
      BY <3>1, <1>1, <1>3 DEF TypeOK
  <2> QED
    BY <1>1, <1>2, <1>3, <1>4, <2>1 DEF TypeOK, TaskPC
<1>6. HoldsInv'
  <2> SUFFICES ASSUME NEW u \in Worker
               PROVE  /\ pc'[u] \in {"work", "put"} <=> holds'[u] \in Item
                      /\ u[1] = "eval" => pc'[u] # "put"
                      /\ u[1] = "run" /\ pc'[u] = "put" => results'[holds'[u]] # "none"
    BY DEF HoldsInv
  <2>1. CASE u = w
    BY <2>1, <1>1, <1>2, <1>3 DEF TypeOK, Item, None
  <2>2. CASE u # w
    <3>1. pc'[u] = pc[u] /\ holds'[u] = holds[u]
      BY <2>2, <1>1, <1>2, <1>3 DEF TypeOK
    <3> QED
      BY <3>1 DEF IInv, HoldsInv, Keeps
  <2> QED
    BY <2>1, <2>2
<1>7. PendingLocated'
  <2> SUFFICES ASSUME NEW i \in Item, results'[i] = "none"
               PROVE  \/ InQueue(i, "init")'
                      \/ \E u \in Worker : u[1] = "init" /\ holds'[u] = i
                      \/ InQueue(i, "run")'
                      \/ RunningIn(i)' # {}
    BY DEF PendingLocated
  <2>1. \/ InQueue(i, "init") \/ \E u \in Worker : u[1] = "init" /\ holds[u] = i
        \/ InQueue(i, "run") \/ RunningIn(i) # {}
    BY DEF IInv, PendingLocated, Keeps
  <2>2. CASE InQueue(i, "init") \/ InQueue(i, "run")
    BY <2>2 DEF Keeps, Stage
  <2>3. CASE holds[w] = i
    BY <2>3 DEF Keeps
  <2>4. CASE holds[w] # i /\ \E u \in Worker : u[1] = "init" /\ holds[u] = i
    BY <2>4, <1>1, <1>3 DEF TypeOK
  <2>5. CASE holds[w] # i /\ RunningIn(i) # {}
    <3>1. PICK u \in Worker : u[1] = "run" /\ pc[u] = "work" /\ holds[u] = i
      BY <2>5 DEF RunningIn
    <3>2. u # w /\ pc'[u] = "work" /\ holds'[u] = i
      BY <3>1, <2>5, <1>1, <1>2, <1>3 DEF TypeOK
    <3> QED
      BY <3>1, <3>2 DEF RunningIn
  <2> QED
    BY <2>1, <2>2, <2>3, <2>4, <2>5
<1>8. MainInv'
  <2>1. unf["init"] = unfinished["init"] /\ unfinished["init"] \in Nat
    BY <1>1 DEF Settles, Stage, TypeOK
  <2>2. w[1] = "init" => main = "joinInit"
    <3>1. w[1] = "init" => unfinished'["init"] = unfinished["init"] - 1 /\ unfinished'["init"] \in Nat
      BY <2>1, <1>3, <1>4 DEF Stage
    <3> QED
      BY <2>1, <3>1 DEF IInv, MainInv
  <2>3. main' # "joinInit" => unfinished'["init"] = 0
    <3>1. CASE w[1] = "init"
      BY <3>1, <2>1, <2>2, <1>1, <1>3 DEF Joining, Joined, Stage
    <3>2. CASE w[1] # "init"
      <4>1. unfinished'["init"] = unfinished["init"]
        BY <3>2, <2>1, <1>3 DEF Stage
      <4>2. main' # "joinInit" => main # "joinInit"
        BY <3>2, <1>1, <1>3 DEF Joining, Joined, Stage
      <4> QED
        BY <4>1, <4>2 DEF IInv, MainInv
    <3> QED
      BY <3>1, <3>2
  <2>4. main' \in {"runDone", "joinEval", "evalDone", "wait", "done"} => queue'["run"] = <<>>
    <3>1. CASE main \in {"runDone", "joinEval", "evalDone", "wait", "done"}
      <4>1. queue["run"] = <<>> /\ w[1] # "init"
        BY <3>1, <2>2 DEF IInv, MainInv
      <4>2. Len(queue'["run"]) = 0
        BY <4>1, <1>1, EmptySeq DEF Settles, Stage
      <4> QED
        BY <4>2, EmptySeq DEF Stage
    <3>2. CASE main = "joinRun" /\ main' # main
      <4>1. w[1] = "run" /\ unf["run"] = 1
        BY <3>2, <1>1, <1>3 DEF Joining, Joined, Stage
      <4>2. unfinished'["run"] = 0
        BY <4>1, <1>3 DEF Stage
      <4>3. Len(queue'["run"]) \in Nat /\ Cardinality(Busy("run"))' \in Nat
        BY LenProperties, CountsAreNat DEF Stage
      <4>4. Len(queue'["run"]) = 0
        <5> DEFINE a == Len(queue'["run"])  b == Cardinality(Busy("run"))'
        <5>1. a + b = 0
          BY <4>2, <1>4 DEF JoinCounts, Stage
        <5>2. a \in Nat /\ b \in Nat
          BY <4>3
        <5>3. a = 0
          <6> HIDE DEF a, b
          <6> QED
            BY <5>1, <5>2
        <5> QED
          BY <5>3
      <4> QED
        BY <4>4, EmptySeq DEF Stage
    <3>3. CASE main \in {"joinInit", "initDone", "joinRun"} /\ ~(main = "joinRun" /\ main' # main)
      <4>1. main' \in {main, Joined[w[1]]} /\ (main' # main => main = Joining[w[1]])
        BY <1>1, <1>3
      <4>2. CASE w[1] \in {"init", "run"}
        BY <3>3, <4>1, <4>2 DEF Joining, Joined, Stage
      <4>3. CASE w[1] = "eval"
        BY <3>3, <4>1, <4>3 DEF Joining, Joined, Stage
      <4> QED
        BY <4>2, <4>3, <1>1 DEF Stage
    <3> QED
      BY <3>1, <3>2, <3>3, <1>1 DEF TypeOK, MainPC
  <2>5. main' \in {"wait", "done"} => main' = main
    BY <1>1, <1>3 DEF Joining, Joined, Stage
  <2>6. main' \in {"wait", "done"} =>
          \A u \in Worker : u[1] = "run" /\ pc'[u] = "work" => u \in awaited'
    <3> SUFFICES ASSUME main' \in {"wait", "done"}, NEW u \in Worker, u[1] = "run", pc'[u] = "work"
                 PROVE  u \in awaited'
      OBVIOUS
    <3>1. u # w /\ pc[u] = "work"
      BY <1>1, <1>2 DEF TypeOK
    <3> QED
      BY <3>1, <2>5, <1>3 DEF IInv, MainInv
  <2> QED
    BY <2>3, <2>4, <2>5, <2>6 DEF MainInv
<1> QED
  BY <1>4, <1>5, <1>6, <1>7, <1>8 DEF IInv
\* A task that gives its trajectory up, or evaluates it: initialize_one_runtime
\* and run_one_agent after an exception, eval_one_agent always.
LEMMA DropStep ==
  ASSUME IInv, NEW w \in Worker, Working(w, w[1]), NEW r \in Result \ {"none"},
         results' = [results EXCEPT ![holds[w]] = r], queue' = queue,
         NEW nd \in [Stage -> Int], EndTask(w, unfinished, nd), nd["init"] = needed["init"],
         nd["run"] = needed["run"] - (IF w[1] = "init" THEN 1 ELSE 0),
         nd["eval"] = needed["eval"] - (IF w[1] = "eval" THEN 0 ELSE 1)
  PROVE  IInv'
<1>1. w[1] \in Stage /\ TypeOK /\ pc[w] = "work" /\ main # "done" /\ holds[w] \in Item
  BY DEF Worker, IInv, Working, LoopRunning, HoldsInv
<1> DEFINE zero == [t \in Stage |-> 0]
           lost == [t \in Stage |-> IF t = "init" THEN 0
                                    ELSE IF t = "run" THEN (IF w[1] = "init" THEN -1 ELSE 0)
                                    ELSE (IF w[1] = "eval" THEN 0 ELSE -1)]
<1>2. zero \in [Stage -> Int] /\ lost \in [Stage -> Int]
  OBVIOUS
<1>3. unfinished \in [Stage -> Int] /\ nd \in [Stage -> Int]
  BY <1>1 DEF TypeOK, Stage
<1>4. Settles(w, zero, lost, unfinished, nd)
  <2>1. \A t \in Stage : /\ unfinished[t] = unfinished[t] + zero[t]
                         /\ Len(queue'[t]) = Len(queue[t]) + zero[t]
    BY <1>1, LenProperties DEF TypeOK
  <2>2. \A t \in Stage : nd[t] = needed[t] + lost[t]
    BY <1>1 DEF TypeOK, Stage
  <2>3. /\ lost["run"] = Delta(w, -1)["init"] + zero["run"]
        /\ lost["eval"] = Delta(w, -1)["init"] + zero["run"] + Delta(w, -1)["run"] + zero["eval"]
    BY <1>1 DEF Delta, Stage
  <2>4. zero["init"] = 0 /\ zero["run"] = 0
    BY DEF Stage
  <2> QED
    BY <2>1, <2>2, <2>3, <2>4 DEF Settles
<1>5. Keeps(w)
  BY <1>1 DEF Keeps, InQueue, TypeOK
<1>6. queue' \in [Stage -> Seq(Item)] /\ results' \in [Item -> Result]
  BY <1>1 DEF TypeOK
<1> HIDE DEF zero, lost
<1> QED
  BY <1>1, <1>2, <1>3, <1>4, <1>5, <1>6, EndStep

\* A task that hands its trajectory to the next stage, or blocks.
LEMMA PutStep ==
  ASSUME IInv, NEW w \in Worker, LoopRunning, PutOrWait(w), pc[w] \in {"work", "put"},
         w[1] \in {"init", "run"},
         \/ results' = results /\ (w[1] = "run" => pc[w] = "put")
         \/ w[1] = "run" /\ results' = [results EXCEPT ![holds[w]] = "ran"]
  PROVE  IInv'
<1>1. w[1] \in Stage /\ TypeOK /\ main # "done" /\ holds[w] \in Item
  BY DEF Worker, IInv, LoopRunning, HoldsInv
<1> DEFINE t == NextStage(w[1])
<1>2. t \in Stage /\ t # "init" /\ (w[1] = "init" => t = "run") /\ (w[1] = "run" => t = "eval")
  BY DEF NextStage, Stage
<1>3. results' \in [Item -> Result] /\ \A i \in Item : results'[i] = "none" => results[i] = "none"
  BY <1>1 DEF TypeOK, Result
<1>4. w[1] = "run" => results'[holds[w]] # "none"
  BY <1>1 DEF TypeOK, IInv, HoldsInv
<1>5. CASE ~Full(t)
  <2>1. /\ queue' = [queue EXCEPT ![t] = Append(queue[t], holds[w])]
        /\ EndTask(w, [unfinished EXCEPT ![t] = @ + 1], needed)
    BY <1>5 DEF PutOrWait
  <2>2. /\ queue[t] \in Seq(Item) /\ Append(queue[t], holds[w]) \in Seq(Item)
        /\ Len(Append(queue[t], holds[w])) = Len(queue[t]) + 1
        /\ \A k \in 1..Len(queue[t]) : Append(queue[t], holds[w])[k] = queue[t][k]
        /\ Append(queue[t], holds[w])[Len(queue[t]) + 1] = holds[w]
        /\ Len(queue[t]) \in Nat
    BY <1>1, <1>2, AppendProperties, LenProperties DEF TypeOK
  <2> DEFINE len == [u \in Stage |-> IF u = t THEN 1 ELSE 0]
             zero == [u \in Stage |-> 0]
             unf == [unfinished EXCEPT ![t] = @ + 1]
  <2>3. len \in [Stage -> Int] /\ zero \in [Stage -> Int]
    OBVIOUS
  <2>4. unf \in [Stage -> Int] /\ needed \in [Stage -> Int]
    BY <1>1, <1>2 DEF TypeOK
  <2>5. queue' \in [Stage -> Seq(Item)]
    BY <1>1, <1>2, <2>1, <2>2 DEF TypeOK
  <2>6. Settles(w, len, zero, unf, needed)
    <3>1. ASSUME NEW u \in Stage
          PROVE  /\ unf[u] = unfinished[u] + len[u]
                 /\ needed[u] = needed[u] + zero[u]
                 /\ Len(queue'[u]) = Len(queue[u]) + len[u]
      <4>1. Len(queue[u]) \in Nat /\ unfinished[u] \in Nat /\ needed[u] \in Int
        BY <1>1, LenProperties DEF TypeOK
      <4>2. CASE u = t
        BY <4>1, <4>2, <1>1, <1>2, <2>1, <2>2 DEF TypeOK
      <4>3. CASE u # t
        BY <4>1, <4>3, <1>1, <1>2, <2>1 DEF TypeOK
      <4> QED
        BY <4>2, <4>3
    <3>2. /\ len["init"] = 0 /\ (w[1] # "init" => len["run"] = 0)
          /\ zero["run"] = Delta(w, -1)["init"] + len["run"]
          /\ zero["eval"] = Delta(w, -1)["init"] + len["run"] + Delta(w, -1)["run"] + len["eval"]
      BY <1>2 DEF Delta, Stage
    <3> QED
      BY <3>1, <3>2 DEF Settles
  <2>7. Keeps(w)
    <3>1. ASSUME NEW u \in Stage, NEW i \in Item, InQueue(i, u)
          PROVE  InQueue(i, u)'
      <4>1. PICK k \in 1..Len(queue[u]) : queue[u][k] = i
        BY <3>1 DEF InQueue
      <4>2. k \in 1..Len(queue'[u]) /\ queue'[u][k] = i
        <5>1. CASE u = t
          BY <5>1, <4>1, <1>1, <1>2, <2>1, <2>2 DEF TypeOK
        <5>2. CASE u # t
          BY <5>2, <4>1, <1>1, <1>2, <2>1 DEF TypeOK
        <5> QED
          BY <5>1, <5>2
      <4> QED
        BY <4>2 DEF InQueue
    <3>2. ASSUME NEW i \in Item, holds[w] = i, results'[i] = "none"
          PROVE  InQueue(i, "run")'
      <4>1. t = "run"
        BY <3>2, <1>2, <1>4
      <4>2. Len(queue[t]) + 1 \in 1..Len(queue'[t]) /\ queue'[t][Len(queue[t]) + 1] = i
        BY <3>2, <1>1, <1>2, <2>1, <2>2 DEF TypeOK
      <4> QED
        BY <4>1, <4>2 DEF InQueue
    <3> QED
      BY <3>1, <3>2, <1>3 DEF Keeps
  <2> HIDE DEF len, zero, unf, t
  <2>8. EndTask(w, unf, needed)
    BY <2>1 DEF unf
  <2> QED
    BY <1>1, <1>3, <2>3, <2>4, <2>5, <2>6, <2>7, <2>8, EndStep
<1>6. CASE Full(t)
  <2>1. /\ pc[w] = "work" /\ pc' = [pc EXCEPT ![w] = "put"]
        /\ UNCHANGED <<queue, unfinished, needed, holds, main, awaited>>
    BY <1>6 DEF PutOrWait
  <2>2. TypeOK'
    BY <1>1, <1>3, <2>1 DEF TypeOK, TaskPC
  <2>3. HoldsInv'
    BY <1>1, <1>3, <1>4, <2>1 DEF IInv, HoldsInv, TypeOK
  <2>4. \A s \in Stage : /\ Cardinality(Idle(s))' = Cardinality(Idle(s))
                         /\ Cardinality(Busy(s))' = Cardinality(Busy(s))
    BY <1>1, <2>1, BlockMove
  <2>5. JoinCounts'
    BY <2>1, <2>4 DEF IInv, JoinCounts
  <2>6. TaskBudget'
    BY <2>1, <2>4 DEF IInv, TaskBudget, ComingToRun, ComingToEval, Stage
  <2>7. PendingLocated'
    <3> SUFFICES ASSUME NEW i \in Item, results'[i] = "none"
                 PROVE  \/ InQueue(i, "init")'
                        \/ \E u \in Worker : u[1] = "init" /\ holds'[u] = i
                        \/ InQueue(i, "run")'
                        \/ RunningIn(i)' # {}
      BY DEF PendingLocated
    <3>1. \/ InQueue(i, "init") \/ \E u \in Worker : u[1] = "init" /\ holds[u] = i
          \/ InQueue(i, "run") \/ RunningIn(i) # {}
      BY <1>3 DEF IInv, PendingLocated
    <3>2. w \notin RunningIn(i)
      BY <1>4 DEF RunningIn
    <3>3. RunningIn(i) # {} => RunningIn(i)' # {}
      BY <3>2, <2>1, <1>1 DEF RunningIn, TypeOK
    <3> QED
      BY <3>1, <3>3, <2>1 DEF InQueue
  <2>8. MainInv'
    BY <1>1, <2>1 DEF IInv, MainInv, TypeOK
  <2> QED
    BY <2>2, <2>3, <2>5, <2>6, <2>7, <2>8 DEF IInv
<1> QED
  BY <1>5, <1>6
\* The coroutine's own steps preserve the invariant.
LEMMA MainStep ==
  ASSUME IInv, Main
  PROVE  IInv'
<1>1. UNCHANGED Others /\ TypeOK
  BY DEF Main, AfterInitJoin, AfterRunJoin, AfterEvalJoin, FinishWait, IInv
<1>2. main' \in MainPC /\ awaited' \subseteq Worker
  BY <1>1 DEF Main, AfterInitJoin, AfterRunJoin, AfterEvalJoin, FinishWait, JoinEvalOrWait,
              WaitForTasks, ActiveTasks, MainPC, TypeOK
<1>3. \A s \in Stage : /\ Cardinality(Idle(s))' = Cardinality(Idle(s))
                       /\ Cardinality(Busy(s))' = Cardinality(Busy(s))
  BY <1>1 DEF Others, Idle, Busy
<1>4. TypeOK' /\ HoldsInv'
  BY <1>1, <1>2 DEF Others, TypeOK, IInv, HoldsInv
<1>5. JoinCounts' /\ TaskBudget'
  BY <1>1, <1>3 DEF Others, IInv, JoinCounts, TaskBudget, ComingToRun, ComingToEval, Stage
<1>6. PendingLocated'
  BY <1>1 DEF Others, IInv, PendingLocated, InQueue, RunningIn
<1>7. MainInv'
  <2>1. main # "joinInit" /\ unfinished'["init"] = 0
    BY <1>1 DEF Main, AfterInitJoin, AfterRunJoin, AfterEvalJoin, FinishWait, IInv, MainInv, Others
  <2>2. main' \in {"joinEval", "wait", "done"} => queue'["run"] = <<>>
    BY <1>1 DEF Main, AfterInitJoin, AfterRunJoin, AfterEvalJoin, FinishWait, JoinEvalOrWait,
                WaitForTasks, IInv, MainInv, Others
  <2>3. main' \in {"joinRun", "joinEval", "wait", "done"}
    BY DEF Main, AfterInitJoin, AfterRunJoin, AfterEvalJoin, FinishWait, JoinEvalOrWait, WaitForTasks
  <2>4. main' \in {"wait", "done"} =>
          /\ \A w \in Worker : w[1] = "run" /\ pc'[w] = "work" => w \in awaited'
          /\ main' = "done" => awaited' = {}
    <3>1. CASE WaitForTasks
      BY <3>1, <1>1 DEF WaitForTasks, ActiveTasks, Others
    <3>2. CASE FinishWait
      BY <3>2 DEF FinishWait, Others, IInv, MainInv
    <3>3. CASE main' \in {"joinRun", "joinEval"}
      BY <3>3
    <3> QED
      BY <3>1, <3>2, <3>3 DEF Main, AfterInitJoin, AfterRunJoin, AfterEvalJoin, JoinEvalOrWait
  <2> QED
    BY <2>1, <2>2, <2>3, <2>4 DEF MainInv
<1> QED
  BY <1>4, <1>5, <1>6, <1>7 DEF IInv

\* Every step of a task or of the coroutine preserves the inductive invariant.
LEMMA NextIInv == IInv /\ [Next]_vars => IInv'
<1> SUFFICES ASSUME IInv, [Next]_vars PROVE IInv'
  OBVIOUS
<1>1. ASSUME NEW w \in Worker, Task(w) PROVE IInv'
  <2>1. CASE Get(w)
    BY <2>1, GetStep
  <2>2. CASE ResumePut(w)
    <3>1. pc[w] = "put" /\ w[1] \in {"init", "run"}
      BY <2>2 DEF ResumePut, IInv, HoldsInv, Worker, Stage
    <3> QED
      BY <2>2, <3>1, PutStep DEF ResumePut
  <2>3. CASE InitOk(w)
    BY <2>3, PutStep DEF InitOk, Working
  <2>4. CASE RunOk(w)
    BY <2>4, PutStep DEF RunOk, Working
  <2>5. CASE InitFail(w)
    <3> DEFINE nd == [needed EXCEPT !["run"] = @ - 1, !["eval"] = @ - 1]
    <3>1. /\ Working(w, w[1]) /\ w[1] = "init" /\ queue' = queue
          /\ results' = [results EXCEPT ![holds[w]] = "init_error"]
          /\ EndTask(w, unfinished, nd)
      BY <2>5 DEF InitFail, Working
    <3>2. /\ nd \in [Stage -> Int] /\ nd["init"] = needed["init"]
          /\ nd["run"] = needed["run"] - (IF w[1] = "init" THEN 1 ELSE 0)
          /\ nd["eval"] = needed["eval"] - (IF w[1] = "eval" THEN 0 ELSE 1)
      BY <3>1 DEF IInv, TypeOK, Stage
    <3>3. "init_error" \in Result \ {"none"}
      BY DEF Result
    <3> QED
      BY <3>1, <3>2, <3>3, DropStep
  <2>6. CASE RunRaise(w)
    <3> DEFINE nd == [needed EXCEPT !["eval"] = @ - 1]
    <3>1. /\ Working(w, w[1]) /\ w[1] = "run" /\ queue' = queue
          /\ results' = [results EXCEPT ![holds[w]] = "run_error"]
          /\ EndTask(w, unfinished, nd)
      BY <2>6 DEF RunRaise, Working
    <3>2. /\ nd \in [Stage -> Int] /\ nd["init"] = needed["init"]
          /\ nd["run"] = needed["run"] - (IF w[1] = "init" THEN 1 ELSE 0)
          /\ nd["eval"] = needed["eval"] - (IF w[1] = "eval" THEN 0 ELSE 1)
      BY <3>1 DEF IInv, TypeOK, Stage
    <3>3. "run_error" \in Result \ {"none"}
      BY DEF Result
    <3> QED
      BY <3>1, <3>2, <3>3, DropStep
  <2>7. CASE EvalEnd(w)
    <3>1. /\ Working(w, w[1]) /\ w[1] = "eval" /\ queue' = queue
          /\ results' = [results EXCEPT ![holds[w]] = "evaluated"]
          /\ EndTask(w, unfinished, needed)
      BY <2>7 DEF EvalEnd, Working
    <3>2. /\ needed \in [Stage -> Int] /\ needed["init"] = needed["init"]
          /\ needed["run"] = needed["run"] - (IF w[1] = "init" THEN 1 ELSE 0)
          /\ needed["eval"] = needed["eval"] - (IF w[1] = "eval" THEN 0 ELSE 1)
      BY <3>1 DEF IInv, TypeOK, Stage
    <3>3. "evaluated" \in Result \ {"none"}
      BY DEF Result
    <3> QED
      BY <3>1, <3>2, <3>3, DropStep
  <2> QED
    BY <1>1, <2>1, <2>2, <2>3, <2>4, <2>5, <2>6, <2>7 DEF Task
<1>2. CASE Main
  BY <1>2, MainStep
<1>3. CASE UNCHANGED vars
  <2> USE <1>3 DEF vars
  <2>1. TypeOK' /\ HoldsInv' /\ MainInv'
    BY DEF IInv, TypeOK, HoldsInv, MainInv
  <2>2. \A s \in Stage : Idle(s)' = Idle(s) /\ Busy(s)' = Busy(s)
    BY DEF Idle, Busy
  <2>3. JoinCounts' /\ TaskBudget'
    BY <2>2 DEF IInv, JoinCounts, TaskBudget, ComingToRun, ComingToEval, Stage
  <2>4. PendingLocated'
    BY DEF IInv, PendingLocated, InQueue, RunningIn
  <2> QED
    BY <2>1, <2>3, <2>4 DEF IInv
<1> QED
  BY <1>1, <1>2, <1>3 DEF Next, Returned

-----------------------------------------------------------------------------
(* Theorems                                                                 *)

\* IInv is an invariant of the pipeline, whatever N, P, E and the failures.
THEOREM Invariance == Spec => []IInv
BY InitIInv, NextIInv, PTL DEF Spec

\* Every variable keeps its type; no task_done() is called too often.
THEOREM TypeCorrect == Spec => []TypeOK
<1>1. IInv => TypeOK
  BY DEF IInv
<1> QED
  BY <1>1, Invariance, PTL

\* The counters of needed tasks always balance the trajectories to come.
THEOREM BudgetCorrect == Spec => []TaskBudget
<1>1. IInv => TaskBudget
  BY DEF IInv
<1> QED
  BY <1>1, Invariance, PTL

\* When generate_trajectories_pipeline returns, every trajectory has a result.
THEOREM ResultsAreComplete == Spec => []ResultsComplete
<1>1. IInv => ResultsComplete
  <2> SUFFICES ASSUME IInv, main = "done", NEW i \in Item, results[i] = "none"
               PROVE  FALSE
    BY DEF ResultsComplete
  <2>1. unfinished["init"] = 0 /\ queue["run"] = <<>> /\ RunningIn(i) = {}
    BY DEF IInv, MainInv, RunningIn
  <2> DEFINE a == Len(queue["init"])  b == Cardinality(Busy("init"))
  <2>2. a \in Nat /\ b \in Nat /\ a + b = 0 /\ IsFiniteSet(Busy("init"))
    BY <2>1, LenProperties, CountsAreNat DEF IInv, TypeOK, JoinCounts, Stage
  <2>3. a = 0 /\ b = 0
    <3> HIDE DEF a, b
    <3> QED
      BY <2>2
  <2>4. ~InQueue(i, "init") /\ ~InQueue(i, "run")
    BY <2>1, <2>3 DEF InQueue
  <2>5. \A w \in Worker : w[1] = "init" => holds[w] \notin Item
    BY <2>2, <2>3, FS_EmptySet DEF Busy, IInv, HoldsInv
  <2> QED
    BY <2>1, <2>4, <2>5 DEF IInv, PendingLocated
<1> QED
  BY <1>1, Invariance, PTL

-----------------------------------------------------------------------------
(* Where a trajectory is                                                    *)

\* No two tasks hold the same trajectory, none that a task holds is queued, and
\* none is queued twice.
Single ==
    /\ \A v, w \in Worker : holds[v] \in Item /\ holds[v] = holds[w] => v = w
    /\ \A s \in Stage : \A k \in 1..Len(queue[s]) : \A w \in Worker : holds[w] # queue[s][k]
    /\ \A s, t \in Stage : \A j \in 1..Len(queue[s]) : \A k \in 1..Len(queue[t]) :
           queue[s][j] = queue[t][k] => s = t /\ j = k

\* The place of a trajectory tells its result: none before the end of its run,
\* then the outcome of the run.
StatusOf(w) == IF w[1] = "init" \/ (w[1] = "run" /\ pc[w] = "work") THEN "none" ELSE "ran"
QueuedStatus(s) == IF s = "eval" THEN "ran" ELSE "none"
Status ==
    /\ \A w \in Worker : holds[w] \in Item => results[holds[w]] = StatusOf(w)
    /\ \A s \in Stage : \A k \in 1..Len(queue[s]) : results[queue[s][k]] = QueuedStatus(s)

\* A trajectory that is not settled for good is somewhere.
Somewhere(i) ==
    \/ \E w \in Worker : holds[w] = i
    \/ \E s \in Stage : \E k \in 1..Len(queue[s]) : queue[s][k] = i
Located == \A i \in Item : results[i] \in {"none", "ran"} => Somewhere(i)

Account == Single /\ Status /\ Located

LEMMA AccountInit == Init => Account
<1> SUFFICES ASSUME Init PROVE Account
  OBVIOUS
<1>1. /\ queue["init"] = [i \in 1..N |-> i] /\ queue["run"] = <<>> /\ queue["eval"] = <<>>
      /\ \A w \in Worker : holds[w] = 0
      /\ \A i \in Item : results[i] = "none"
  BY DEF Init, Stage, Item, None
<1>2. N \in Nat
  BY SizesAssumption
<1>3. /\ Len(queue["init"]) = N /\ \A k \in 1..N : queue["init"][k] = k
      /\ Len(queue["run"]) = 0 /\ Len(queue["eval"]) = 0
  BY <1>1, <1>2
<1>4. Single
  BY <1>1, <1>2, <1>3 DEF Single, Stage, Item
<1>5. Status
  BY <1>1, <1>2, <1>3 DEF Status, Stage, Item, QueuedStatus
<1>6. Located
  BY <1>1, <1>2, <1>3 DEF Located, Somewhere, Stage, Item
<1> QED
  BY <1>4, <1>5, <1>6 DEF Account

LEMMA QueueTypes ==
    ASSUME TypeOK
    PROVE  \A s \in Stage : /\ queue[s] \in Seq(Item) /\ Len(queue[s]) \in Nat
                            /\ \A k \in 1..Len(queue[s]) : queue[s][k] \in Item
<1>1. \A s \in Stage : queue[s] \in Seq(Item)
  BY DEF TypeOK
<1> QED
  BY <1>1

\* A task takes the head of its queue.
LEMMA TakeKeeps ==
    ASSUME IInv, Account, NEW w \in Worker, Get(w)
    PROVE  Account'
<1> DEFINE s == w[1]
           n == Len(queue[s])
<1>1. /\ s \in Stage /\ queue[s] \in Seq(Item) /\ queue[s] # <<>>
      /\ queue' = [queue EXCEPT ![s] = Tail(queue[s])]
      /\ holds' = [holds EXCEPT ![w] = Head(queue[s])]
      /\ pc' = [pc EXCEPT ![w] = "work"] /\ pc[w] = "get"
      /\ results' = results /\ queue \in [Stage -> Seq(Item)]
      /\ holds \in [Worker -> Item \cup {None}] /\ pc \in [Worker -> TaskPC]
  BY DEF Get, IInv, TypeOK, Worker
<1>2. /\ n \in Nat /\ n > 0 /\ Len(Tail(queue[s])) = n - 1
      /\ \A k \in 1..(n - 1) : Tail(queue[s])[k] = queue[s][k + 1]
      /\ Head(queue[s]) = queue[s][1] /\ queue[s][1] \in Item
  BY <1>1, HeadTailProperties, EmptySeq
<1>3. /\ holds[w] \notin Item
      /\ holds'[w] = queue[s][1]
      /\ \A v \in Worker : v # w => holds'[v] = holds[v] /\ pc'[v] = pc[v]
      /\ pc'[w] = "work"
  BY <1>1, <1>2 DEF IInv, HoldsInv
<1>4. /\ Len(queue'[s]) = n - 1
      /\ \A k \in 1..(n - 1) : queue'[s][k] = queue[s][k + 1] /\ k + 1 \in 1..n
      /\ \A t \in Stage : t # s => queue'[t] = queue[t]
  BY <1>1, <1>2
<1>5. \A t \in Stage : \A k \in 1..Len(queue'[t]) :
          \E j \in 1..Len(queue[t]) :
              /\ queue'[t][k] = queue[t][j]
              /\ j = IF t = s THEN k + 1 ELSE k
  BY <1>2, <1>4
<1>6. \A t \in Stage : \A k \in 1..Len(queue[t]) : k \in Nat
  OBVIOUS
<1>0. 1 \in 1..Len(queue[s])
  BY <1>2
<1> HIDE DEF n
<1>7. Single'
  <2>1. ASSUME NEW u \in Worker, NEW v \in Worker, holds'[u] \in Item, holds'[u] = holds'[v]
        PROVE  u = v
    <3>1. CASE u # w /\ v # w
      BY <2>1, <3>1, <1>3 DEF Account, Single
    <3>2. CASE u = w /\ v # w
      BY <2>1, <3>2, <1>0, <1>1, <1>3 DEF Account, Single
    <3>3. CASE u # w /\ v = w
      BY <2>1, <3>3, <1>0, <1>1, <1>3 DEF Account, Single
    <3> QED
      BY <3>1, <3>2, <3>3
  <2>2. ASSUME NEW t \in Stage, NEW k \in 1..Len(queue'[t]), NEW v \in Worker
        PROVE  holds'[v] # queue'[t][k]
    <3>1. PICK j \in 1..Len(queue[t]) :
              queue'[t][k] = queue[t][j] /\ j = IF t = s THEN k + 1 ELSE k
      BY <1>5
    <3>2. CASE v # w
      BY <3>1, <3>2, <1>3 DEF Account, Single
    <3>3. CASE v = w
      <4>1. ~(t = s /\ j = 1)
        BY <3>1, <1>4
      <4> QED
        BY <3>1, <3>3, <4>1, <1>0, <1>1, <1>3 DEF Account, Single
    <3> QED
      BY <3>2, <3>3
  <2>3. ASSUME NEW t \in Stage, NEW u \in Stage, NEW j \in 1..Len(queue'[t]),
               NEW k \in 1..Len(queue'[u]), queue'[t][j] = queue'[u][k]
        PROVE  t = u /\ j = k
    <3>1. PICK a \in 1..Len(queue[t]) :
              queue'[t][j] = queue[t][a] /\ a = IF t = s THEN j + 1 ELSE j
      BY <1>5
    <3>2. PICK b \in 1..Len(queue[u]) :
              queue'[u][k] = queue[u][b] /\ b = IF u = s THEN k + 1 ELSE k
      BY <1>5
    <3>3. t = u /\ a = b
      BY <3>1, <3>2, <2>3 DEF Account, Single
    <3> QED
      BY <3>1, <3>2, <3>3
  <2> QED
    BY <2>1, <2>2, <2>3 DEF Single
<1>8. Status'
  <2>1. ASSUME NEW v \in Worker, holds'[v] \in Item
        PROVE  results'[holds'[v]] = StatusOf(v)'
    <3>1. CASE v # w
      BY <2>1, <3>1, <1>1, <1>3 DEF Account, Status, StatusOf
    <3>2. CASE v = w
      <4>1. results[queue[s][1]] = QueuedStatus(s)
        BY <1>0, <1>1 DEF Account, Status
      <4>2. StatusOf(w)' = QueuedStatus(s)
        BY <1>1, <1>3 DEF StatusOf, QueuedStatus, Stage
      <4> QED
        BY <3>2, <4>1, <4>2, <1>1, <1>3
    <3> QED
      BY <3>1, <3>2
  <2>2. ASSUME NEW t \in Stage, NEW k \in 1..Len(queue'[t])
        PROVE  results'[queue'[t][k]] = QueuedStatus(t)
    BY <1>1, <1>5 DEF Account, Status
  <2> QED
    BY <2>1, <2>2 DEF Status, QueuedStatus
<1>9. Located'
  <2> SUFFICES ASSUME NEW i \in Item, results[i] \in {"none", "ran"} PROVE Somewhere(i)'
    BY <1>1 DEF Located
  <2>1. CASE \E v \in Worker : holds[v] = i
    BY <2>1, <1>3 DEF Somewhere
  <2>2. ASSUME NEW t \in Stage, NEW k \in 1..Len(queue[t]), queue[t][k] = i
        PROVE  Somewhere(i)'
    <3>1. CASE t # s
      BY <2>2, <3>1, <1>4 DEF Somewhere
    <3>2. CASE t = s /\ k = 1
      BY <2>2, <3>2, <1>3 DEF Somewhere
    <3>3. CASE t = s /\ k # 1
      <4>1. k - 1 \in 1..Len(queue'[s]) /\ queue'[s][k - 1] = i
        BY <2>2, <3>3, <1>2, <1>4 DEF n
      <4> QED
        BY <4>1, <1>1 DEF Somewhere
    <3> QED
      BY <3>1, <3>2, <3>3
  <2> QED
    BY <2>1, <2>2 DEF Account, Located, Somewhere
<1> QED
  BY <1>7, <1>8, <1>9 DEF Account

\* A task hands its trajectory to the next stage and ends.
LEMMA HandOnKeeps ==
    ASSUME IInv, Account, NEW w \in Worker, holds[w] \in Item, NEW t \in Stage,
           queue' = [queue EXCEPT ![t] = Append(@, holds[w])],
           holds' = [holds EXCEPT ![w] = None],
           results' = [results EXCEPT ![holds[w]] = QueuedStatus(t)],
           \A v \in Worker \ {w} : pc'[v] = pc[v]
    PROVE  Account'
<1> DEFINE i == holds[w]
           n == Len(queue[t])
<1>1. /\ queue \in [Stage -> Seq(Item)] /\ queue[t] \in Seq(Item) /\ i \in Item
      /\ holds \in [Worker -> Item \cup {None}] /\ results \in [Item -> Result]
      /\ n \in Nat /\ None \notin Item
  BY DEF IInv, TypeOK, None, Item
<1>2. /\ Len(Append(queue[t], i)) = n + 1 /\ Append(queue[t], i)[n + 1] = i
      /\ \A k \in 1..n : Append(queue[t], i)[k] = queue[t][k]
  BY <1>1, AppendProperties
<1>3. /\ holds'[w] = None
      /\ \A v \in Worker : v # w => holds'[v] = holds[v] /\ holds'[v] # i /\ pc'[v] = pc[v]
  BY <1>1 DEF Account, Single
<1>4. /\ Len(queue'[t]) = n + 1 /\ queue'[t][n + 1] = i
      /\ \A k \in 1..n : queue'[t][k] = queue[t][k]
      /\ \A s \in Stage : s # t => queue'[s] = queue[s]
  BY <1>1, <1>2
<1>5. \A s \in Stage : \A k \in 1..Len(queue'[s]) :
          \/ k \in 1..Len(queue[s]) /\ queue'[s][k] = queue[s][k] /\ queue'[s][k] # i
          \/ s = t /\ k = n + 1 /\ queue'[s][k] = i
  BY <1>1, <1>4 DEF Account, Single
<1>6. results'[i] = QueuedStatus(t) /\ \A x \in Item : x # i => results'[x] = results[x]
  BY <1>1
<1> HIDE DEF i, n
<1>7. Single'
  <2>1. \A u, v \in Worker : holds'[u] \in Item /\ holds'[u] = holds'[v] => u = v
    BY <1>1, <1>3 DEF Account, Single
  <2>2. \A s \in Stage : \A k \in 1..Len(queue'[s]) : \A v \in Worker : holds'[v] # queue'[s][k]
    <3> SUFFICES ASSUME NEW s \in Stage, NEW k \in 1..Len(queue'[s]), NEW v \in Worker
                 PROVE  holds'[v] # queue'[s][k]
      OBVIOUS
    <3>1. queue'[s][k] \in Item
      BY <1>1, <1>5, QueueTypes DEF IInv
    <3>2. CASE v = w
      BY <3>1, <3>2, <1>1, <1>3
    <3>3. CASE v # w
      BY <3>3, <1>3, <1>5 DEF Account, Single
    <3> QED
      BY <3>2, <3>3
  <2>3. \A r, s \in Stage : \A j \in 1..Len(queue'[r]) : \A k \in 1..Len(queue'[s]) :
            queue'[r][j] = queue'[s][k] => r = s /\ j = k
    BY <1>5 DEF Account, Single
  <2> QED
    BY <2>1, <2>2, <2>3 DEF Single
<1>8. Status'
  <2>1. ASSUME NEW v \in Worker, holds'[v] \in Item
        PROVE  results'[holds'[v]] = StatusOf(v)'
    BY <2>1, <1>1, <1>3, <1>6 DEF Account, Status, StatusOf
  <2>2. ASSUME NEW s \in Stage, NEW k \in 1..Len(queue'[s])
        PROVE  results'[queue'[s][k]] = QueuedStatus(s)
    BY <1>5, <1>6, QueueTypes DEF Account, Status, IInv
  <2> QED
    BY <2>1, <2>2 DEF Status, QueuedStatus
<1>9. Located'
  <2> SUFFICES ASSUME NEW x \in Item, results'[x] \in {"none", "ran"} PROVE Somewhere(x)'
    BY DEF Located
  <2>1. CASE x = i
    BY <2>1, <1>1, <1>4 DEF Somewhere
  <2>2. CASE x # i
    <3>1. Somewhere(x)
      BY <2>2, <1>6 DEF Account, Located
    <3>2. CASE \E v \in Worker : holds[v] = x
      BY <2>2, <3>2, <1>3 DEF Somewhere, i
    <3>3. ASSUME NEW s \in Stage, NEW k \in 1..Len(queue[s]), queue[s][k] = x
          PROVE  Somewhere(x)'
      <4>1. k \in 1..Len(queue'[s]) /\ queue'[s][k] = x
        BY <3>3, <1>1, <1>4 DEF n
      <4> QED
        BY <4>1 DEF Somewhere
    <3> QED
      BY <3>1, <3>2, <3>3 DEF Somewhere
  <2> QED
    BY <2>1, <2>2
<1> QED
  BY <1>7, <1>8, <1>9 DEF Account

\* A task waits for room in the next queue, with the result of its run.
LEMMA BlockKeeps ==
    ASSUME IInv, Account, NEW w \in Worker, holds[w] \in Item, w[1] \in {"init", "run"},
           UNCHANGED <<queue, holds>>, pc' = [pc EXCEPT ![w] = "put"],
           results' = [results EXCEPT ![holds[w]] = QueuedStatus(NextStage(w[1]))]
    PROVE  Account'
<1>1. /\ results \in [Item -> Result] /\ pc \in [Worker -> TaskPC]
  BY DEF IInv, TypeOK
<1>2. \A x \in Item : results'[x] = IF x = holds[w] THEN QueuedStatus(NextStage(w[1]))
                                    ELSE results[x]
  BY <1>1
<1>3. StatusOf(w)' = QueuedStatus(NextStage(w[1]))
  BY <1>1 DEF StatusOf, QueuedStatus, NextStage
<1>4. Single'
  BY DEF Account, Single
<1>5. Status'
  <2>1. ASSUME NEW v \in Worker, holds[v] \in Item
        PROVE  results'[holds[v]] = StatusOf(v)'
    <3>1. CASE v = w
      BY <3>1, <2>1, <1>2, <1>3
    <3>2. CASE v # w
      <4>1. holds[v] # holds[w] /\ pc'[v] = pc[v]
        BY <3>2, <2>1, <1>1 DEF Account, Single
      <4> QED
        BY <4>1, <2>1, <1>2 DEF Account, Status, StatusOf
    <3> QED
      BY <3>1, <3>2
  <2>2. ASSUME NEW s \in Stage, NEW k \in 1..Len(queue[s])
        PROVE  results'[queue[s][k]] = QueuedStatus(s)
    BY <1>2, QueueTypes DEF Account, Single, Status, IInv
  <2> QED
    BY <2>1, <2>2 DEF Status, QueuedStatus
<1>6. Located'
  <2> SUFFICES ASSUME NEW x \in Item, results'[x] \in {"none", "ran"} PROVE Somewhere(x)'
    BY DEF Located
  <2>1. Somewhere(x)
    <3>1. CASE x = holds[w]
      BY <3>1 DEF Somewhere
    <3>2. CASE x # holds[w]
      BY <3>2, <1>2 DEF Account, Located
    <3> QED
      BY <3>1, <3>2
  <2> QED
    BY <2>1 DEF Somewhere
<1> QED
  BY <1>4, <1>5, <1>6 DEF Account

\* A task ends with its trajectory settled for good.
LEMMA DropKeeps ==
    ASSUME IInv, Account, NEW w \in Worker, holds[w] \in Item,
           UNCHANGED queue, holds' = [holds EXCEPT ![w] = None],
           NEW x \in {"init_error", "run_error", "evaluated"},
           results' = [results EXCEPT ![holds[w]] = x],
           \A v \in Worker \ {w} : pc'[v] = pc[v]
    PROVE  Account'
<1>1. /\ holds \in [Worker -> Item \cup {None}] /\ results \in [Item -> Result]
      /\ None \notin Item
  BY DEF IInv, TypeOK, None, Item
<1>2. \A y \in Item : results'[y] = IF y = holds[w] THEN x ELSE results[y]
  BY <1>1
<1>3. /\ holds'[w] = None
      /\ \A v \in Worker : v # w => holds'[v] = holds[v] /\ holds[v] # holds[w] /\ pc'[v] = pc[v]
  BY <1>1 DEF Account, Single
<1>4. \A s \in Stage : \A k \in 1..Len(queue[s]) :
          queue[s][k] \in Item /\ queue[s][k] # holds[w]
  BY QueueTypes DEF Account, Single, IInv
<1>5. Single'
  BY <1>1, <1>3, <1>4 DEF Account, Single
<1>6. Status'
  <2>1. ASSUME NEW v \in Worker, holds'[v] \in Item
        PROVE  results'[holds'[v]] = StatusOf(v)'
    BY <2>1, <1>1, <1>2, <1>3 DEF Account, Status, StatusOf
  <2>2. \A s \in Stage : \A k \in 1..Len(queue[s]) : results'[queue[s][k]] = QueuedStatus(s)
    BY <1>2, <1>4 DEF Account, Status
  <2> QED
    BY <2>1, <2>2 DEF Status, QueuedStatus
<1>7. Located'
  <2> SUFFICES ASSUME NEW y \in Item, results'[y] \in {"none", "ran"} PROVE Somewhere(y)'
    BY DEF Located
  <2>1. y # holds[w] /\ Somewhere(y)
    BY <1>2 DEF Account, Located
  <2> QED
    BY <2>1, <1>3 DEF Somewhere
<1> QED
  BY <1>5, <1>6, <1>7 DEF Account

LEMMA EndFacts ==
    ASSUME IInv, NEW w \in Worker, LoopRunning, NEW unf, NEW nd, EndTask(w, unf, nd)
    PROVE  /\ holds' = [holds EXCEPT ![w] = None] /\ main' # "done"
           /\ \A v \in Worker \ {w} : pc'[v] = pc[v]
<1>1. w[1] \in Stage /\ pc \in [Worker -> TaskPC]
  BY DEF Worker, IInv, TypeOK
<1>2. Joined[w[1]] # "done"
  BY <1>1 DEF Stage, Joined
<1>3. main' = Joined[w[1]] \/ main' = main
  BY DEF EndTask
<1> QED
  BY <1>1, <1>2, <1>3 DEF EndTask, LoopRunning

\* The two outcomes of a put.
LEMMA PutAccount ==
    ASSUME IInv, Account, NEW w \in Worker, LoopRunning, PutOrWait(w), pc[w] \in {"work", "put"},
           w[1] \in {"init", "run"},
           results' = [results EXCEPT ![holds[w]] = QueuedStatus(NextStage(w[1]))]
    PROVE  Account' /\ main' # "done"
<1>1. holds[w] \in Item /\ NextStage(w[1]) \in Stage
  BY DEF IInv, HoldsInv, NextStage, Stage
<1>2. CASE ~Full(NextStage(w[1]))
  <2>1. /\ queue' = [queue EXCEPT ![NextStage(w[1])] = Append(@, holds[w])]
        /\ EndTask(w, [unfinished EXCEPT ![NextStage(w[1])] = @ + 1], needed)
    BY <1>2 DEF PutOrWait
  <2>2. /\ holds' = [holds EXCEPT ![w] = None] /\ main' # "done"
        /\ \A v \in Worker \ {w} : pc'[v] = pc[v]
    BY <2>1, EndFacts
  <2> QED
    BY <1>1, <2>1, <2>2, HandOnKeeps
<1>3. CASE Full(NextStage(w[1]))
  <2>1. UNCHANGED <<queue, holds, main>> /\ pc' = [pc EXCEPT ![w] = "put"]
    BY <1>3 DEF PutOrWait
  <2> QED
    BY <1>1, <2>1, BlockKeeps DEF LoopRunning
<1> QED
  BY <1>2, <1>3

-----------------------------------------------------------------------------
(* What each step means to the caller                                       *)

Stutters == results' = results /\ main' # "done" /\ main # "done"
Promise == Contract!Next \/ Stutters

LEMMA TaskSteps ==
    ASSUME IInv, Account, NEW w \in Worker, Task(w)
    PROVE  Account' /\ Promise
<1> USE DEF Promise, Stutters, LoopRunning
<1>1. CASE Get(w)
  BY <1>1, TakeKeeps DEF Get
<1>2. CASE ResumePut(w)
  <2>1. /\ holds[w] \in Item /\ w[1] \in {"init", "run"} /\ pc[w] = "put"
    BY <1>2 DEF ResumePut, IInv, HoldsInv, Worker, Stage
  <2>2. results[holds[w]] = QueuedStatus(NextStage(w[1]))
    BY <2>1 DEF Account, Status, StatusOf, QueuedStatus, NextStage
  <2>3. results' = [results EXCEPT ![holds[w]] = QueuedStatus(NextStage(w[1]))]
    BY <1>2, <2>1, <2>2 DEF ResumePut, IInv, TypeOK
  <2> QED
    BY <1>2, <2>1, <2>3, PutAccount DEF ResumePut
<1>3. CASE InitOk(w)
  <2>1. /\ holds[w] \in Item /\ w[1] = "init" /\ pc[w] = "work" /\ LoopRunning
    BY <1>3 DEF InitOk, Working, IInv, HoldsInv
  <2>2. results[holds[w]] = QueuedStatus(NextStage(w[1]))
    BY <2>1 DEF Account, Status, StatusOf, QueuedStatus, NextStage
  <2>3. results' = [results EXCEPT ![holds[w]] = QueuedStatus(NextStage(w[1]))]
    BY <1>3, <2>1, <2>2 DEF InitOk, IInv, TypeOK
  <2> QED
    BY <1>3, <2>1, <2>3, PutAccount DEF InitOk
<1>4. CASE InitFail(w)
  <2> DEFINE nd == [needed EXCEPT !["run"] = @ - 1, !["eval"] = @ - 1]
  <2>1. /\ holds[w] \in Item /\ w[1] = "init" /\ pc[w] = "work" /\ LoopRunning
        /\ results' = [results EXCEPT ![holds[w]] = "init_error"] /\ queue' = queue
        /\ EndTask(w, unfinished, nd)
    BY <1>4 DEF InitFail, Working, IInv, HoldsInv
  <2> HIDE DEF nd
  <2>2. /\ holds' = [holds EXCEPT ![w] = None] /\ main' # "done"
        /\ \A v \in Worker \ {w} : pc'[v] = pc[v]
    BY <2>1, EndFacts
  <2>3. results[holds[w]] = "none"
    BY <2>1 DEF Account, Status, StatusOf
  <2>4. Contract!Settle(holds[w])
    BY <2>1, <2>2, <2>3 DEF Contract!Settle, Contract!Outcome
  <2> QED
    BY <2>1, <2>2, <2>4, DropKeeps DEF Contract!Next
<1>5. CASE RunOk(w)
  <2>1. /\ holds[w] \in Item /\ w[1] = "run" /\ pc[w] = "work" /\ LoopRunning
        /\ results' = [results EXCEPT ![holds[w]] = "ran"] /\ PutOrWait(w)
    BY <1>5 DEF RunOk, Working, IInv, HoldsInv
  <2>2. QueuedStatus(NextStage(w[1])) = "ran" /\ results[holds[w]] = "none"
    BY <2>1 DEF QueuedStatus, NextStage, Account, Status, StatusOf
  <2>3. Account' /\ main' # "done"
    BY <2>1, <2>2, PutAccount
  <2>4. Contract!Settle(holds[w])
    BY <2>1, <2>2, <2>3 DEF Contract!Settle, Contract!Outcome
  <2> QED
    BY <2>1, <2>3, <2>4 DEF Contract!Next
<1>6. CASE RunRaise(w)
  <2> DEFINE nd == [needed EXCEPT !["eval"] = @ - 1]
  <2>1. /\ holds[w] \in Item /\ w[1] = "run" /\ pc[w] = "work" /\ LoopRunning
        /\ results' = [results EXCEPT ![holds[w]] = "run_error"] /\ queue' = queue
        /\ EndTask(w, unfinished, nd)
    BY <1>6 DEF RunRaise, Working, IInv, HoldsInv
  <2> HIDE DEF nd
  <2>2. /\ holds' = [holds EXCEPT ![w] = None] /\ main' # "done"
        /\ \A v \in Worker \ {w} : pc'[v] = pc[v]
    BY <2>1, EndFacts
  <2>3. results[holds[w]] = "none"
    BY <2>1 DEF Account, Status, StatusOf
  <2>4. Contract!Settle(holds[w])
    BY <2>1, <2>2, <2>3 DEF Contract!Settle, Contract!Outcome
  <2> QED
    BY <2>1, <2>2, <2>4, DropKeeps DEF Contract!Next
<1>7. CASE EvalEnd(w)
  <2>1. /\ holds[w] \in Item /\ w[1] = "eval" /\ pc[w] = "work" /\ LoopRunning
        /\ results' = [results EXCEPT ![holds[w]] = "evaluated"] /\ queue' = queue
        /\ EndTask(w, unfinished, needed)
    BY <1>7 DEF EvalEnd, Working, IInv, HoldsInv
  <2>2. /\ holds' = [holds EXCEPT ![w] = None] /\ main' # "done"
        /\ \A v \in Worker \ {w} : pc'[v] = pc[v]
    BY <2>1, EndFacts
  <2>3. results[holds[w]] = "ran"
    BY <2>1 DEF Account, Status, StatusOf
  <2>4. Contract!Evaluate(holds[w])
    BY <2>1, <2>2, <2>3 DEF Contract!Evaluate
  <2> QED
    BY <2>1, <2>2, <2>4, DropKeeps DEF Contract!Next
<1> QED
  BY <1>1, <1>2, <1>3, <1>4, <1>5, <1>6, <1>7 DEF Task

\* The coroutine's own steps move nothing.
LEMMA OtherSteps ==
    ASSUME Account, Main \/ UNCHANGED vars
    PROVE  /\ Account' /\ results' = results
           /\ main = "done" => main' = "done"
<1>1. UNCHANGED <<queue, holds, pc, results>> /\ (main = "done" => main' = "done")
  BY DEF Main, AfterInitJoin, AfterRunJoin, AfterEvalJoin, FinishWait, Others, vars
<1>2. Single' /\ Status' /\ Located'
  <2>1. Single'
    BY <1>1 DEF Account, Single
  <2>2. Status'
    BY <1>1 DEF Account, Status, StatusOf, QueuedStatus
  <2>3. Located'
    BY <1>1 DEF Account, Located, Somewhere
  <2> QED
    BY <2>1, <2>2, <2>3
<1> QED
  BY <1>1, <1>2 DEF Account

LEMMA AccountStep == IInv /\ Account /\ [Next]_vars => Account'
  BY TaskSteps, OtherSteps DEF Next, Returned

LEMMA AlwaysAccount == Spec => [](IInv /\ Account /\ ResultsComplete)
  BY AccountInit, AccountStep, Invariance, ResultsAreComplete, PTL DEF Spec

\* The pipeline keeps the promise of RolloutContract, however many trajectories and tasks
\* there are and whichever trajectories fail: each result is settled once, only a
\* finished run gets a verdict, and the call returns when nothing is missing.
THEOREM KeepsContract == Spec => ImplementsContract
<1>1. Init => Contract!Init
  BY DEF Init, Contract!Init
<1>2. IInv /\ Account /\ ResultsComplete' /\ [Next]_vars => [Contract!Next]_(Contract!vars)
  <2> SUFFICES ASSUME IInv, Account, ResultsComplete', [Next]_vars
               PROVE  [Contract!Next]_(Contract!vars)
    OBVIOUS
  <2>1. ASSUME NEW w \in Worker, Task(w) PROVE [Contract!Next]_(Contract!vars)
    BY <2>1, TaskSteps DEF Promise, Stutters, Contract!vars
  <2>2. CASE Main \/ UNCHANGED vars
    <3>1. results' = results /\ (main = "done" => main' = "done")
      BY <2>2, OtherSteps
    <3>2. CASE main # "done" /\ main' = "done"
      <4>1. \A i \in Item : results[i] # "none"
        BY <3>1, <3>2 DEF ResultsComplete
      <4> QED
        BY <3>1, <3>2, <4>1 DEF Contract!Next, Contract!Return
    <3>3. CASE (main = "done") = (main' = "done")
      BY <3>1, <3>3 DEF Contract!vars
    <3> QED
      BY <3>1, <3>2, <3>3
  <2> QED
    BY <2>1, <2>2 DEF Next, Returned
<1> QED
  BY <1>1, <1>2, AlwaysAccount, PTL DEF Spec, ImplementsContract, Contract!Spec

\* A trajectory that is not settled for good is in exactly one place, a settled one in none.
THEOREM AllAccounted == Spec => []TrajectoryAccounted
<1>1. IInv /\ Account => TrajectoryAccounted
  <2> SUFFICES ASSUME IInv, Account, NEW i \in Item
               PROVE  Cardinality(Holders(i)) + Cardinality(Places(i)) =
                          IF results[i] \in {"none", "ran"} THEN 1 ELSE 0
    BY DEF TrajectoryAccounted
  <2>1. Holders(i) \subseteq Worker /\ Cardinality({}) = 0
    BY FS_EmptySet DEF Holders
  <2>2. \A s, k : <<s, k>> \in Places(i) <=>
            s \in Stage /\ k \in 1..Len(queue[s]) /\ queue[s][k] = i
    BY DEF Places
  <2>3. \A x \in Places(i) : \E s \in Stage : \E k \in 1..Len(queue[s]) :
            x = <<s, k>> /\ queue[s][k] = i
    BY DEF Places
  <2>4. CASE results[i] \notin {"none", "ran"}
    <3>1. Holders(i) = {}
      BY <2>4 DEF Holders, Account, Status, StatusOf
    <3>2. Places(i) = {}
      BY <2>3, <2>4 DEF Account, Status, QueuedStatus
    <3> QED
      BY <2>1, <2>4, <3>1, <3>2
  <2>5. ASSUME results[i] \in {"none", "ran"}, NEW w \in Worker, holds[w] = i
        PROVE  Cardinality(Holders(i)) + Cardinality(Places(i)) = 1
    <3>1. Holders(i) = {w}
      BY <2>5 DEF Holders, Account, Single
    <3>2. Places(i) = {}
      BY <2>3, <2>5 DEF Account, Single
    <3> QED
      BY <2>1, <3>1, <3>2, FS_Singleton
  <2>6. ASSUME results[i] \in {"none", "ran"}, NEW s \in Stage, NEW k \in 1..Len(queue[s]),
               queue[s][k] = i
        PROVE  Cardinality(Holders(i)) + Cardinality(Places(i)) = 1
    <3>1. Holders(i) = {}
      BY <2>6 DEF Holders, Account, Single
    <3>2. <<s, k>> \in Places(i)
      BY <2>2, <2>6
    <3>3. \A x \in Places(i) : x = <<s, k>>
      BY <2>3, <2>6 DEF Account, Single
    <3>4. Places(i) = {<<s, k>>}
      BY <3>2, <3>3
    <3>5. \A x : Cardinality({x}) = 1
      BY FS_Singleton
    <3>6. Cardinality({<<s, k>>}) = 1
      BY <3>5, Zenon
    <3>7. Cardinality(Places(i)) = 1 /\ Cardinality(Holders(i)) = 0
      BY <2>1, <3>1, <3>4, <3>6, Zenon
    <3> QED
      BY <3>7
  <2> QED
    BY <2>4, <2>5, <2>6 DEF Account, Located, Somewhere
<1> QED
  BY <1>1, AlwaysAccount, PTL

-----------------------------------------------------------------------------
(* The bounds on the queues, and on idle runtimes                           *)

\* No queue but the first is longer than its stage has tasks.
Room == \A s \in {"run", "eval"} : Len(queue[s]) <= Width[s]

LEMMA Widths ==
    /\ N \in Nat \ {0} /\ P \in Nat \ {0} /\ E \in Nat \ {0}
    /\ Width["run"] = P /\ Width["eval"] = E /\ Width["init"] \in Nat /\ Width["init"] <= P
  BY SizesAssumption DEF Width

LEMMA RoomInit == Init => Room
<1> SUFFICES ASSUME Init, NEW s \in {"run", "eval"} PROVE Len(queue[s]) <= Width[s]
  BY DEF Room
<1>1. queue[s] = <<>>
  BY DEF Init, Stage
<1> QED
  BY <1>1, Widths

\* Only a put lengthens a queue, and it waits while the queue is full.
LEMMA RoomStep == IInv /\ Room /\ [Next]_vars => Room'
<1> SUFFICES ASSUME IInv, Room, [Next]_vars, NEW s \in {"run", "eval"}
             PROVE  Len(queue'[s]) <= Width[s]
  BY DEF Room
<1>1. /\ queue \in [Stage -> Seq(Item)] /\ Width[s] \in Nat /\ s \in Stage /\ s # "init"
      /\ Len(queue[s]) <= Width[s]
  BY Widths DEF IInv, TypeOK, Stage, Room
<1>2. queue[s] \in Seq(Item) /\ Len(queue[s]) \in Nat
  BY <1>1
<1>3. ASSUME NEW w \in Worker, holds[w] \in Item, PutOrWait(w) PROVE Len(queue'[s]) <= Width[s]
  <2>1. CASE queue' = queue
    BY <1>1, <2>1
  <2>2. CASE ~Full(NextStage(w[1])) /\
             queue' = [queue EXCEPT ![NextStage(w[1])] = Append(@, holds[w])]
    <3>1. CASE NextStage(w[1]) = s
      <4>1. queue'[s] = Append(queue[s], holds[w]) /\ Len(queue[s]) < Width[s]
        BY <1>1, <1>2, <2>2, <3>1 DEF Full
      <4> QED
        BY <1>1, <1>2, <1>3, <4>1
    <3>2. CASE NextStage(w[1]) # s
      BY <1>1, <2>2, <3>2
    <3> QED
      BY <3>1, <3>2
  <2> QED
    BY <1>3, <2>1, <2>2 DEF PutOrWait
<1>4. ASSUME NEW w \in Worker, Get(w) PROVE Len(queue'[s]) <= Width[s]
  <2>1. w[1] \in Stage /\ queue[w[1]] # <<>> /\ queue' = [queue EXCEPT ![w[1]] = Tail(@)]
    BY <1>4 DEF Get, Worker
  <2>2. CASE w[1] = s
    <3>1. queue'[s] = Tail(queue[s]) /\ queue[s] # <<>>
      BY <1>1, <2>1, <2>2
    <3> QED
      BY <1>1, <1>2, <3>1
  <2>3. CASE w[1] # s
    BY <1>1, <2>1, <2>3
  <2> QED
    BY <2>2, <2>3
<1>5. ASSUME NEW w \in Worker, pc[w] \in {"work", "put"} PROVE holds[w] \in Item
  BY <1>5 DEF IInv, HoldsInv
<1>6. ASSUME NEW w \in Worker, Task(w) PROVE Len(queue'[s]) <= Width[s]
  <2>1. CASE Get(w)
    BY <1>4, <2>1
  <2>2. CASE ResumePut(w) \/ InitOk(w) \/ RunOk(w)
    <3>1. pc[w] \in {"work", "put"} /\ PutOrWait(w)
      BY <2>2 DEF ResumePut, InitOk, RunOk, Working
    <3> QED
      BY <1>3, <1>5, <3>1
  <2>3. CASE InitFail(w) \/ RunRaise(w) \/ EvalEnd(w)
    BY <1>1, <2>3 DEF InitFail, RunRaise, EvalEnd
  <2> QED
    BY <1>6, <2>1, <2>2, <2>3 DEF Task
<1>7. CASE Main \/ Returned \/ UNCHANGED vars
  BY <1>1, <1>7 DEF Main, AfterInitJoin, AfterRunJoin, AfterEvalJoin, FinishWait, Others,
              Returned, vars
<1> QED
  BY <1>6, <1>7 DEF Next

\* A stage has no more chains of tasks than its width.
LEMMA FewWorkers ==
    ASSUME NEW s \in Stage, NEW S \in SUBSET Worker, \A w \in S : w[1] = s
    PROVE  IsFiniteSet(S) /\ Cardinality(S) \in 0..Width[s]
<1> DEFINE n == Width[s]
           chains == {s} \X (1..n)
<1>1. n \in Nat
  BY Widths DEF Stage
<1>2. S \subseteq chains
  BY DEF Worker
<1> HIDE DEF n, chains
<1>3. IsFiniteSet(1..n) /\ Cardinality(1..n) = n
  <2>1. IsFiniteSet(1..n) /\ Cardinality(1..n) = IF 1 > n THEN 0 ELSE n - 1 + 1
    BY <1>1, FS_Interval
  <2> QED
    BY <1>1, <2>1
<1>4. IsFiniteSet({s}) /\ Cardinality({s}) = 1
  BY FS_Singleton
<1>5. IsFiniteSet(chains) /\ Cardinality(chains) = 1 * n
  <2>1. /\ IsFiniteSet({s} \X (1..n))
        /\ Cardinality({s} \X (1..n)) = Cardinality({s}) * Cardinality(1..n)
    BY <1>3, <1>4, FS_Product, Zenon
  <2> QED
    BY <1>3, <1>4, <2>1, Zenon DEF chains
<1>6. IsFiniteSet(S) /\ Cardinality(S) <= Cardinality(chains)
  BY <1>2, <1>5, FS_Subset, Zenon
<1>7. Cardinality(S) \in Nat
  BY <1>6, FS_CardinalityType
<1>8. Cardinality(S) \in 0..n
  BY <1>1, <1>5, <1>6, <1>7
<1> QED
  BY <1>6, <1>8 DEF n

\* At most twice max_parallel_agents runtimes are up without an agent, whatever
\* the size of the batch and whatever fails.
THEOREM RuntimesBounded == Spec => []RuntimeBound
<1>1. IInv /\ Room => RuntimeBound
  <2> SUFFICES ASSUME IInv, Room PROVE RuntimeBound
    OBVIOUS
  <2>1. P \in Nat /\ Len(queue["run"]) \in Nat /\ Len(queue["run"]) <= P
    BY Widths, QueueTypes DEF IInv, Stage, Room
  <2> DEFINE waiting == {w \in Worker : w[1] = "init" /\ pc[w] = "put"}
  <2>2. Cardinality(waiting) \in 0..Width["init"]
    BY FewWorkers DEF Stage
  <2>3. Cardinality(waiting) \in Nat /\ Cardinality(waiting) <= P
    BY <2>1, <2>2, Widths
  <2> HIDE DEF waiting
  <2>4. Len(queue["run"]) + Cardinality(waiting) <= 2 * P
    BY <2>1, <2>3
  <2> QED
    BY <2>4 DEF RuntimeBound, IdleRuntimes, waiting
<1> QED
  BY <1>1, RoomInit, RoomStep, Invariance, PTL DEF Spec

-----------------------------------------------------------------------------
(* Runs that stay unevaluated                                               *)

Putting == {w \in Worker : w[1] = "run" /\ pc[w] = "put"}
Running == {w \in Worker : w[1] = "run" /\ pc[w] = "work"}

\* Finished runs that no task of the snapshot is evaluating: those that may be left.
Late == {i \in Item : /\ results[i] = "ran"
                      /\ \A w \in awaited : w[1] = "eval" => holds[w] # i}

\* The snapshot of the final wait has every run that is under way in it.
Snapshot ==
    /\ main \notin {"wait", "done"} => awaited = {}
    /\ main \in {"wait", "done"} =>
           \A w \in Worker : w[1] = "run" /\ pc[w] \in {"work", "put"} => w \in awaited

\* Once the evaluation queue has been found drained, only the runs then under way can
\* still be left: no new one starts.
LateBound ==
    main \in {"evalDone", "wait", "done"} => Cardinality(Late) + Cardinality(Running) <= P

\* What a step of a task does to the task and to the coroutine.
Block(w) ==
    /\ w[1] \in {"init", "run"} /\ pc[w] = "work" /\ pc' = [pc EXCEPT ![w] = "put"]
    /\ UNCHANGED <<holds, main, awaited>>
End(w) ==
    /\ pc[w] \in {"work", "put"} /\ \E v \in {"get", "exit"} : pc' = [pc EXCEPT ![w] = v]
    /\ holds' = [holds EXCEPT ![w] = None] /\ awaited' = awaited \ {w}
    /\ \/ main' = main
       \/ main = Joining[w[1]] /\ main' = Joined[w[1]]

LEMMA PutShape ==
    ASSUME NEW w \in Worker, PutOrWait(w), pc[w] \in {"work", "put"}, w[1] \in {"init", "run"}
    PROVE  Block(w) \/ End(w)
  BY DEF PutOrWait, EndTask, Block, End

\* It takes a trajectory, blocks, or ends, and leaves the results alone but for its own.
LEMMA TaskShape ==
    ASSUME IInv, NEW w \in Worker, Task(w)
    PROVE  /\ Get(w) \/ Block(w) \/ End(w)
           /\ \/ results' = results
              \/ /\ pc[w] = "work" /\ w[1] = "run"
                 /\ results' = [results EXCEPT ![holds[w]] = "ran"]
              \/ /\ pc[w] = "work"
                 /\ \E r \in {"init_error", "run_error", "evaluated"} :
                        results' = [results EXCEPT ![holds[w]] = r]
           /\ w[1] = "eval" => \/ Get(w)
                               \/ End(w) /\ results' = [results EXCEPT ![holds[w]] = "evaluated"]
<1>0. w[1] \in Stage /\ pc \in [Worker -> TaskPC] /\ (pc[w] = "put" => w[1] \in {"init", "run"})
  BY DEF Worker, IInv, TypeOK, HoldsInv, Stage
<1>1. CASE Get(w)
  BY <1>1 DEF Get
<1>2. CASE ResumePut(w)
  BY <1>0, <1>2, PutShape DEF ResumePut
<1>3. CASE InitOk(w)
  BY <1>0, <1>3, PutShape DEF InitOk, Working, Block, End
<1>4. CASE RunOk(w)
  BY <1>0, <1>4, PutShape DEF RunOk, Working, Block, End, Get
<1>5. CASE InitFail(w)
  BY <1>0, <1>5 DEF InitFail, Working, EndTask, End
<1>6. CASE RunRaise(w)
  BY <1>0, <1>6 DEF RunRaise, Working, EndTask, End, Get
<1>7. CASE EvalEnd(w)
  BY <1>0, <1>7 DEF EvalEnd, Working, EndTask, End
<1> QED
  BY <1>1, <1>2, <1>3, <1>4, <1>5, <1>6, <1>7 DEF Task


\* When the coroutine has passed its joins, nothing is initialized and no run can start.
LEMMA Upstream ==
    ASSUME IInv, main \in {"evalDone", "wait", "done"}
    PROVE  \A w \in Worker : ~(Get(w) /\ w[1] # "eval") /\ ~(w[1] = "init" /\ pc[w] \in {"work", "put"})
<1>1. queue["run"] = <<>> /\ unfinished["init"] = 0
  BY DEF IInv, MainInv
<1>2. /\ unfinished["init"] = Len(queue["init"]) + Cardinality(Busy("init"))
      /\ Len(queue["init"]) \in Nat /\ Cardinality(Busy("init")) \in Nat
      /\ IsFiniteSet(Busy("init")) /\ queue["init"] \in Seq(Item)
  BY CountsAreNat, QueueTypes DEF IInv, JoinCounts, Stage
<1> DEFINE a == Len(queue["init"])
           b == Cardinality(Busy("init"))
<1>3. a = 0 /\ b = 0
  <2>1. a + b = 0 /\ a \in Nat /\ b \in Nat
    BY <1>1, <1>2
  <2> HIDE DEF a, b
  <2> QED
    BY <2>1
<1>4. queue["init"] = <<>> /\ Busy("init") = {}
  BY <1>2, <1>3, FS_EmptySet, EmptySeq
<1>5. \A w \in Worker : w[1] \in {"init", "run", "eval"}
  BY DEF Worker, Stage
<1> QED
  BY <1>1, <1>4, <1>5 DEF Get, Busy

LEMMA SnapshotInit == Init => Snapshot
  BY DEF Init, Snapshot

LEMMA SnapshotStep == IInv /\ Snapshot /\ [Next]_vars => Snapshot'
<1> SUFFICES ASSUME IInv, Snapshot, [Next]_vars PROVE Snapshot'
  OBVIOUS
<1>1. ASSUME NEW w \in Worker, Task(w) PROVE Snapshot'
  <2>1. Get(w) \/ Block(w) \/ End(w)
    BY <1>1, TaskShape
  <2>2. w[1] \in {"init", "run", "eval"} /\ pc \in [Worker -> TaskPC]
    BY DEF Worker, Stage, IInv, TypeOK
  <2>3. /\ main' \in {"wait", "done"} <=> main \in {"wait", "done"}
        /\ awaited' = awaited \/ awaited' = awaited \ {w}
    BY <2>1, <2>2 DEF Get, Block, End, Joining, Joined, Stage
  <2>4. ASSUME main \in {"wait", "done"}, NEW u \in Worker, u[1] = "run", pc'[u] \in {"work", "put"}
        PROVE  u \in awaited'
    <3>1. CASE Get(w)
      <4>1. w[1] = "eval"
        BY <2>4, <3>1, Upstream
      <4>2. pc'[u] = pc[u] /\ awaited' = awaited
        BY <2>2, <2>4, <3>1, <4>1 DEF Get
      <4> QED
        BY <2>4, <4>2 DEF Snapshot
    <3>2. CASE Block(w)
      <4>1. awaited' = awaited /\ pc[u] \in {"work", "put"}
        BY <2>2, <2>4, <3>2 DEF Block
      <4> QED
        BY <2>4, <4>1 DEF Snapshot
    <3>3. CASE End(w)
      <4>1. awaited' = awaited \ {w} /\ u # w /\ pc[u] \in {"work", "put"}
        BY <2>2, <2>4, <3>3 DEF End
      <4> QED
        BY <2>4, <4>1 DEF Snapshot
    <3> QED
      BY <2>1, <3>1, <3>2, <3>3
  <2> QED
    BY <2>3, <2>4 DEF Snapshot
<1>2. CASE Main
  <2>1. pc' = pc
    BY <1>2 DEF Main, AfterInitJoin, AfterRunJoin, AfterEvalJoin, FinishWait, Others
  <2>2. CASE WaitForTasks
    BY <2>1, <2>2 DEF WaitForTasks, ActiveTasks, Snapshot
  <2>3. CASE FinishWait
    BY <2>1, <2>3 DEF FinishWait, Snapshot
  <2>4. CASE main \notin {"wait", "done"} /\ main' \notin {"wait", "done"} /\ awaited' = awaited
    BY <2>4 DEF Snapshot
  <2> QED
    BY <1>2, <2>2, <2>3, <2>4
       DEF Main, AfterInitJoin, AfterRunJoin, AfterEvalJoin, JoinEvalOrWait
<1>3. CASE UNCHANGED vars
  BY <1>3 DEF vars, Snapshot
<1> QED
  BY <1>1, <1>2, <1>3 DEF Next, Returned


LEMMA LateCounts ==
    /\ IsFiniteSet(Late) /\ Cardinality(Late) \in Nat
    /\ IsFiniteSet(Running) /\ Cardinality(Running) \in Nat
    /\ IsFiniteSet(Putting) /\ Cardinality(Putting) \in Nat
<1>1. IsFiniteSet(Item)
  BY SizesAssumption, FS_Interval DEF Item
<1>2. Late \subseteq Item /\ Running \subseteq Worker /\ Putting \subseteq Worker
  BY DEF Late, Running, Putting
<1> QED
  BY <1>1, <1>2, WorkersFinite, FS_Subset, FS_CardinalityType

\* A set of trajectories, each in the hands of a task of its own, is no larger than the
\* set of these tasks.
LEMMA Hands ==
    ASSUME NEW S, NEW T \in SUBSET Worker, \A i \in S : \E w \in T : holds[w] = i
    PROVE  IsFiniteSet(S) /\ Cardinality(S) <= Cardinality(T)
<1> DEFINE Q == {w \in T : holds[w] \in S}
           f == [w \in Q |-> holds[w]]
<1>1. IsFiniteSet(T) /\ Cardinality(T) \in Nat
  BY WorkersFinite, FS_Subset, FS_CardinalityType
<1>2. Q \subseteq T
  OBVIOUS
<1>3. IsFiniteSet(Q) /\ Cardinality(Q) <= Cardinality(T) /\ Cardinality(Q) \in Nat
  BY <1>1, <1>2, FS_Subset, FS_CardinalityType
<1>4. f \in Surjection(Q, S)
  <2>1. f \in [Q -> S]
    OBVIOUS
  <2>2. \A i \in S : \E w \in Q : f[w] = i
    OBVIOUS
  <2> QED
    BY <2>1, <2>2 DEF Surjection
<1>5. IsFiniteSet(S) /\ Cardinality(S) <= Cardinality(Q)
  BY <1>3, <1>4, FS_Surjection
<1>6. Cardinality(S) \in Nat
  BY <1>5, FS_CardinalityType
<1> QED
  BY <1>1, <1>3, <1>5, <1>6

\* When the evaluation queue is empty and its tasks are all in the snapshot, the finished
\* runs that may be left are in the hands of the tasks that ran them.
Drained ==
    /\ queue["eval"] = <<>>
    /\ \A w \in Worker : w[1] = "eval" /\ pc[w] = "work" => w \in awaited

LEMMA DrainedBound ==
    IInv /\ Account /\ Drained => Cardinality(Late) + Cardinality(Running) <= P
<1> SUFFICES ASSUME IInv, Account, Drained PROVE Cardinality(Late) + Cardinality(Running) <= P
  OBVIOUS
<1>1. ASSUME NEW i \in Late PROVE \E w \in Putting : holds[w] = i
  <2>1. /\ i \in Item /\ results[i] = "ran" /\ Somewhere(i)
        /\ \A w \in awaited : w[1] = "eval" => holds[w] # i
    BY DEF Late, Account, Located
  <2>2. ASSUME NEW s \in Stage, NEW k \in 1..Len(queue[s]) PROVE queue[s][k] # i
    <3>1. s # "eval"
      BY <2>2 DEF Drained
    <3> QED
      BY <2>1, <3>1 DEF Account, Status, QueuedStatus
  <2>3. PICK w \in Worker : holds[w] = i
    BY <2>1, <2>2 DEF Somewhere
  <2>4. StatusOf(w) = "ran" /\ pc[w] \in {"work", "put"} /\ (w[1] = "eval" => pc[w] # "put")
    BY <2>1, <2>3 DEF Account, Status, IInv, HoldsInv
  <2>5. w[1] # "eval"
    BY <2>1, <2>3, <2>4 DEF Drained
  <2>6. w[1] = "run" /\ pc[w] = "put"
    BY <2>4, <2>5 DEF StatusOf, Worker, Stage
  <2> QED
    BY <2>3, <2>6 DEF Putting
<1>2. Cardinality(Late) <= Cardinality(Putting)
  <2>1. Putting \subseteq Worker
    BY DEF Putting
  <2> QED
    BY <1>1, <2>1, Hands
<1>3. Cardinality(Putting \cup Running) \in 0..P
  <2>1. /\ Putting \cup Running \subseteq Worker
        /\ \A w \in Putting \cup Running : w[1] = "run"
    BY DEF Putting, Running
  <2> QED
    BY <2>1, FewWorkers, Widths DEF Stage
<1>4. Putting \cap Running = {}
  BY DEF Putting, Running
<1>5. Cardinality(Putting \cup Running) = Cardinality(Putting) + Cardinality(Running)
  <2>1. Cardinality(Putting \cap Running) = 0
    BY <1>4, FS_EmptySet
  <2> QED
    <3>1. IsFiniteSet(Putting) /\ IsFiniteSet(Running)
      BY LateCounts
    <3>2. Cardinality(Putting \cup Running) =
              Cardinality(Putting) + Cardinality(Running) - Cardinality(Putting \cap Running)
      BY <3>1, FS_Union, Zenon
    <3> DEFINE a == Cardinality(Putting)
               b == Cardinality(Running)
    <3>3. a \in Nat /\ b \in Nat
      BY LateCounts
    <3> HIDE DEF a, b
    <3>4. a + b - 0 = a + b
      BY <3>3
    <3> QED
      BY <2>1, <3>2, <3>4 DEF a, b
<1> QED
  BY <1>2, <1>3, <1>5, LateCounts, Widths

LEMMA LateInit == Init => LateBound
  BY DEF Init, LateBound

LEMMA Shrinks ==
    ASSUME NEW A \in SUBSET Late, NEW B \in SUBSET Running,
           Cardinality(Late) + Cardinality(Running) <= P
    PROVE  Cardinality(A) + Cardinality(B) <= P
<1>1. Cardinality(A) <= Cardinality(Late) /\ Cardinality(A) \in Nat
  BY LateCounts, FS_Subset, FS_CardinalityType
<1>2. Cardinality(B) <= Cardinality(Running) /\ Cardinality(B) \in Nat
  BY LateCounts, FS_Subset, FS_CardinalityType
<1> QED
  BY <1>1, <1>2, LateCounts, Widths

\* After that a run that ends leaves at most its own trajectory.
LEMMA LateTask ==
    ASSUME IInv, LateBound, NEW w \in Worker, Task(w), main \in {"evalDone", "wait", "done"}
    PROVE  Cardinality(Late') + Cardinality(Running') <= P
<1>1. /\ w[1] \in {"init", "run", "eval"} /\ pc \in [Worker -> TaskPC]
      /\ holds \in [Worker -> Item \cup {None}] /\ results \in [Item -> Result]
      /\ awaited \subseteq Worker
  BY DEF Worker, Stage, IInv, TypeOK
<1>2. Cardinality(Late) + Cardinality(Running) <= P
  BY DEF LateBound
<1>3. /\ Get(w) \/ Block(w) \/ End(w)
      /\ Get(w) => w[1] = "eval"
      /\ ~(w[1] = "init" /\ pc[w] \in {"work", "put"})
  BY TaskShape, Upstream
<1>4. w[1] \in {"run", "eval"}
  BY <1>1, <1>3 DEF Block, End
<1>5. Running' \subseteq Running
  BY <1>1, <1>3, <1>4 DEF Running, Get, Block, End
<1>6. CASE w[1] = "eval"
  <2>1. \/ Get(w) /\ results' = results
        \/ End(w) /\ results' = [results EXCEPT ![holds[w]] = "evaluated"]
    BY <1>6, TaskShape DEF Get
  <2>2. CASE Get(w)
    <3>1. /\ holds' = [holds EXCEPT ![w] = Head(queue[w[1]])] /\ awaited' = awaited
          /\ pc[w] = "get" /\ results' = results
      BY <2>2 DEF Get
    <3>2. holds[w] \notin Item
      BY <3>1 DEF IInv, HoldsInv
    <3>3. Late' \subseteq Late
      BY <1>1, <3>1, <3>2 DEF Late
    <3> QED
      BY <1>2, <1>5, <3>3, Shrinks
  <2>3. CASE End(w) /\ results' = [results EXCEPT ![holds[w]] = "evaluated"]
    <3>1. /\ holds' = [holds EXCEPT ![w] = None] /\ awaited' = awaited \ {w}
          /\ holds[w] \in Item
      BY <2>3 DEF End, IInv, HoldsInv
    <3>2. Late' \subseteq Late
      BY <1>1, <2>3, <3>1 DEF Late
    <3> QED
      BY <1>2, <1>5, <3>2, Shrinks
  <2> QED
    BY <2>1, <2>2, <2>3
<1>7. CASE w[1] = "run"
  <2>1. Block(w) \/ End(w)
    BY <1>3, <1>7
  <2>2. \A v \in awaited : v[1] = "eval" => v \in awaited' /\ holds'[v] = holds[v]
    BY <1>1, <1>7, <2>1 DEF Block, End
  <2>3. CASE \E i \in Item : i = holds[w] /\ pc[w] = "work"
             /\ results' = [results EXCEPT ![holds[w]] = "ran"]
    <3>1. Late' \subseteq Late \cup {holds[w]}
      BY <1>1, <2>2, <2>3 DEF Late
    <3>2. Running' = Running \ {w} /\ w \in Running
      BY <1>1, <1>7, <2>1, <2>3 DEF Running, Block, End
    <3>3. IsFiniteSet(Late \cup {holds[w]}) /\ Cardinality(Late \cup {holds[w]}) <= Cardinality(Late) + 1
      <4>1. IsFiniteSet(Late)
        BY LateCounts
      <4>2. /\ IsFiniteSet(Late \cup {holds[w]})
            /\ Cardinality(Late \cup {holds[w]}) =
                   IF holds[w] \in Late THEN Cardinality(Late) ELSE Cardinality(Late) + 1
        BY <4>1, FS_AddElement, Zenon
      <4> QED
        BY <4>2, LateCounts
    <3>4. Cardinality(Running') = Cardinality(Running) - 1
      BY <3>2, LateCounts, FS_RemoveElement
    <3>5. Cardinality(Late') <= Cardinality(Late \cup {holds[w]})
          /\ Cardinality(Late') \in Nat /\ Cardinality(Late \cup {holds[w]}) \in Nat
      BY <3>1, <3>3, FS_Subset, FS_CardinalityType
    <3> QED
      BY <1>2, <3>3, <3>4, <3>5, LateCounts, Widths
  <2>4. CASE \/ results' = results
             \/ \E r \in {"init_error", "run_error", "evaluated"} :
                    results' = [results EXCEPT ![holds[w]] = r]
    <3>1. Late' \subseteq Late
      BY <1>1, <2>2, <2>4 DEF Late
    <3> QED
      BY <1>2, <1>5, <3>1, Shrinks
  <2>5. pc[w] = "work" => holds[w] \in Item
    BY DEF IInv, HoldsInv
  <2> QED
    BY <2>3, <2>4, <2>5, TaskShape
<1> QED
  BY <1>4, <1>6, <1>7


\* The evaluation queue is drained when its last unfinished item ends, ...
LEMMA LastEval ==
    ASSUME IInv, NEW w \in Worker, Task(w), main' = "evalDone", main # "evalDone"
    PROVE  Drained'
<1>1. main = "joinEval" /\ w[1] = "eval" /\ End(w)
  <2>1. w[1] \in {"init", "run", "eval"}
    BY DEF Worker, Stage
  <2> QED
    BY <2>1, TaskShape DEF Get, Block, End, Joining, Joined
<1>2. EvalEnd(w)
  BY <1>1 DEF Task, Get, ResumePut, InitOk, InitFail, RunOk, RunRaise, Working, End, IInv, HoldsInv
<1>3. unfinished["eval"] = 1 /\ unfinished' = [unfinished EXCEPT !["eval"] = @ - 1]
  BY <1>1, <1>2 DEF EvalEnd, EndTask
<1>4. unfinished'["eval"] = 0
  BY <1>3 DEF IInv, TypeOK, Stage
<1>5. IInv'
  <2>1. [Next]_vars
    BY DEF Next
  <2> QED
    BY <2>1, NextIInv
<1> DEFINE a == Len(queue'["eval"])
           b == Cardinality(Busy("eval")')
<1>6. a + b = 0 /\ a \in Nat /\ b \in Nat /\ queue'["eval"] \in Seq(Item)
      /\ IsFiniteSet(Busy("eval")')
  <2>1. unfinished'["eval"] = a + b
    BY <1>5 DEF IInv, JoinCounts, Stage
  <2>2. queue'["eval"] \in Seq(Item)
    BY <1>5 DEF IInv, TypeOK, Stage
  <2>3. IsFiniteSet(Busy("eval")')
    <3>1. Busy("eval")' \subseteq Worker
      BY DEF Busy
    <3> QED
      BY <3>1, WorkersFinite, FS_Subset
  <2>4. b \in Nat
    BY <2>3, FS_CardinalityType
  <2> QED
    BY <1>4, <2>1, <2>2, <2>3, <2>4
<1>7. a = 0 /\ b = 0
  <2> HIDE DEF a, b
  <2> QED
    BY <1>6
<1>8. queue'["eval"] = <<>> /\ Busy("eval")' = {}
  BY <1>6, <1>7, FS_EmptySet, EmptySeq
<1> QED
  BY <1>8 DEF Drained, Busy

\* ... or when the coroutine finds it empty and takes the snapshot.
LEMMA SnapshotDrained ==
    ASSUME IInv, Main, main' \in {"evalDone", "wait", "done"}, main \notin {"evalDone", "wait", "done"}
    PROVE  Drained'
<1>1. WaitForTasks /\ queue["eval"] = <<>> /\ UNCHANGED Others
  BY DEF Main, AfterInitJoin, AfterRunJoin, AfterEvalJoin, FinishWait, JoinEvalOrWait
<1> QED
  BY <1>1 DEF WaitForTasks, ActiveTasks, Drained, Others

\* A longer snapshot, or the end of an empty one, leaves no more runs unevaluated.
LEMMA LateMain ==
    ASSUME IInv, Snapshot, LateBound, Main \/ UNCHANGED vars, main \in {"evalDone", "wait", "done"}
    PROVE  Cardinality(Late') + Cardinality(Running') <= P
<1>1. /\ results' = results /\ holds' = holds /\ pc' = pc
      /\ awaited \subseteq awaited'
  BY DEF Main, AfterInitJoin, AfterRunJoin, AfterEvalJoin, FinishWait, WaitForTasks, Others, vars,
         Snapshot
<1>2. Late' \subseteq Late /\ Running' \subseteq Running
  BY <1>1 DEF Late, Running
<1> QED
  BY <1>2, Shrinks DEF LateBound

LEMMA LateStep == IInv /\ Account /\ Snapshot /\ LateBound /\ [Next]_vars => LateBound'
<1> SUFFICES ASSUME IInv, Account, Snapshot, LateBound, [Next]_vars,
                    main' \in {"evalDone", "wait", "done"}
             PROVE  (Cardinality(Late) + Cardinality(Running) <= P)'
  BY DEF LateBound
<1>1. CASE main \in {"evalDone", "wait", "done"}
  BY <1>1, LateTask, LateMain DEF Next, Returned
<1>2. CASE main \notin {"evalDone", "wait", "done"}
  <2>1. ASSUME NEW w \in Worker, Task(w) PROVE Drained'
    <3>1. main' = "evalDone"
      <4>1. w[1] \in {"init", "run", "eval"}
        BY DEF Worker, Stage
      <4> QED
        BY <1>2, <2>1, <4>1, TaskShape DEF Get, Block, End, Joined
    <3> QED
      BY <1>2, <2>1, <3>1, LastEval
  <2>2. Drained'
    BY <1>2, <2>1, SnapshotDrained DEF Next, Returned, vars
  <2>3. IInv' /\ Account'
    BY NextIInv, AccountStep
  <2> QED
    BY <2>2, <2>3, DrainedBound, PTL
<1> QED
  BY <1>1, <1>2

\* The trajectories of a queue are no more than its places.
LEMMA QueuedBound ==
    ASSUME NEW q \in Seq(Item)
    PROVE  LET S == {q[k] : k \in 1..Len(q)}
           IN  IsFiniteSet(S) /\ Cardinality(S) <= Len(q)
<1> DEFINE S == {q[k] : k \in 1..Len(q)}
           f == [k \in 1..Len(q) |-> q[k]]
<1>1. Len(q) \in Nat
  OBVIOUS
<1>2. IsFiniteSet(1..Len(q)) /\ Cardinality(1..Len(q)) = Len(q)
  BY <1>1, FS_Interval
<1>3. f \in Surjection(1..Len(q), S)
  BY DEF Surjection
<1> HIDE DEF S, f
<1>4. IsFiniteSet(S) /\ Cardinality(S) <= Cardinality(1..Len(q))
  BY <1>2, <1>3, FS_Surjection
<1>5. IsFiniteSet(S) /\ Cardinality(S) <= Len(q)
  BY <1>2, <1>4
<1> QED
  BY <1>5 DEF S


\* At most P trajectories, and at most twice as many as there are evaluation tasks, are left
\* without a verdict when generate_trajectories_pipeline returns.
THEOREM FewAreUnevaluated == Spec => []FewUnevaluated
<1>1. IInv /\ Account /\ Room /\ Snapshot /\ LateBound => FewUnevaluated
  <2> DEFINE left == {i \in Item : results[i] = "ran"}
  <2> SUFFICES ASSUME IInv, Account, Room, Snapshot, LateBound, main = "done"
               PROVE  Cardinality(left) <= P /\ Cardinality(left) <= 2 * E
    BY DEF FewUnevaluated
  <2>1. awaited = {} /\ \A w \in Worker : w[1] = "run" => pc[w] \notin {"work", "put"}
    BY DEF IInv, MainInv, Snapshot
  <2>2. Cardinality(left) <= P
    <3>1. left = Late
      BY <2>1 DEF Late
    <3> QED
      BY <3>1, LateCounts, Widths DEF LateBound
  <2> DEFINE queued == {queue["eval"][k] : k \in 1..Len(queue["eval"])}
             held == {i \in left : \E w \in Busy("eval") : holds[w] = i}
  <2>3. left \subseteq queued \cup held
    <3> SUFFICES ASSUME NEW i \in Item, results[i] = "ran", i \notin queued
                 PROVE  \E w \in Busy("eval") : holds[w] = i
      OBVIOUS
    <3>1. Somewhere(i)
      BY DEF Account, Located
    <3>2. ASSUME NEW s \in Stage, NEW k \in 1..Len(queue[s]) PROVE queue[s][k] # i
      <4>1. CASE s = "eval"
        BY <3>2, <4>1
      <4>2. CASE s # "eval"
        BY <3>2, <4>2 DEF Account, Status, QueuedStatus
      <4> QED
        BY <4>1, <4>2
    <3>3. PICK w \in Worker : holds[w] = i
      BY <3>1, <3>2 DEF Somewhere
    <3>4. StatusOf(w) = "ran" /\ pc[w] \in {"work", "put"} /\ w[1] \in {"init", "run", "eval"}
      BY <3>3 DEF Account, Status, IInv, HoldsInv, Worker, Stage
    <3>5. w[1] = "eval"
      BY <2>1, <3>4 DEF StatusOf
    <3> QED
      BY <3>3, <3>4, <3>5 DEF Busy
  <2>4. IsFiniteSet(queued) /\ Cardinality(queued) \in Nat /\ Cardinality(queued) <= E
    <3>1. queue["eval"] \in Seq(Item) /\ Len(queue["eval"]) \in Nat /\ Len(queue["eval"]) <= E
      BY QueueTypes, Widths DEF IInv, Stage, Room
    <3>2. IsFiniteSet(queued) /\ Cardinality(queued) <= Len(queue["eval"])
      BY <3>1, QueuedBound
    <3>3. Cardinality(queued) \in Nat
      BY <3>2, FS_CardinalityType
    <3> QED
      BY <3>1, <3>2, <3>3, Widths
  <2>5. IsFiniteSet(held) /\ Cardinality(held) \in Nat /\ Cardinality(held) <= E
    <3>1. Busy("eval") \subseteq Worker /\ \A w \in Busy("eval") : w[1] = "eval"
      BY DEF Busy
    <3>2. Cardinality(Busy("eval")) \in 0..E
      BY <3>1, FewWorkers, Widths DEF Stage
    <3>3. IsFiniteSet(held) /\ Cardinality(held) <= Cardinality(Busy("eval"))
      BY <3>1, Hands
    <3>4. Cardinality(held) \in Nat
      BY <3>3, FS_CardinalityType
    <3> QED
      BY <3>2, <3>3, <3>4, Widths
  <2> HIDE DEF queued, held, left
  <2>6. /\ IsFiniteSet(queued \cup held)
        /\ Cardinality(queued \cup held) =
              Cardinality(queued) + Cardinality(held) - Cardinality(queued \cap held)
    BY <2>4, <2>5, FS_Union, Zenon
  <2>7. Cardinality(queued \cap held) \in Nat /\ Cardinality(queued \cup held) \in Nat
    BY <2>4, <2>6, FS_Intersection, FS_CardinalityType
  <2>8. Cardinality(left) <= Cardinality(queued \cup held) /\ Cardinality(left) \in Nat
    BY <2>3, <2>6, FS_Subset, FS_CardinalityType
  <2>9. Cardinality(left) <= 2 * E
    BY <2>4, <2>5, <2>6, <2>7, <2>8, Widths
  <2> QED
    BY <2>2, <2>9
<1> QED
  BY <1>1, AlwaysAccount, RoomInit, RoomStep, SnapshotInit, SnapshotStep, LateInit, LateStep, PTL DEF Spec

=============================================================================
