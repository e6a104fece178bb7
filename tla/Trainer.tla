------------------------------- MODULE Trainer --------------------------------
(***************************************************************************)
(* The Stage1B training run of RayPPOTrainer (verl/trainer/ppo/            *)
(* ray_trainer.py): fit, the update of a step, _save_checkpoint with the   *)
(* FSDPCheckpointManager of every rank (verl/utils/checkpoint), and        *)
(* _load_checkpoint of the next process after a crash.                     *)
(*                                                                         *)
(* The weights of a rank are the set of the updates that made them, each   *)
(* named by the process that computed it and its step.  A file that a      *)
(* crash leaves half written lies in a directory that the tracker file     *)
(* does not name and is the same as no file; the tracker file itself is    *)
(* emptied and written in two steps.                                       *)
(***************************************************************************)
EXTENDS Stage1BSampler

CONSTANTS Rank,        \* the ranks of the actor's worker group
          Group,       \* the groups that a rollout of a task may come to
          BatchesPerEpoch,  \* len(train_dataloader)
          Epochs,      \* total_epochs
          SaveFreq,    \* save_freq
          Warmup,      \* critic_warmup
          Keep,        \* max_actor_ckpt_to_keep
          MaxCrashes   \* bound on the restarts of the process

ASSUME TrainerAssumption ==
    /\ Rank # {}
    /\ BatchesPerEpoch \in Nat \ {0}
    /\ Epochs \in Nat \ {0}
    /\ SaveFreq \in Nat
    /\ Warmup \in Nat
    /\ Keep \in Nat \ {0}
    /\ MaxCrashes \in Nat

TotalSteps == BatchesPerEpoch * Epochs
MaxStep == TotalSteps + MaxCrashes
Step == 1..MaxStep

\* The generator yields an order of tasks for every step, in which none occurs twice
\* (random.Random.sample; __init__ refuses candidate_ids that are not unique).
ASSUME OrderAssumption ==
    \A k \in Step :
        /\ CandidateOrder[k] \in Seq(Task)
        /\ \A i, j \in DOMAIN CandidateOrder[k] :
               CandidateOrder[k][i] = CandidateOrder[k][j] => i = j

VARIABLES
    pc,          \* where the driver is in fit and _save_checkpoint
    step,        \* global_steps
    sampler,     \* stage1b_sampler
    weights,     \* weights[r]: the updates in the shard of rank r
    position,    \* batches of the current epoch taken from the data loader
    left,        \* batches that the loops of fit can still yield
    rankPc,      \* where rank r is in save_checkpoint
    savedPaths,  \* savedPaths[r]: previous_saved_paths, as steps
    disk,        \* disk[k]: the directory global_step_<k>
    tracker,     \* latest_checkpointed_iteration.txt: its step, and whether it is written
    crashes

memory == <<step, sampler, weights, position, left>>
vars == <<pc, memory, rankPc, savedPaths, disk, tracker, crashes>>

\* No file: no update is named by an empty tuple.
NoShard == {<<>>}
None == [none |-> TRUE]
EmptyDirectory == [shard |-> [r \in Rank |-> NoShard], data |-> 0, sampler |-> None]

\* "loaded": _load_checkpoint has returned; "collect": candidate groups are
\* rolled out; "save" .. "tracked": inside _save_checkpoint; "stepDone": the end of
\* the loop body; "finished": fit has returned; "down": there is no process.
Place == {"loaded", "collect", "save", "shards", "data", "state", "tracked",
          "stepDone", "finished", "down"}

NoWeights == [r \in Rank |-> {}]

Init ==
    /\ pc = "loaded"
    /\ step = 0
    /\ sampler = NewSampler
    /\ weights = NoWeights
    /\ position = 0
    /\ left = TotalSteps
    /\ rankPc = [r \in Rank |-> "idle"]
    /\ savedPaths = [r \in Rank |-> <<>>]
    /\ disk = [k \in Step |-> EmptyDirectory]
    /\ tracker = [step |-> 0, written |-> TRUE]
    /\ crashes = 0

-----------------------------------------------------------------------------
(* fit                                                                      *)

IsLastStep == step >= TotalSteps
ShouldSave == SaveFreq > 0 /\ (IsLastStep \/ step % SaveFreq = 0)

\* The head of the loops over epochs and batches, with global_steps counted up,
\* and the begin_update of collect_informative_groups.
BeginStep_pastTheEnd ==
    /\ pc \in {"loaded", "stepDone"}
    /\ step < MaxStep
    /\ left > 0
    /\ left' = left - 1
    /\ position' = (position % BatchesPerEpoch) + 1
    /\ step' = step + 1
    /\ sampler' = BeginUpdate(sampler, step + 1)
    /\ pc' = "collect"
    /\ UNCHANGED <<weights, rankPc, savedPaths, disk, tracker, crashes>>
BeginStep ==
    /\ \/ pc = "loaded"
       \/ pc = "stepDone" /\ ~IsLastStep
    /\ left > 0
    /\ left' = left - 1
    /\ position' = (position % BatchesPerEpoch) + 1
    /\ step' = step + 1
    /\ sampler' = BeginUpdate(sampler, step + 1)
    /\ pc' = "collect"
    /\ UNCHANGED <<weights, rankPc, savedPaths, disk, tracker, crashes>>

\* One turn of the loop of collect_informative_groups.
CollectGroup ==
    /\ pc = "collect"
    /\ HasCandidate(sampler)
    /\ \E g \in Group :
           sampler' = RecordGroup(TakeCandidate(sampler), Candidate(sampler), g, step)
    /\ UNCHANGED <<pc, step, weights, position, left, rankPc, savedPaths, disk, tracker, crashes>>

\* The update of all ranks, unless the batch is underfilled or the critic warms up,
\* and the decision of _stage1b_save_checkpoint_then_validate.
Update_trainsUnderfilled ==
    /\ pc = "collect"
    /\ ~HasCandidate(sampler)
    /\ weights' = IF Warmup > step THEN weights
                  ELSE [r \in Rank |-> weights[r] \cup {<<crashes, step>>}]
    /\ pc' = IF ShouldSave THEN "save" ELSE "stepDone"
    /\ UNCHANGED <<step, sampler, position, left, rankPc, savedPaths, disk, tracker, crashes>>
Update ==
    /\ pc = "collect"
    /\ ~HasCandidate(sampler)
    /\ weights' = IF Underfilled(sampler) \/ Warmup > step THEN weights
                  ELSE [r \in Rank |-> weights[r] \cup {<<crashes, step>>}]
    /\ pc' = IF ShouldSave THEN "save" ELSE "stepDone"
    /\ UNCHANGED <<step, sampler, position, left, rankPc, savedPaths, disk, tracker, crashes>>

\* fit returns after the last step, or when the loops over epochs are exhausted.
Finish ==
    /\ \/ pc = "stepDone" /\ (IsLastStep \/ left = 0)
       \/ pc = "loaded" /\ left = 0
    /\ pc' = "finished"
    /\ UNCHANGED <<memory, rankPc, savedPaths, disk, tracker, crashes>>

-----------------------------------------------------------------------------
(* _save_checkpoint                                                         *)

\* Directories of which rank r keeps more than Keep - 1: removed before it writes.
Removable(r) ==
    IF Len(savedPaths[r]) >= Keep THEN Len(savedPaths[r]) - Keep + 1 ELSE 0

\* save_checkpoint up to the first barrier: old paths are removed, a new one is made.
RemoveOld_keepsOneMore(r) ==
    LET old == IF Len(savedPaths[r]) > Keep THEN Len(savedPaths[r]) - Keep ELSE 0 IN
    /\ pc = "save"
    /\ rankPc[r] = "idle"
    /\ disk' = [k \in Step |->
                  IF \E j \in 1..old : savedPaths[r][j] = k
                  THEN [disk[k] EXCEPT !.shard = EmptyDirectory.shard] ELSE disk[k]]
    /\ savedPaths' = [savedPaths EXCEPT ![r] = SubSeq(@, old + 1, Len(@))]
    /\ rankPc' = [rankPc EXCEPT ![r] = "made"]
    /\ UNCHANGED <<pc, memory, tracker, crashes>>
RemoveOld(r) ==
    LET old == Removable(r) IN
    /\ pc = "save"
    /\ rankPc[r] = "idle"
    /\ disk' = [k \in Step |->
                  IF \E j \in 1..old : savedPaths[r][j] = k
                  THEN [disk[k] EXCEPT !.shard = EmptyDirectory.shard] ELSE disk[k]]
    /\ savedPaths' = [savedPaths EXCEPT ![r] = SubSeq(@, old + 1, Len(@))]
    /\ rankPc' = [rankPc EXCEPT ![r] = "made"]
    /\ UNCHANGED <<pc, memory, tracker, crashes>>

\* After the barrier rank r writes its shard of the model and the optimizer.
WriteShard(r) ==
    /\ pc = "save"
    /\ rankPc[r] = "made"
    /\ \A q \in Rank : rankPc[q] # "idle"
    /\ disk' = [disk EXCEPT ![step].shard[r] = weights[r]]
    /\ rankPc' = [rankPc EXCEPT ![r] = "written"]
    /\ UNCHANGED <<pc, memory, savedPaths, tracker, crashes>>

\* After the last barrier every rank notes the path, and the call returns.
ShardsSaved ==
    /\ pc = "save"
    /\ \A r \in Rank : rankPc[r] = "written"
    /\ savedPaths' = [r \in Rank |-> Append(savedPaths[r], step)]
    /\ rankPc' = [r \in Rank |-> "idle"]
    /\ pc' = "shards"
    /\ UNCHANGED <<memory, disk, tracker, crashes>>

\* data.pt
WriteData ==
    /\ pc = "shards"
    /\ disk' = [disk EXCEPT ![step].data = position]
    /\ pc' = "data"
    /\ UNCHANGED <<memory, rankPc, savedPaths, tracker, crashes>>

\* stage1b_state.pt
WriteState ==
    /\ pc = "data"
    /\ disk' = [disk EXCEPT ![step].sampler = sampler]
    /\ pc' = "state"
    /\ UNCHANGED <<memory, rankPc, savedPaths, tracker, crashes>>

\* open(tracker, 'w') empties the file ...
OpenTracker_beforeState ==
    /\ pc = "data"
    /\ tracker' = [step |-> step, written |-> FALSE]
    /\ pc' = "tracked"
    /\ UNCHANGED <<memory, rankPc, savedPaths, disk, crashes>>
OpenTracker ==
    /\ pc = "state"
    /\ tracker' = [step |-> step, written |-> FALSE]
    /\ pc' = "tracked"
    /\ UNCHANGED <<memory, rankPc, savedPaths, disk, crashes>>

\* ... and the step is written and the file closed.
WriteTracker ==
    /\ pc = "tracked"
    /\ tracker' = [tracker EXCEPT !.written = TRUE]
    /\ pc' = "stepDone"
    /\ UNCHANGED <<memory, rankPc, savedPaths, disk, crashes>>

-----------------------------------------------------------------------------
(* Crash and resume                                                         *)

\* The process ends, by a failure or after fit has returned.
Crash ==
    /\ pc # "down"
    /\ crashes < MaxCrashes
    /\ crashes' = crashes + 1
    /\ pc' = "down"
    /\ step' = 0
    /\ sampler' = NewSampler
    /\ weights' = NoWeights
    /\ position' = 0
    /\ left' = TotalSteps
    /\ rankPc' = [r \in Rank |-> "idle"]
    /\ savedPaths' = [r \in Rank |-> <<>>]
    /\ UNCHANGED <<disk, tracker>>

\* find_latest_ckpt_path finds no tracker file.
StartFromScratch ==
    /\ pc = "down"
    /\ tracker = [step |-> 0, written |-> TRUE]
    /\ pc' = "loaded"
    /\ UNCHANGED <<memory, rankPc, savedPaths, disk, tracker, crashes>>

\* Every file that _load_checkpoint insists on is there.
Loadable(k) ==
    /\ \A r \in Rank : disk[k].shard[r] # NoShard
    /\ disk[k].sampler # None

\* The data loader goes on inside its epoch, but fit counts the epochs from zero.
\* int('') of an empty tracker file raises, and so does a missing file.
LoadCheckpoint_freshSampler ==
    LET k == tracker.step IN
    /\ pc = "down"
    /\ tracker.written /\ k > 0
    /\ Loadable(k)
    /\ step' = k
    /\ weights' = disk[k].shard
    /\ position' = disk[k].data
    /\ left' = TotalSteps - disk[k].data
    /\ sampler' = [disk[k].sampler EXCEPT !.draws = 0]
    /\ pc' = "loaded"
    /\ UNCHANGED <<rankPc, savedPaths, disk, tracker, crashes>>
LoadCheckpoint ==
    LET k == tracker.step IN
    /\ pc = "down"
    /\ tracker.written /\ k > 0
    /\ Loadable(k)
    /\ step' = k
    /\ weights' = disk[k].shard
    /\ position' = disk[k].data
    /\ left' = TotalSteps - disk[k].data
    /\ sampler' = disk[k].sampler
    /\ pc' = "loaded"
    /\ UNCHANGED <<rankPc, savedPaths, disk, tracker, crashes>>

Next ==
    \/ BeginStep \/ CollectGroup \/ Update \/ Finish
    \/ \E r \in Rank : RemoveOld(r) \/ WriteShard(r)
    \/ ShardsSaved \/ WriteData \/ WriteState \/ OpenTracker \/ WriteTracker
    \/ Crash \/ StartFromScratch \/ LoadCheckpoint

Spec == Init /\ [][Next]_vars

-----------------------------------------------------------------------------
(* Properties                                                               *)

History == [groups : Nat, informative : Nat, lastSeen : 0..MaxStep]
Sampler == [draws : Nat, updateStep : Nat, order : Seq(Task), cursor : Nat,
            attempted : Seq(Task), informative : Nat, zeroVariance : Nat,
            insufficient : Nat, history : [Task -> History]]
Weights == SUBSET ((0..MaxCrashes) \X Step)
Directory == [shard : [Rank -> Weights \cup {NoShard}], data : 0..BatchesPerEpoch,
              sampler : Sampler \cup {None}]

\* Types of all variables.
TypeOK ==
    /\ pc \in Place
    /\ step \in 0..MaxStep
    /\ sampler \in Sampler
    /\ weights \in [Rank -> Weights]
    /\ position \in 0..BatchesPerEpoch
    /\ left \in 0..TotalSteps
    /\ rankPc \in [Rank -> {"idle", "made", "written"}]
    /\ savedPaths \in [Rank -> Seq(Step)]
    /\ disk \in [Step -> Directory]
    /\ tracker \in [step : 0..MaxStep, written : BOOLEAN]
    /\ crashes \in 0..MaxCrashes

\* A resumed run draws for each step the candidates the run before it drew, so a
\* step that is repeated after a crash asks for the same tasks in the same order.
ReplaysCandidates ==
    pc \notin {"loaded", "down", "finished"} =>
        /\ sampler.updateStep = step
        /\ sampler.order = CandidateOrder[step]
        /\ sampler.attempted = SubSeq(sampler.order, 1, sampler.cursor)

\* The task history fits the weights, also after a resume: each update in the
\* weights has its TargetGroups informative groups in the history, a step has no
\* more of them than that, no task was tried twice in one step, and no step has
\* tried more than MaxCandidates.
HistoryMatchesWeights ==
    /\ \A t \in Task : sampler.history[t].groups <= step
    /\ GroupsTried(sampler) <= MaxCandidates * step
    /\ \A r \in Rank :
           TargetGroups * Cardinality(weights[r]) <= GroupsInformative(sampler)
    /\ GroupsInformative(sampler) <= TargetGroups * step

\* However often the run is resumed, the disk holds no more actor directories than
\* Keep for each process that ever saved: a resumed process forgets the paths
\* saved before it.
KeepBound ==
    Cardinality({k \in Step : disk[k].shard # EmptyDirectory.shard})
        <= Keep * (crashes + 1)

\* global_steps passes the last step only by resuming the checkpoint of the last
\* step, at most once for each resume.
OvershootBound == step <= TotalSteps + crashes

\* What a resume would restore.
Live == IF pc = "down" THEN None
        ELSE [step |-> step, weights |-> weights, sampler |-> sampler, position |-> position]
FreshRun == [step |-> 0, weights |-> NoWeights, sampler |-> NewSampler, position |-> 0]
Saved == IF tracker.step = 0 THEN FreshRun
         ELSE [step |-> tracker.step, weights |-> disk[tracker.step].shard,
               sampler |-> disk[tracker.step].sampler, position |-> disk[tracker.step].data]

\* Saving in many writes by many ranks is as good as saving in one step, whatever
\* crashes between them, and a resume restores exactly what was saved.
Abstract == INSTANCE ResumableTraining
                WITH Down <- None, Fresh <- FreshRun, live <- Live, saved <- Saved
ResumesExactly == Abstract!Spec
=============================================================================
