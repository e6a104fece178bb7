----------------------------- MODULE TrainingStep -----------------------------
(***************************************************************************)
(* One step of the training loop (fit in verl/trainer/ppo/ray_trainer.py), *)
(* from the prompts to the optimizer: the driver, the worker group it      *)
(* calls, and the rollout engines that the ranks share their weights with. *)
(* The driver has one call of the worker group under way at a time; it     *)
(* chunks the rows over the ranks and concatenates what they return.  The  *)
(* ranks form dp replicas of tp ranks; the first rank of a replica holds   *)
(* its SGLang engine, whose memory is released outside of a generation.    *)
(* A collective operation is one step of all the ranks that take part.     *)
(*                                                                         *)
(* A row is known by its identity, so that a property can tell whether a   *)
(* field was computed from the row that carries it.                        *)
(***************************************************************************)
EXTENDS Stage1BSampler, SeqlenBalancing

CONSTANTS Configs,       \* the configurations that may be started, see ConfigType
          Outcomes,      \* sequences of what the rollouts of one engine come to
          TensorSize,    \* the size of every tensor of the model, in the order sent
          MiniBatch,     \* ppo_mini_batch_size, after it was divided by the ranks
          MicroBatch,    \* ppo_micro_batch_size_per_gpu
          MaxTokenLen    \* ppo_max_token_len_per_gpu

None == <<>>

ConfigType ==
    [stage1b: BOOLEAN,             \* trainer.stage1b.enabled
     prompts: Seq(Task),           \* a batch of the data loader (not used with Stage1B)
     validation: Seq(Task),        \* a batch of the validation loader, <<>> for no validation
     n: Nat \ {0},                 \* rollout.n_trajectories and val_kwargs.n
     dp: Nat \ {0}, tp: Nat \ {0}, \* the mesh of the ranks
     exchange: Nat,                \* exchange_size: a larger chunk of tensors is sent off
     dynamic: BOOLEAN,             \* use_dynamic_bsz
     balance: BOOLEAN,             \* trainer.balance_batch
     required: BOOLEAN]            \* SKYRL_REQUIRE_ROLLOUT_WEIGHT_SYNC

\* What a rollout comes to.  A row is no longer than the limit, which
\* rearrange_micro_batches asserts.
Outcome == [len: 1..MaxTokenLen, reward: {0, 1}, valid: BOOLEAN]

\* The loader has no task twice in a batch, nor the generator in a permutation.
ASSUME StepAssumption ==
    /\ Configs \subseteq ConfigType
    /\ \A c \in Configs : ~c.stage1b => c.prompts # <<>> /\ IsInjective(c.prompts)
    /\ \A outcome \in Outcomes : outcome \in Seq(Outcome) /\ outcome # <<>>
    /\ MaxTokenLen \in Nat \ {0} /\ MiniBatch \in Nat \ {0} /\ MicroBatch \in Nat \ {0}
    /\ TensorSize \in Seq(Nat)
    /\ CandidateOrder[1] \in Seq(Task) /\ IsInjective(CandidateOrder[1])

VARIABLES cfg,       \* the configuration of this run
          phase,     \* where the driver is in fit
          calling,   \* is a call of the worker group under way?
          sampler,   \* the candidates of a Stage1B update
          accepted,  \* the rows of the groups accepted so far
          batch,     \* the batch being trained on
          validated, \* the rows of the validation
          worker,    \* per rank: the state of its call
          given,     \* tensors that iter_effective_rollout_weight_payload produced
          engine,    \* per replica and tensor: the version loaded, 0 for none
          version,   \* the version of the weights: 1 + optimizer steps
          refused    \* did an engine refuse an update of its weights?

vars == <<cfg, phase, calling, sampler, accepted, batch, validated, worker, given, engine, version, refused>>
driver == <<cfg, phase, calling, sampler, accepted, batch, validated>>
weights == <<given, engine, version, refused>>

World == cfg.dp * cfg.tp
Rank == 0..World - 1
Replica == 0..cfg.dp - 1
ReplicaOf(r) == r \div cfg.tp
TpRank(r) == r % cfg.tp
Source(d) == d * cfg.tp             \* the rank of replica d that holds its engine
Ranks(d) == {r \in Rank : ReplicaOf(r) = d}
Tensors == DOMAIN TensorSize

-----------------------------------------------------------------------------
(* verl/protocol.py: what the driver does with the rows of a DataProto. *)

Chunk(rows, chunks) ==
    LET size == Len(rows) \div chunks IN
    [i \in 1..chunks |-> SubSeq(rows, (i - 1) * size + 1, i * size)]

Split(rows, size) ==
    [i \in 1..CeilDiv(Len(rows), size) |->
        SubSeq(rows, (i - 1) * size + 1, Min({i * size, Len(rows)}))]

Repeat(rows, times) == [i \in 1..Len(rows) * times |-> rows[((i - 1) \div times) + 1]]

Reorder(rows, indices) == [i \in DOMAIN indices |-> rows[indices[i]]]

PadSize(rows, divisor) == (-Len(rows)) % divisor
Pad(rows, divisor) ==
    [i \in 1..Len(rows) + PadSize(rows, divisor) |-> rows[((i - 1) % Len(rows)) + 1]]
Unpad(rows, padSize) == SubSeq(rows, 1, Len(rows) - padSize)

Lens(rows) == [i \in DOMAIN rows |-> rows[i].len]

-----------------------------------------------------------------------------
(* The driver: calls of the worker group. *)

Idle == [pc |-> "idle", rows |-> <<>>, n |-> 0, out |-> <<>>, chunk |-> <<>>,
         mini |-> 1, micro |-> <<>>, forwards |-> 0, trained |-> <<>>]

At(p) == phase = p /\ ~calling

\* dispatch_dp_compute_data_proto: every rank gets its chunk of the rows, and starts
\* at pc; n is meta_info's n_trajectories.
Dispatch(pc, rows, n) ==
    /\ Len(rows) % World = 0
    /\ calling' = TRUE
    /\ worker' = [r \in Rank |-> [Idle EXCEPT !.pc = pc, !.rows = Chunk(rows, World)[r + 1],
                                              !.n = n, !.trained = worker[r].trained]]
    /\ UNCHANGED phase

\* An assertion of the driver fails: fit ends with the error.
Fails == phase' = "failed" /\ UNCHANGED <<calling, worker>>

DispatchOrFail(pc, rows, n) ==
    Dispatch(pc, rows, n) \/ (Len(rows) % World # 0 /\ Fails)

\* collect_dp_compute_data_proto: what the ranks returned, in the order of the ranks.
Collected == FlattenSeq([i \in 1..World |-> worker[i - 1].out])
Collect ==
    /\ calling
    /\ \A r \in Rank : worker[r].pc = "returned"
    /\ calling' = FALSE
    /\ worker' = [r \in Rank |-> [Idle EXCEPT !.trained = worker[r].trained]]

Labelled(rows, tasks) == [i \in DOMAIN rows |-> [rows[i] EXCEPT !.uid = tasks[i]]]

AfterUpdate == IF cfg.validation = <<>> THEN "done" ELSE "validate"

-----------------------------------------------------------------------------
(* A Stage1B batch is made of groups with a signal, one candidate at a time. *)

GroupOf(rows) ==
    LET having(v, x) == Cardinality({i \in DOMAIN rows : rows[i].valid = v /\ rows[i].reward = x}) IN
    [solved |-> having(TRUE, 1), failed |-> having(TRUE, 0)]

\* The prompt is padded to one copy per rank; the n rollouts are divided over the copies.
RequestGroup ==
    /\ At("generate") /\ cfg.stage1b /\ HasCandidate(sampler)
    /\ sampler' = TakeCandidate(sampler)
    /\ LET prompts == Pad(<<Candidate(sampler)>>, World) IN
       \/ cfg.n % Len(prompts) = 0 /\ Dispatch("sync", prompts, cfg.n \div Len(prompts))
       \/ cfg.n % Len(prompts) # 0 /\ Fails
    /\ UNCHANGED <<cfg, accepted, batch, validated, weights>>

ReceiveGroup ==
    /\ phase = "generate" /\ cfg.stage1b /\ Collect
    /\ LET t == Last(sampler.attempted)
           rows == Labelled(SubSeq(Collected, 1, cfg.n), [i \in 1..cfg.n |-> t])
           group == GroupOf(rows) IN
       /\ sampler' = RecordGroup(sampler, t, group, 1)
       /\ accepted' = IF ClassifyGroup(group) = "informative" THEN accepted \o rows ELSE accepted
    /\ UNCHANGED <<cfg, phase, batch, validated, weights>>

\* apply_stage1b_training_masks: rows without a valid reward carry no loss.
Masked(rows) == [i \in DOMAIN rows |-> [rows[i] EXCEPT !.mask = rows[i].valid]]

EndCollection ==
    /\ At("generate") /\ cfg.stage1b /\ ~HasCandidate(sampler)
    /\ \/ Underfilled(sampler) /\ phase' = AfterUpdate /\ UNCHANGED batch
       \/ ~Underfilled(sampler) /\ phase' = "log_prob" /\ batch' = Masked(accepted)
    /\ UNCHANGED <<cfg, calling, sampler, accepted, validated, worker, weights>>

-----------------------------------------------------------------------------
(* Without Stage1B, the rollouts of a batch join the prompts, repeated. *)

RequestBatch ==
    /\ At("generate") /\ ~cfg.stage1b
    /\ DispatchOrFail("sync", cfg.prompts, cfg.n)
    /\ UNCHANGED <<cfg, sampler, accepted, batch, validated, weights>>

ReceiveBatch ==
    /\ phase = "generate" /\ ~cfg.stage1b /\ Collect
    /\ batch' = Labelled(Collected, Repeat(cfg.prompts, cfg.n))
    /\ phase' = "log_prob"
    /\ UNCHANGED <<cfg, sampler, accepted, validated, weights>>

-----------------------------------------------------------------------------
(* Balance, recompute the log probabilities, advantages, update. *)

BalanceBatch(rows) ==
    IF cfg.balance
    THEN LET balanced[parts \in Seq(Seq(Nat))] == Reorder(rows, FlattenSeq(parts)) IN
         balanced[BalancedPartitions(Lens(rows), World, TRUE)]
    ELSE rows

RequestLogProb ==
    /\ At("log_prob")
    /\ batch' = BalanceBatch(batch)
    /\ Dispatch("split", batch', 0)
    /\ UNCHANGED <<cfg, sampler, accepted, validated, weights>>

Counts_all(row) == TRUE

\* Only Stage1B passes the mask of the valid rewards (sample_valid_mask).
Counts(row) == cfg.stage1b => row.valid

\* compute_grpo_outcome_advantage, times the number of rows compared and their deviation.
Advantage(row, rows) ==
    LET group == {i \in DOMAIN rows : rows[i].uid = row.uid /\ Counts(rows[i])}
        total == MapThenSumSet(LAMBDA i : rows[i].reward, group) IN
    IF ~Counts(row) THEN 0
    ELSE IF Cardinality(group) = 1 THEN row.reward
    ELSE Cardinality(group) * row.reward - total

WithAdvantages(rows) == [i \in DOMAIN rows |-> [rows[i] EXCEPT !.adv = Advantage(rows[i], rows)]]

ReceiveLogProb ==
    /\ phase = "log_prob" /\ Collect
    /\ batch' = WithAdvantages([i \in DOMAIN batch |-> [batch[i] EXCEPT !.logp = Collected[i]]])
    /\ phase' = "update"
    /\ UNCHANGED <<cfg, sampler, accepted, validated, weights>>

RequestUpdate ==
    /\ At("update")
    /\ Dispatch("split", batch, 0)
    /\ UNCHANGED <<cfg, sampler, accepted, batch, validated, weights>>

ReceiveUpdate ==
    /\ phase = "update" /\ Collect
    /\ phase' = AfterUpdate
    /\ UNCHANGED <<cfg, sampler, accepted, batch, validated, weights>>

-----------------------------------------------------------------------------
(* _validate: the prompts are repeated before the generation, which rolls out *)
(* each of them n times, and after it.                                        *)

ValidationPrompts == Repeat(cfg.validation, cfg.n)

RequestValidation ==
    /\ At("validate")
    /\ Dispatch("sync", Pad(ValidationPrompts, World), cfg.n)
    /\ UNCHANGED <<cfg, sampler, accepted, batch, validated, weights>>

\* union refuses batches of different sizes.
ReceiveValidation ==
    /\ phase = "validate" /\ Collect
    /\ LET rows == Unpad(Collected, PadSize(ValidationPrompts, World))
           tasks == Repeat(ValidationPrompts, cfg.n) IN
       \/ /\ Len(rows) = Len(tasks)
          /\ validated' = Labelled(rows, tasks)
          /\ phase' = "done"
       \/ Len(rows) # Len(tasks) /\ phase' = "failed" /\ UNCHANGED validated
    /\ UNCHANGED <<cfg, sampler, accepted, batch, weights>>

-----------------------------------------------------------------------------
(* The ranks, generate_sequences.  FSDPSGLShardingManager.__enter__ sends the   *)
(* weights to the engines chunk by chunk, while all ranks take part in making   *)
(* each tensor whole.                                                           *)

Running == calling /\ phase # "failed"
AllAt(ranks, pc) == \A r \in ranks : worker[r].pc = pc
Moved(ranks, pc) == [r \in Rank |-> IF r \in ranks THEN [worker[r] EXCEPT !.pc = pc] ELSE worker[r]]
ChunkSize(tensors) == FoldSeq(LAMBDA t, size : TensorSize[t] + size, 0, tensors)

\* The next tensor of the payload; the first ranks take it into their chunk, and
\* send the chunk when it is larger than the exchange size.
Materialise ==
    /\ Running
    /\ AllAt(Rank, "sync")
    /\ given < Len(TensorSize)
    /\ given' = given + 1
    /\ worker' = [r \in Rank |->
           IF TpRank(r) # 0 THEN worker[r]
           ELSE LET tensors == Append(worker[r].chunk, given + 1) IN
                [worker[r] EXCEPT
                    !.chunk = tensors,
                    !.pc = IF ChunkSize(tensors) > cfg.exchange THEN "load" ELSE "sync"]]
    /\ UNCHANGED <<driver, engine, version, refused>>

EndOfPayload_losesLast(r) ==
    /\ Running
    /\ worker[r].pc = "sync" /\ given = Len(TensorSize)
    /\ worker' = Moved({r}, "barrier")
    /\ UNCHANGED <<driver, weights>>

\* The payload is exhausted: a chunk that was begun is the last one.
EndOfPayload(r) ==
    /\ Running
    /\ worker[r].pc = "sync" /\ given = Len(TensorSize)
    /\ worker' = Moved({r}, IF worker[r].chunk = <<>> THEN "barrier" ELSE "last")
    /\ UNCHANGED <<driver, weights>>

Loaded(r) ==
    worker' = [worker EXCEPT ![r].chunk = <<>>,
                             ![r].pc = IF @ = "last" THEN "barrier" ELSE "sync"]

\* sync_rollout_weight_payload; an engine that is reloaded knows only what it was sent.
LoadChunk(r) ==
    /\ Running
    /\ worker[r].pc \in {"load", "last"}
    /\ engine' = [engine EXCEPT ![ReplicaOf(r)] =
           [t \in Tensors |-> IF t \in ToSet(worker[r].chunk) THEN version ELSE @[t]]]
    /\ Loaded(r)
    /\ UNCHANGED <<driver, given, version, refused>>

\* update_weights_from_tensor says that it failed: an error only if it is required.
RefuseChunk(r) ==
    /\ Running
    /\ worker[r].pc \in {"load", "last"}
    /\ ~refused
    /\ refused' = TRUE
    /\ \/ cfg.required /\ Fails
       \/ ~cfg.required /\ Loaded(r) /\ UNCHANGED <<phase, calling>>
    /\ UNCHANGED <<cfg, sampler, accepted, batch, validated, given, engine, version>>

\* The barrier at the end of __enter__.
Entered ==
    /\ Running
    /\ AllAt(Rank, "barrier")
    /\ worker' = Moved(Rank, "gather")
    /\ given' = 0
    /\ UNCHANGED <<driver, engine, version, refused>>

\* preprocess_data: the ranks of a replica gather their prompts.
Gather(d) ==
    /\ Running
    /\ AllAt(Ranks(d), "gather")
    /\ LET prompts == FlattenSeq([i \in 1..cfg.tp |-> worker[Source(d) + i - 1].rows]) IN
       worker' = [r \in Rank |->
           IF r \notin Ranks(d) THEN worker[r]
           ELSE [worker[r] EXCEPT !.rows = prompts,
                                  !.pc = IF TpRank(r) = 0 THEN "generate" ELSE "post"]]
    /\ UNCHANGED <<driver, weights>>

\* generate_sequences: the engine rolls out every prompt n times.
Generate(d) ==
    /\ Running
    /\ worker[Source(d)].pc = "generate"
    /\ LET prompts == worker[Source(d)].rows
           n == worker[Source(d)].n
           fresh == \A t \in Tensors : engine[d][t] = version IN
       \E outcome \in Outcomes :
           worker' = [worker EXCEPT
               ![Source(d)].pc = "post",
               ![Source(d)].out = [i \in 1..Len(prompts) * n |->
                   LET p == ((i - 1) \div n) + 1
                       o == outcome[((i - 1) % Len(outcome)) + 1] IN
                   [id |-> <<prompts[p], d, p, i>>, len |-> o.len, reward |-> o.reward,
                    valid |-> o.valid, fresh |-> fresh, uid |-> None, logp |-> None,
                    adv |-> 0, mask |-> TRUE]]]
    /\ UNCHANGED <<driver, weights>>

\* postprocess_data: a barrier of all ranks; the rows are broadcast in the replica,
\* of which every rank keeps its chunk.
Postprocess ==
    /\ Running
    /\ AllAt(Rank, "post")
    /\ worker' = [r \in Rank |->
           [worker[r] EXCEPT
               !.pc = "exit",
               !.out = Chunk(worker[Source(ReplicaOf(r))].out, cfg.tp)[TpRank(r) + 1]]]
    /\ UNCHANGED <<driver, weights>>

\* __exit__: the engine's memory is released, with the weights in it.
Exit(r) ==
    /\ Running
    /\ worker[r].pc = "exit"
    /\ worker' = Moved({r}, "returned")
    /\ engine' = IF TpRank(r) = 0 THEN [engine EXCEPT ![ReplicaOf(r)] = [t \in Tensors |-> 0]]
                 ELSE engine
    /\ UNCHANGED <<driver, given, version, refused>>

-----------------------------------------------------------------------------
(* compute_log_prob and update_policy.  An FSDP forward pass gathers the shards  *)
(* of all ranks, so they must do equally many.                                   *)

MiniBatches(r) ==
    IF phase = "update" THEN Split(worker[r].rows, MiniBatch) ELSE <<worker[r].rows>>
Current(r) == MiniBatches(r)[worker[r].mini]

SplitMicroBatches_minimum ==
    /\ Running
    /\ AllAt(Rank, "split")
    /\ LET count == Min({MicroBatchCount(Lens(Current(r)), MaxTokenLen) : r \in Rank}) IN
       worker' = [r \in Rank |->
           [worker[r] EXCEPT
               !.pc = "forward", !.forwards = 0,
               !.micro = IF cfg.dynamic THEN BalancedPartitions(Lens(Current(r)), count, FALSE)
                         ELSE Split([i \in DOMAIN Current(r) |-> i], MicroBatch)]]
    /\ UNCHANGED <<driver, weights>>

SplitMicroBatches_ownCount ==
    /\ Running
    /\ AllAt(Rank, "split")
    /\ worker' = [r \in Rank |->
           LET count == MicroBatchCount(Lens(Current(r)), MaxTokenLen) IN
           [worker[r] EXCEPT
               !.pc = "forward", !.forwards = 0,
               !.micro = IF cfg.dynamic THEN BalancedPartitions(Lens(Current(r)), count, FALSE)
                         ELSE Split([i \in DOMAIN Current(r) |-> i], MicroBatch)]]
    /\ UNCHANGED <<driver, weights>>

\* rearrange_micro_batches takes the largest of the ranks' counts (all_reduce).
SplitMicroBatches ==
    /\ Running
    /\ AllAt(Rank, "split")
    /\ LET count == Max({MicroBatchCount(Lens(Current(r)), MaxTokenLen) : r \in Rank}) IN
       worker' = [r \in Rank |->
           [worker[r] EXCEPT
               !.pc = "forward", !.forwards = 0,
               !.micro = IF cfg.dynamic THEN BalancedPartitions(Lens(Current(r)), count, FALSE)
                         ELSE Split([i \in DOMAIN Current(r) |-> i], MicroBatch)]]
    /\ UNCHANGED <<driver, weights>>

\* A forward pass, whose log probabilities are kept, or whose loss is propagated back.
Forward ==
    /\ Running
    /\ AllAt(Rank, "forward")
    /\ \A r \in Rank : worker[r].forwards < Len(worker[r].micro)
    /\ worker' = [r \in Rank |->
           LET w == worker[r]
               rows == Reorder(Current(r), w.micro[w.forwards + 1]) IN
           IF phase = "log_prob"
           THEN [w EXCEPT !.forwards = @ + 1, !.out = @ \o [i \in DOMAIN rows |-> rows[i].id]]
           ELSE [w EXCEPT !.forwards = @ + 1, !.trained = @ \o rows]]
    /\ UNCHANGED <<driver, weights>>

PassesDone(r) == worker[r].pc = "forward" /\ worker[r].forwards = Len(worker[r].micro)

\* The rearranged rows are put back into their order.
RevertOrder(r) ==
    /\ Running /\ phase = "log_prob"
    /\ PassesDone(r)
    /\ worker' = [worker EXCEPT
           ![r].pc = "returned",
           ![r].out = IF cfg.dynamic THEN Reorder(@, ReverseIndex(FlattenSeq(worker[r].micro)))
                      ELSE @]
    /\ UNCHANGED <<driver, weights>>

OptimizerStep_oneShort ==
    /\ Running /\ phase = "update"
    /\ \A r \in Rank : PassesDone(r)
    /\ version' = version + 1
    /\ worker' = [r \in Rank |->
           [worker[r] EXCEPT !.mini = @ + 1,
                             !.pc = IF worker[r].mini + 1 >= Len(MiniBatches(r))
                                    THEN "returned" ELSE "split"]]
    /\ UNCHANGED <<driver, given, engine, refused>>

\* The norm of the gradient is a collective; every mini-batch has its step.
OptimizerStep ==
    /\ Running /\ phase = "update"
    /\ \A r \in Rank : PassesDone(r)
    /\ version' = version + 1
    /\ worker' = [r \in Rank |->
           [worker[r] EXCEPT !.mini = @ + 1,
                             !.pc = IF worker[r].mini = Len(MiniBatches(r))
                                    THEN "returned" ELSE "split"]]
    /\ UNCHANGED <<driver, given, engine, refused>>

-----------------------------------------------------------------------------
Init ==
    /\ cfg \in Configs
    /\ phase = "generate" /\ calling = FALSE
    /\ sampler = BeginUpdate(NewSampler, 1)
    /\ accepted = <<>> /\ batch = <<>> /\ validated = <<>>
    /\ worker = [r \in Rank |-> Idle]
    /\ given = 0 /\ version = 1 /\ refused = FALSE
    /\ engine = [d \in Replica |-> [t \in Tensors |-> 0]]

Driver ==
    \/ RequestGroup \/ ReceiveGroup \/ EndCollection
    \/ RequestBatch \/ ReceiveBatch
    \/ RequestLogProb \/ ReceiveLogProb
    \/ RequestUpdate \/ ReceiveUpdate
    \/ RequestValidation \/ ReceiveValidation

Workers ==
    \/ Materialise \/ Entered \/ Postprocess
    \/ SplitMicroBatches \/ Forward \/ OptimizerStep
    \/ \E r \in Rank : \/ EndOfPayload(r) \/ LoadChunk(r) \/ RefuseChunk(r)
                       \/ Exit(r) \/ RevertOrder(r)
    \/ \E d \in Replica : Gather(d) \/ Generate(d)

Next == Driver \/ Workers

\* The driver and every rank go on, and every engine answers.
Spec == Init /\ [][Next]_vars /\ WF_vars(Next)

-----------------------------------------------------------------------------
TaskOf(row) == row.id[1]

\* Whatever was computed for a row on the way - the group it is compared with, its
\* log probability - was computed for this row: padding, repeating, chunking over
\* the ranks, gathering in a replica, balancing and micro-batches put every field
\* back where it belongs (union aligns the rows by their position only).
RowsKeepTheirFields ==
    /\ \A i \in DOMAIN batch :
           /\ batch[i].uid = TaskOf(batch[i])
           /\ batch[i].logp \in {None, batch[i].id}
    /\ \A i \in DOMAIN validated : validated[i].uid = TaskOf(validated[i])

\* When the update is over, every row of the batch went through exactly one backward
\* pass, on one rank, with the fields the driver gave it.
EveryRowTrainedOnce ==
    phase \in {"validate", "done"} =>
        LET rows == FlattenSeq([i \in 1..World |-> worker[i - 1].trained]) IN
        /\ Len(rows) = Len(batch)
        /\ ToSet(rows) = ToSet(batch)
        /\ IsInjective(batch)

\* The group a trained row is compared with is complete - the n rollouts of its task -
\* and what a row gains is lost by the others; with Stage1B a row without a valid
\* reward has no advantage and no loss, and every group has a signal.
GroupBaseline ==
    phase \in {"update", "validate", "done"} =>
        \A i \in DOMAIN batch :
            LET group == {j \in DOMAIN batch : TaskOf(batch[j]) = TaskOf(batch[i])} IN
            /\ Cardinality(group) = cfg.n
            /\ cfg.n > 1 => MapThenSumSet(LAMBDA j : batch[j].adv, group) = 0
            /\ cfg.stage1b =>
                  /\ ~batch[i].valid => batch[i].adv = 0 /\ ~batch[i].mask
                  /\ \E j, k \in group : /\ batch[j].mask /\ batch[j].adv > 0
                                         /\ batch[k].mask /\ batch[k].adv < 0

\* Every rollout is generated with all tensors of the current weights, whatever the
\* exchange size cuts them into, and also after an update - unless an engine refused
\* its weights and this was not required to be an error.
FreshWeights ==
    (refused => cfg.required) =>
        \A r \in Rank : \A i \in DOMAIN worker[r].out :
            worker[r].pc \in {"post", "exit"} => worker[r].out[i].fresh

\* A dynamic micro-batch exceeds the token limit by less than the longest row, so the
\* memory a pass needs is bounded.
MicroBatchBound ==
    cfg.dynamic => \A r \in Rank : worker[r].pc = "forward" =>
        LET lens == Lens(Current(r)) IN
        \A i \in DOMAIN worker[r].micro :
            Sum(Reorder(lens, worker[r].micro[i])) < MaxTokenLen + Max(ToSet(lens))

\* The numbers that must divide each other for a step to get through.
Fits ==
    /\ IF cfg.stage1b THEN cfg.n % World = 0 ELSE Len(cfg.prompts) % World = 0
    /\ cfg.n > 1 => PadSize(ValidationPrompts, World) = 0

\* A step gets through when its numbers divide; it ends with an error, rather than
\* leave ranks waiting for each other, when they do not or when an engine refused
\* weights that are required.
StepCompletes ==
    <>\/ phase = "done"
      \/ phase = "failed" /\ (~Fits \/ (refused /\ cfg.required))
=============================================================================
