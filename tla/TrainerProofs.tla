---------------------------- MODULE TrainerProofs ----------------------------
(***************************************************************************)
(* Proofs about Trainer, for every number of ranks, steps, epochs and      *)
(* crashes: types, the bound on the steps, the replayed candidates, the    *)
(* agreement of the task history with the weights, the bound on the        *)
(* directories that are kept and, when at least two checkpoints are kept,  *)
(* that training with many writes and crashes implements                   *)
(* ResumableTraining.                                                      *)
(***************************************************************************)
EXTENDS Trainer, TLAPS, SequenceTheorems, FiniteSetTheorems

LEMMA StepsAreNat ==
    /\ TotalSteps \in Nat /\ TotalSteps > 0 /\ BatchesPerEpoch <= TotalSteps
    /\ MaxStep \in Nat /\ MaxStep = TotalSteps + MaxCrashes
<1>1. BatchesPerEpoch \in Nat /\ BatchesPerEpoch > 0 /\ Epochs \in Nat /\ Epochs > 0
      /\ MaxCrashes \in Nat
  BY TrainerAssumption
<1>2. BatchesPerEpoch * Epochs \in Nat /\ BatchesPerEpoch * Epochs >= BatchesPerEpoch
  BY <1>1, SMT
<1> QED
  BY <1>1, <1>2 DEF TotalSteps, MaxStep

LEMMA PositionBound ==
    ASSUME NEW n \in Nat PROVE (n % BatchesPerEpoch) + 1 \in 0..BatchesPerEpoch
<1> DEFINE d == BatchesPerEpoch
<1>1. d \in Nat /\ d > 0
  BY TrainerAssumption
<1> HIDE DEF d
<1>2. n % d \in Int /\ n % d >= 0 /\ n % d < d
  BY <1>1, SMT
<1>3. (n % d) + 1 \in 0..d
  BY <1>1, <1>2
<1> QED
  BY <1>3 DEF d

-----------------------------------------------------------------------------
(* The sampler                                                              *)

LEMMA NewSamplerType == NewSampler \in Sampler
  BY StepsAreNat DEF NewSampler, Sampler, History, NewHistory

LEMMA BeginUpdateType ==
    ASSUME NEW s \in Sampler, s.draws + 1 \in Step, NEW k \in Nat
    PROVE  /\ BeginUpdate(s, k) \in Sampler
           /\ BeginUpdate(s, k).draws = s.draws + 1
           /\ BeginUpdate(s, k).updateStep = k
           /\ BeginUpdate(s, k).order = CandidateOrder[s.draws + 1]
           /\ BeginUpdate(s, k).cursor = 0
           /\ BeginUpdate(s, k).attempted = <<>>
<1>1. /\ s.draws + 1 \in Nat /\ 0 \in Nat /\ <<>> \in Seq(Task)
      /\ CandidateOrder[s.draws + 1] \in Seq(Task)
  BY OrderAssumption DEF Sampler
<1> QED
  BY <1>1, Zenon DEF BeginUpdate, Sampler

LEMMA TakeType ==
    ASSUME NEW s \in Sampler, HasCandidate(s), NEW t, t = TakeCandidate(s)
    PROVE  /\ t \in Sampler /\ Candidate(s) \in Task
           /\ t.draws = s.draws /\ t.updateStep = s.updateStep /\ t.order = s.order
           /\ t.cursor = s.cursor + 1 /\ t.attempted = Append(s.attempted, Candidate(s))
<1>1. /\ Candidate(s) \in Task /\ s.cursor + 1 \in Nat
  BY DEF HasCandidate, Candidate, Sampler
<1>2. Append(s.attempted, Candidate(s)) \in Seq(Task)
  BY <1>1 DEF Sampler
<1> QED
  BY <1>1, <1>2, Zenon DEF TakeCandidate, Sampler

LEMMA RecordType ==
    ASSUME NEW s \in Sampler, NEW c \in Task, NEW g, NEW k \in 0..MaxStep,
           NEW n, n = RecordGroup(s, c, g, k)
    PROVE  /\ n \in Sampler
           /\ n.draws = s.draws /\ n.updateStep = s.updateStep /\ n.order = s.order
           /\ n.cursor = s.cursor /\ n.attempted = s.attempted
<1> DEFINE one(x) == IF ClassifyGroup(g) = x THEN 1 ELSE 0
           h == [groups |-> s.history[c].groups + 1,
                 informative |-> s.history[c].informative + one("informative"),
                 lastSeen |-> k]
           hs == [s.history EXCEPT ![c] = h]
<1>1. \A x : one(x) \in Nat
  OBVIOUS
<1>2. n = [s EXCEPT !.informative = @ + one("informative"),
                    !.zeroVariance = @ + one("zero_variance"),
                    !.insufficient = @ + one("insufficient_valid"),
                    !.history = hs]
  BY Zenon DEF RecordGroup, Sampler
<1> HIDE DEF one
<1>3. /\ s.informative + one("informative") \in Nat
      /\ s.zeroVariance + one("zero_variance") \in Nat
      /\ s.insufficient + one("insufficient_valid") \in Nat
  <2>1. s.informative \in Nat /\ s.zeroVariance \in Nat /\ s.insufficient \in Nat
    BY DEF Sampler
  <2>2. \A a \in Nat : \A x : a + one(x) \in Nat
    BY <1>1
  <2> QED
    BY <2>1, <2>2, Zenon
<1>4. s.history[c] \in History /\ s.history \in [Task -> History]
  BY DEF Sampler
<1>5. h \in History
  BY <1>1, <1>4 DEF History
<1>6. hs \in [Task -> History]
  BY <1>4, <1>5
<1> HIDE DEF hs
<1> QED
  BY <1>2, <1>3, <1>6, Zenon DEF Sampler

\* What one turn of the collection makes of the sampler.
LEMMA TurnType ==
    ASSUME NEW s \in Sampler, HasCandidate(s), NEW g, NEW k \in 0..MaxStep,
           NEW n, n = RecordGroup(TakeCandidate(s), Candidate(s), g, k)
    PROVE  /\ n \in Sampler
           /\ n.draws = s.draws /\ n.updateStep = s.updateStep /\ n.order = s.order
           /\ n.cursor = s.cursor + 1
           /\ n.attempted = Append(s.attempted, s.order[s.cursor + 1])
<1> DEFINE t == TakeCandidate(s)
<1>1. /\ t \in Sampler /\ Candidate(s) \in Task
      /\ t.draws = s.draws /\ t.updateStep = s.updateStep /\ t.order = s.order
      /\ t.cursor = s.cursor + 1 /\ t.attempted = Append(s.attempted, Candidate(s))
  BY TakeType
<1>2. n = RecordGroup(t, Candidate(s), g, k)
  OBVIOUS
<1> HIDE DEF t
<1> QED
  BY <1>1, <1>2, RecordType DEF Candidate

\* In particular the candidate has been attempted.
LEMMA TurnAttempts ==
    ASSUME NEW s \in Sampler, HasCandidate(s), NEW g, NEW k \in 0..MaxStep,
           NEW n, n = RecordGroup(TakeCandidate(s), Candidate(s), g, k)
    PROVE  n.attempted = Append(s.attempted, Candidate(s))
<1> DEFINE t == TakeCandidate(s)
<1>1. /\ t \in Sampler /\ Candidate(s) \in Task /\ t.attempted = Append(s.attempted, Candidate(s))
  BY TakeType
<1>2. n = RecordGroup(t, Candidate(s), g, k)
  OBVIOUS
<1> HIDE DEF t
<1>3. n.attempted = t.attempted
  BY <1>1, <1>2, RecordType
<1> QED
  BY <1>1, <1>3

-----------------------------------------------------------------------------
(* Types, steps and candidates                                              *)

\* A process that is down has nothing in memory.
DownIsFresh ==
    pc = "down" =>
        /\ step = 0 /\ sampler = NewSampler /\ weights = NoWeights /\ position = 0
        /\ \A r \in Rank : savedPaths[r] = <<>>

\* Only a resume of the last step's checkpoint leads past the last step.
StepBound ==
    /\ step <= TotalSteps + crashes
    /\ tracker.step <= TotalSteps + crashes
    /\ pc = "loaded" => step < TotalSteps + crashes
    /\ pc = "down" => tracker.step < TotalSteps + crashes

\* The generator has been drawn from once for each step.
DrawnOnce ==
    /\ sampler.draws = step
    /\ \A k \in Step : disk[k].sampler # None => disk[k].sampler.draws = k

\* Every step that saves has counted up.
SavesStep == pc \in {"collect", "save", "shards", "data", "state", "tracked"} => step > 0

Base == TypeOK /\ DownIsFresh /\ StepBound /\ DrawnOnce /\ SavesStep

\* Only Crash takes the process down, and it clears the memory.
LEMMA DownStep ==
    Base /\ [Next]_vars => DownIsFresh'
<1> SUFFICES ASSUME Base, [Next]_vars PROVE DownIsFresh'
  OBVIOUS
<1> USE DEF memory, Base, TypeOK, DownIsFresh
<1>1. CASE BeginStep
  BY <1>1 DEF BeginStep, IsLastStep
<1>2. CASE CollectGroup
  BY <1>2 DEF CollectGroup
<1>3. CASE Update
  BY <1>3 DEF Update
<1>4. CASE Finish
  BY <1>4 DEF Finish, IsLastStep
<1>5. ASSUME NEW r \in Rank, RemoveOld(r) PROVE DownIsFresh'
  BY <1>5 DEF RemoveOld
<1>6. ASSUME NEW r \in Rank, WriteShard(r) PROVE DownIsFresh'
  BY <1>6 DEF WriteShard
<1>7. CASE ShardsSaved
  BY <1>7 DEF ShardsSaved
<1>8. CASE WriteData
  BY <1>8 DEF WriteData
<1>9. CASE WriteState
  BY <1>9 DEF WriteState
<1>10. CASE OpenTracker
  BY <1>10 DEF OpenTracker
<1>11. CASE WriteTracker
  BY <1>11 DEF WriteTracker
<1>12. CASE Crash
  BY <1>12 DEF Crash
<1>13. CASE StartFromScratch
  BY <1>13 DEF StartFromScratch
<1>14. CASE LoadCheckpoint
  BY <1>14 DEF LoadCheckpoint, Loadable
<1>15. CASE UNCHANGED vars
  BY <1>15 DEF vars
<1> QED
  BY <1>1, <1>2, <1>3, <1>4, <1>5, <1>6, <1>7, <1>8, <1>9, <1>10, <1>11, <1>12, <1>13, <1>14, <1>15 DEF Next

\* The step and the tracker file stay within the bound.
LEMMA BoundStep ==
    Base /\ [Next]_vars => (StepBound /\ SavesStep)'
<1> SUFFICES ASSUME Base, [Next]_vars PROVE (StepBound /\ SavesStep)'
  OBVIOUS
<1> USE StepsAreNat DEF memory, Base, TypeOK, DownIsFresh, StepBound, SavesStep
<1>1. CASE BeginStep
  BY <1>1 DEF BeginStep, IsLastStep
<1>2. CASE CollectGroup
  BY <1>2 DEF CollectGroup
<1>3. CASE Update
  BY <1>3 DEF Update
<1>4. CASE Finish
  BY <1>4 DEF Finish, IsLastStep
<1>5. ASSUME NEW r \in Rank, RemoveOld(r) PROVE (StepBound /\ SavesStep)'
  BY <1>5 DEF RemoveOld
<1>6. ASSUME NEW r \in Rank, WriteShard(r) PROVE (StepBound /\ SavesStep)'
  BY <1>6 DEF WriteShard
<1>7. CASE ShardsSaved
  BY <1>7 DEF ShardsSaved
<1>8. CASE WriteData
  BY <1>8 DEF WriteData
<1>9. CASE WriteState
  BY <1>9 DEF WriteState
<1>10. CASE OpenTracker
  BY <1>10 DEF OpenTracker
<1>11. CASE WriteTracker
  BY <1>11 DEF WriteTracker
<1>12. CASE Crash
  BY <1>12 DEF Crash
<1>13. CASE StartFromScratch
  BY <1>13 DEF StartFromScratch
<1>14. CASE LoadCheckpoint
  BY <1>14 DEF LoadCheckpoint, Loadable
<1>15. CASE UNCHANGED vars
  BY <1>15 DEF vars
<1> QED
  BY <1>1, <1>2, <1>3, <1>4, <1>5, <1>6, <1>7, <1>8, <1>9, <1>10, <1>11, <1>12, <1>13, <1>14, <1>15 DEF Next

-----------------------------------------------------------------------------
(* Sampler, disk and tracker                                               *)

LEMMA SetShard ==
    ASSUME NEW d \in Directory, NEW x \in [Rank -> Weights \cup {NoShard}],
           NEW e, e = [d EXCEPT !.shard = x]
    PROVE  e \in Directory /\ e.shard = x /\ e.data = d.data /\ e.sampler = d.sampler
  BY DEF Directory

LEMMA SetData ==
    ASSUME NEW d \in Directory, NEW x \in 0..BatchesPerEpoch,
           NEW e, e = [d EXCEPT !.data = x]
    PROVE  e \in Directory /\ e.data = x /\ e.shard = d.shard /\ e.sampler = d.sampler
  BY DEF Directory

LEMMA SetSampler ==
    ASSUME NEW d \in Directory, NEW x \in Sampler, NEW e, e = [d EXCEPT !.sampler = x]
    PROVE  e \in Directory /\ e.sampler = x /\ e.shard = d.shard /\ e.data = d.data
  BY DEF Directory

LEMMA EmptyShardType == EmptyDirectory.shard \in [Rank -> Weights \cup {NoShard}]
  BY DEF EmptyDirectory

LEMMA Shorter ==
    ASSUME NEW p \in Seq(Step), NEW n \in Nat, n <= Len(p), NEW q, q = SubSeq(p, n + 1, Len(p))
    PROVE  /\ q \in Seq(Step) /\ Len(q) = Len(p) - n
           /\ \A i \in 1..(Len(p) - n) : q[i] = p[i + n]
  BY SubSeqProperties

\* What the removal of old paths by one rank does to the disk and to its paths.
LEMMA RemoveFacts ==
    ASSUME Base, NEW r \in Rank, RemoveOld(r)
    PROVE  /\ savedPaths' \in [Rank -> Seq(Step)]
           /\ \E old \in Nat :
                /\ old = Removable(r) /\ old <= Len(savedPaths[r])
                /\ \A q \in Rank \ {r} : savedPaths'[q] = savedPaths[q]
                /\ Len(savedPaths'[r]) = Len(savedPaths[r]) - old
                /\ \A i \in 1..(Len(savedPaths[r]) - old) :
                       savedPaths'[r][i] = savedPaths[r][i + old]
           /\ disk' \in [Step -> Directory]
           /\ \A k \in Step : disk'[k].data = disk[k].data /\ disk'[k].sampler = disk[k].sampler
<1> DEFINE old == Removable(r)
           p == savedPaths[r]
           q == SubSeq(p, old + 1, Len(p))
           e(k) == [disk[k] EXCEPT !.shard = EmptyDirectory.shard]
<1>1. savedPaths \in [Rank -> Seq(Step)] /\ p \in Seq(Step) /\ Len(p) \in Nat
      /\ disk \in [Step -> Directory]
  BY DEF Base, TypeOK
<1>2. old \in Nat /\ old <= Len(p)
  BY <1>1, TrainerAssumption DEF Removable
<1>3. savedPaths' = [savedPaths EXCEPT ![r] = q]
  BY DEF RemoveOld
<1>4. disk' = [k \in Step |-> IF \E j \in 1..old : p[j] = k THEN e(k) ELSE disk[k]]
  BY DEF RemoveOld
<1>5. \A k \in Step : /\ e(k) \in Directory /\ e(k).data = disk[k].data
                      /\ e(k).sampler = disk[k].sampler
  <2> SUFFICES ASSUME NEW k \in Step
               PROVE  /\ e(k) \in Directory /\ e(k).data = disk[k].data
                      /\ e(k).sampler = disk[k].sampler
    OBVIOUS
  <2>1. disk[k] \in Directory
    BY <1>1
  <2> QED
    BY <2>1, EmptyShardType, SetShard
<1> HIDE DEF old, e, p
<1>6. /\ q \in Seq(Step) /\ Len(q) = Len(p) - old
      /\ \A i \in 1..(Len(p) - old) : q[i] = p[i + old]
  BY <1>1, <1>2, Shorter, Zenon
<1> HIDE DEF q
<1>7. /\ savedPaths' \in [Rank -> Seq(Step)] /\ savedPaths'[r] = q
      /\ \A i \in Rank \ {r} : savedPaths'[i] = savedPaths[i]
  BY <1>1, <1>3, <1>6
<1>8. /\ disk' \in [Step -> Directory]
      /\ \A k \in Step : disk'[k].data = disk[k].data /\ disk'[k].sampler = disk[k].sampler
  BY <1>1, <1>4, <1>5
<1>9. \E n \in Nat : n = old
  BY <1>2
<1> QED
  BY <1>2, <1>6, <1>7, <1>8, <1>9 DEF old, p

LEMMA RemoveSpares ==
    ASSUME Base, NEW r \in Rank, RemoveOld(r), NEW k \in Step,
           \A j \in 1..Removable(r) : savedPaths[r][j] # k
    PROVE  disk'[k] = disk[k]
  BY DEF RemoveOld

\* What the writes of a save do to the disk.
LEMMA WriteShardFacts ==
    ASSUME Base, NEW r \in Rank, WriteShard(r)
    PROVE  /\ step \in Step /\ disk' \in [Step -> Directory]
           /\ disk'[step].shard = [disk[step].shard EXCEPT ![r] = weights[r]]
           /\ \A k \in Step : k # step => disk'[k] = disk[k]
           /\ \A k \in Step : disk'[k].sampler = disk[k].sampler
<1>1. step \in Step
  BY StepsAreNat DEF WriteShard, Base, TypeOK, SavesStep, Step
<1>2. /\ disk \in [Step -> Directory] /\ weights \in [Rank -> Weights] /\ sampler \in Sampler
      /\ position \in 0..BatchesPerEpoch
  BY DEF Base, TypeOK
<1> DEFINE x == [disk[step].shard EXCEPT ![r] = weights[r]]
           e == [disk[step] EXCEPT !.shard = x]
<1>3. step \in Step /\ disk[step] \in Directory
  BY <1>1, <1>2 DEF WriteShard
<1>4. disk' = [disk EXCEPT ![step] = e]
  BY DEF WriteShard
<1>5. x \in [Rank -> Weights \cup {NoShard}]
  BY <1>2, <1>3 DEF Directory
<1> HIDE DEF x
<1>6. e \in Directory /\ e.shard = x /\ e.sampler = disk[step].sampler
  BY <1>3, <1>5, SetShard
<1> HIDE DEF e
<1> QED
  BY <1>2, <1>3, <1>4, <1>6 DEF x

LEMMA WriteDataFacts ==
    ASSUME Base, WriteData
    PROVE  /\ step \in Step /\ disk' \in [Step -> Directory]
           /\ disk'[step].shard = disk[step].shard
           /\ disk'[step].data = position
           /\ \A k \in Step : k # step => disk'[k] = disk[k]
           /\ \A k \in Step : disk'[k].sampler = disk[k].sampler
<1>1. step \in Step
  BY StepsAreNat DEF WriteData, Base, TypeOK, SavesStep, Step
<1>2. /\ disk \in [Step -> Directory] /\ weights \in [Rank -> Weights] /\ sampler \in Sampler
      /\ position \in 0..BatchesPerEpoch
  BY DEF Base, TypeOK
<1> DEFINE e == [disk[step] EXCEPT !.data = position]
<1>3. step \in Step /\ disk[step] \in Directory /\ disk' = [disk EXCEPT ![step] = e]
  BY <1>1, <1>2 DEF WriteData
<1>4. e \in Directory /\ e.data = position /\ e.shard = disk[step].shard
      /\ e.sampler = disk[step].sampler
  BY <1>2, <1>3, SetData
<1> HIDE DEF e
<1> QED
  BY <1>2, <1>3, <1>4

LEMMA WriteStateFacts ==
    ASSUME Base, WriteState
    PROVE  /\ step \in Step /\ disk' \in [Step -> Directory]
           /\ disk'[step].shard = disk[step].shard
           /\ disk'[step].data = disk[step].data
           /\ disk'[step].sampler = sampler
           /\ \A k \in Step : k # step => disk'[k] = disk[k]
<1>1. step \in Step
  BY StepsAreNat DEF WriteState, Base, TypeOK, SavesStep, Step
<1>2. /\ disk \in [Step -> Directory] /\ weights \in [Rank -> Weights] /\ sampler \in Sampler
      /\ position \in 0..BatchesPerEpoch
  BY DEF Base, TypeOK
<1> DEFINE e == [disk[step] EXCEPT !.sampler = sampler]
<1>3. step \in Step /\ disk[step] \in Directory /\ disk' = [disk EXCEPT ![step] = e]
  BY <1>1, <1>2 DEF WriteState
<1>4. e \in Directory /\ e.sampler = sampler /\ e.shard = disk[step].shard
      /\ e.data = disk[step].data
  BY <1>2, <1>3, SetSampler
<1> HIDE DEF e
<1> QED
  BY <1>2, <1>3, <1>4

LEMMA BeginStepFacts ==
    ASSUME Base, BeginStep
    PROVE  /\ step + 1 \in Step /\ step' = step + 1 /\ pc' = "collect"
           /\ sampler' \in Sampler /\ sampler'.draws = step + 1
           /\ sampler'.updateStep = step + 1 /\ sampler'.order = CandidateOrder[step + 1]
           /\ sampler'.cursor = 0 /\ sampler'.attempted = <<>>
<1>1. /\ step \in Nat /\ crashes \in Nat /\ crashes <= MaxCrashes /\ MaxCrashes \in Nat
      /\ TotalSteps \in Nat
  BY StepsAreNat, TrainerAssumption DEF Base, TypeOK
<1>2. step + 1 <= TotalSteps + crashes
  BY <1>1 DEF BeginStep, IsLastStep, Base, StepBound
<1>3. step + 1 \in Step
  BY <1>1, <1>2, StepsAreNat DEF Step
<1>4. sampler \in Sampler /\ sampler.draws = step /\ sampler' = BeginUpdate(sampler, step + 1)
  BY DEF BeginStep, Base, TypeOK, DrawnOnce
<1>5. step + 1 \in Nat /\ sampler.draws + 1 \in Step
  BY <1>1, <1>3, <1>4
<1>6. step' = step + 1 /\ pc' = "collect"
  BY DEF BeginStep
<1> QED
  BY <1>3, <1>4, <1>5, <1>6, BeginUpdateType

LEMMA CollectFacts ==
    ASSUME Base, CollectGroup
    PROVE  /\ HasCandidate(sampler)
           /\ sampler' \in Sampler /\ sampler'.draws = sampler.draws
           /\ sampler'.updateStep = sampler.updateStep /\ sampler'.order = sampler.order
           /\ sampler'.cursor = sampler.cursor + 1
           /\ sampler'.attempted = Append(sampler.attempted, sampler.order[sampler.cursor + 1])
<1>1. PICK g \in Group : sampler' = RecordGroup(TakeCandidate(sampler), Candidate(sampler), g, step)
  BY DEF CollectGroup
<1>2. HasCandidate(sampler) /\ sampler \in Sampler /\ step \in 0..MaxStep
  BY DEF CollectGroup, Base, TypeOK
<1> QED
  BY <1>1, <1>2, TurnType

\* Every step keeps the types.
LEMMA TypeStep == Base /\ [Next]_vars => TypeOK'
<1> SUFFICES ASSUME Base, [Next]_vars PROVE TypeOK'
  OBVIOUS
<1> USE StepsAreNat DEF memory, Base, TypeOK, StepBound, Step, Directory
<1>1. CASE BeginStep
  <2>1. step' \in 0..MaxStep /\ sampler' \in Sampler /\ pc' \in Place /\ left' \in 0..TotalSteps
    BY <1>1, BeginStepFacts DEF BeginStep, Place
  <2>2. position \in Nat /\ position' = (position % BatchesPerEpoch) + 1
    BY <1>1 DEF BeginStep
  <2>3. position' \in 0..BatchesPerEpoch
    BY <2>2, PositionBound
  <2> QED
    BY <1>1, <2>1, <2>3 DEF BeginStep
<1>2. CASE CollectGroup
  BY <1>2, CollectFacts DEF CollectGroup
<1>3. CASE Update
  <2>1. weights' \in [Rank -> Weights]
    BY <1>3 DEF Update, Weights, SavesStep
  <2> QED
    BY <1>3, <2>1 DEF Update, Place
<1>4. CASE Finish
  BY <1>4 DEF Finish, Place
<1>5. ASSUME NEW r \in Rank, RemoveOld(r) PROVE TypeOK'
  BY <1>5, RemoveFacts DEF RemoveOld
<1>6. ASSUME NEW r \in Rank, WriteShard(r) PROVE TypeOK'
  BY <1>6, WriteShardFacts DEF WriteShard
<1>7. CASE ShardsSaved
  <2>1. step \in Step
    BY <1>7 DEF ShardsSaved, SavesStep
  <2>2. savedPaths' \in [Rank -> Seq(Step)]
    BY <1>7, <2>1 DEF ShardsSaved
  <2> QED
    BY <1>7, <2>2 DEF ShardsSaved, Place
<1>8. CASE WriteData
  BY <1>8, WriteDataFacts DEF WriteData, Place
<1>9. CASE WriteState
  BY <1>9, WriteStateFacts DEF WriteState, Place
<1>10. CASE OpenTracker
  BY <1>10 DEF OpenTracker, Place
<1>11. CASE WriteTracker
  BY <1>11 DEF WriteTracker, Place
<1>12. CASE Crash
  <2>0. {} \in Weights /\ <<>> \in Seq(Step)
    BY DEF Weights
  <2>1. weights' \in [Rank -> Weights] /\ savedPaths' \in [Rank -> Seq(Step)]
    BY <1>12, <2>0 DEF Crash, NoWeights
  <2>2. crashes' \in 0..MaxCrashes /\ left' \in 0..TotalSteps
    BY <1>12, TrainerAssumption DEF Crash
  <2>3. pc' \in Place /\ step' \in 0..MaxStep /\ sampler' \in Sampler
        /\ position' \in 0..BatchesPerEpoch
    BY <1>12, TrainerAssumption, NewSamplerType DEF Crash, Place
  <2>4. /\ rankPc' \in [Rank -> {"idle", "made", "written"}]
        /\ disk' = disk /\ tracker' = tracker
    BY <1>12 DEF Crash
  <2> QED
    BY <2>1, <2>2, <2>3, <2>4
<1>13. CASE StartFromScratch
  BY <1>13 DEF StartFromScratch, Place
<1>14. CASE LoadCheckpoint
  <2>1. tracker.step \in Step /\ disk[tracker.step] \in Directory /\ tracker.step \in 0..MaxStep
    BY <1>14 DEF LoadCheckpoint
  <2>2. weights' \in [Rank -> Weights] /\ sampler' \in Sampler
    BY <1>14, <2>1 DEF LoadCheckpoint, Loadable
  <2>3. position' \in 0..BatchesPerEpoch /\ left' \in 0..TotalSteps
    <3>1. disk[tracker.step].data \in 0..BatchesPerEpoch
      BY <2>1
    <3> QED
      BY <1>14, <3>1, TrainerAssumption DEF LoadCheckpoint
  <2> QED
    BY <1>14, <2>1, <2>2, <2>3 DEF LoadCheckpoint, Place
<1>15. CASE UNCHANGED vars
  BY <1>15 DEF vars
<1> QED
  BY <1>1, <1>2, <1>3, <1>4, <1>5, <1>6, <1>7, <1>8, <1>9, <1>10, <1>11, <1>12, <1>13, <1>14, <1>15 DEF Next

\* The generator is drawn from with each step, and saved and loaded with it.
LEMMA DrawsStep == Base /\ [Next]_vars => DrawnOnce'
<1> SUFFICES ASSUME Base, [Next]_vars PROVE DrawnOnce'
  OBVIOUS
<1> USE StepsAreNat DEF memory, Base, TypeOK, DownIsFresh, DrawnOnce, Step, Directory
<1>1. CASE BeginStep
  BY <1>1, BeginStepFacts DEF BeginStep
<1>2. CASE CollectGroup
  BY <1>2, CollectFacts DEF CollectGroup
<1>3. CASE Update
  BY <1>3 DEF Update
<1>4. CASE Finish
  BY <1>4 DEF Finish, IsLastStep
<1>5. ASSUME NEW r \in Rank, RemoveOld(r) PROVE DrawnOnce'
  BY <1>5, RemoveFacts DEF RemoveOld
<1>6. ASSUME NEW r \in Rank, WriteShard(r) PROVE DrawnOnce'
  BY <1>6, WriteShardFacts DEF WriteShard
<1>7. CASE ShardsSaved
  BY <1>7 DEF ShardsSaved
<1>8. CASE WriteData
  BY <1>8, WriteDataFacts DEF WriteData
<1>9. CASE WriteState
  BY <1>9, WriteStateFacts DEF WriteState
<1>10. CASE OpenTracker
  BY <1>10 DEF OpenTracker
<1>11. CASE WriteTracker
  BY <1>11 DEF WriteTracker
<1>12. CASE Crash
  BY <1>12 DEF Crash, NewSampler
<1>13. CASE StartFromScratch
  BY <1>13 DEF StartFromScratch
<1>14. CASE LoadCheckpoint
  BY <1>14 DEF LoadCheckpoint, Loadable
<1>15. CASE UNCHANGED vars
  BY <1>15 DEF vars
<1> QED
  BY <1>1, <1>2, <1>3, <1>4, <1>5, <1>6, <1>7, <1>8, <1>9, <1>10, <1>11, <1>12, <1>13, <1>14, <1>15 DEF Next

LEMMA BaseInit == Init => Base
<1> SUFFICES ASSUME Init PROVE Base
  OBVIOUS
<1>1. {} \in Weights /\ <<>> \in Seq(Step) /\ NewSampler \in Sampler /\ NewSampler.draws = 0
  BY NewSamplerType DEF Weights, NewSampler
<1>2. EmptyDirectory \in Directory /\ EmptyDirectory.sampler = None
  BY TrainerAssumption DEF EmptyDirectory, Directory
<1>3. /\ weights \in [Rank -> Weights] /\ savedPaths \in [Rank -> Seq(Step)]
      /\ disk \in [Step -> Directory] /\ \A k \in Step : disk[k].sampler = None
  BY <1>1, <1>2 DEF Init, NoWeights
<1>4. TypeOK
  BY <1>1, <1>3, StepsAreNat, TrainerAssumption DEF Init, TypeOK, Place
<1> QED
  BY <1>1, <1>3, <1>4, StepsAreNat, TrainerAssumption
  DEF Init, Base, DownIsFresh, StepBound, DrawnOnce, SavesStep

LEMMA BaseStep == Base /\ [Next]_vars => Base'
  BY TypeStep, DownStep, BoundStep, DrawsStep DEF Base

LEMMA AlwaysBase == Spec => []Base
  BY BaseInit, BaseStep, PTL DEF Spec

\* Every reachable state has the types of TypeOK.
THEOREM TypeCorrect == Spec => []TypeOK
<1>1. Base => TypeOK
  BY DEF Base
<1> QED
  BY <1>1, AlwaysBase, PTL

\* However often the run is resumed, it passes its last step at most once for each time.
THEOREM OvershootBounded == Spec => []OvershootBound
<1>1. Base => OvershootBound
  BY DEF Base, StepBound, OvershootBound
<1> QED
  BY <1>1, AlwaysBase, PTL

-----------------------------------------------------------------------------
(* The candidates of a step                                                 *)

LEMMA AppendNext ==
    ASSUME NEW p \in Seq(Task), NEW n \in Nat, n < Len(p)
    PROVE  Append(SubSeq(p, 1, n), p[n + 1]) = SubSeq(p, 1, n + 1)
<1> DEFINE q == SubSeq(p, 1, n)
           u == SubSeq(p, 1, n + 1)
<1>1. q \in Seq(Task) /\ Len(q) = n /\ \A i \in 1..n : q[i] = p[i]
  BY SubSeqProperties
<1>2. u \in Seq(Task) /\ Len(u) = n + 1 /\ \A i \in 1..(n + 1) : u[i] = p[i]
  BY SubSeqProperties
<1> HIDE DEF q, u
<1>3. p[n + 1] \in Task
  OBVIOUS
<1>4. /\ Append(q, p[n + 1]) \in Seq(Task) /\ Len(Append(q, p[n + 1])) = n + 1
      /\ \A i \in 1..(n + 1) : Append(q, p[n + 1])[i] = u[i]
  BY <1>1, <1>2, <1>3, AppendProperties
<1>5. Append(q, p[n + 1]) = u
  BY <1>2, <1>4, SeqEqual
<1> QED
  BY <1>5 DEF q, u

\* The candidates are those of the step, taken in their order.
LEMMA ReplayStep == Base /\ ReplaysCandidates /\ [Next]_vars => ReplaysCandidates'
<1> SUFFICES ASSUME Base, ReplaysCandidates, [Next]_vars PROVE ReplaysCandidates'
  OBVIOUS
<1> USE DEF memory, ReplaysCandidates
<1>1. CASE BeginStep
  <2>1. SubSeq(CandidateOrder[step + 1], 1, 0) = <<>>
    BY SubSeqEmpty
  <2> QED
    BY <1>1, <2>1, BeginStepFacts
<1>2. CASE CollectGroup
  <2> DEFINE n == sampler.cursor
             p == sampler.order
  <2>1. /\ p \in Seq(Task) /\ n \in Nat /\ n < Len(p)
    BY <1>2 DEF CollectGroup, HasCandidate, Base, TypeOK, Sampler
  <2>2. pc = "collect" /\ pc' = pc /\ step' = step
    BY <1>2 DEF CollectGroup
  <2>3. /\ sampler.updateStep = step /\ p = CandidateOrder[step]
        /\ sampler.attempted = SubSeq(p, 1, n)
    BY <2>2
  <2> HIDE DEF n, p
  <2>4. Append(SubSeq(p, 1, n), p[n + 1]) = SubSeq(p, 1, n + 1)
    BY <2>1, AppendNext
  <2>5. /\ sampler'.updateStep = sampler.updateStep /\ sampler'.order = p
        /\ sampler'.cursor = n + 1 /\ sampler'.attempted = Append(sampler.attempted, p[n + 1])
    BY <1>2, CollectFacts DEF n, p
  <2> QED
    BY <2>2, <2>3, <2>4, <2>5
<1>3. CASE Update
  BY <1>3 DEF Update
<1>4. CASE Finish
  BY <1>4 DEF Finish, IsLastStep
<1>5. ASSUME NEW r \in Rank, RemoveOld(r) PROVE ReplaysCandidates'
  BY <1>5 DEF RemoveOld
<1>6. ASSUME NEW r \in Rank, WriteShard(r) PROVE ReplaysCandidates'
  BY <1>6 DEF WriteShard
<1>7. CASE ShardsSaved
  BY <1>7 DEF ShardsSaved
<1>8. CASE WriteData
  BY <1>8 DEF WriteData
<1>9. CASE WriteState
  BY <1>9 DEF WriteState
<1>10. CASE OpenTracker
  BY <1>10 DEF OpenTracker
<1>11. CASE WriteTracker
  BY <1>11 DEF WriteTracker
<1>12. CASE Crash
  BY <1>12 DEF Crash
<1>13. CASE StartFromScratch
  BY <1>13 DEF StartFromScratch
<1>14. CASE LoadCheckpoint
  BY <1>14 DEF LoadCheckpoint, Loadable
<1>15. CASE UNCHANGED vars
  BY <1>15 DEF vars
<1> QED
  BY <1>1, <1>2, <1>3, <1>4, <1>5, <1>6, <1>7, <1>8, <1>9, <1>10, <1>11, <1>12, <1>13, <1>14, <1>15 DEF Next

\* A step asks for the candidates that the seed gives it, also when it is repeated after
\* a crash.
THEOREM CandidatesReplayed == Spec => []ReplaysCandidates
<1>1. Init => ReplaysCandidates
  BY DEF Init, ReplaysCandidates
<1> QED
  BY <1>1, AlwaysBase, ReplayStep, PTL DEF Spec

-----------------------------------------------------------------------------
(* Saving and resuming exactly                                              *)

\* The tracker file names an earlier step than the one that is being saved.
TrackerBehind ==
    /\ pc # "down" => tracker.step <= step
    /\ pc \in {"collect", "save", "shards", "data", "state"} => tracker.step < step

\* Of the paths that a rank remembers, only the last can be the one that the tracker
\* file names, or the one that is being saved.
PathsOrdered ==
    \A r \in Rank :
        /\ \A i \in 1..Len(savedPaths[r]) :
               /\ savedPaths[r][i] <= step
               /\ pc \in {"collect", "save"} => savedPaths[r][i] < step
        /\ \A i \in 1..(Len(savedPaths[r]) - 1) :
               IF pc \in {"shards", "data", "state"} THEN savedPaths[r][i] < step
               ELSE savedPaths[r][i] < tracker.step

\* What is on the disk of the step that is being saved.
Written ==
    /\ pc # "save" => \A r \in Rank : rankPc[r] = "idle"
    /\ pc = "save" =>
           \A r \in Rank : rankPc[r] = "written" => disk[step].shard[r] = weights[r]
    /\ pc \in {"shards", "data", "state"} => disk[step].shard = weights
    /\ pc \in {"data", "state"} => disk[step].data = position
    /\ pc = "state" => disk[step].sampler = sampler

Exact == TrackerBehind /\ PathsOrdered /\ Written

\* The tracker file follows the step.
LEMMA BehindStep == Base /\ TrackerBehind /\ [Next]_vars => TrackerBehind'
<1> SUFFICES ASSUME Base, TrackerBehind, [Next]_vars PROVE TrackerBehind'
  OBVIOUS
<1> USE StepsAreNat DEF memory, Base, TypeOK, DownIsFresh, TrackerBehind
<1>1. CASE BeginStep
  BY <1>1 DEF BeginStep, IsLastStep
<1>2. CASE CollectGroup
  BY <1>2 DEF CollectGroup
<1>3. CASE Update
  BY <1>3 DEF Update
<1>4. CASE Finish
  BY <1>4 DEF Finish, IsLastStep
<1>5. ASSUME NEW r \in Rank, RemoveOld(r) PROVE TrackerBehind'
  BY <1>5 DEF RemoveOld
<1>6. ASSUME NEW r \in Rank, WriteShard(r) PROVE TrackerBehind'
  BY <1>6 DEF WriteShard
<1>7. CASE ShardsSaved
  BY <1>7 DEF ShardsSaved
<1>8. CASE WriteData
  BY <1>8 DEF WriteData
<1>9. CASE WriteState
  BY <1>9 DEF WriteState
<1>10. CASE OpenTracker
  BY <1>10 DEF OpenTracker
<1>11. CASE WriteTracker
  BY <1>11 DEF WriteTracker
<1>12. CASE Crash
  BY <1>12 DEF Crash
<1>13. CASE StartFromScratch
  BY <1>13 DEF StartFromScratch
<1>14. CASE LoadCheckpoint
  BY <1>14 DEF LoadCheckpoint, Loadable
<1>15. CASE UNCHANGED vars
  BY <1>15 DEF vars
<1> QED
  BY <1>1, <1>2, <1>3, <1>4, <1>5, <1>6, <1>7, <1>8, <1>9, <1>10, <1>11, <1>12, <1>13, <1>14, <1>15 DEF Next

LEMMA PathElements ==
    ASSUME Base
    PROVE  \A r \in Rank : /\ savedPaths[r] \in Seq(Step) /\ Len(savedPaths[r]) \in Nat
                           /\ \A i \in 1..Len(savedPaths[r]) : savedPaths[r][i] \in Nat
<1>1. \A r \in Rank : savedPaths[r] \in Seq(Step)
  BY DEF Base, TypeOK
<1>2. Step \subseteq Nat
  BY StepsAreNat DEF Step
<1>3. \A r \in Rank : \A i \in 1..Len(savedPaths[r]) : savedPaths[r][i] \in Step
  BY <1>1
<1>4. \A r \in Rank : \A i \in 1..Len(savedPaths[r]) : savedPaths[r][i] \in Nat
  BY <1>2, <1>3, Zenon
<1>5. \A r \in Rank : Len(savedPaths[r]) \in Nat
  BY <1>1
<1> QED
  BY <1>1, <1>4, <1>5, Zenon

\* Remembered paths are of earlier steps.
LEMMA PathsStep == Base /\ TrackerBehind /\ PathsOrdered /\ [Next]_vars => PathsOrdered'
<1> SUFFICES ASSUME Base, TrackerBehind, PathsOrdered, [Next]_vars PROVE PathsOrdered'
  OBVIOUS
<1> USE DEF memory, PathsOrdered
<1>1. CASE BeginStep
  <2>1. /\ pc \in {"loaded", "stepDone"} /\ pc' = "collect" /\ step' = step + 1
        /\ tracker' = tracker /\ savedPaths' = savedPaths
    BY <1>1 DEF BeginStep
  <2>2. step \in Nat
    BY DEF Base, TypeOK
  <2>3. \A r \in Rank : \A i \in 1..Len(savedPaths[r]) : savedPaths[r][i] < step + 1
    BY <2>2, PathElements
  <2>4. \A r \in Rank : \A i \in 1..Len(savedPaths[r]) : savedPaths[r][i] <= step + 1
    BY <2>2, PathElements
  <2> QED
    BY <2>1, <2>3, <2>4
<1>2. CASE CollectGroup
  BY <1>2 DEF CollectGroup
<1>3. CASE Update
  BY <1>3 DEF Update
<1>4. CASE Finish
  BY <1>4 DEF Finish, IsLastStep
<1>5. ASSUME NEW r \in Rank, RemoveOld(r) PROVE PathsOrdered'
  <2>1. pc = "save" /\ pc' = pc /\ step' = step /\ tracker' = tracker
    BY <1>5 DEF RemoveOld
  <2>2. PICK old \in Nat :
            /\ old <= Len(savedPaths[r])
            /\ \A q \in Rank \ {r} : savedPaths'[q] = savedPaths[q]
            /\ Len(savedPaths'[r]) = Len(savedPaths[r]) - old
            /\ \A i \in 1..(Len(savedPaths[r]) - old) : savedPaths'[r][i] = savedPaths[r][i + old]
    BY <1>5, RemoveFacts
  <2>3. Len(savedPaths[r]) \in Nat
    BY PathElements
  <2>4. \A i \in 1..Len(savedPaths'[r]) :
            /\ i + old \in 1..Len(savedPaths[r]) /\ savedPaths'[r][i] = savedPaths[r][i + old]
            /\ i \in 1..(Len(savedPaths'[r]) - 1) => i + old \in 1..(Len(savedPaths[r]) - 1)
    BY <2>2, <2>3
  <2>5. \A i \in 1..(Len(savedPaths'[r]) - 1) : i \in 1..Len(savedPaths'[r])
    BY <2>2, <2>3
  <2>6. ASSUME NEW q \in Rank, q # r
        PROVE  savedPaths'[q] = savedPaths[q]
    BY <2>2, <2>6
  <2>7. ASSUME NEW i \in 1..Len(savedPaths'[r])
        PROVE  savedPaths'[r][i] < step
    BY <2>1, <2>4, <2>7
  <2>8. ASSUME NEW i \in 1..(Len(savedPaths'[r]) - 1)
        PROVE  savedPaths'[r][i] < tracker.step
    BY <2>1, <2>4, <2>5, <2>8
  <2>9. \A i \in 1..Len(savedPaths'[r]) : savedPaths'[r][i] <= step
    BY <2>1, <2>4
  <2> QED
    BY <2>1, <2>6, <2>7, <2>8, <2>9
<1>6. ASSUME NEW r \in Rank, WriteShard(r) PROVE PathsOrdered'
  BY <1>6 DEF WriteShard
<1>7. CASE ShardsSaved
  <2>1. pc = "save" /\ pc' = "shards" /\ step' = step /\ step \in Step
    BY <1>7, StepsAreNat DEF ShardsSaved, SavesStep, Base, TypeOK, Step
  <2>2. ASSUME NEW q \in Rank
        PROVE  /\ Len(savedPaths'[q]) = Len(savedPaths[q]) + 1
               /\ \A i \in 1..Len(savedPaths[q]) : savedPaths'[q][i] = savedPaths[q][i]
               /\ savedPaths'[q][Len(savedPaths[q]) + 1] = step
    <3>1. savedPaths[q] \in Seq(Step) /\ savedPaths'[q] = Append(savedPaths[q], step)
      BY <1>7 DEF ShardsSaved, Base, TypeOK
    <3> QED
      BY <2>1, <3>1, AppendProperties
  <2>3. step \in Nat /\ \A q \in Rank : Len(savedPaths[q]) \in Nat
    BY PathElements DEF Base, TypeOK
  <2>4. ASSUME NEW q \in Rank, NEW i \in 1..Len(savedPaths'[q])
        PROVE  savedPaths'[q][i] <= step
    <3>1. CASE i \in 1..Len(savedPaths[q])
      BY <2>2, <3>1
    <3>2. CASE i = Len(savedPaths[q]) + 1
      BY <2>2, <2>3, <3>2
    <3> QED
      BY <2>2, <2>3, <3>1, <3>2
  <2>5. ASSUME NEW q \in Rank, NEW i \in 1..(Len(savedPaths'[q]) - 1)
        PROVE  savedPaths'[q][i] < step
    <3>1. i \in 1..Len(savedPaths[q])
      BY <2>2, <2>3
    <3> QED
      BY <2>1, <2>2, <3>1
  <2> QED
    BY <2>1, <2>4, <2>5
<1>8. CASE WriteData
  BY <1>8 DEF WriteData
<1>9. CASE WriteState
  BY <1>9 DEF WriteState
<1>10. CASE OpenTracker
  BY <1>10 DEF OpenTracker
<1>11. CASE WriteTracker
  BY <1>11 DEF WriteTracker
<1>12. CASE Crash
  <2>1. \A r \in Rank : savedPaths'[r] = <<>>
    BY <1>12 DEF Crash
  <2> QED
    BY <2>1
<1>13. CASE StartFromScratch
  <2>1. \A r \in Rank : savedPaths'[r] = <<>>
    BY <1>13 DEF StartFromScratch, Base, DownIsFresh
  <2> QED
    BY <2>1
<1>14. CASE LoadCheckpoint
  <2>1. \A r \in Rank : savedPaths'[r] = <<>>
    BY <1>14 DEF LoadCheckpoint, Base, DownIsFresh
  <2> QED
    BY <2>1
<1>15. CASE UNCHANGED vars
  BY <1>15 DEF vars
<1> QED
  BY <1>1, <1>2, <1>3, <1>4, <1>5, <1>6, <1>7, <1>8, <1>9, <1>10, <1>11, <1>12, <1>13, <1>14, <1>15 DEF Next

\* What is being saved stays on the disk until it is named.
LEMMA WrittenStep == Base /\ PathsOrdered /\ Written /\ [Next]_vars => Written'
<1> SUFFICES ASSUME Base, PathsOrdered, Written, [Next]_vars PROVE Written'
  OBVIOUS
<1> USE DEF memory, Written
<1>1. CASE BeginStep
  BY <1>1, BeginStepFacts DEF BeginStep
<1>2. CASE CollectGroup
  BY <1>2 DEF CollectGroup
<1>3. CASE Update
  BY <1>3 DEF Update
<1>4. CASE Finish
  BY <1>4 DEF Finish, IsLastStep
<1>5. ASSUME NEW r \in Rank, RemoveOld(r) PROVE Written'
  <2>1. pc = "save" /\ pc' = pc /\ step' = step /\ weights' = weights /\ step \in Step
    BY <1>5, StepsAreNat DEF RemoveOld, memory, Base, SavesStep, TypeOK, Step
  <2>2. \A j \in 1..Len(savedPaths[r]) : savedPaths[r][j] # step
    BY <2>1 DEF PathsOrdered, Base, TypeOK
  <2>3. Removable(r) \in Nat /\ Len(savedPaths[r]) \in Nat /\ Removable(r) <= Len(savedPaths[r])
    BY TrainerAssumption DEF Removable, Base, TypeOK
  <2>4. disk'[step] = disk[step]
    BY <1>5, <2>1, <2>2, <2>3, RemoveSpares
  <2>5. \A q \in Rank : rankPc'[q] = "written" => rankPc[q] = "written"
    BY <1>5 DEF RemoveOld, Base, TypeOK
  <2> QED
    BY <2>1, <2>4, <2>5
<1>6. ASSUME NEW r \in Rank, WriteShard(r) PROVE Written'
  <2>1. /\ pc = "save" /\ pc' = pc /\ step' = step /\ weights' = weights
        /\ disk \in [Step -> Directory] /\ rankPc \in [Rank -> {"idle", "made", "written"}]
        /\ rankPc' = [rankPc EXCEPT ![r] = "written"]
    BY <1>6 DEF WriteShard, Base, TypeOK
  <2>2. /\ step \in Step /\ disk'[step].shard = [disk[step].shard EXCEPT ![r] = weights[r]]
    BY <1>6, WriteShardFacts
  <2>3. disk[step].shard \in [Rank -> Weights \cup {NoShard}]
    BY <2>1, <2>2 DEF Directory
  <2>4. \A q \in Rank : disk'[step].shard[q] = IF q = r THEN weights[r] ELSE disk[step].shard[q]
    BY <2>2, <2>3
  <2> QED
    BY <2>1, <2>4
<1>7. CASE ShardsSaved
  <2>1. /\ pc = "save" /\ pc' = "shards" /\ step' = step /\ weights' = weights /\ disk' = disk
        /\ \A r \in Rank : rankPc[r] = "written" /\ rankPc'[r] = "idle"
        /\ weights \in [Rank -> Weights] /\ disk \in [Step -> Directory] /\ step \in Step
    BY <1>7, StepsAreNat DEF ShardsSaved, Base, TypeOK, SavesStep, Step
  <2>2. disk[step].shard \in [Rank -> Weights \cup {NoShard}]
    BY <2>1 DEF Directory
  <2>3. disk[step].shard = weights
    BY <2>1, <2>2
  <2> QED
    BY <2>1, <2>3
<1>8. CASE WriteData
  BY <1>8, WriteDataFacts DEF WriteData
<1>9. CASE WriteState
  BY <1>9, WriteStateFacts DEF WriteState
<1>10. CASE OpenTracker
  BY <1>10 DEF OpenTracker
<1>11. CASE WriteTracker
  BY <1>11 DEF WriteTracker
<1>12. CASE Crash
  BY <1>12 DEF Crash
<1>13. CASE StartFromScratch
  BY <1>13 DEF StartFromScratch
<1>14. CASE LoadCheckpoint
  BY <1>14 DEF LoadCheckpoint, Loadable
<1>15. CASE UNCHANGED vars
  BY <1>15 DEF vars
<1> QED
  BY <1>1, <1>2, <1>3, <1>4, <1>5, <1>6, <1>7, <1>8, <1>9, <1>10, <1>11, <1>12, <1>13, <1>14, <1>15 DEF Next

LEMMA ExactInit == Init => Exact
  BY StepsAreNat DEF Init, Exact, TrackerBehind, PathsOrdered, Written

LEMMA AlwaysExact == Spec => [](Base /\ Exact)
<1>1. Base /\ Exact /\ [Next]_vars => Exact'
  BY BehindStep, PathsStep, WrittenStep DEF Exact
<1> QED
  BY <1>1, AlwaysBase, ExactInit, PTL DEF Spec

LEMMA LiveIsUp == pc # "down" => Live # None
  BY DEF Live, None

\* Until the tracker file names another, a step leaves the directory that it names alone,
\* but for a rank that removes old paths.
LEMMA NamedStable ==
    ASSUME Base, Exact, Next, ~OpenTracker
    PROVE  /\ tracker'.step = tracker.step
           /\ tracker.step \in Step =>
                  \/ disk'[tracker.step] = disk[tracker.step]
                  \/ \E r \in Rank : RemoveOld(r)
<1> DEFINE k == tracker.step
<1>1. k \in 0..MaxStep /\ tracker'.step = k
  <2>1. tracker' = tracker \/ tracker' = [tracker EXCEPT !.written = TRUE]
    BY DEF Next, BeginStep, CollectGroup, Update, Finish, RemoveOld, WriteShard, ShardsSaved,
           WriteData, WriteState, WriteTracker, Crash, StartFromScratch, LoadCheckpoint
  <2> QED
    BY <2>1 DEF Base, TypeOK
<1>2. ASSUME k \in Step
      PROVE  disk'[k] = disk[k] \/ \E r \in Rank : RemoveOld(r)
  <2>1. ASSUME NEW r \in Rank, WriteShard(r) PROVE disk'[k] = disk[k]
    <3>1. k # step
      BY <2>1, <1>1 DEF WriteShard, Exact, TrackerBehind, Base, TypeOK
    <3> QED
      BY <1>2, <2>1, <3>1, WriteShardFacts
  <2>2. CASE WriteData
    <3>1. k # step
      BY <2>2, <1>1 DEF WriteData, Exact, TrackerBehind, Base, TypeOK
    <3> QED
      BY <1>2, <2>2, <3>1, WriteDataFacts
  <2>3. CASE WriteState
    <3>1. k # step
      BY <2>3, <1>1 DEF WriteState, Exact, TrackerBehind, Base, TypeOK
    <3> QED
      BY <1>2, <2>3, <3>1, WriteStateFacts
  <2>4. \/ disk' = disk \/ WriteData \/ WriteState
        \/ \E r \in Rank : RemoveOld(r) \/ WriteShard(r)
    BY DEF Next, BeginStep, CollectGroup, Update, Finish, ShardsSaved, WriteTracker, Crash,
           StartFromScratch, LoadCheckpoint
  <2> QED
    BY <2>1, <2>2, <2>3, <2>4
<1> QED
  BY <1>1, <1>2

\* With two checkpoints kept, no rank removes the directory that the tracker file names.
LEMMA NamedKept ==
    ASSUME Keep >= 2, Base, Exact, NEW r \in Rank, RemoveOld(r), tracker.step \in Step
    PROVE  disk'[tracker.step] = disk[tracker.step]
<1> DEFINE k == tracker.step
<1>1. /\ savedPaths[r] \in Seq(Step) /\ pc = "save"
  BY DEF Base, TypeOK, RemoveOld
<1>2. Removable(r) <= Len(savedPaths[r]) - 1 \/ Removable(r) = 0
  BY <1>1, TrainerAssumption DEF Removable
<1>3. Removable(r) \in Nat /\ Len(savedPaths[r]) \in Nat
  BY <1>1, TrainerAssumption DEF Removable
<1>4. \A j \in 1..Removable(r) : savedPaths[r][j] < k /\ savedPaths[r][j] \in Step
  BY <1>1, <1>2, <1>3 DEF Exact, PathsOrdered
<1>5. \A j \in 1..Removable(r) : savedPaths[r][j] # k
  BY <1>4, StepsAreNat DEF Step
<1> QED
  BY <1>5, RemoveSpares

\* Nothing but the renaming of the tracker file changes what a resume would restore.
LEMMA SavedStable ==
    ASSUME Keep >= 2, Base, Exact, Next, ~OpenTracker
    PROVE  Saved' = Saved
<1> DEFINE k == tracker.step
<1>1. k \in 0..MaxStep /\ tracker'.step = k
  BY NamedStable DEF Base, TypeOK
<1>2. CASE k = 0
  BY <1>1, <1>2 DEF Saved, FreshRun
<1>3. CASE k # 0
  <2>1. k \in Step
    BY <1>1, <1>3, StepsAreNat DEF Step
  <2>2. disk'[k] = disk[k]
    BY <2>1, NamedStable, NamedKept
  <2> QED
    BY <1>1, <1>3, <2>2 DEF Saved
<1> QED
  BY <1>2, <1>3

\* The step that names the new checkpoint saves the live state, whole.
LEMMA CommitStep ==
    ASSUME Base, Exact, OpenTracker
    PROVE  Live # None /\ Live' = Live /\ Saved' = Live
<1>1. /\ pc = "state" /\ pc' = "tracked" /\ disk' = disk /\ tracker'.step = step
      /\ step' = step /\ sampler' = sampler /\ weights' = weights /\ position' = position
  BY DEF OpenTracker, memory
<1>2. /\ disk[step].shard = weights /\ disk[step].data = position /\ disk[step].sampler = sampler
      /\ step # 0
  BY <1>1 DEF Exact, Written, Base, SavesStep, TypeOK
<1> QED
  BY <1>1, <1>2, LiveIsUp DEF Live, Saved

\* A process that comes back goes on from what was saved.
LEMMA ResumeStep ==
    ASSUME Base, StartFromScratch \/ LoadCheckpoint
    PROVE  Live = None /\ Live' = Saved
<1>1. CASE StartFromScratch
  <2>1. /\ pc = "down" /\ pc' = "loaded" /\ tracker.step = 0
        /\ step' = 0 /\ weights' = NoWeights /\ sampler' = NewSampler /\ position' = 0
    BY <1>1 DEF StartFromScratch, memory, Base, DownIsFresh
  <2> QED
    BY <2>1 DEF Live, Saved, FreshRun
<1>2. CASE LoadCheckpoint
  <2>1. /\ pc = "down" /\ pc' = "loaded" /\ tracker.step # 0
        /\ step' = tracker.step /\ weights' = disk[tracker.step].shard
        /\ sampler' = disk[tracker.step].sampler /\ position' = disk[tracker.step].data
    BY <1>2 DEF LoadCheckpoint, Base, TypeOK
  <2> QED
    BY <2>1 DEF Live, Saved
<1> QED
  BY <1>1, <1>2

\* When at least two checkpoints are kept, saving with many writes by many ranks, and
\* resuming after a crash at any point, implement ResumableTraining.
THEOREM ResumeIsExact == ASSUME Keep >= 2 PROVE Spec => ResumesExactly
<1>1. Init => Abstract!Init
  BY DEF Init, Abstract!Init, Live, Saved, FreshRun
<1>2. Base /\ Exact /\ [Next]_vars => [Abstract!Next]_(Abstract!vars)
  <2> SUFFICES ASSUME Base, Exact, [Next]_vars PROVE [Abstract!Next]_(Abstract!vars)
    OBVIOUS
  <2>1. CASE UNCHANGED vars
    BY <2>1 DEF vars, memory, Abstract!vars, Live, Saved
  <2>2. CASE OpenTracker
    BY <2>2, CommitStep DEF Abstract!Next, Abstract!Commit
  <2>3. CASE StartFromScratch \/ LoadCheckpoint
    <3>1. Saved' = Saved
      BY <2>3, SavedStable DEF Next, StartFromScratch, LoadCheckpoint, OpenTracker
    <3> QED
      BY <2>3, <3>1, ResumeStep DEF Abstract!Next, Abstract!Resume
  <2>4. CASE Crash
    <3>1. Saved' = Saved
      BY <2>4 DEF Crash, Saved, FreshRun
    <3>2. Live # None /\ Live' = None
      BY <2>4, LiveIsUp DEF Crash, Live
    <3> QED
      BY <3>1, <3>2 DEF Abstract!Next, Abstract!Crash
  <2>5. ASSUME Next, ~OpenTracker, ~StartFromScratch, ~LoadCheckpoint, ~Crash
        PROVE  Abstract!Next
    <3>1. Saved' = Saved
      BY <2>5, SavedStable
    <3>2. pc # "down" /\ pc' # "down"
      BY <2>5 DEF Next, BeginStep, CollectGroup, Update, Finish, RemoveOld, WriteShard,
                  ShardsSaved, WriteData, WriteState, WriteTracker
    <3>3. Live # None /\ Live' # None
      BY <3>2 DEF Live, None
    <3> QED
      BY <3>1, <3>3 DEF Abstract!Next, Abstract!Advance
  <2> QED
    BY <2>1, <2>2, <2>3, <2>4, <2>5
<1> QED
  BY <1>1, <1>2, AlwaysExact, PTL DEF Spec, ResumesExactly, Abstract!Spec

-----------------------------------------------------------------------------
(* Counting groups                                                          *)

\* One more group of task c is one more numbered group.
LEMMA NumberedGrows ==
    ASSUME NEW f \in [Task -> Nat], NEW g \in [Task -> Nat], NEW c \in Task,
           g[c] = f[c] + 1, \A t \in Task \ {c} : g[t] = f[t],
           IsFiniteSet(Numbered(f))
    PROVE  IsFiniteSet(Numbered(g)) /\ Cardinality(Numbered(g)) = Cardinality(Numbered(f)) + 1
<1> DEFINE x == <<c, f[c] + 1>>
<1>1. \A h \in [Task -> Nat] : \A t, i :
          <<t, i>> \in Numbered(h) <=> t \in Task /\ i \in 1..h[t]
  BY DEF Numbered
<1>2. \A h \in [Task -> Nat] : \A p \in Numbered(h) : p = <<p[1], p[2]>>
  BY DEF Numbered
<1>3. x \notin Numbered(f)
  <2>1. f[c] \in Nat
    OBVIOUS
  <2>2. f[c] + 1 \notin 1..f[c]
    BY <2>1
  <2> QED
    BY <1>1, <2>2
<1>4. \A t \in Task : \A i : i \in 1..g[t] <=> i \in 1..f[t] \/ <<t, i>> = x
  <2> SUFFICES ASSUME NEW t \in Task, NEW i
               PROVE  i \in 1..g[t] <=> i \in 1..f[t] \/ <<t, i>> = x
    OBVIOUS
  <2>1. CASE t = c
    <3>1. f[c] \in Nat
      OBVIOUS
    <3> QED
      BY <2>1, <3>1
  <2>2. CASE t # c
    BY <2>2
  <2> QED
    BY <2>1, <2>2
<1>5. Numbered(g) = Numbered(f) \cup {x}
  <2>1. ASSUME NEW p \in Numbered(g)
        PROVE  p \in Numbered(f) \cup {x}
    <3>1. p = <<p[1], p[2]>> /\ p[1] \in Task /\ p[2] \in 1..g[p[1]]
      BY <1>1, <1>2
    <3> QED
      BY <1>1, <1>4, <3>1
  <2>2. ASSUME NEW p \in Numbered(f)
        PROVE  p \in Numbered(g)
    <3>1. p = <<p[1], p[2]>> /\ p[1] \in Task /\ p[2] \in 1..f[p[1]]
      BY <1>1, <1>2
    <3> QED
      BY <1>1, <1>4, <3>1
  <2>3. x \in Numbered(g)
    BY <1>1, <1>4
  <2> QED
    BY <2>1, <2>2, <2>3
<1> HIDE DEF x
<1> QED
  BY <1>3, <1>5, FS_AddElement

\* Nothing is counted before the first group.
LEMMA NothingNumbered ==
    ASSUME NEW f \in [Task -> Nat], \A t \in Task : f[t] = 0
    PROVE  IsFiniteSet(Numbered(f)) /\ Cardinality(Numbered(f)) = 0
<1>1. \A t \in Task : 1..f[t] = {}
  OBVIOUS
<1>2. Numbered(f) = {}
  BY <1>1 DEF Numbered
<1> QED
  BY <1>2, FS_EmptySet

Counted(s) == IsFiniteSet(TriedGroups(s)) /\ IsFiniteSet(InformativeGroups(s))

\* The counts of a sampler are those of its history.
LEMMA SameCounts ==
    ASSUME NEW s, NEW n, n.history = s.history
    PROVE  /\ GroupsTried(n) = GroupsTried(s) /\ GroupsInformative(n) = GroupsInformative(s)
           /\ Counted(n) <=> Counted(s)
BY DEF GroupsTried, GroupsInformative, Counted, TriedGroups, InformativeGroups

LEMMA CountsType ==
    ASSUME NEW s, Counted(s)
    PROVE  GroupsTried(s) \in Nat /\ GroupsInformative(s) \in Nat
BY FS_CardinalityType DEF Counted, GroupsTried, GroupsInformative

LEMMA NewCounts ==
    /\ Counted(NewSampler) /\ GroupsTried(NewSampler) = 0 /\ GroupsInformative(NewSampler) = 0
    /\ \A t \in Task : NewSampler.history[t].groups = 0
<1>1. \A t \in Task : NewSampler.history[t].groups = 0 /\ NewSampler.history[t].informative = 0
  BY DEF NewSampler, NewHistory
<1> QED
  BY <1>1, NothingNumbered
     DEF GroupsTried, GroupsInformative, Counted, TriedGroups, InformativeGroups

\* One turn of the collection adds one group, informative or not, to its candidate.
LEMMA TurnCounts ==
    ASSUME NEW s \in Sampler, HasCandidate(s), NEW g, NEW k \in 0..MaxStep,
           NEW n, n = RecordGroup(TakeCandidate(s), Candidate(s), g, k), Counted(s)
    PROVE  /\ \A t \in Task : n.history[t].groups =
                IF t = Candidate(s) THEN s.history[t].groups + 1 ELSE s.history[t].groups
           /\ Counted(n) /\ GroupsTried(n) = GroupsTried(s) + 1
           /\ \E d \in {0, 1} :
                n.informative = s.informative + d /\ GroupsInformative(n) = GroupsInformative(s) + d
<1> DEFINE c == Candidate(s)
           u == TakeCandidate(s)
           one(x) == IF ClassifyGroup(g) = x THEN 1 ELSE 0
           d == one("informative")
           h == [groups |-> u.history[c].groups + 1,
                 informative |-> u.history[c].informative + d,
                 lastSeen |-> k]
<1>1. n \in Sampler /\ u \in Sampler /\ c \in Task
  BY TurnType, TakeType
<1>2. u.history = s.history /\ u.informative = s.informative
  BY DEF TakeCandidate, Sampler
<1>3. d \in {0, 1}
  OBVIOUS
<1>4. n.informative = u.informative + d /\ n.history = [u.history EXCEPT ![c] = h]
  <2> HIDE DEF u, c
  <2>1. n = RecordGroup(u, c, g, k)
    BY DEF u, c
  <2> QED
    BY <1>1, <2>1, Zenon DEF RecordGroup, Sampler
<1> HIDE DEF c, u, d
<1>5. \A t \in Task : /\ s.history[t].groups \in Nat /\ s.history[t].informative \in Nat
                      /\ n.history[t].groups \in Nat /\ n.history[t].informative \in Nat
  BY <1>1 DEF Sampler, History
<1>6. \A t \in Task : n.history[t] = IF t = c THEN h ELSE s.history[t]
  BY <1>1, <1>2, <1>4 DEF Sampler
<1> DEFINE ft == [t \in Task |-> s.history[t].groups]
           gt == [t \in Task |-> n.history[t].groups]
           fi == [t \in Task |-> s.history[t].informative]
           gi == [t \in Task |-> n.history[t].informative]
<1>7. ft \in [Task -> Nat] /\ gt \in [Task -> Nat] /\ fi \in [Task -> Nat] /\ gi \in [Task -> Nat]
  BY <1>5
<1>8. /\ gt[c] = ft[c] + 1 /\ gi[c] = fi[c] + d
      /\ \A t \in Task \ {c} : gt[t] = ft[t] /\ gi[t] = fi[t]
  BY <1>1, <1>2, <1>6
<1>9. IsFiniteSet(Numbered(ft)) /\ IsFiniteSet(Numbered(fi))
  BY DEF Counted, TriedGroups, InformativeGroups
<1> HIDE DEF ft, gt, fi, gi
<1>10. IsFiniteSet(Numbered(gt)) /\ Cardinality(Numbered(gt)) = Cardinality(Numbered(ft)) + 1
  BY <1>1, <1>7, <1>8, <1>9, NumberedGrows
<1>11. IsFiniteSet(Numbered(gi)) /\ Cardinality(Numbered(gi)) = Cardinality(Numbered(fi)) + d
  <2>1. CASE d = 1
    BY <1>1, <1>7, <1>8, <1>9, <2>1, NumberedGrows
  <2>2. CASE d = 0
    <3>1. \A t \in Task : gi[t] = fi[t]
      BY <1>1, <1>7, <1>8, <2>2
    <3>2. gi = fi
      BY <1>7, <3>1
    <3>3. Cardinality(Numbered(fi)) \in Nat
      BY <1>9, FS_CardinalityType
    <3> QED
      BY <1>9, <2>2, <3>2, <3>3
  <2> QED
    BY <1>3, <2>1, <2>2
<1>12. Counted(n) /\ GroupsTried(n) = GroupsTried(s) + 1
       /\ GroupsInformative(n) = GroupsInformative(s) + d
  BY <1>10, <1>11
     DEF Counted, GroupsTried, GroupsInformative, TriedGroups, InformativeGroups, ft, gt, fi, gi
<1>13. \A t \in Task : n.history[t].groups = IF t = c THEN s.history[t].groups + 1 ELSE s.history[t].groups
  BY <1>2, <1>6
<1> QED
  BY <1>2, <1>3, <1>4, <1>12, <1>13 DEF c

-----------------------------------------------------------------------------
(* The history and the weights                                              *)

\* What the history of a sampler and the weights owe each other after k steps.
MatchesAfter(s, w, k) ==
    /\ Counted(s)
    /\ \A t \in Task : s.history[t].groups <= k
    /\ GroupsTried(s) <= MaxCandidates * k
    /\ \A r \in Rank : TargetGroups * Cardinality(w[r]) <= GroupsInformative(s)
    /\ GroupsInformative(s) <= TargetGroups * k

Attempted(s, t) == \E i \in 1..Len(s.attempted) : s.attempted[i] = t

\* The same while the groups of step k are collected: the step has so far tried the
\* candidates in attempted, one group for each, and found the informative ones.
MatchesIn(s, w, k) ==
    /\ Counted(s)
    /\ s.informative <= TargetGroups
    /\ Len(s.attempted) <= MaxCandidates
    /\ \A t \in Task : s.history[t].groups <= k - 1 \/ (Attempted(s, t) /\ s.history[t].groups <= k)
    /\ GroupsTried(s) <= MaxCandidates * (k - 1) + Len(s.attempted)
    /\ \A r \in Rank :
           TargetGroups * Cardinality(w[r]) + s.informative <= GroupsInformative(s)
    /\ GroupsInformative(s) <= TargetGroups * (k - 1) + s.informative

\* In memory, and in the checkpoint that a resume would load.
HistoryInv ==
    /\ IF pc = "collect" THEN MatchesIn(sampler, weights, step)
       ELSE MatchesAfter(sampler, weights, step)
    /\ tracker.step > 0 /\ Loadable(tracker.step) =>
           MatchesAfter(disk[tracker.step].sampler, disk[tracker.step].shard, tracker.step)

LEMMA LimitsAreNat ==
    TargetGroups \in Nat /\ MaxCandidates \in Nat /\ TargetGroups <= MaxCandidates
  BY LimitsAssumption

\* The products that bound the counts are numbers, and grow with the step.
LEMMA Products ==
    ASSUME NEW a \in Nat, NEW k \in Nat
    PROVE  /\ a * k \in Nat /\ a * 0 = 0 /\ a * (k + 1) = a * k + a
           /\ k > 0 => a * (k - 1) \in Nat /\ a * (k - 1) + a = a * k
  BY SMT

LEMMA FiniteWeights ==
    ASSUME NEW w \in Weights
    PROVE  IsFiniteSet(w) /\ Cardinality(w) \in Nat
<1>1. IsFiniteSet(0..MaxCrashes) /\ IsFiniteSet(Step)
  BY StepsAreNat, TrainerAssumption, FS_Interval DEF Step
<1>2. IsFiniteSet((0..MaxCrashes) \X Step)
  BY <1>1, FS_Product
<1>3. IsFiniteSet(w)
  BY <1>2, FS_Subset DEF Weights
<1> QED
  BY <1>3, FS_CardinalityType

\* A new step has tried nothing yet.
LEMMA BeginMatches ==
    ASSUME NEW s \in Sampler, NEW w \in [Rank -> Weights], NEW k \in Nat,
           s.draws + 1 \in Step, MatchesAfter(s, w, k),
           NEW n, n = BeginUpdate(s, k + 1)
    PROVE  MatchesIn(n, w, k + 1)
<1>1. n.attempted = <<>> /\ n.informative = 0 /\ n.history = s.history
  BY BeginUpdateType DEF BeginUpdate, Sampler
<1>2. /\ GroupsTried(n) = GroupsTried(s) /\ GroupsInformative(n) = GroupsInformative(s)
      /\ Counted(n)
  BY <1>1, SameCounts DEF MatchesAfter
<1>3. k + 1 - 1 = k /\ 0 <= TargetGroups /\ 0 <= MaxCandidates /\ Len(n.attempted) = 0
  BY <1>1, LimitsAreNat
<1>4. MaxCandidates * k \in Nat /\ TargetGroups * k \in Nat
  BY LimitsAreNat, Products
<1>5. \A r \in Rank : TargetGroups * Cardinality(w[r]) \in Nat
  BY LimitsAreNat, Products, FiniteWeights
<1>6. \A t \in Task : n.history[t].groups <= k + 1 - 1
  BY <1>1, <1>3 DEF MatchesAfter
<1>7. GroupsTried(n) <= MaxCandidates * (k + 1 - 1) + Len(n.attempted)
  BY <1>2, <1>3, <1>4 DEF MatchesAfter
<1>8. GroupsInformative(n) <= TargetGroups * (k + 1 - 1) + n.informative
  BY <1>1, <1>2, <1>3, <1>4 DEF MatchesAfter
<1>9. \A r \in Rank : TargetGroups * Cardinality(w[r]) + n.informative <= GroupsInformative(n)
  BY <1>1, <1>2, <1>5 DEF MatchesAfter
<1> QED
  BY <1>1, <1>2, <1>3, <1>6, <1>7, <1>8, <1>9 DEF MatchesIn

\* A candidate of step k has not been attempted in it.
LEMMA CandidateIsNew ==
    ASSUME NEW s \in Sampler, HasCandidate(s), NEW k \in Step,
           s.order = CandidateOrder[k], s.attempted = SubSeq(s.order, 1, s.cursor)
    PROVE  Candidate(s) \in Task /\ ~Attempted(s, Candidate(s))
<1> DEFINE p == s.order
           n == s.cursor
<1>1. p \in Seq(Task) /\ n \in Nat /\ n < Len(p) /\ Len(p) \in Nat /\ p = CandidateOrder[k]
  BY DEF HasCandidate, Sampler
<1>2. s.attempted = SubSeq(p, 1, n) /\ Candidate(s) = p[n + 1]
  BY DEF Candidate
<1> HIDE DEF p, n
<1>3. /\ n + 1 \in 1..Len(p) /\ p[n + 1] \in Task /\ DOMAIN p = 1..Len(p)
      /\ \A i \in 1..n : i \in 1..Len(p) /\ i # n + 1
  BY <1>1
<1>4. Len(SubSeq(p, 1, n)) = n /\ \A i \in 1..n : SubSeq(p, 1, n)[i] = p[i]
  BY <1>1, SubSeqProperties
<1>5. \A i, j \in 1..Len(p) : p[i] = p[j] => i = j
  BY <1>1, <1>3, OrderAssumption
<1>6. \A i \in 1..n : p[i] # p[n + 1]
  BY <1>3, <1>5
<1> QED
  BY <1>2, <1>3, <1>4, <1>6 DEF Attempted

\* One turn tries one group more, of a task that the step has not tried.
LEMMA TurnMatches ==
    ASSUME NEW s \in Sampler, HasCandidate(s), NEW k \in Step, NEW w \in [Rank -> Weights],
           s.order = CandidateOrder[k], s.attempted = SubSeq(s.order, 1, s.cursor),
           MatchesIn(s, w, k),
           NEW g, NEW n, n = RecordGroup(TakeCandidate(s), Candidate(s), g, k)
    PROVE  MatchesIn(n, w, k)
<1> DEFINE c == Candidate(s)
           m == Len(s.attempted)
<1>1. c \in Task /\ ~Attempted(s, c)
  BY CandidateIsNew
<1>2. k \in Nat /\ k > 0 /\ k \in 0..MaxStep
  BY StepsAreNat DEF Step
<1>3. /\ \A t \in Task : n.history[t].groups =
                IF t = c THEN s.history[t].groups + 1 ELSE s.history[t].groups
      /\ Counted(n) /\ GroupsTried(n) = GroupsTried(s) + 1
  BY <1>2, TurnCounts DEF MatchesIn
<1>4. PICK d \in {0, 1} :
          n.informative = s.informative + d /\ GroupsInformative(n) = GroupsInformative(s) + d
  BY <1>2, TurnCounts DEF MatchesIn
<1>5. n.attempted = Append(s.attempted, c)
  BY <1>2, TurnAttempts, Zenon
<1> HIDE DEF c
<1>6. /\ s.attempted \in Seq(Task) /\ m \in Nat /\ s.informative \in Nat
      /\ \A t \in Task : s.history[t].groups \in Nat
  <2>1. /\ s.attempted \in Seq(Task) /\ s.informative \in Nat
        /\ s.history \in [Task -> History]
    BY DEF Sampler
  <2> QED
    BY <2>1 DEF History
<1>7. Len(n.attempted) = m + 1 /\ n.attempted[m + 1] = c
      /\ \A i \in 1..m : n.attempted[i] = s.attempted[i]
  BY <1>1, <1>5, <1>6, AppendProperties
<1>8. /\ m < MaxCandidates /\ s.informative < TargetGroups
  BY DEF HasCandidate
<1> HIDE DEF m
<1>9. Attempted(n, c) /\ \A t \in Task : Attempted(s, t) => Attempted(n, t)
  <2>1. m + 1 \in 1..(m + 1) /\ \A i \in 1..m : i \in 1..(m + 1)
    BY <1>6
  <2> QED
    BY <2>1, <1>7 DEF Attempted, m
<1>10. \A t \in Task : n.history[t].groups <= k - 1 \/ (Attempted(n, t) /\ n.history[t].groups <= k)
  <2> SUFFICES ASSUME NEW t \in Task
               PROVE  n.history[t].groups <= k - 1 \/ (Attempted(n, t) /\ n.history[t].groups <= k)
    OBVIOUS
  <2>1. s.history[t].groups <= k - 1 \/ (Attempted(s, t) /\ s.history[t].groups <= k)
    BY DEF MatchesIn
  <2>2. CASE t = c
    <3>1. s.history[t].groups <= k - 1
      BY <1>1, <2>1, <2>2
    <3> QED
      BY <1>2, <1>3, <1>6, <1>9, <2>2, <3>1
  <2>3. CASE t # c
    BY <1>3, <1>9, <2>1, <2>3
  <2> QED
    BY <2>2, <2>3
<1>11. /\ GroupsTried(s) \in Nat /\ GroupsInformative(s) \in Nat
       /\ MaxCandidates * (k - 1) \in Nat /\ TargetGroups * (k - 1) \in Nat
       /\ \A r \in Rank : TargetGroups * Cardinality(w[r]) \in Nat
       /\ TargetGroups \in Nat /\ MaxCandidates \in Nat
  BY <1>2, LimitsAreNat, Products, FiniteWeights, CountsType DEF MatchesIn
<1>12. GroupsTried(n) <= MaxCandidates * (k - 1) + (m + 1)
  <2>1. GroupsTried(s) <= MaxCandidates * (k - 1) + m
    BY DEF MatchesIn, m
  <2> QED
    BY <2>1, <1>3, <1>6, <1>11
<1>13. GroupsInformative(n) <= TargetGroups * (k - 1) + n.informative
  <2>1. GroupsInformative(s) <= TargetGroups * (k - 1) + s.informative
    BY DEF MatchesIn
  <2> QED
    BY <2>1, <1>4, <1>6, <1>11
<1>14. ASSUME NEW r \in Rank
       PROVE  TargetGroups * Cardinality(w[r]) + n.informative <= GroupsInformative(n)
  <2>1. TargetGroups * Cardinality(w[r]) + s.informative <= GroupsInformative(s)
    BY DEF MatchesIn
  <2>2. \A x, a, b, e \in Nat : x + a <= b => x + (a + e) <= b + e
    OBVIOUS
  <2>3. TargetGroups * Cardinality(w[r]) \in Nat /\ s.informative \in Nat
        /\ GroupsInformative(s) \in Nat /\ d \in Nat
    BY <1>6, <1>11
  <2>4. TargetGroups * Cardinality(w[r]) + (s.informative + d) <= GroupsInformative(s) + d
    BY <2>1, <2>2, <2>3, Zenon
  <2> QED
    BY <2>4, <1>4, Zenon
<1>15. n.informative <= TargetGroups /\ m + 1 <= MaxCandidates
  BY <1>4, <1>6, <1>8, <1>11
<1> QED
  BY <1>3, <1>7, <1>10, <1>12, <1>13, <1>14, <1>15 DEF MatchesIn


\* A step may end wherever its collection stands.
LEMMA EndMatches ==
    ASSUME NEW s \in Sampler, NEW k \in Step, NEW w \in [Rank -> Weights], MatchesIn(s, w, k)
    PROVE  MatchesAfter(s, w, k)
<1>1. k \in Nat /\ k > 0
  BY StepsAreNat DEF Step
<1>2. /\ TargetGroups \in Nat /\ MaxCandidates \in Nat
      /\ GroupsTried(s) \in Nat /\ GroupsInformative(s) \in Nat
      /\ \A r \in Rank : TargetGroups * Cardinality(w[r]) \in Nat
      /\ s.informative \in Nat /\ Len(s.attempted) \in Nat
      /\ \A t \in Task : s.history[t].groups \in Nat
  BY LimitsAreNat, Products, FiniteWeights, CountsType DEF MatchesIn, Sampler, History
<1>3. /\ MaxCandidates * (k - 1) \in Nat /\ MaxCandidates * (k - 1) + MaxCandidates = MaxCandidates * k
      /\ TargetGroups * (k - 1) \in Nat /\ TargetGroups * (k - 1) + TargetGroups = TargetGroups * k
  BY <1>1, <1>2, Products
<1>4. \A a, b, c, e \in Nat : a <= b + c /\ c <= e => a <= b + e
  OBVIOUS
<1>5. \A a, b, c \in Nat : a + b <= c => a <= c
  OBVIOUS
<1>6. \A t \in Task : s.history[t].groups <= k
  BY <1>1, <1>2 DEF MatchesIn
<1>7. GroupsTried(s) <= MaxCandidates * k
  BY <1>2, <1>3, <1>4, Zenon DEF MatchesIn
<1>8. GroupsInformative(s) <= TargetGroups * k
  BY <1>2, <1>3, <1>4, Zenon DEF MatchesIn
<1>9. \A r \in Rank : TargetGroups * Cardinality(w[r]) <= GroupsInformative(s)
  BY <1>2, <1>5, Zenon DEF MatchesIn
<1> QED
  BY <1>6, <1>7, <1>8, <1>9, Zenon DEF MatchesAfter, MatchesIn

\* One more update of every rank is paid for by the TargetGroups informative groups of
\* the step.
LEMMA TrainMatches ==
    ASSUME NEW s \in Sampler, NEW k \in Step, NEW w \in [Rank -> Weights], MatchesIn(s, w, k),
           ~Underfilled(s), NEW u, NEW x, x = [r \in Rank |-> w[r] \cup {u}]
    PROVE  MatchesAfter(s, x, k)
<1>1. s.informative = TargetGroups
  BY LimitsAreNat DEF Underfilled, MatchesIn, Sampler
<1>2. MatchesAfter(s, w, k)
  BY EndMatches
<1>3. ASSUME NEW r \in Rank
      PROVE  TargetGroups * Cardinality(x[r]) <= GroupsInformative(s)
  <2>1. w[r] \in Weights
    OBVIOUS
  <2>2. IsFiniteSet(w[r]) /\ Cardinality(w[r]) \in Nat
    BY <2>1, FiniteWeights
  <2>3. Cardinality(x[r]) = Cardinality(w[r]) \/ Cardinality(x[r]) = Cardinality(w[r]) + 1
    BY <2>2, FS_AddElement
  <2>4. TargetGroups * Cardinality(w[r]) + TargetGroups <= GroupsInformative(s)
    BY <1>1 DEF MatchesIn
  <2>5. TargetGroups * (Cardinality(w[r]) + 1) = TargetGroups * Cardinality(w[r]) + TargetGroups
    BY <2>2, LimitsAreNat, Products
  <2>6. TargetGroups * Cardinality(w[r]) <= GroupsInformative(s)
    BY <1>2 DEF MatchesAfter
  <2> QED
    BY <2>3, <2>4, <2>5, <2>6, Zenon
<1> QED
  BY <1>2, <1>3 DEF MatchesAfter

\* Nothing was tried before the first step.
LEMMA FreshMatches == MatchesAfter(NewSampler, NoWeights, 0)
<1>1. \A r \in Rank : Cardinality(NoWeights[r]) = 0
  BY FS_EmptySet DEF NoWeights
<1>2. TargetGroups * 0 = 0 /\ MaxCandidates * 0 = 0
  BY LimitsAreNat, Products
<1> QED
  BY <1>1, <1>2, NewCounts DEF MatchesAfter


\* The removal of a directory leaves it unloadable, if it does not leave it alone.
LEMMA RemoveUnloads ==
    ASSUME Base, NEW r \in Rank, RemoveOld(r), NEW k \in Step
    PROVE  \/ disk'[k] = disk[k]
           \/ disk'[k].shard = EmptyDirectory.shard /\ ~Loadable(k)'
<1> DEFINE e == [disk[k] EXCEPT !.shard = EmptyDirectory.shard]
<1>1. disk[k] \in Directory /\ e.shard = EmptyDirectory.shard
  BY EmptyShardType, SetShard DEF Base, TypeOK
<1>2. disk'[k] = disk[k] \/ disk'[k] = e
  BY DEF RemoveOld
<1> HIDE DEF e
<1>3. disk'[k].shard = EmptyDirectory.shard => ~Loadable(k)'
  <2>1. \A q \in Rank : EmptyDirectory.shard[q] = NoShard
    BY DEF EmptyDirectory
  <2> QED
    BY <2>1, TrainerAssumption DEF Loadable
<1> QED
  BY <1>1, <1>2, <1>3

\* What a checkpoint holds keeps matching while it is the one that the tracker file names.
LEMMA SavedMatchesStep ==
    ASSUME Base, Exact, HistoryInv, Next, tracker'.step > 0, Loadable(tracker.step)'
    PROVE  MatchesAfter(disk'[tracker'.step].sampler, disk'[tracker'.step].shard, tracker'.step)
<1>1. CASE OpenTracker
  <2>1. /\ pc = "state" /\ disk' = disk /\ tracker'.step = step
    BY <1>1 DEF OpenTracker
  <2>2. disk[step].shard = weights /\ disk[step].sampler = sampler
    BY <2>1 DEF Exact, Written
  <2>3. MatchesAfter(sampler, weights, step)
    BY <2>1 DEF HistoryInv
  <2> QED
    BY <2>1, <2>2, <2>3
<1>2. CASE ~OpenTracker
  <2>1. tracker'.step = tracker.step /\ tracker.step \in Step
    BY <1>2, NamedStable, StepsAreNat DEF Base, TypeOK, Step
  <2> DEFINE k == tracker.step
  <2>2. Loadable(k)' <=> /\ \A r \in Rank : disk'[k].shard[r] # NoShard
                        /\ disk'[k].sampler # None
    BY <2>1 DEF Loadable
  <2>3. disk'[k] = disk[k]
    BY <1>2, <2>1, NamedStable, RemoveUnloads
  <2>4. Loadable(k)
    BY <2>2, <2>3 DEF Loadable
  <2>5. MatchesAfter(disk[k].sampler, disk[k].shard, k)
    BY <2>1, <2>4 DEF HistoryInv
  <2> QED
    BY <2>1, <2>3, <2>5
<1> QED
  BY <1>1, <1>2


\* What memory holds keeps matching.
LEMMA LiveMatchesStep ==
    ASSUME Base, Exact, ReplaysCandidates, HistoryInv, [Next]_vars
    PROVE  IF pc' = "collect" THEN MatchesIn(sampler', weights', step')
           ELSE MatchesAfter(sampler', weights', step')
<1> DEFINE Goal == IF pc' = "collect" THEN MatchesIn(sampler', weights', step')
                   ELSE MatchesAfter(sampler', weights', step')
<1> USE DEF memory
<1>0. /\ sampler \in Sampler /\ weights \in [Rank -> Weights] /\ step \in Nat
      /\ pc = "collect" => step \in Step /\ MatchesIn(sampler, weights, step)
      /\ pc # "collect" => MatchesAfter(sampler, weights, step)
  BY StepsAreNat DEF Base, TypeOK, SavesStep, Step, HistoryInv
<1>1. CASE BeginStep
  <2>1. /\ pc # "collect" /\ pc' = "collect" /\ step' = step + 1 /\ weights' = weights
        /\ sampler' = BeginUpdate(sampler, step + 1)
    BY <1>1 DEF BeginStep
  <2>2. sampler.draws + 1 \in Step
    BY <1>1, BeginStepFacts DEF Base, DrawnOnce
  <2> QED
    BY <1>0, <2>1, <2>2, BeginMatches
<1>2. CASE CollectGroup
  <2>1. /\ pc = "collect" /\ pc' = pc /\ step' = step /\ weights' = weights
        /\ HasCandidate(sampler)
    BY <1>2 DEF CollectGroup
  <2>2. PICK g \in Group :
            sampler' = RecordGroup(TakeCandidate(sampler), Candidate(sampler), g, step)
    BY <1>2 DEF CollectGroup
  <2>3. /\ sampler.order = CandidateOrder[step]
        /\ sampler.attempted = SubSeq(sampler.order, 1, sampler.cursor)
    BY <2>1 DEF ReplaysCandidates
  <2>4. MatchesIn(sampler', weights, step)
    BY <1>0, <2>1, <2>2, <2>3, TurnMatches
  <2> QED
    BY <2>1, <2>4
<1>3. CASE Update
  <2>1. /\ pc = "collect" /\ pc' # "collect" /\ step' = step /\ sampler' = sampler
        /\ \/ weights' = weights
           \/ /\ ~Underfilled(sampler)
              /\ weights' = [r \in Rank |-> weights[r] \cup {<<crashes, step>>}]
    BY <1>3 DEF Update
  <2>2. CASE weights' = weights
    BY <1>0, <2>1, <2>2, EndMatches
  <2>3. CASE /\ ~Underfilled(sampler)
             /\ weights' = [r \in Rank |-> weights[r] \cup {<<crashes, step>>}]
    BY <1>0, <2>1, <2>3, TrainMatches
  <2> QED
    BY <2>1, <2>2, <2>3
<1>4. CASE Finish
  BY <1>0, <1>4 DEF Finish
<1>5. ASSUME NEW r \in Rank, RemoveOld(r) \/ WriteShard(r) PROVE Goal
  BY <1>0, <1>5 DEF RemoveOld, WriteShard
<1>6. CASE ShardsSaved \/ WriteData \/ WriteState \/ OpenTracker \/ WriteTracker
  BY <1>0, <1>6 DEF ShardsSaved, WriteData, WriteState, OpenTracker, WriteTracker
<1>7. CASE Crash
  BY <1>7, FreshMatches DEF Crash
<1>8. CASE StartFromScratch
  BY <1>0, <1>8 DEF StartFromScratch
<1>9. CASE LoadCheckpoint
  <2>1. /\ pc' = "loaded" /\ tracker.step > 0 /\ Loadable(tracker.step)
        /\ step' = tracker.step /\ weights' = disk[tracker.step].shard
        /\ sampler' = disk[tracker.step].sampler
    BY <1>9 DEF LoadCheckpoint
  <2> QED
    BY <2>1 DEF HistoryInv
<1>10. CASE UNCHANGED vars
  BY <1>0, <1>10 DEF vars
<1> QED
  BY <1>1, <1>2, <1>3, <1>4, <1>5, <1>6, <1>7, <1>8, <1>9, <1>10 DEF Next

LEMMA HistoryStep == Base /\ Exact /\ ReplaysCandidates /\ HistoryInv /\ [Next]_vars => HistoryInv'
<1> SUFFICES ASSUME Base, Exact, ReplaysCandidates, HistoryInv, [Next]_vars PROVE HistoryInv'
  OBVIOUS
<1>1. IF pc' = "collect" THEN MatchesIn(sampler', weights', step')
      ELSE MatchesAfter(sampler', weights', step')
  BY LiveMatchesStep
<1>2. ASSUME tracker'.step > 0, Loadable(tracker.step)'
      PROVE  MatchesAfter(disk'[tracker'.step].sampler, disk'[tracker'.step].shard, tracker'.step)
  <2>1. CASE Next
    BY <1>2, <2>1, SavedMatchesStep
  <2>2. CASE UNCHANGED vars
    <3>1. disk' = disk /\ tracker' = tracker
      BY <2>2 DEF vars
    <3>2. Loadable(tracker.step)
      BY <1>2, <3>1 DEF Loadable
    <3> QED
      BY <1>2, <3>1, <3>2 DEF HistoryInv
  <2> QED
    BY <2>1, <2>2
<1> QED
  BY <1>1, <1>2 DEF HistoryInv

LEMMA HistoryInit == Init => HistoryInv
  BY FreshMatches DEF Init, HistoryInv

\* Also after a resume, and with a single checkpoint kept, the task history fits the
\* weights: it holds the informative groups that each update was computed from, and no
\* task and no step has more groups than its steps allow.
THEOREM HistoryFitsWeights == Spec => []HistoryMatchesWeights
<1>1. Base /\ HistoryInv => HistoryMatchesWeights
  <2> SUFFICES ASSUME Base, HistoryInv PROVE HistoryMatchesWeights
    OBVIOUS
  <2>1. /\ sampler \in Sampler /\ weights \in [Rank -> Weights]
        /\ pc = "collect" => step \in Step
    BY StepsAreNat DEF Base, TypeOK, SavesStep, Step
  <2>2. MatchesAfter(sampler, weights, step)
    BY <2>1, EndMatches DEF HistoryInv
  <2> QED
    BY <2>2 DEF MatchesAfter, HistoryMatchesWeights
<1> QED
  BY <1>1, AlwaysExact, CandidatesReplayed, HistoryInit, HistoryStep, PTL DEF Spec


-----------------------------------------------------------------------------
(* The directories that are kept                                            *)

Present == {k \in Step : disk[k].shard # EmptyDirectory.shard}

\* The directories that rank r will remove in time: those it remembers, and the one it
\* is writing.
Paths(r) == {savedPaths[r][i] : i \in 1..Len(savedPaths[r])}
Mine(r) == Paths(r) \cup (IF rankPc[r] = "idle" THEN {} ELSE {step})
Foreign(r) == Present \ Mine(r)

\* Each process before this one has left at most Keep directories.
KeepInv ==
    \A r \in Rank :
        /\ Len(savedPaths[r]) <= IF rankPc[r] = "idle" THEN Keep ELSE Keep - 1
        /\ Cardinality(Foreign(r)) <= Keep * crashes

LEMMA KeepIsNat == Keep \in Nat /\ Keep > 0
  BY TrainerAssumption

LEMMA StepsAreFinite ==
    \A S \in SUBSET Step : IsFiniteSet(S) /\ Cardinality(S) \in Nat
<1>1. IsFiniteSet(Step)
  BY StepsAreNat, FS_Interval DEF Step
<1> QED
  BY <1>1, FS_Subset, FS_CardinalityType

\* A sequence has no more values than places.
LEMMA ValuesBounded ==
    ASSUME NEW p \in Seq(Step)
    PROVE  /\ {p[i] : i \in 1..Len(p)} \subseteq Step
           /\ Cardinality({p[i] : i \in 1..Len(p)}) <= Len(p)
<1> DEFINE S == {p[i] : i \in 1..Len(p)}
           f == [i \in 1..Len(p) |-> p[i]]
<1>1. Len(p) \in Nat
  OBVIOUS
<1>2. IsFiniteSet(1..Len(p)) /\ Cardinality(1..Len(p)) = Len(p)
  BY <1>1, FS_Interval
<1>3. f \in Surjection(1..Len(p), S)
  BY DEF Surjection
<1>4. Cardinality(S) <= Cardinality(1..Len(p))
  BY <1>2, <1>3, FS_Surjection
<1>5. S \subseteq Step
  OBVIOUS
<1> QED
  BY <1>2, <1>4, <1>5

\* What a rank remembers and writes is at most Keep directories.
LEMMA MineBounded ==
    ASSUME Base, KeepInv, NEW r \in Rank
    PROVE  IsFiniteSet(Mine(r)) /\ Cardinality(Mine(r)) \in Nat /\ Cardinality(Mine(r)) <= Keep
<1>1. savedPaths[r] \in Seq(Step) /\ Len(savedPaths[r]) \in Nat
  BY DEF Base, TypeOK
<1>2. Paths(r) \subseteq Step /\ Cardinality(Paths(r)) <= Len(savedPaths[r])
  BY <1>1, ValuesBounded DEF Paths
<1>3. IsFiniteSet(Paths(r)) /\ Cardinality(Paths(r)) \in Nat
  BY <1>2, StepsAreFinite
<1>4. CASE rankPc[r] = "idle"
  <2>1. Mine(r) = Paths(r) /\ Len(savedPaths[r]) <= Keep
    BY <1>4 DEF Mine, KeepInv
  <2> QED
    BY <2>1, <1>1, <1>2, <1>3, KeepIsNat
<1>5. CASE rankPc[r] # "idle"
  <2>1. Mine(r) = Paths(r) \cup {step} /\ Len(savedPaths[r]) <= Keep - 1
    BY <1>5 DEF Mine, KeepInv
  <2>2. /\ IsFiniteSet(Mine(r))
        /\ Cardinality(Mine(r)) = Cardinality(Paths(r)) \/ Cardinality(Mine(r)) = Cardinality(Paths(r)) + 1
    <3>1. /\ IsFiniteSet(Paths(r) \cup {step})
          /\ Cardinality(Paths(r) \cup {step}) =
                 IF step \in Paths(r) THEN Cardinality(Paths(r)) ELSE Cardinality(Paths(r)) + 1
      BY <1>3, FS_AddElement, Zenon
    <3> QED
      BY <2>1, <3>1
  <2>3. \A a, b, l \in Nat : a <= l /\ l <= Keep - 1 /\ (b = a \/ b = a + 1) => b <= Keep
    BY KeepIsNat
  <2>4. Cardinality(Mine(r)) \in Nat
    BY <1>3, <2>2
  <2> DEFINE a == Cardinality(Paths(r))
             b == Cardinality(Mine(r))
             l == Len(savedPaths[r])
  <2>5. /\ a \in Nat /\ b \in Nat /\ l \in Nat /\ a <= l /\ l <= Keep - 1
        /\ b = a \/ b = a + 1
    BY <2>1, <2>2, <2>4, <1>1, <1>2, <1>3
  <2> HIDE DEF a, b, l
  <2>6. b <= Keep
    BY <2>3, <2>5
  <2> QED
    BY <2>2, <2>4, <2>6 DEF b
<1> QED
  BY <1>4, <1>5

\* So one more process than have crashed accounts for all of them.
LEMMA PresentBounded ==
    ASSUME Base, KeepInv
    PROVE  Cardinality(Present) <= Keep * (crashes + 1)
<1>1. PICK r : r \in Rank
  BY TrainerAssumption
<1>2. IsFiniteSet(Mine(r)) /\ Cardinality(Mine(r)) \in Nat /\ Cardinality(Mine(r)) <= Keep
  BY <1>1, MineBounded
<1>3. Present \subseteq Step /\ Foreign(r) \subseteq Step
  BY DEF Present, Foreign
<1>4. IsFiniteSet(Foreign(r)) /\ Cardinality(Foreign(r)) \in Nat /\ Cardinality(Present) \in Nat
  BY <1>3, StepsAreFinite
<1> DEFINE all == Foreign(r) \cup Mine(r)
<1>5. Present \subseteq all
  BY DEF Foreign
<1>6. IsFiniteSet(all)
      /\ Cardinality(all) = Cardinality(Foreign(r)) + Cardinality(Mine(r)) - Cardinality(Foreign(r) \cap Mine(r))
  BY <1>2, <1>4, FS_Union
<1>7. Foreign(r) \cap Mine(r) = {}
  BY DEF Foreign
<1>8. Cardinality(Foreign(r) \cap Mine(r)) = 0
  BY <1>7, FS_EmptySet
<1>9. Cardinality(Present) <= Cardinality(all)
  BY <1>5, <1>6, FS_Subset
<1>10. Cardinality(Present) <= Cardinality(Foreign(r)) + Cardinality(Mine(r))
  BY <1>2, <1>4, <1>6, <1>8, <1>9
<1>11. Cardinality(Foreign(r)) <= Keep * crashes
  BY <1>1 DEF KeepInv
<1>12. Keep * crashes \in Nat /\ Keep * (crashes + 1) = Keep * crashes + Keep
  BY KeepIsNat, Products, TrainerAssumption DEF Base, TypeOK
<1> QED
  BY <1>2, <1>4, <1>10, <1>11, <1>12, KeepIsNat

\* A step that leaves the shards and the paths alone, and moves on to another step only
\* between two saves, makes no directory foreign.
LEMMA SameForeign ==
    ASSUME \A k \in Step : disk'[k].shard = disk[k].shard, savedPaths' = savedPaths,
           rankPc' = rankPc, NEW q \in Rank, step' = step \/ rankPc[q] = "idle"
    PROVE  Foreign(q)' = Foreign(q)
<1>1. Present' = Present
  BY DEF Present
<1>2. Mine(q)' = Mine(q)
  BY DEF Mine, Paths
<1> QED
  BY <1>1, <1>2 DEF Foreign

LEMMA RemoveKeeps ==
    ASSUME Base, NEW r \in Rank, RemoveOld(r), NEW q \in Rank
    PROVE  Foreign(q)' \subseteq Foreign(q)
<1>1. /\ step' = step /\ rankPc[r] = "idle" /\ \A p \in Rank \ {r} : rankPc'[p] = rankPc[p]
      /\ Len(savedPaths[r]) \in Nat
  BY DEF RemoveOld, memory, Base, TypeOK
<1>2. PICK old \in Nat :
          /\ old = Removable(r) /\ old <= Len(savedPaths[r])
          /\ \A p \in Rank \ {r} : savedPaths'[p] = savedPaths[p]
          /\ Len(savedPaths'[r]) = Len(savedPaths[r]) - old
          /\ \A i \in 1..(Len(savedPaths[r]) - old) : savedPaths'[r][i] = savedPaths[r][i + old]
  BY RemoveFacts
<1>3. ASSUME NEW k \in Present'
      PROVE  k \in Present /\ \A j \in 1..old : savedPaths[r][j] # k
  <2>1. k \in Step /\ disk'[k].shard # EmptyDirectory.shard
    BY DEF Present
  <2> DEFINE e == [disk[k] EXCEPT !.shard = EmptyDirectory.shard]
  <2>2. disk'[k] = IF \E j \in 1..old : savedPaths[r][j] = k THEN e ELSE disk[k]
    BY <1>2, <2>1 DEF RemoveOld
  <2>3. e.shard = EmptyDirectory.shard
    BY <2>1, EmptyShardType, SetShard DEF Base, TypeOK
  <2> HIDE DEF e
  <2> QED
    BY <2>1, <2>2, <2>3 DEF Present
<1>4. CASE q # r
  <2>1. Mine(q)' = Mine(q)
    BY <1>1, <1>2, <1>4 DEF Mine, Paths
  <2> QED
    BY <1>3, <2>1 DEF Foreign
<1>5. CASE q = r
  <2> SUFFICES ASSUME NEW k \in Foreign(r)' PROVE k \in Foreign(r)
    BY <1>5
  <2>1. k \in Present' /\ k \notin Mine(r)'
    BY DEF Foreign
  <2>2. ASSUME NEW i \in 1..Len(savedPaths[r]) PROVE savedPaths[r][i] # k
    <3>1. CASE i \in 1..old
      BY <1>3, <2>1, <3>1
    <3>2. CASE i \notin 1..old
      <4>1. /\ i - old \in 1..Len(savedPaths'[r]) /\ i - old \in 1..(Len(savedPaths[r]) - old)
            /\ (i - old) + old = i
        BY <1>1, <1>2, <3>2
      <4>2. savedPaths'[r][i - old] = savedPaths[r][i]
        BY <1>2, <4>1
      <4>3. savedPaths'[r][i - old] \in Paths(r)'
        BY <4>1 DEF Paths
      <4> QED
        BY <2>1, <4>2, <4>3 DEF Mine
    <3> QED
      BY <3>1, <3>2
  <2>3. k \notin Mine(r)
    BY <1>1, <2>2 DEF Mine, Paths
  <2> QED
    BY <1>3, <2>1, <2>3 DEF Foreign
<1> QED
  BY <1>4, <1>5


LEMMA WriteKeeps ==
    ASSUME Base, NEW r \in Rank, WriteShard(r), NEW q \in Rank
    PROVE  Foreign(q)' \subseteq Foreign(q)
<1>1. /\ step' = step /\ savedPaths' = savedPaths /\ rankPc[q] # "idle"
      /\ rankPc' = [rankPc EXCEPT ![r] = "written"]
      /\ rankPc \in [Rank -> {"idle", "made", "written"}]
  BY DEF WriteShard, memory, Base, TypeOK
<1>2. rankPc'[q] # "idle"
  BY <1>1
<1>3. Mine(q)' = Mine(q) /\ step \in Mine(q)
  BY <1>1, <1>2 DEF Mine, Paths
<1>4. \A k \in Step : k # step => disk'[k] = disk[k]
  BY WriteShardFacts
<1> QED
  BY <1>3, <1>4 DEF Foreign, Present

LEMMA NoteKeeps ==
    ASSUME Base, ShardsSaved, NEW q \in Rank
    PROVE  Foreign(q)' = Foreign(q) /\ Len(savedPaths'[q]) = Len(savedPaths[q]) + 1
<1>1. /\ step' = step /\ disk' = disk /\ rankPc[q] = "written" /\ rankPc'[q] = "idle"
      /\ savedPaths'[q] = Append(savedPaths[q], step) /\ savedPaths[q] \in Seq(Step)
      /\ Len(savedPaths[q]) \in Nat
  BY DEF ShardsSaved, memory, Base, TypeOK
<1>2. step \in Step
  BY StepsAreNat DEF ShardsSaved, Base, TypeOK, SavesStep, Step
<1>3. /\ Len(savedPaths'[q]) = Len(savedPaths[q]) + 1
      /\ \A i \in 1..Len(savedPaths[q]) : savedPaths'[q][i] = savedPaths[q][i]
      /\ savedPaths'[q][Len(savedPaths[q]) + 1] = step
  BY <1>1, <1>2, AppendProperties
<1>4. Paths(q)' = Paths(q) \cup {step}
  <2>1. \A i : i \in 1..(Len(savedPaths[q]) + 1) <=>
                   i \in 1..Len(savedPaths[q]) \/ i = Len(savedPaths[q]) + 1
    BY <1>1
  <2> QED
    BY <1>3, <2>1 DEF Paths
<1>5. Mine(q)' = Mine(q)
  BY <1>1, <1>4 DEF Mine
<1> QED
  BY <1>1, <1>3, <1>5 DEF Foreign, Present

\* No step but a crash makes a directory foreign to a rank.
LEMMA ForeignStep ==
    ASSUME Base, Exact, [Next]_vars, ~Crash, NEW q \in Rank
    PROVE  Foreign(q)' \subseteq Foreign(q)
<1> USE DEF memory
<1>0. pc # "save" => rankPc[q] = "idle"
  BY DEF Exact, Written
<1>1. CASE BeginStep \/ CollectGroup \/ Update \/ Finish \/ OpenTracker \/ WriteTracker
           \/ StartFromScratch \/ LoadCheckpoint
  <2>1. disk' = disk /\ savedPaths' = savedPaths /\ rankPc' = rankPc
    BY <1>1 DEF BeginStep, CollectGroup, Update, Finish, OpenTracker, WriteTracker,
                StartFromScratch, LoadCheckpoint
  <2>2. step' = step \/ pc # "save"
    BY <1>1 DEF BeginStep, CollectGroup, Update, Finish, OpenTracker, WriteTracker,
                StartFromScratch, LoadCheckpoint
  <2> QED
    BY <1>0, <2>1, <2>2, SameForeign
<1>2. ASSUME NEW r \in Rank, RemoveOld(r) PROVE Foreign(q)' \subseteq Foreign(q)
  BY <1>2, RemoveKeeps
<1>3. ASSUME NEW r \in Rank, WriteShard(r) PROVE Foreign(q)' \subseteq Foreign(q)
  BY <1>3, WriteKeeps
<1>4. CASE ShardsSaved
  BY <1>4, NoteKeeps
<1>5. CASE WriteData
  <2>1. \A k \in Step : disk'[k].shard = disk[k].shard
    BY <1>5, WriteDataFacts
  <2> QED
    BY <1>5, <2>1, SameForeign DEF WriteData
<1>6. CASE WriteState
  <2>1. \A k \in Step : disk'[k].shard = disk[k].shard
    BY <1>6, WriteStateFacts
  <2> QED
    BY <1>6, <2>1, SameForeign DEF WriteState
<1>7. CASE UNCHANGED vars
  BY <1>7, SameForeign DEF vars
<1> QED
  BY <1>1, <1>2, <1>3, <1>4, <1>5, <1>6, <1>7 DEF Next

\* No rank remembers more than Keep directories.
LEMMA LengthStep ==
    ASSUME Base, KeepInv, [Next]_vars, NEW q \in Rank
    PROVE  Len(savedPaths'[q]) <= IF rankPc'[q] = "idle" THEN Keep ELSE Keep - 1
<1>0. /\ Len(savedPaths[q]) <= IF rankPc[q] = "idle" THEN Keep ELSE Keep - 1
      /\ Len(savedPaths[q]) \in Nat /\ rankPc \in [Rank -> {"idle", "made", "written"}]
  BY DEF KeepInv, Base, TypeOK
<1>1. ASSUME NEW r \in Rank, RemoveOld(r)
      PROVE  Len(savedPaths'[q]) <= IF rankPc'[q] = "idle" THEN Keep ELSE Keep - 1
  <2>1. PICK old \in Nat :
            /\ old = Removable(r)
            /\ \A p \in Rank \ {r} : savedPaths'[p] = savedPaths[p]
            /\ Len(savedPaths'[r]) = Len(savedPaths[r]) - old
    BY <1>1, RemoveFacts
  <2>2. rankPc' = [rankPc EXCEPT ![r] = "made"]
    BY <1>1 DEF RemoveOld
  <2>3. CASE q # r
    BY <1>0, <2>1, <2>2, <2>3
  <2>4. CASE q = r
    <3>1. old = IF Len(savedPaths[q]) >= Keep THEN Len(savedPaths[q]) - Keep + 1 ELSE 0
      BY <2>1, <2>4 DEF Removable
    <3>2. Len(savedPaths[q]) - old <= Keep - 1
      BY <1>0, <3>1, KeepIsNat
    <3> QED
      BY <1>0, <2>1, <2>2, <2>4, <3>2
  <2> QED
    BY <2>3, <2>4
<1>2. ASSUME NEW r \in Rank, WriteShard(r)
      PROVE  Len(savedPaths'[q]) <= IF rankPc'[q] = "idle" THEN Keep ELSE Keep - 1
  <2>1. savedPaths' = savedPaths /\ rankPc' = [rankPc EXCEPT ![r] = "written"] /\ rankPc[r] = "made"
    BY <1>2 DEF WriteShard
  <2> QED
    BY <1>0, <2>1
<1>3. CASE ShardsSaved
  <2>1. rankPc[q] = "written" /\ rankPc'[q] = "idle"
    BY <1>3 DEF ShardsSaved
  <2> QED
    BY <1>0, <1>3, <2>1, NoteKeeps, KeepIsNat
<1>4. CASE Crash
  <2>1. savedPaths'[q] = <<>> /\ rankPc'[q] = "idle"
    BY <1>4 DEF Crash
  <2> QED
    BY <2>1, KeepIsNat
<1>5. CASE savedPaths' = savedPaths /\ rankPc' = rankPc
  BY <1>0, <1>5
<1>6. \/ savedPaths' = savedPaths /\ rankPc' = rankPc
      \/ ShardsSaved \/ Crash \/ \E r \in Rank : RemoveOld(r) \/ WriteShard(r)
  BY DEF Next, vars, BeginStep, CollectGroup, Update, Finish, WriteData, WriteState, OpenTracker,
         WriteTracker, StartFromScratch, LoadCheckpoint
<1> QED
  BY <1>1, <1>2, <1>3, <1>4, <1>5, <1>6

LEMMA KeepStep == Base /\ Exact /\ KeepInv /\ [Next]_vars => KeepInv'
<1> SUFFICES ASSUME Base, Exact, KeepInv, [Next]_vars, NEW q \in Rank
             PROVE  /\ Len(savedPaths'[q]) <= IF rankPc'[q] = "idle" THEN Keep ELSE Keep - 1
                    /\ Cardinality(Foreign(q)') <= Keep * crashes'
  BY DEF KeepInv
<1>1. Len(savedPaths'[q]) <= IF rankPc'[q] = "idle" THEN Keep ELSE Keep - 1
  BY LengthStep
<1>2. Foreign(q) \subseteq Step /\ Foreign(q)' \subseteq Step /\ Present \subseteq Step
  BY DEF Foreign, Present
<1>3. /\ Cardinality(Foreign(q)) \in Nat /\ Cardinality(Foreign(q)') \in Nat
      /\ IsFiniteSet(Foreign(q)) /\ IsFiniteSet(Present) /\ Cardinality(Present) \in Nat
  BY <1>2, StepsAreFinite
<1>4. CASE Crash
  <2>1. disk' = disk /\ crashes' = crashes + 1
    BY <1>4 DEF Crash
  <2>2. Foreign(q)' \subseteq Present
    BY <2>1 DEF Foreign, Present
  <2>3. Cardinality(Foreign(q)') <= Cardinality(Present)
    BY <1>3, <2>2, FS_Subset
  <2>4. Cardinality(Present) <= Keep * (crashes + 1)
    BY PresentBounded
  <2>5. Keep * (crashes + 1) \in Nat
    BY KeepIsNat, Products, TrainerAssumption DEF Base, TypeOK
  <2> QED
    BY <1>1, <1>3, <2>1, <2>3, <2>4, <2>5
<1>5. CASE ~Crash
  <2>1. crashes' = crashes
    BY <1>5 DEF Next, vars, BeginStep, CollectGroup, Update, Finish, RemoveOld, WriteShard,
                ShardsSaved, WriteData, WriteState, OpenTracker, WriteTracker, StartFromScratch,
                LoadCheckpoint
  <2>2. Cardinality(Foreign(q)') <= Cardinality(Foreign(q))
    BY <1>3, <1>5, ForeignStep, FS_Subset
  <2>3. Cardinality(Foreign(q)) <= Keep * crashes
    BY DEF KeepInv
  <2>4. Keep * crashes \in Nat
    BY KeepIsNat, Products, TrainerAssumption DEF Base, TypeOK
  <2> QED
    BY <1>1, <1>3, <2>1, <2>2, <2>3, <2>4
<1> QED
  BY <1>4, <1>5

LEMMA KeepInit == Init => KeepInv
<1> SUFFICES ASSUME Init, NEW r \in Rank
             PROVE  Len(savedPaths[r]) <= Keep /\ rankPc[r] = "idle"
                    /\ Cardinality(Foreign(r)) <= Keep * crashes
  BY DEF KeepInv
<1>1. savedPaths[r] = <<>> /\ rankPc[r] = "idle" /\ crashes = 0
  BY DEF Init
<1>2. Foreign(r) = {}
  BY DEF Init, Foreign, Present
<1> QED
  BY <1>1, <1>2, FS_EmptySet, KeepIsNat, Products

\* However often the run crashes and is resumed, each process leaves at most Keep
\* directories of actor checkpoints on the disk.
THEOREM KeptAreBounded == Spec => []KeepBound
<1>1. Base /\ KeepInv => KeepBound
  BY PresentBounded DEF Present, KeepBound
<1> QED
  BY <1>1, AlwaysExact, KeepInit, KeepStep, PTL DEF Spec

=============================================================================
