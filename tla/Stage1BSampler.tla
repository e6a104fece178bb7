---------------------------- MODULE Stage1BSampler ----------------------------
(***************************************************************************)
(* The candidate sampler of a Stage1B update                               *)
(* (verl/trainer/ppo/stage1b_sampling.py), as operators on a record that   *)
(* holds the fields of a Stage1BSampler.  A group is what the rollouts of  *)
(* one task came to: how many were solved (reward 1), failed (reward 0) or *)
(* have no valid reward.  The seeded generator is a function of how often  *)
(* it was drawn from: CandidateOrder[k] is the k-th permutation it yields. *)
(***************************************************************************)
EXTENDS Integers, Sequences, FiniteSets

CONSTANTS Task,           \* candidate_ids
          TargetGroups,   \* target_groups
          MaxCandidates,  \* max_candidates
          CandidateOrder  \* the permutations that the seeded generator yields

ASSUME LimitsAssumption ==
    /\ Task # {}
    /\ TargetGroups \in Nat \ {0}
    /\ MaxCandidates \in Nat
    /\ MaxCandidates >= TargetGroups

\* max - min > epsilon for rewards 0 and 1: both occur among the valid ones.
ClassifyGroup(group) ==
    CASE group.solved + group.failed < 2        -> "insufficient_valid"
      [] group.solved + group.failed >= 2
         /\ group.solved > 0 /\ group.failed > 0 -> "informative"
      [] OTHER                                   -> "zero_variance"

\* A Stage1BTaskHistory without its sums over trajectories, which are only logged.
NewHistory == [groups |-> 0, informative |-> 0, lastSeen |-> 0]

NewSampler ==
    [draws |-> 0, updateStep |-> 0, order |-> <<>>, cursor |-> 0,
     attempted |-> <<>>, informative |-> 0, zeroVariance |-> 0, insufficient |-> 0,
     history |-> [t \in Task |-> NewHistory]]

\* begin_update: a new permutation, and nothing attempted yet.
BeginUpdate(s, step) ==
    [s EXCEPT !.draws = @ + 1, !.updateStep = step, !.order = CandidateOrder[s.draws + 1],
              !.attempted = <<>>, !.cursor = 0,
              !.informative = 0, !.zeroVariance = 0, !.insufficient = 0]

\* next_candidate returns a task, not None.
HasCandidate(s) ==
    /\ s.informative < TargetGroups
    /\ Len(s.attempted) < MaxCandidates
    /\ s.cursor < Len(s.order)

Candidate(s) == s.order[s.cursor + 1]

TakeCandidate(s) ==
    [s EXCEPT !.cursor = @ + 1, !.attempted = Append(@, Candidate(s))]

Underfilled(s) == s.informative < TargetGroups

\* record_group for the candidate of s.
RecordGroup(s, t, group, step) ==
    LET status == ClassifyGroup(group)
        one(x) == IF status = x THEN 1 ELSE 0 IN
    [s EXCEPT !.informative = @ + one("informative"),
              !.zeroVariance = @ + one("zero_variance"),
              !.insufficient = @ + one("insufficient_valid"),
              !.history[t] =
                  [groups |-> @.groups + 1,
                   informative |-> @.informative + one("informative"),
                   lastSeen |-> step]]

\* The groups that a history counts, each named by its task and its number there.
Numbered(count) == UNION {{t} \X (1..count[t]) : t \in Task}
TriedGroups(s) == Numbered([t \in Task |-> s.history[t].groups])
InformativeGroups(s) == Numbered([t \in Task |-> s.history[t].informative])

\* Over all tasks: how often a group was tried, and how often one was informative.
GroupsTried(s) == Cardinality(TriedGroups(s))
GroupsInformative(s) == Cardinality(InformativeGroups(s))
=============================================================================
