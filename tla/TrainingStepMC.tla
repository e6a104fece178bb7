---------------------------- MODULE TrainingStepMC ----------------------------
EXTENDS TrainingStep

CONSTANTS t1, t2, t3

MCOrder == <<<<t1, t2, t3>>>>

Row(len, reward, valid) == [len |-> len, reward |-> reward, valid |-> valid]

\* With a signal and an invalid row; without variance; with one valid reward.
MCOutcomes ==
    {<<Row(4, 0, FALSE), Row(3, 1, TRUE), Row(1, 0, TRUE)>>,
     <<Row(1, 0, TRUE)>>,
     <<Row(3, 1, TRUE), Row(1, 0, FALSE), Row(4, 1, FALSE), Row(2, 1, FALSE)>>}

Sizes == <<3, 1, 2>>

Base == [stage1b |-> TRUE, prompts |-> <<>>, validation |-> <<>>, n |-> 4, dp |-> 1, tp |-> 2,
         exchange |-> 3, dynamic |-> TRUE, balance |-> TRUE, required |-> FALSE]

MCConfigs ==
    {Base,
     [Base EXCEPT !.dp = 2, !.exchange = 2],
     [Base EXCEPT !.n = 3],
     [Base EXCEPT !.stage1b = FALSE, !.prompts = <<t1, t2>>, !.exchange = 2,
                  !.validation = <<t1, t2>>],
     [Base EXCEPT !.stage1b = FALSE, !.prompts = <<t1, t2>>, !.n = 3, !.balance = FALSE,
                  !.validation = <<t3>>],
     [Base EXCEPT !.stage1b = FALSE, !.prompts = <<t1, t2>>, !.n = 1, !.dynamic = FALSE,
                  !.validation = <<t1, t2, t3>>],
     [Base EXCEPT !.stage1b = FALSE, !.prompts = <<t1, t2>>, !.dp = 2, !.tp = 1,
                  !.balance = FALSE, !.required = TRUE, !.validation = <<t1, t2>>],
     [Base EXCEPT !.stage1b = FALSE, !.prompts = <<t1, t2, t3>>]}

\* Over all lists of four lengths: the parts cover the rows, none is empty, they have
\* equal sizes when asked to, and their sums differ by at most the longest row.
ASSUME DifferencingIsBalanced ==
    \A lens \in [1..4 -> 1..3] : \A k \in 1..4 : \A equal \in BOOLEAN :
        (equal => 4 % k = 0) =>
            LET parts == BalancedPartitions(lens, k, equal)
                sums == {Sum(Reorder(lens, parts[i])) : i \in 1..k} IN
            /\ ToSet(FlattenSeq(parts)) = 1..4 /\ Len(FlattenSeq(parts)) = 4
            /\ \A i \in 1..k : parts[i] # <<>> /\ (equal => Len(parts[i]) = 4 \div k)
            /\ Max(sums) - Min(sums) <= Max(ToSet(lens))
=============================================================================
