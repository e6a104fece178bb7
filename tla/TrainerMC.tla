------------------------------ MODULE TrainerMC -------------------------------
EXTENDS Trainer, TLC

CONSTANTS t1, t2, t3

\* The seeded generator yields the rotations of the candidates in turn.
MCOrder == [k \in 1..8 |-> CASE k % 3 = 0 -> <<t1, t2, t3>>
                             [] k % 3 = 1 -> <<t2, t3, t1>>
                             [] k % 3 = 2 -> <<t3, t1, t2>>]

\* Informative, without variance, and with one valid reward.
MCGroup == {[solved |-> 1, failed |-> 1, invalid |-> 0],
            [solved |-> 0, failed |-> 2, invalid |-> 0],
            [solved |-> 1, failed |-> 0, invalid |-> 1]}

Symmetry == Permutations(Rank)
=============================================================================
