--------------------------- MODULE SeqlenBalancing ----------------------------
(***************************************************************************)
(* How rows of different lengths are divided                               *)
(* (verl/utils/seqlen_balancing.py): the Karmarkar-Karp differencing that  *)
(* both the balancing of a batch over the ranks and the dynamic            *)
(* micro-batches use.  Rows are numbered from 1 here; a part is the        *)
(* sequence of its rows, in ascending order.                               *)
(***************************************************************************)
EXTENDS Integers, Sequences, FiniteSetsExt, SequencesExt

CeilDiv(a, b) == (a + b - 1) \div b

Sum(lens) == FoldSeq(+, 0, lens)

\* sorted(s): an element's place is the number of those that come before it, the ones
\* that are less and, of those that are neither less nor greater, the ones to its left.
\* (SubSeq, and the functions below, make TLC compute a value once.)
Sorted(s, Less(_, _)) ==
    LET Before(j, i) == Less(s[j], s[i]) \/ (~Less(s[i], s[j]) /\ j < i)
        At(place) == CHOOSE i \in DOMAIN s :
                         Cardinality({j \in DOMAIN s : Before(j, i)}) = place - 1 IN
    SubSeq([place \in DOMAIN s |-> s[At(place)]], 1, Len(s))

-----------------------------------------------------------------------------
(* A Set is the sum of its items and the items themselves, <<index, length>>. *)

Item == Nat \X Nat
SetOfItems == [sum : Nat, items : Seq(Item)]

EmptySet == [sum |-> 0, items |-> <<>>]

\* Two item lists of one length are ordered by the first place they differ at.
ItemsLess(a, b) ==
    \E i \in 1..Len(a) : /\ SubSeq(a, 1, i - 1) = SubSeq(b, 1, i - 1)
                         /\ a[i][1] < b[i][1]

SetLess(a, b) ==
    \/ a.sum < b.sum
    \/ a.sum = b.sum /\ Len(a.items) < Len(b.items)
    \/ a.sum = b.sum /\ Len(a.items) = Len(b.items) /\ ItemsLess(a.items, b.items)

-----------------------------------------------------------------------------
(* A State is k sets in decreasing order. *)

State == Seq(SetOfItems)

Decreasing(sets) == Sorted(sets, LAMBDA a, b : SetLess(b, a))

StateOf(items, k) ==
    Decreasing([i \in 1..k |->
        IF i <= Len(items) THEN [sum |-> items[i][2], items |-> <<items[i]>>] ELSE EmptySet])

Spread(state) == state[1].sum - state[Len(state)].sum

\* Which state the heap gives first: the larger spread, then the larger first set.
PopsBefore(s, t) ==
    \/ Spread(s) > Spread(t)
    \/ Spread(s) = Spread(t) /\ SetLess(t[1], s[1])

\* The largest set of one state joins the smallest of the other, and so on.
MergeStates(s, t) ==
    Decreasing([i \in 1..Len(s) |->
        LET other == t[Len(s) + 1 - i] IN
        [sum |-> s[i].sum + other.sum, items |-> s[i].items \o other.items]])

\* The two states that the heap gives.
Popped(heap) ==
    {p \in heap \X heap :
        /\ p[1] # p[2]
        /\ \A u \in heap \ {p[1]} : PopsBefore(p[1], u)
        /\ \A u \in heap \ {p[1], p[2]} : PopsBefore(p[2], u)}

\* The heap takes the state they merge to.
Merged[heap \in SUBSET State] ==
    UNION {(heap \ {p[1], p[2]}) \cup {MergeStates(p[1], p[2])} : p \in Popped(heap)}

\* All of them are merged, until one state is left.
Differenced[states \in SUBSET State] ==
    LET last == Cardinality(states) - 1
        heap[merges \in 0..last] == IF merges = 0 THEN states ELSE Merged[heap[merges - 1]] IN
    CHOOSE state \in heap[last] : heap[last] = {state}

ByLength(lens) ==
    Sorted([i \in DOMAIN lens |-> <<i, lens[i]>>],
           LAMBDA a, b : a[2] < b[2] \/ (a[2] = b[2] /\ a[1] < b[1]))

\* What karmarkar_karp is given, its rows sorted, and what is asked for.
Sorting == [rows : Seq(Item), k : Nat, equalSize : BOOLEAN]
Division == [lens : Seq(Nat), k : Nat, equalSize : BOOLEAN]

\* With equal sizes, states of k rows of neighbouring lengths; else one state per row.
InitialStates[d \in Sorting] ==
    LET width == IF d.equalSize THEN d.k ELSE 1
        groups == {SubSeq(d.rows, i * width + 1, (i + 1) * width) : i \in 0..(Len(d.rows) \div width) - 1} IN
    {StateOf(items, d.k) : items \in groups}

PartsOf[state \in State] ==
    [i \in DOMAIN state |->
        Sorted([j \in DOMAIN state[i].items |-> state[i].items[j][1]], <)]

\* get_seqlen_balanced_partitions: k parts, each in ascending order of the rows.
Partition[d \in Division] ==
    PartsOf[Differenced[InitialStates[
        [rows |-> ByLength(d.lens), k |-> d.k, equalSize |-> d.equalSize]]]]

BalancedPartitions(lens, k, equalSize) == Partition[[lens |-> lens, k |-> k, equalSize |-> equalSize]]

\* The number of micro-batches that rearrange_micro_batches computes for a rank.
MicroBatchCount(lens, maxTokenLen) == CeilDiv(Sum(lens), maxTokenLen)

ReverseIndex_forward(indices) == indices

\* get_reverse_idx: where each row of the rearranged batch came from.
ReverseIndex(indices) == [i \in DOMAIN indices |-> CHOOSE j \in DOMAIN indices : indices[j] = i]

====
