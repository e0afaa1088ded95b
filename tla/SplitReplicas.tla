--------------------------- MODULE SplitReplicas ---------------------------
(***************************************************************************)
(* scaleview.SplitReplicas: how the replicas of a RisingWaveScaleView are  *)
(* split over the groups of its scale policy.  A policy is a sequence of   *)
(* [group, priority, max]; a group without maxReplicas has the max that    *)
(* canonizeScalePolicy gives it (MaxInt32).  Groups are numbered in the    *)
(* order of their names.                                                   *)
(***************************************************************************)
EXTENDS Integers, Sequences, FiniteSets, SequencesExt

\* split(total, n): the quotient, rounded up
split(total, n) == IF total % n = 0 THEN total \div n ELSE total \div n + 1

\* mutant: maxReplicas not multiplied by the groups still to be served
Take_Greedy(max, n, left) == IF max <= left THEN max ELSE split(left, n)

\* what one group takes when n groups of its priority are still to be served
Take(max, n, left) == IF max * n <= left THEN max ELSE split(left, n)

\* mutant: the larger limit first
ServedBefore_LargestFirst(a, b) ==
    \/ a.priority > b.priority
    \/ a.priority = b.priority /\ a.max > b.max
    \/ a.priority = b.priority /\ a.max = b.max /\ a.group < b.group

\* priorities descending; within one, by (maxReplicas, group)
ServedBefore(a, b) ==
    \/ a.priority > b.priority
    \/ a.priority = b.priority /\ a.max < b.max
    \/ a.priority = b.priority /\ a.max = b.max /\ a.group < b.group

\* mutant: not sorted
ServingOrder_AsListed(policy) == policy

\* the place of an entry is the number of those served before it, and itself
ServingOrder(policy) ==
    LET entries  == ToSet(policy)
        Place(p) == Cardinality({q \in entries : ServedBefore(q, p)}) + 1
    IN  [i \in 1 .. Cardinality(entries) |-> CHOOSE p \in entries : Place(p) = i]

\* groups of the same priority that are not served before the i-th
LeftGroups(order, i) ==
    Cardinality({j \in i .. Len(order) : order[j].priority = order[i].priority})

\* groups get nothing when nothing is left as the first of their priority comes up
ServeGroup(order, state, i) ==
    LET first == i = 1 \/ order[i].priority # order[i - 1].priority
        none  == IF first THEN state.left <= 0 ELSE state.none
        taken == IF none THEN 0 ELSE Take(order[i].max, LeftGroups(order, i), state.left)
    IN [left     |-> state.left - taken,
        none     |-> none,
        replicas |-> [state.replicas EXCEPT ![order[i].group] = taken]]

SplitReplicas(policy, total) ==
    LET order == ServingOrder(policy)
        served[i \in 0 .. Len(order)] ==
            IF i = 0
            THEN [left |-> total, none |-> FALSE,
                  replicas |-> [g \in {p.group : p \in ToSet(policy)} |-> 0]]
            ELSE ServeGroup(order, served[i - 1], i)
    IN  served[Len(order)].replicas
=============================================================================
