---------------------------- MODULE MCScaleView ----------------------------
(***************************************************************************)
(* Instances of ScaleView for TLC, with the real SplitReplicas.  Groups    *)
(* are numbered in the order of their names.                               *)
(***************************************************************************)
EXTENDS ScaleView, TLC

S == INSTANCE SplitReplicas

\* a constant, which TLC evaluates once
SplitTable == [p \in Policies |-> [n \in Replicas |-> S!SplitReplicas(p, n)]]

MCSplit(p, n) == SplitTable[p][n]

Entry(g, priority, max) == [group |-> g, priority |-> priority, max |-> max]

OneComponent     == [g \in Groups |-> "frontend"]
PairedComponents == [g \in Groups |-> IF g <= 3 THEN "frontend" ELSE "compute"]

TwoGroups == {<<Entry(1, 0, Unlimited), Entry(2, 0, Unlimited)>>}
\* one pair of groups, listed in both orders, even and with a priority
Reorderings ==
    {<<Entry(1, 0, Unlimited), Entry(2, 0, Unlimited)>>,
     <<Entry(2, 1, 1), Entry(1, 0, Unlimited)>>}

OneGroup  == {<<Entry(1, 0, Unlimited)>>}

\* two views on one group each
TwoSingles == {<<Entry(1, 0, Unlimited)>>, <<Entry(2, 0, Unlimited)>>}

\* views that compete for group 2, and views that do not compete
Contending == TwoGroups \cup TwoSingles

\* two views on three groups each, of different components
TwoTriples ==
    {[i \in 1 .. 3 |-> Entry(base + i, 0, Unlimited)] : base \in {0, 3}}

\* views differ only in the policy they are created with
ViewSymmetry == Permutations(Views)

Ones == [g \in Groups |-> 1]

\* an unbalanced component: the even split moves the last two groups only
Unbalanced == [g \in Groups |-> <<1, 2, 0>>[((g - 1) % 3) + 1]]
=============================================================================
