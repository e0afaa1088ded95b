-------------------------- MODULE MCSplitReplicas --------------------------
(***************************************************************************)
(* SplitReplicas on every small policy: a view is scaled out and in, and   *)
(* its policy reordered; replicas is recomputed each time.                 *)
(***************************************************************************)
EXTENDS SplitReplicas

CONSTANTS
    GroupCount,   \* groups 1 .. GroupCount
    Priorities,   \* priorities in use
    Limits,       \* explicit maxReplicas
    MaxInt32      \* the largest replicas, and the limit of unlimited groups

\* limits are not negative: the schema of the view does not say so, but that
\* of the RisingWave refuses the negative share such a group would get
ASSUME PolicyAssumption ==
    /\ GroupCount \in Nat /\ Priorities \subseteq Int
    /\ MaxInt32 \in Nat /\ Limits \subseteq 0 .. MaxInt32

VARIABLES policy, total, replicas

vars == <<policy, total, replicas>>

Entries(g) == [group: {g}, priority: Priorities, max: Limits \cup {MaxInt32}]

\* policies the validating webhook lets through
MCPolicies ==
    {p \in UNION {[1 .. n -> UNION {Entries(g) : g \in 1 .. GroupCount}]
                    : n \in 1 .. GroupCount} :
        /\ \A i, j \in DOMAIN p : i < j => p[i].group # p[j].group
        /\ \E i \in DOMAIN p : p[i].max = MaxInt32}

Init ==
    /\ policy \in MCPolicies
    /\ total = 0
    /\ replicas = SplitReplicas(policy, total)

ScaleOut ==
    /\ total < MaxInt32
    /\ total' = total + 1
    /\ replicas' = SplitReplicas(policy, total')
    /\ UNCHANGED policy

ScaleIn ==
    /\ total > 0
    /\ total' = total - 1
    /\ replicas' = SplitReplicas(policy, total')
    /\ UNCHANGED policy

\* the same policy with two entries exchanged
Reorder ==
    /\ \E i, j \in DOMAIN policy :
          /\ i < j
          /\ policy' = [policy EXCEPT ![i] = policy[j], ![j] = policy[i]]
    /\ replicas' = SplitReplicas(policy', total)
    /\ UNCHANGED total

Next == ScaleOut \/ ScaleIn \/ Reorder

Spec == Init /\ [][Next]_vars

-----------------------------------------------------------------------------
Policy == ToSet(policy)

(* The check at the end of SplitReplicas, "algorithm has bug", never       *)
(* panics: the shares add up to .spec.replicas.                            *)
NoPanic ==
    LET order == ServingOrder(policy)
        sum[i \in 0 .. Len(order)] ==
            IF i = 0 THEN 0 ELSE sum[i - 1] + replicas[order[i].group]
    IN  sum[Len(order)] = total

(* RFC 0004, "confined within the constraints": no group exceeds its       *)
(* maxReplicas, although shares are rounded up.                            *)
WithinLimits ==
    \A p \in Policy : replicas[p.group] \in 0 .. p.max

(* RFC 0004: a group gets replicas only when every group of a higher       *)
(* priority has reached its maxReplicas.                                   *)
PriorityFirst ==
    \A p, q \in Policy :
        p.priority > q.priority /\ replicas[q.group] > 0 => replicas[p.group] = p.max

(* RFC 0004, "minimize the variance": two groups of one priority differ by *)
(* at most one replica unless the smaller one has reached its maxReplicas. *)
Balanced ==
    \A p, q \in Policy :
        p.priority = q.priority /\ replicas[p.group] > replicas[q.group] + 1
            => replicas[q.group] = q.max

(* What a single split promises: all replicas are handed out, within the   *)
(* limits, higher priorities first and evenly among equals.                *)
KeepsPromises == NoPanic /\ WithinLimits /\ PriorityFirst /\ Balanced

(* Scaling a view out by one adds one replica to one group and takes none  *)
(* from the others, so a scale-out never restarts running pods elsewhere.  *)
OneGroupGrows ==
    [][total' = total + 1 =>
          \E g \in DOMAIN replicas :
             replicas' = [replicas EXCEPT ![g] = @ + 1]]_vars

(* "It must be a stable function": the order in which the policy lists its *)
(* groups does not change what they get.                                   *)
Stable == [][total' = total => replicas' = replicas]_vars
=============================================================================
