------------------------------ MODULE EnvVars ------------------------------
(***************************************************************************)
(* Lists of environment variables: how the object factory merges and sorts *)
(* them.  A variable is a record with its name, who set it, and the        *)
(* references $(NAME) in its value, in order; a reference that is preceded *)
(* by an odd number of further dollar signs is escaped.                    *)
(***************************************************************************)
EXTENDS Naturals, Sequences, FiniteSets, SequencesExt

CONSTANT EnvNames    \* all names, in alphabetical order

ASSUME EnvNamesAssumption == EnvNames \in Seq(STRING)

Alphabet == {EnvNames[i] : i \in DOMAIN EnvNames}
Rank == [name \in Alphabet |-> CHOOSE i \in DOMAIN EnvNames : EnvNames[i] = name]

Ref(name)     == [name |-> name, escaped |-> FALSE]
Escaped(name) == [name |-> name, escaped |-> TRUE]

EnvVar(name, refs) == [name |-> name, by |-> "operator", refs |-> refs]
UserVar(name, refs) == [name |-> name, by |-> "user", refs |-> refs]
Plain(names) == [i \in DOMAIN names |-> EnvVar(names[i], <<>>)]

Names(env) == {env[i].name : i \in DOMAIN env}
EachOnce(env) == \A i, j \in DOMAIN env : env[i].name = env[j].name => i = j

-----------------------------------------------------------------------------
(* mergeListWhenKeyEquals and mergeListByKey replace the first variable of *)
(* that name in place, or append the variable.                             *)
MergeOne(env, v) ==
    LET hits == {i \in DOMAIN env : env[i].name = v.name} IN
    IF hits = {} THEN Append(env, v) ELSE [env EXCEPT ![Min(hits)] = v]

\* the variables vs, merged one after another
MergeAll(env, vs) ==
    LET merged[k \in 0 .. Len(vs)] == IF k = 0 THEN env ELSE MergeOne(merged[k - 1], vs[k])
    IN  merged[Len(vs)]

(* DependsOn looks at the first occurrence of $(name) only.                *)
DependsOn(a, b) ==
    LET hits == {i \in DOMAIN a.refs : a.refs[i].name = b.name} IN
    hits # {} /\ ~a.refs[Min(hits)].escaped

(* The dependency graph: of two variables that depend on each other only   *)
(* the edge to the one that comes first in the list is kept.               *)
Edges_OneWay(env) ==
    {e \in (DOMAIN env) \X (DOMAIN env) : e[2] <= e[1] /\ DependsOn(env[e[2]], env[e[1]])}
Edges(env) ==
    Edges_OneWay(env)
    \cup {e \in (DOMAIN env) \X (DOMAIN env) :
             /\ e[1] <= e[2] /\ ~DependsOn(env[e[1]], env[e[2]])
             /\ DependsOn(env[e[2]], env[e[1]])}

(* The order in which the queue of sources is emptied, smallest name       *)
(* first.  Vertices on or behind a cycle are never reached.                *)
SortedOrder(env) ==
    LET edges == Edges(env)
        drained[n \in 0 .. Len(env)] ==
            IF n = 0 THEN <<>>
            ELSE LET order   == drained[n - 1]
                     done    == ToSet(order)
                     blocked == {e[2] : e \in {d \in edges : d[1] \notin done}}
                     sources == (DOMAIN env) \ (done \cup blocked)
                 IN  IF sources = {} THEN order
                     ELSE Append(order, CHOOSE i \in sources : \A j \in sources :
                                           Rank[env[i].name] <= Rank[env[j].name])
    IN  drained[Len(env)]

(* TopologicalSort overwrites the front of the list in place.              *)
TopologicalSort(env) ==
    LET order == SortedOrder(env) IN
    [i \in DOMAIN order |-> env[order[i]]] \o SubSeq(env, Len(order) + 1, Len(env))

=============================================================================
