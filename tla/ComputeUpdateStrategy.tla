----------------------- MODULE ComputeUpdateStrategy -----------------------
(***************************************************************************)
(* The controller that speeds up updates of a compute StatefulSet: after   *)
(* the generation has changed it deletes all Pods of older revisions at    *)
(* once.  It reads the StatefulSet and its Pods from two caches that lag   *)
(* independently, beside the StatefulSet controller of Kubernetes, which   *)
(* creates Pods and rolls them one by one.                                 *)
(***************************************************************************)
EXTENDS Integers, FiniteSets

CONSTANTS
    Ordinals,    \* the Pods of the StatefulSet: 0 .. replicas - 1
    Templates,   \* Pod templates; a template determines the revision
    FirstTemplate,
    MaxChanges   \* bound: edits of the StatefulSet, StatefulSets deleted and
                 \*   created again, requests that fail, restarts

ASSUME StrategyAssumption ==
    /\ MaxChanges \in Nat
    /\ Ordinals \subseteq Nat /\ IsFiniteSet(Ordinals)
    /\ FirstTemplate \in Templates

VARIABLES
    sts,        \* the stored StatefulSet: uid, generation, template, status
    stsCache,   \* the one the informer shows
    pods,       \* the stored Pods by ordinal
    podCache,   \* the Pods the informer shows
    queued,     \* is the StatefulSet in the work queue?
    update,     \* the reconcile in progress
    cleared,    \* history: has this generation been dealt with from fresh caches?
    changes     \* how many of MaxChanges are left

strategyVars == <<sts, stsCache, pods, podCache, queued, update, cleared, changes>>

Replicas == Cardinality(Ordinals)
NewPod(uid, owner, rev) ==
    [uid |-> uid, there |-> TRUE, owner |-> owner, rev |-> rev, deleting |-> FALSE]
NoSuchPod == [uid |-> 0, there |-> FALSE, owner |-> 0, rev |-> "", deleting |-> FALSE]
NoSts == [uid |-> 0]
NoUpdate == [pc |-> "idle"]
NoStatus == [observed |-> 0, revision |-> "", replicas |-> 0, updated |-> 0]

StrategyInit ==
    /\ LET t == FirstTemplate IN
          /\ sts = [uid |-> 1, gen |-> 1, template |-> t,
                    status |-> [observed |-> 1, revision |-> t, replicas |-> Replicas,
                                updated |-> Replicas]]
          /\ pods = [i \in Ordinals |-> NewPod(1, 1, t)]
    /\ stsCache = sts /\ podCache = pods
    /\ queued = FALSE /\ update = NoUpdate /\ cleared = FALSE
    /\ changes = MaxChanges

UpToDate(i) == pods[i].rev = sts.template

Change == changes > 0 /\ changes' = changes - 1

-----------------------------------------------------------------------------
(* The reconcile.                                                          *)

\* the StatefulSet controller has observed the change
Observed(s) == s.gen = s.status.observed
Updating(s) == s.status.updated # s.status.replicas

Outdated(pod, s) == pod.rev # s.status.revision

\* the Pods in the cache that are to be deleted, with their UIDs
ToDelete_One(s) ==
    {<<i, podCache[i].uid>> : i \in {i \in Ordinals \cap {0} :
        podCache[i].there /\ ~podCache[i].deleting
            /\ podCache[i].owner = s.uid /\ Outdated(podCache[i], s)}}
ToDelete(s) ==
    {<<i, podCache[i].uid>> : i \in {i \in Ordinals :
        podCache[i].there /\ ~podCache[i].deleting
            /\ podCache[i].owner = s.uid /\ Outdated(podCache[i], s)}}

\* the reconcile of s is over without an error
Finish(s, fresh) ==
    /\ update' = NoUpdate
    /\ cleared' = (cleared \/ (fresh /\ s.uid = sts.uid /\ s.gen = sts.gen))

\* The two caches are read in one step: Pods that are read later are Pods
\* read beside a copy of the StatefulSet that is older.  A StatefulSet that
\* is not in the cache leaves the queue; one whose change has not been
\* observed stays, and is looked at again.
Read_Requeues ==
    /\ update = NoUpdate /\ queued
    /\ stsCache # NoSts => Observed(stsCache)
    /\ queued' = TRUE
    /\ IF stsCache = NoSts THEN UNCHANGED <<update, cleared>>
       ELSE LET rest == IF Updating(stsCache) THEN ToDelete(stsCache) ELSE {}
                fresh == stsCache = sts /\ (Updating(stsCache) => podCache = pods) IN
            IF rest = {} THEN Finish(stsCache, fresh)
            ELSE /\ update' = [pc |-> "delete", uid |-> stsCache.uid, gen |-> stsCache.gen,
                               rest |-> rest, fresh |-> fresh]
                 /\ UNCHANGED cleared
    /\ UNCHANGED <<sts, stsCache, pods, podCache, changes>>
Read ==
    /\ update = NoUpdate /\ queued
    /\ stsCache # NoSts => Observed(stsCache)
    /\ queued' = FALSE
    /\ IF stsCache = NoSts THEN UNCHANGED <<update, cleared>>
       ELSE LET rest == IF Updating(stsCache) THEN ToDelete(stsCache) ELSE {}
                fresh == stsCache = sts /\ (Updating(stsCache) => podCache = pods) IN
            IF rest = {} THEN Finish(stsCache, fresh)
            ELSE /\ update' = [pc |-> "delete", uid |-> stsCache.uid, gen |-> stsCache.gen,
                               rest |-> rest, fresh |-> fresh]
                 /\ UNCHANGED cleared
    /\ UNCHANGED <<sts, stsCache, pods, podCache, changes>>

\* the UID is a precondition of the request; a Pod that is not found is fine
Precondition_Name(i, uid) == TRUE
Precondition(i, uid) == pods[i].there => pods[i].uid = uid

Deleted(i) == IF pods[i].there THEN [pods EXCEPT ![i].deleting = TRUE] ELSE pods

\* a conflict or another error ends the reconcile, which is then repeated
Delete ==
    /\ update.pc = "delete"
    /\ \E target \in update.rest :
          LET i == target[1]  uid == target[2]  rest == update.rest \ {target} IN
          \/ /\ Precondition(i, uid)
             /\ pods' = Deleted(i)
             /\ IF rest = {} THEN Finish(update, update.fresh)
                ELSE update' = [update EXCEPT !.rest = rest] /\ UNCHANGED cleared
             /\ UNCHANGED <<queued, changes>>
          \/ /\ IF Precondition(i, uid) THEN Change ELSE UNCHANGED changes
             /\ update' = NoUpdate /\ queued' = TRUE
             /\ UNCHANGED <<pods, cleared>>
    /\ UNCHANGED <<sts, stsCache, podCache>>

-----------------------------------------------------------------------------
(* What the RisingWave controller waits for.  That Pods are also ready is  *)
(* left out: Pods differ in their revisions only.                          *)
IsStatefulSetRolledOut_AnyGeneration(s) ==
    /\ s # NoSts
    /\ s.status.updated >= Replicas /\ s.status.replicas <= s.status.updated
IsStatefulSetRolledOut(s) ==
    /\ s # NoSts /\ s.status.observed >= s.gen
    /\ s.status.updated >= Replicas /\ s.status.replicas <= s.status.updated

-----------------------------------------------------------------------------
(* Events: only an update that changes the generation is let through.  A   *)
(* StatefulSet that was created again is deleted and then created.         *)
DeliverSts ==
    /\ stsCache # sts
    /\ stsCache' = IF stsCache.uid \in {0, sts.uid} THEN sts ELSE NoSts
    /\ queued' = (queued \/ (stsCache.uid = sts.uid /\ stsCache.gen # sts.gen))
    /\ UNCHANGED <<sts, pods, podCache, update, cleared, changes>>

DeliverPods ==
    /\ podCache # pods
    /\ podCache' = pods
    /\ UNCHANGED <<sts, stsCache, pods, queued, update, cleared, changes>>

\* the operator starts again: objects are created in its caches, not updated
Restart ==
    /\ Change
    /\ queued' = FALSE /\ update' = NoUpdate
    /\ stsCache' = sts /\ podCache' = pods
    /\ UNCHANGED <<sts, pods, cleared>>

-----------------------------------------------------------------------------
(* The RisingWave controller changes the StatefulSet, the StatefulSet      *)
(* controller and the kubelets follow.                                     *)
Edit ==
    /\ Change /\ cleared' = FALSE
    /\ \E t \in Templates : sts' = [sts EXCEPT !.gen = @ + 1, !.template = t]
    /\ UNCHANGED <<stsCache, pods, podCache, queued, update>>

\* the old one is gone, its Pods are not yet
Recreate ==
    /\ Change /\ cleared' = FALSE
    /\ sts' = [uid |-> sts.uid + 1, gen |-> 1, template |-> sts.template, status |-> NoStatus]
    /\ UNCHANGED <<stsCache, pods, podCache, queued, update>>

Owned(i) == pods[i].there /\ pods[i].owner = sts.uid
Status == [observed |-> sts.gen, revision |-> sts.template,
           replicas |-> Cardinality({i \in Ordinals : Owned(i)}),
           updated  |-> Cardinality({i \in Ordinals : Owned(i) /\ UpToDate(i) /\ ~pods[i].deleting})]

StsObserves ==
    /\ sts.status # Status
    /\ sts' = [sts EXCEPT !.status = Status]
    /\ UNCHANGED <<stsCache, pods, podCache, queued, update, cleared, changes>>

\* uids that nobody remembers are used again, which keeps them few
FreshUid(i) ==
    CHOOSE u \in 1..4 : u \notin {pods[i].uid, podCache[i].uid}
        \cup (IF update.pc = "delete" THEN {t[2] : t \in {t \in update.rest : t[1] = i}} ELSE {})

StsCreates(i) ==
    /\ ~pods[i].there /\ sts.status.observed # 0
    /\ pods' = [pods EXCEPT ![i] = NewPod(FreshUid(i), sts.uid, sts.status.revision)]
    /\ UNCHANGED <<sts, stsCache, podCache, queued, update, cleared, changes>>

\* the Pod with the largest ordinal that is not up to date, if no Pod is missing
StsRolls(i) ==
    /\ sts.status.observed # 0 /\ \A j \in Ordinals : Owned(j) /\ ~pods[j].deleting
    /\ pods[i].rev # sts.status.revision
    /\ \A j \in Ordinals : j > i => pods[j].rev = sts.status.revision
    /\ pods' = [pods EXCEPT ![i].deleting = TRUE]
    /\ UNCHANGED <<sts, stsCache, podCache, queued, update, cleared, changes>>

\* a Pod terminates; one whose owner is gone is deleted first
PodEnds(i) ==
    /\ pods[i].there /\ (pods[i].deleting \/ pods[i].owner # sts.uid)
    /\ pods' = [pods EXCEPT ![i] = NoSuchPod]
    /\ UNCHANGED <<sts, stsCache, podCache, queued, update, cleared, changes>>

StrategyNext ==
    \/ Read \/ Delete \/ DeliverSts \/ DeliverPods \/ Restart \/ Edit \/ Recreate
    \/ StsObserves
    \/ \E i \in Ordinals : StsCreates(i) \/ StsRolls(i) \/ PodEnds(i)

StrategySpec == StrategyInit /\ [][StrategyNext]_strategyVars

-----------------------------------------------------------------------------
StatusValues == [observed : Nat, revision : Templates \cup {""}, replicas : Nat, updated : Nat]
StatefulSets == [uid : Nat \ {0}, gen : Nat \ {0}, template : Templates, status : StatusValues]
Pods == [uid : 0..4, there : BOOLEAN, owner : Nat, rev : Templates \cup {""}, deleting : BOOLEAN]
Updates ==
    [pc : {"delete"}, uid : Nat \ {0}, gen : Nat \ {0}, rest : SUBSET (Ordinals \X (1..4)),
     fresh : BOOLEAN]

(* Types of the state.  A status never counts more updated Pods than Pods, *)
(* and a reconcile that is deleting has Pods left to delete, at most one   *)
(* for each ordinal.                                                       *)
StrategyTypeOK ==
    /\ sts \in StatefulSets /\ stsCache \in StatefulSets \cup {NoSts}
    /\ pods \in [Ordinals -> Pods] /\ podCache \in [Ordinals -> Pods]
    /\ \A c \in {pods, podCache} : \A i \in Ordinals :
          c[i].there => c[i].uid # 0 /\ c[i].owner \in 1..sts.uid /\ c[i].rev \in Templates
    /\ \A s \in {sts, stsCache} : s # NoSts =>
          /\ s.status.observed <= s.gen /\ s.status.updated \in 0..s.status.replicas
          /\ s.status.observed # 0 => s.status.revision \in Templates
    /\ stsCache.uid \in 0..sts.uid
    /\ queued \in BOOLEAN /\ cleared \in BOOLEAN
    /\ update \in Updates \cup {NoUpdate}
    /\ update # NoUpdate =>
          /\ update.rest # {}
          /\ \A t \in update.rest : \A u \in update.rest : t[1] = u[1] => t = u
    /\ changes \in 0 .. MaxChanges

(* A Pod that is up to date is deleted by the strategy only when the       *)
(* StatefulSet has been changed since the reconcile has read it: neither a *)
(* Pod that is younger than the copy in the cache, nor a Pod of another    *)
(* owner of the same name, is taken for an outdated one.                   *)
UpToDatePodsSpared ==
    [][\A i \in Ordinals :
          update.pc = "delete" /\ update' # update /\ pods'[i] # pods[i] =>
             \/ ~UpToDate(i)
             \/ update.uid # sts.uid
             \/ update.gen # sts.gen]_strategyVars

(* When a reconcile that has read fresh caches is over, without an error,  *)
(* no Pod of an older revision is left that is not being deleted, and none *)
(* appears as long as the StatefulSet is not changed.                      *)
AllAtOnce ==
    cleared =>
       \A i \in Ordinals : pods[i].there /\ ~pods[i].deleting /\ pods[i].owner = sts.uid => UpToDate(i)

\* s is not older than the StatefulSet, apart from its status
Latest(s) == s.uid = sts.uid /\ s.gen = sts.gen

\* a status that is of the generation names its revision, and counts all Pods
\* as updated only when they are, from then on
StatusTells(s) ==
    Latest(s) /\ Observed(s) =>
        /\ s.template = sts.template /\ s.status.revision = sts.template
        /\ Observed(sts)
        /\ ~Updating(s) =>
              \A i \in Ordinals : pods[i].there /\ pods[i].owner = sts.uid => UpToDate(i)

StatusesTell ==
    /\ StatusTells(sts)
    /\ stsCache # NoSts =>
          /\ StatusTells(stsCache)
          /\ stsCache.uid = sts.uid => stsCache.gen <= sts.gen

\* a Pod keeps its revision and its owner
SamePod ==
    \A i \in Ordinals :
        pods[i].there /\ podCache[i].there /\ pods[i].uid = podCache[i].uid
            => pods[i].rev = podCache[i].rev /\ pods[i].owner = podCache[i].owner

\* what is about to be deleted is outdated; when it was read from fresh caches,
\* nothing that is outdated is missing
TargetsOutdated ==
    update # NoUpdate =>
        /\ update.uid <= sts.uid /\ (update.uid = sts.uid => update.gen <= sts.gen)
        /\ Latest(update) =>
              /\ \A i \in Ordinals :
                    pods[i].there /\ <<i, pods[i].uid>> \in update.rest => ~UpToDate(i)
              /\ update.fresh =>
                    /\ Observed(sts)
                    /\ \A i \in Ordinals :
                          pods[i].there /\ ~pods[i].deleting /\ pods[i].owner = sts.uid
                             => UpToDate(i) \/ <<i, pods[i].uid>> \in update.rest

(* The types, no outdated Pod left behind a finished reconcile, and why.   *)
StrategyInv ==
    /\ StrategyTypeOK
    /\ StatusesTell
    /\ SamePod
    /\ TargetsOutdated
    /\ cleared => Observed(sts)
    /\ AllAtOnce

(* The wait before the next stage of the workflow is over only when no Pod *)
(* of an older revision runs, even if the copy of the StatefulSet is old,  *)
(* unless it has been changed since.                                       *)
RolledOutMeansUpdated ==
    IsStatefulSetRolledOut(stsCache) /\ stsCache.uid = sts.uid /\ stsCache.gen = sts.gen =>
       \A i \in Ordinals : pods[i].there /\ pods[i].owner = sts.uid => UpToDate(i)

AtRest ==
    /\ ~queued /\ update = NoUpdate
    /\ stsCache = sts /\ IsStatefulSetRolledOut(stsCache)
    /\ \A i \in Ordinals : pods[i].there /\ UpToDate(i)

=============================================================================
