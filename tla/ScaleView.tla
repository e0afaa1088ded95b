----------------------------- MODULE ScaleView -----------------------------
(***************************************************************************)
(* RisingWaveScaleView: the lock protocol by which scale views own node    *)
(* groups of a RisingWave object and drive their replicas.                 *)
(*                                                                         *)
(* The API server holds one RisingWave object and one RisingWaveScaleView  *)
(* per name in Views.  The operator reads both through informer caches     *)
(* that lag behind, runs one reconcile per view and one for the RisingWave *)
(* at a time, and writes back with three kinds of requests:                *)
(*   Status().Update   rejected when the resourceVersion is stale;         *)
(*   Patch(MergeFrom)  applied to whatever object is stored, no version;   *)
(*   user edits        admitted by the validating webhooks.                *)
(* The locks live in the RisingWave's .status.scaleViews.                  *)
(***************************************************************************)
EXTENDS Integers, Sequences, FiniteSets, FiniteSetsExt

CONSTANTS
    Views,              \* names of RisingWaveScaleView objects
    Groups,             \* node groups, a component and a group name each
    ComponentOf,        \* the component a node group belongs to
    Policies,           \* scale policies users write: sequences of
                        \*   [group, priority, max]
    Split(_, _),        \* SplitReplicas(policy, replicas): group -> replicas
    MaxReplicas,        \* bound: replicas of a group and of a view
    UserReplicas,       \* bound: the replicas users ask for
    InitialReplicas,    \* .spec replicas of the RisingWave when it is created
    UserRequests,       \* bound: the kinds of requests users make
    MaxEdits,           \* bound: their number
    MaxCrashes,         \* bound: restarts of the operator
    MaxStatusWrites,    \* bound: status writes for reasons other than locks
    RetryLimit,         \* RisingWaveScaleViewSyncLockRetryLimit
    ValidateScaleViews  \* are view requests sent to the validating webhook?

VARIABLES
    rw,        \* the stored RisingWave
    rwCache,   \* the version the operator's informer shows
    rwEvents,  \* versions the informer has not delivered yet
    sv,        \* the stored RisingWaveScaleViews
    svCache,   \* the versions the informer shows
    svEvents,  \* versions not delivered yet
    svQueue,   \* work queue of the scale view controller
    rwQueue,   \* is the RisingWave in its controller's work queue?
    worker,    \* per view: the reconcile in flight
    ctrl,      \* the RisingWave reconcile in flight
    budget     \* user requests, crashes and status writes still allowed

vars == <<rw, rwCache, rwEvents, sv, svCache, svEvents,
          svQueue, rwQueue, worker, ctrl, budget>>

api   == <<rw, rwEvents, sv, svEvents>>
cache == <<rwCache, svCache>>

Absent    == -1                       \* the replicas of a missing node group
Replicas  == 0 .. MaxReplicas
Unlimited == MaxReplicas + 1          \* a policy without maxReplicas

PolicyEntries == [group: Groups, priority: Nat, max: 0 .. Unlimited]
PolicyGroups(p) == {p[i].group : i \in DOMAIN p}

(* validateObject asks for one group without maxReplicas; a view targets   *)
(* the groups of one component.                                            *)
PolicyShape ==
    \A p \in Policies :
        /\ p \in Seq(PolicyEntries)
        /\ p # <<>>
        /\ \E i \in DOMAIN p : p[i].max = Unlimited
        /\ \A i, j \in DOMAIN p :
              /\ ComponentOf[p[i].group] = ComponentOf[p[j].group]
              /\ p[i].group = p[j].group => i = j

ASSUME BoundsAssumption ==
    /\ MaxReplicas \in Nat
    /\ UserReplicas \subseteq Replicas
    /\ MaxEdits \in Nat
    /\ MaxCrashes \in Nat
    /\ MaxStatusWrites \in Nat
    /\ RetryLimit \in Nat \ {0}
    /\ ValidateScaleViews \in BOOLEAN

ASSUME InitialReplicasAssumption ==
    InitialReplicas \in [Groups -> Replicas \cup {Absent}]

ASSUME PolicyAssumption == PolicyShape

ASSUME SplitAssumption ==
    \A p \in Policies : \A n \in Replicas :
        Split(p, n) \in [PolicyGroups(p) -> Replicas]

(***************************************************************************)
(* Objects.  uid 0 means the object does not exist; a new object takes its *)
(* resourceVersion as uid, so that no two incarnations share one.          *)
(***************************************************************************)
NoRisingWave(rv) ==
    [uid |-> 0, rv |-> rv, groups |-> [g \in Groups |-> Absent], locks |-> {}]

NoView(rv) ==
    [uid |-> 0, gen |-> 0, rv |-> rv, replicas |-> 0, policy |-> <<>>,
     target |-> 0, locked |-> FALSE]

LockedGroups(l) == {l.groups[i].name : i \in DOMAIN l.groups}

\* .status.groupLocks of a view: its policy's groups, in order, with their share
GroupLocks(view) ==
    [i \in DOMAIN view.policy |->
        [name     |-> view.policy[i].group,
         replicas |-> Split(view.policy, view.replicas)[view.policy[i].group]]]

LockOf(v, view) ==
    [name |-> v, uid |-> view.uid, gen |-> view.gen, groups |-> GroupLocks(view)]

(***************************************************************************)
(* ScaleViewLockManager, on the RisingWave object in memory.               *)
(***************************************************************************)
\* GetScaleViewLock
Holds(v, view, locks) == \E l \in locks : l.name = v /\ l.uid = view.uid

HoldsCurrent(v, view, locks) ==
    \E l \in locks : l.name = v /\ l.uid = view.uid /\ l.gen = view.gen

\* mutant: the groups of other locks are not looked at
CanGrab_NameOnly(v, policy, locks) == \A l \in locks : l.name # v

\* GrabScaleViewLockFor: no lock under this name, none on one of its groups
CanGrab(v, policy, locks) ==
    \A l \in locks :
        /\ l.name # v
        /\ LockedGroups(l) \cap PolicyGroups(policy) = {}

\* mutants: other locks are dropped; an update leaves the old replicas
GrabOrUpdate_DropsOthers(v, view, locks) == {LockOf(v, view)}
GrabOrUpdate_GenerationOnly(v, view, locks) ==
    IF Holds(v, view, locks)
    THEN {IF l.name = v /\ l.uid = view.uid THEN [l EXCEPT !.gen = view.gen] ELSE l
            : l \in locks}
    ELSE locks \cup {LockOf(v, view)}

\* GrabOrUpdateScaleViewLockFor, when it does not fail: the lock is appended,
\* or its generation and its group locks are overwritten
GrabOrUpdate(v, view, locks) ==
    {l \in locks : ~(l.name = v /\ l.uid = view.uid)} \cup {LockOf(v, view)}

\* mutant: the uid is not compared
Matched_ByName(target, view) == target.uid # 0

\* isTargetObjMatched
Matched(target, view) == target.uid # 0 /\ target.uid = view.target

(***************************************************************************)
(* RisingWaveValidatingWebhook.validateUpdate, the part on locks: the      *)
(* group locks are visited in order, with two counters.                    *)
(***************************************************************************)
\* ReadReplicas: a missing group reads as zero
ReadReplicas(groups, g) == IF groups[g] = Absent THEN 0 ELSE groups[g]

\* the counters after the first k group locks: does one of them count as an
\* update, does one count as unchanged?
UpdateCounted(l, new, old, k) ==
    \E i \in 1 .. k :
        LET g == l.groups[i].name IN
        /\ new[g] # Absent
        /\ \/ new[g] = l.groups[i].replicas
           \/ new[g] # ReadReplicas(old, g)

UnchangedCounted(l, new, old, k) ==
    \E i \in 1 .. k :
        LET g == l.groups[i].name IN
        /\ new[g] # Absent
        /\ new[g] # l.groups[i].replicas
        /\ new[g] = ReadReplicas(old, g)

\* mutant: only the current group lock is looked at
GroupLockAdmits_OneByOne(l, new, old, k) ==
    LET g == l.groups[k].name IN
    new[g] \in {l.groups[k].replicas, ReadReplicas(old, g)}

GroupLockAdmits(l, new, old, k) ==
    LET g == l.groups[k].name IN
    /\ new[g] # Absent                                \* "group is locked (delete)"
    /\ ~ /\ UnchangedCounted(l, new, old, k)          \* "group is locked (update)"
         /\ new[g] # ReadReplicas(old, g)
    /\ ~ /\ UpdateCounted(l, new, old, k)
         /\ new[g] # l.groups[k].replicas

validateUpdate(locks, new, old) ==
    \A l \in locks : \A k \in DOMAIN l.groups : GroupLockAdmits(l, new, old, k)

(***************************************************************************)
(* The API server: every write makes a new version the informers will see. *)
(***************************************************************************)
StoreRisingWave(obj) ==
    /\ rw' = obj
    /\ rwEvents' = rwEvents \cup {obj}

StoreView(v, obj) ==
    /\ sv' = [sv EXCEPT ![v] = obj]
    /\ svEvents' = [svEvents EXCEPT ![v] = @ \cup {obj}]

\* an update that keeps the stored object is not a new version
StoreGroups(groups) ==
    IF groups = rw.groups
    THEN UNCHANGED <<rw, rwEvents>>
    ELSE StoreRisingWave([rw EXCEPT !.rv = @ + 1, !.groups = groups])

IdleWorker ==
    [pc |-> "idle", view |-> NoView(0), was |-> FALSE,
     target |-> NoRisingWave(0), tries |-> 0, synced |-> FALSE]

IdleCtrl == [pc |-> "idle", obj |-> NoRisingWave(0), todo |-> {}, alive |-> {}]

InitRisingWave == [uid |-> 1, rv |-> 1, groups |-> InitialReplicas, locks |-> {}]

Init ==
    /\ rw = InitRisingWave
    /\ rwCache = InitRisingWave
    /\ rwEvents = {}
    /\ sv = [v \in Views |-> NoView(0)]
    /\ svCache = [v \in Views |-> NoView(0)]
    /\ svEvents = [v \in Views |-> {}]
    /\ svQueue = {}
    /\ rwQueue = FALSE
    /\ worker = [v \in Views |-> IdleWorker]
    /\ ctrl = IdleCtrl
    /\ budget = [edits |-> MaxEdits, crashes |-> MaxCrashes,
                 writes |-> MaxStatusWrites]

-----------------------------------------------------------------------------
(* Informers: versions are delivered in order, each kind on its own.       *)

DeliverRisingWave ==
    \E e \in rwEvents :
        /\ \A x \in rwEvents : e.rv <= x.rv
        /\ rwCache' = e
        /\ rwEvents' = rwEvents \ {e}
        /\ rwQueue' = TRUE
        \* views recorded in the old or in the new object
        /\ svQueue' = svQueue \cup {l.name : l \in e.locks \cup rwCache.locks}
        /\ UNCHANGED <<rw, sv, svCache, svEvents, worker, ctrl, budget>>

\* mutant: the RisingWave controller does not watch views
DeliverView_Unwatched(v) ==
    \E e \in svEvents[v] :
        /\ \A x \in svEvents[v] : e.rv <= x.rv
        /\ svCache' = [svCache EXCEPT ![v] = e]
        /\ svEvents' = [svEvents EXCEPT ![v] = @ \ {e}]
        /\ svQueue' = svQueue \cup {v}
        /\ UNCHANGED <<rw, rwCache, rwEvents, sv, rwQueue, worker, ctrl, budget>>

DeliverView(v) ==
    \E e \in svEvents[v] :
        /\ \A x \in svEvents[v] : e.rv <= x.rv
        /\ svCache' = [svCache EXCEPT ![v] = e]
        /\ svEvents' = [svEvents EXCEPT ![v] = @ \ {e}]
        /\ svQueue' = svQueue \cup {v}
        \* the RisingWave controller watches the delete events of views
        /\ rwQueue' = (rwQueue \/ e.uid = 0)
        /\ UNCHANGED <<rw, rwCache, rwEvents, sv, worker, ctrl, budget>>

-----------------------------------------------------------------------------
(* RisingWaveScaleViewController.Reconcile for one view.                   *)

ReconcileView(v) ==
    /\ v \in svQueue
    /\ worker[v].pc = "idle"
    /\ svQueue' = svQueue \ {v}
    /\ worker' = IF svCache[v].uid = 0
                 THEN worker
                 ELSE [worker EXCEPT ![v] =
                          [IdleWorker EXCEPT !.pc = "grab", !.view = svCache[v],
                                             !.was = svCache[v].locked]]
    /\ UNCHANGED <<api, cache, rwQueue, ctrl, budget>>

\* the sequential part is over; what it read is dropped
Joined(v, view) ==
    worker' = [worker EXCEPT ![v] =
                 [@ EXCEPT !.pc = "joined", !.view = view,
                           !.target = NoRisingWave(0), !.tries = 0]]

\* mutant: the last error is swallowed
GrabFails_Swallowed(v) ==
    /\ Joined(v, worker[v].view)
    /\ UNCHANGED svQueue

\* RetryInterval: another attempt, or the error is returned and requeues
GrabFails(v) ==
    \/ /\ worker[v].tries + 1 < RetryLimit
       /\ worker' = [worker EXCEPT ![v].pc = "grab", ![v].tries = @ + 1,
                                   ![v].target = NoRisingWave(0)]
       /\ UNCHANGED svQueue
    \/ /\ worker[v].tries + 1 >= RetryLimit
       /\ Joined(v, worker[v].view)
       /\ svQueue' = svQueue \cup {v}

\* GrabOrUpdateScaleViewLock, up to the request
GrabOrUpdateScaleViewLock(v) ==
    LET view == worker[v].view IN
    /\ worker[v].pc = "grab"
    /\ \/ /\ \/ ~Matched(rwCache, view)
             \/ HoldsCurrent(v, view, rwCache.locks)
          /\ worker' = [worker EXCEPT ![v].pc = "sync"]
          /\ UNCHANGED svQueue
       \/ /\ Matched(rwCache, view)
          /\ ~HoldsCurrent(v, view, rwCache.locks)
          /\ \/ Holds(v, view, rwCache.locks)
             \/ CanGrab(v, view.policy, rwCache.locks)
          /\ worker' = [worker EXCEPT ![v] =
                          [@ EXCEPT !.pc = "grabWrite", !.target = rwCache]]
          /\ UNCHANGED svQueue
       \/ /\ Matched(rwCache, view)
          /\ ~Holds(v, view, rwCache.locks)
          /\ ~CanGrab(v, view.policy, rwCache.locks)
          /\ GrabFails(v)
    /\ UNCHANGED <<api, cache, rwQueue, ctrl, budget>>

\* its Status().Update(targetObj): atomic, or a conflict
UpdateLock(v) ==
    LET view == worker[v].view
        target == worker[v].target
    IN
    /\ worker[v].pc = "grabWrite"
    /\ \/ /\ rw.uid # 0
          /\ rw.rv = target.rv
          /\ StoreRisingWave([rw EXCEPT !.rv = @ + 1,
                                        !.locks = GrabOrUpdate(v, view, target.locks)])
          /\ Joined(v, [view EXCEPT !.locked = TRUE])
          /\ svQueue' = svQueue \cup {v}                  \* RequeueImmediately
       \/ /\ rw.uid = 0 \/ rw.rv # target.rv
          /\ GrabFails(v)
          /\ UNCHANGED <<rw, rwEvents>>
    /\ UNCHANGED <<sv, svEvents, cache, rwQueue, ctrl, budget>>

LockValue(l, g) ==
    l.groups[CHOOSE i \in DOMAIN l.groups : l.groups[i].name = g].replicas

\* WriteReplicas for every group lock: missing groups are skipped
WriteReplicas(groups, l) ==
    [g \in Groups |-> IF groups[g] # Absent /\ g \in LockedGroups(l)
                      THEN LockValue(l, g)
                      ELSE groups[g]]

\* the groups of the target after the in-memory writes
Synced(v, target) ==
    WriteReplicas(target.groups,
                  CHOOSE l \in target.locks : l.name = v /\ l.uid = worker[v].view.uid)

\* SyncGroupReplicasToRisingWave, up to the request
SyncGroupReplicasToRisingWave(v) ==
    LET view == worker[v].view IN
    /\ worker[v].pc = "sync"
    /\ \/ /\ ~Matched(rwCache, view)
          /\ Joined(v, view)
          /\ UNCHANGED svQueue
       \/ /\ Matched(rwCache, view)                 \* "Lock is outdated, retry..."
          /\ ~HoldsCurrent(v, view, rwCache.locks)
          /\ Joined(v, view)
          /\ svQueue' = svQueue \cup {v}
       \/ /\ Matched(rwCache, view)
          /\ HoldsCurrent(v, view, rwCache.locks)
          /\ IF Synced(v, rwCache) = rwCache.groups
             THEN Joined(v, view)
             ELSE worker' = [worker EXCEPT ![v] =
                               [@ EXCEPT !.pc = "patch", !.target = rwCache]]
          /\ UNCHANGED svQueue
    /\ UNCHANGED <<api, cache, rwQueue, ctrl, budget>>

\* the JSON merge patch carries the whole nodeGroups list of the component, as
\* the controller read it, with its own groups rewritten
Merged(v, groups) ==
    LET comp == ComponentOf[worker[v].view.policy[1].group]
        list == Synced(v, worker[v].target)
    IN [g \in Groups |-> IF ComponentOf[g] = comp THEN list[g] ELSE groups[g]]

\* its Patch(targetObj, MergeFrom(original)): no resourceVersion, by name only
PatchReplicas(v) ==
    LET admitted == /\ rw.uid # 0
                    /\ validateUpdate(rw.locks, Merged(v, rw.groups), rw.groups)
    IN
    /\ worker[v].pc = "patch"
    /\ Joined(v, worker[v].view)
    /\ \/ /\ admitted
          /\ StoreGroups(Merged(v, rw.groups))
          /\ UNCHANGED svQueue
       \/ /\ ~admitted
          /\ svQueue' = svQueue \cup {v}
          /\ UNCHANGED <<rw, rwEvents>>
    /\ UNCHANGED <<sv, svEvents, cache, rwQueue, ctrl, budget>>

StatusOf(view) ==
    IF Matched(rwCache, view) THEN view ELSE [view EXCEPT !.locked = FALSE]

\* SyncGroupReplicasStatusFromRisingWave; Join runs it before or after the
\* sequential part
SyncGroupReplicasStatus(v) ==
    /\ ~worker[v].synced
    /\ \/ worker[v].pc = "grab" /\ worker[v].tries = 0
       \/ worker[v].pc = "joined"
    /\ worker' = [worker EXCEPT ![v] =
                    [@ EXCEPT !.synced = TRUE, !.view = StatusOf(worker[v].view)]]
    /\ UNCHANGED <<api, cache, svQueue, rwQueue, ctrl, budget>>

\* UpdateScaleViewStatus: Status().Update(scaleView) if the status changed, in
\* locked or (other) in the running replicas
UpdateScaleViewStatus(v, other) ==
    LET view == worker[v].view
        changed == other \/ view.locked # worker[v].was
    IN
    /\ worker[v].pc = "joined"
    /\ worker[v].synced
    /\ other => budget.writes > 0
    /\ worker' = [worker EXCEPT ![v] = IdleWorker]
    /\ \/ /\ ~changed
          /\ UNCHANGED <<sv, svEvents, svQueue, budget>>
       \/ /\ changed /\ sv[v].uid # 0
          /\ sv[v].rv = view.rv
          /\ StoreView(v, [sv[v] EXCEPT !.rv = @ + 1, !.locked = view.locked])
          /\ budget' = IF other THEN [budget EXCEPT !.writes = @ - 1] ELSE budget
          /\ UNCHANGED svQueue
       \/ /\ changed
          /\ sv[v].uid = 0 \/ sv[v].rv # view.rv        \* NotFound, Conflict
          /\ svQueue' = svQueue \cup {v}
          /\ UNCHANGED <<sv, svEvents, budget>>
    /\ UNCHANGED <<rw, rwEvents, cache, rwQueue, ctrl>>

ViewStep(v) ==
    \/ ReconcileView(v)
    \/ GrabOrUpdateScaleViewLock(v)
    \/ UpdateLock(v)
    \/ SyncGroupReplicasToRisingWave(v)
    \/ PatchReplicas(v)
    \/ SyncGroupReplicasStatus(v)
    \/ \E other \in BOOLEAN : UpdateScaleViewStatus(v, other)

-----------------------------------------------------------------------------
(* RisingWaveController.Reconcile, the part that touches the locks.        *)

ReconcileRisingWave ==
    /\ rwQueue
    /\ ctrl.pc = "idle"
    /\ rwQueue' = FALSE
    /\ ctrl' = IF rwCache.uid = 0
               THEN ctrl
               ELSE [pc |-> "release", obj |-> rwCache,
                     todo |-> rwCache.locks, alive |-> {}]
    /\ UNCHANGED <<api, cache, svQueue, worker, budget>>

\* releaseScaleViewLock, one lock: kept while the cache shows its view
ReleaseScaleViewLock ==
    /\ ctrl.pc = "release"
    /\ \E l \in ctrl.todo :
          ctrl' = [ctrl EXCEPT
                     !.todo = @ \ {l},
                     !.alive = IF svCache[l.name].uid = l.uid THEN @ \cup {l} ELSE @]
    /\ UNCHANGED <<api, cache, svQueue, rwQueue, worker, budget>>

\* mutant: the status is written without looking at the resourceVersion
UpdateRisingWaveStatus_Blind(other) ==
    /\ ctrl.pc = "release"
    /\ ctrl.todo = {}
    /\ other => budget.writes > 0
    /\ ctrl' = IdleCtrl
    /\ rw.uid # 0
    /\ StoreRisingWave([rw EXCEPT !.rv = @ + 1, !.locks = ctrl.alive])
    /\ budget' = IF other THEN [budget EXCEPT !.writes = @ - 1] ELSE budget
    /\ UNCHANGED <<sv, svEvents, cache, svQueue, rwQueue, worker>>

\* UpdateRemoteRisingWaveStatus: Status().Update if the status changed, in the
\* locks or (other) in another part of it
UpdateRisingWaveStatus(other) ==
    LET changed == other \/ ctrl.alive # ctrl.obj.locks IN
    /\ ctrl.pc = "release"
    /\ ctrl.todo = {}
    /\ other => budget.writes > 0
    /\ ctrl' = IdleCtrl
    /\ \/ /\ ~changed \/ rw.uid = 0                       \* NotFound: skipped
          /\ UNCHANGED <<rw, rwEvents, rwQueue, budget>>
       \/ /\ changed /\ rw.uid # 0
          /\ rw.rv = ctrl.obj.rv
          /\ StoreRisingWave([rw EXCEPT !.rv = @ + 1, !.locks = ctrl.alive])
          /\ budget' = IF other THEN [budget EXCEPT !.writes = @ - 1] ELSE budget
          /\ UNCHANGED rwQueue
       \/ /\ changed /\ rw.uid # 0
          /\ rw.rv # ctrl.obj.rv                          \* Conflict: requeue
          /\ rwQueue' = TRUE
          /\ UNCHANGED <<rw, rwEvents, budget>>
    /\ UNCHANGED <<sv, svEvents, cache, svQueue, worker>>

ControllerStep ==
    \/ ReconcileRisingWave
    \/ ReleaseScaleViewLock
    \/ \E other \in BOOLEAN : UpdateRisingWaveStatus(other)

-----------------------------------------------------------------------------
(* Users.                                                                  *)

UserRequest(kind) ==
    /\ kind \in UserRequests
    /\ budget.edits > 0
    /\ budget' = [budget EXCEPT !.edits = @ - 1]
    /\ UNCHANGED <<cache, svQueue, rwQueue, worker, ctrl>>

CurrentReplicas(p) == MapThenSumSet(LAMBDA g : rw.groups[g], PolicyGroups(p))

\* The mutating webhook reads the stored RisingWave: it sets the target's uid
\* and the replicas, and refuses groups that are missing or above their limit.
\* The validating webhook tries to grab the lock on the cached one.
CreateView(v, p) ==
    /\ UserRequest("create")
    /\ sv[v].uid = 0
    /\ rw.uid # 0
    /\ \A i \in DOMAIN p : /\ rw.groups[p[i].group] # Absent
                           /\ rw.groups[p[i].group] <= p[i].max
    /\ ValidateScaleViews => /\ rwCache.uid = rw.uid
                             /\ CanGrab(v, p, rwCache.locks)
    /\ CurrentReplicas(p) \in Replicas
    /\ StoreView(v, [uid |-> sv[v].rv + 1, gen |-> 1, rv |-> sv[v].rv + 1,
                     replicas |-> CurrentReplicas(p), policy |-> p,
                     target |-> rw.uid, locked |-> FALSE])
    /\ UNCHANGED <<rw, rwEvents>>

\* the scale subresource: no webhook
ScaleTo(v, n) ==
    /\ UserRequest("scale")
    /\ sv[v].uid # 0
    /\ sv[v].replicas # n
    /\ StoreView(v, [sv[v] EXCEPT !.gen = @ + 1, !.rv = @ + 1, !.replicas = n])
    /\ UNCHANGED <<rw, rwEvents>>

\* mutant: the groups may change
EditPolicy_Unpinned(v, p) ==
    /\ UserRequest("policy")
    /\ sv[v].uid # 0
    /\ sv[v].policy # p
    /\ StoreView(v, [sv[v] EXCEPT !.gen = @ + 1, !.rv = @ + 1, !.policy = p])
    /\ UNCHANGED <<rw, rwEvents>>

\* an update of the scale policy: the validating webhook pins the groups
EditPolicy(v, p) ==
    /\ UserRequest("policy")
    /\ sv[v].uid # 0
    /\ sv[v].policy # p
    /\ ComponentOf[p[1].group] = ComponentOf[sv[v].policy[1].group]
    /\ ValidateScaleViews => PolicyGroups(p) = PolicyGroups(sv[v].policy)
    /\ StoreView(v, [sv[v] EXCEPT !.gen = @ + 1, !.rv = @ + 1, !.policy = p])
    /\ UNCHANGED <<rw, rwEvents>>

\* no finalizer: the view is gone at once
DeleteView(v) ==
    /\ UserRequest("delete")
    /\ sv[v].uid # 0
    /\ StoreView(v, NoView(sv[v].rv + 1))
    /\ UNCHANGED <<rw, rwEvents>>

\* an update of the node groups, admitted by the RisingWave webhook
EditRisingWave(groups) ==
    /\ UserRequest("edit")
    /\ rw.uid # 0
    /\ groups # rw.groups
    /\ validateUpdate(rw.locks, groups, rw.groups)
    /\ StoreGroups(groups)
    /\ UNCHANGED <<sv, svEvents>>

DeleteRisingWave ==
    /\ UserRequest("recreate")
    /\ rw.uid # 0
    /\ StoreRisingWave(NoRisingWave(rw.rv + 1))
    /\ UNCHANGED <<sv, svEvents>>

CreateRisingWave ==
    /\ UserRequest("recreate")
    /\ rw.uid = 0
    /\ StoreRisingWave([uid |-> rw.rv + 1, rv |-> rw.rv + 1,
                        groups |-> InitialReplicas, locks |-> {}])
    /\ UNCHANGED <<sv, svEvents>>

\* the values a user may give to a node group
EditedGroups ==
    {[rw.groups EXCEPT ![g] = n] : g \in Groups, n \in UserReplicas \cup {Absent}}

User ==
    \/ \E v \in Views, p \in Policies : CreateView(v, p)
    \/ \E v \in Views, n \in UserReplicas : ScaleTo(v, n)
    \/ \E v \in Views, p \in Policies : EditPolicy(v, p)
    \/ \E v \in Views : DeleteView(v)
    \/ \E groups \in EditedGroups : EditRisingWave(groups)
    \/ DeleteRisingWave
    \/ CreateRisingWave

-----------------------------------------------------------------------------
(* The operator restarts: what it held in memory is lost, the informers    *)
(* list again and enqueue every object they find.                          *)
Restart ==
    /\ budget.crashes > 0
    /\ budget' = [budget EXCEPT !.crashes = @ - 1]
    /\ rwCache' = rw
    /\ rwEvents' = {}
    /\ svCache' = sv
    /\ svEvents' = [v \in Views |-> {}]
    /\ svQueue' = {v \in Views : sv[v].uid # 0} \cup {l.name : l \in rw.locks}
    /\ rwQueue' = (rw.uid # 0)
    /\ worker' = [v \in Views |-> IdleWorker]
    /\ ctrl' = IdleCtrl
    /\ UNCHANGED <<rw, sv>>

Next ==
    \/ DeliverRisingWave
    \/ \E v \in Views : DeliverView(v) \/ ViewStep(v)
    \/ ControllerStep
    \/ User
    \/ Restart

Spec == Init /\ [][Next]_vars

(* Informers deliver, queued keys are taken up and a started reconcile     *)
(* goes on; users may stop and the operator need not crash.                *)
Fairness ==
    /\ WF_vars(DeliverRisingWave)
    /\ \A v \in Views : WF_vars(DeliverView(v)) /\ WF_vars(ViewStep(v))
    /\ WF_vars(ControllerStep)

FairSpec == Spec /\ Fairness

-----------------------------------------------------------------------------
(* Properties.                                                             *)

GroupLockType == [name: Groups, replicas: Replicas]

LockType == [name: Views, uid: Nat, gen: Nat, groups: Seq(GroupLockType)]

RisingWaveType ==
    [uid: Nat, rv: Nat, groups: [Groups -> Replicas \cup {Absent}],
     locks: SUBSET LockType]

ViewType ==
    [uid: Nat, gen: Nat, rv: Nat, replicas: Replicas,
     policy: Policies \cup {<<>>}, target: Nat, locked: BOOLEAN]

WorkerType ==
    [pc: {"idle", "grab", "grabWrite", "sync", "patch", "joined"},
     view: ViewType, was: BOOLEAN, target: RisingWaveType,
     tries: 0 .. RetryLimit, synced: BOOLEAN]

CtrlType ==
    [pc: {"idle", "release"}, obj: RisingWaveType,
     todo: SUBSET LockType, alive: SUBSET LockType]

(* Every variable holds objects of the shapes the operator exchanges with  *)
(* the API server.                                                         *)
TypeOK ==
    /\ rw \in RisingWaveType
    /\ rwCache \in RisingWaveType
    /\ rwEvents \in SUBSET RisingWaveType
    /\ sv \in [Views -> ViewType]
    /\ svCache \in [Views -> ViewType]
    /\ svEvents \in [Views -> SUBSET ViewType]
    /\ svQueue \in SUBSET Views
    /\ rwQueue \in BOOLEAN
    /\ worker \in [Views -> WorkerType]
    /\ ctrl \in CtrlType
    /\ budget \in [edits: Nat, crashes: Nat, writes: Nat]

\* no two locks under one name, none sharing a group
Exclusive(locks) ==
    \A k, l \in locks :
        k # l => /\ k.name # l.name
                 /\ LockedGroups(k) \cap LockedGroups(l) = {}

(* "Once a group is owned by some scale view, then another scale view      *)
(* would not be able to grab the lock again" (RFC 0004), whatever the      *)
(* caches show the reconciles that race for it.                            *)
LockExclusive == Exclusive(rw.locks)

(* A lock that carries the generation of its view carries the split of     *)
(* that generation's replicas, and no lock is ahead of its view.           *)
LockAgreesWithView ==
    \A l \in rw.locks :
        sv[l.name].uid = l.uid =>
            /\ l.gen <= sv[l.name].gen
            /\ l.gen = sv[l.name].gen => l.groups = GroupLocks(sv[l.name])

(* releaseScaleViewLock decides on cached views: it never drops the lock   *)
(* of a view that exists, and no reconcile takes a lock back to an older   *)
(* generation.                                                             *)
LiveLockKept ==
    [][rw'.uid = rw.uid =>
         \A l \in rw.locks :
            sv[l.name].uid = l.uid =>
               \E k \in rw'.locks :
                  k.name = l.name /\ k.uid = l.uid /\ k.gen >= l.gen]_vars

(* The validating webhook: a step that changes node groups leaves all the  *)
(* groups of a lock alone or takes all of them to the lock's replicas, and *)
(* never removes one.                                                      *)
LockedGroupsMoveTogether ==
    [][rw'.uid = rw.uid /\ rw'.groups # rw.groups =>
         \A l \in rw.locks :
            \/ \A g \in LockedGroups(l) :
                  rw'.groups[g] # Absent /\ rw'.groups[g] = ReadReplicas(rw.groups, g)
            \/ \A g \in LockedGroups(l) : rw'.groups[g] = LockValue(l, g)]_vars

\* nothing queued, nothing in flight, nothing undelivered
Quiescent ==
    /\ rwEvents = {} /\ ~rwQueue /\ ctrl.pc = "idle"
    /\ svQueue = {}
    /\ \A v \in Views : svEvents[v] = {} /\ worker[v].pc = "idle"

(* The operator never goes to sleep on unfinished work: once it is idle,   *)
(* every lock belongs to an existing view, every view bound to the         *)
(* RisingWave holds a lock at its own generation, and every locked group   *)
(* runs the replicas of its lock.                                          *)
SettledWhenIdle ==
    Quiescent /\ rw.uid # 0 =>
        /\ \A l \in rw.locks : sv[l.name].uid = l.uid
        /\ \A v \in Views :
              sv[v].uid # 0 /\ sv[v].target = rw.uid
                  => HoldsCurrent(v, sv[v], rw.locks)
        /\ \A l \in rw.locks : \A g \in LockedGroups(l) :
              rw.groups[g] \in {LockValue(l, g), Absent}

(* A view is bound to the RisingWave it was created for: it locks no group *)
(* of another RisingWave that later takes the same name.                   *)
LocksOfBoundViews ==
    \A l \in rw.locks : sv[l.name].uid = l.uid => sv[l.name].target = rw.uid

(* A view that is gone does not keep its groups: its lock is released.     *)
DeadLockReleased ==
    \A v \in Views :
        (\E l \in rw.locks : l.name = v /\ l.uid # sv[v].uid)
            ~> (\A l \in rw.locks : l.name = v => l.uid = sv[v].uid)

\* the node groups run what the view asks for
Served(v) ==
    /\ HoldsCurrent(v, sv[v], rw.locks)
    /\ \A i \in DOMAIN sv[v].policy :
          LET g == sv[v].policy[i].group IN
          rw.groups[g] = Split(sv[v].policy, sv[v].replicas)[g]

\* the RisingWave the view was created for is gone, or lacks one of its groups
Unservable(v) ==
    \/ sv[v].uid = 0
    \/ sv[v].target # rw.uid
    \/ \E i \in DOMAIN sv[v].policy : rw.groups[sv[v].policy[i].group] = Absent

(* RFC 0004: the view "keeps them synced with the RisingWave's": a view    *)
(* whose groups exist gets the replicas it asks for.                       *)
ViewsServed == \A v \in Views : []<>(Served(v) \/ Unservable(v))

-----------------------------------------------------------------------------
(* Why LockExclusive holds: the facts that make it inductive.              *)

RisingWaveCopies ==
    {rwCache, ctrl.obj} \cup rwEvents \cup {worker[v].target : v \in Views}

ViewCopies(v) == {sv[v], svCache[v], worker[v].view} \cup svEvents[v]

\* what a worker read justifies the request it is about to send
ReadsJustify(v, w) ==
    /\ w.pc # "idle" => w.view.uid # 0
    /\ w.pc = "grabWrite" => /\ Matched(w.target, w.view)
                             /\ \/ Holds(v, w.view, w.target.locks)
                                \/ CanGrab(v, w.view.policy, w.target.locks)
    /\ w.pc = "patch" => Holds(v, w.view, w.target.locks)

WorkerReads == \A v \in Views : ReadsJustify(v, worker[v])

ControllerReads == ctrl.alive \cup ctrl.todo \subseteq ctrl.obj.locks

(* Optimistic locking: a copy with the stored resourceVersion is the       *)
(* stored object, and none is newer.                                       *)
VersionsAgree ==
    /\ rw.rv > 0
    /\ \A x \in RisingWaveCopies : x.rv <= rw.rv /\ (x.rv = rw.rv => x = rw)

(* The validating webhook pins the groups of a view, so all copies of one  *)
(* incarnation target the same groups; uids are not reused.                *)
GroupsPinned ==
    \A v \in Views : \A x \in ViewCopies(v) :
        /\ x.uid <= sv[v].rv
        /\ \A y \in ViewCopies(v) :
              x.uid = y.uid /\ x.uid # 0 => PolicyGroups(x.policy) = PolicyGroups(y.policy)

(* A lock covers the groups of the incarnation that it belongs to.         *)
LocksPinned ==
    \A l \in rw.locks :
        /\ l.uid # 0
        /\ l.uid <= sv[l.name].rv
        /\ \A x \in ViewCopies(l.name) :
              x.uid = l.uid => PolicyGroups(x.policy) = LockedGroups(l)

LockInv ==
    /\ TypeOK
    /\ WorkerReads
    /\ ControllerReads
    /\ VersionsAgree
    /\ GroupsPinned
    /\ LocksPinned
    /\ LockExclusive

-----------------------------------------------------------------------------
(* Why a lock follows its view: the order in which versions are read.  One *)
(* reconcile per view at a time, on a cache that never goes back, reads    *)
(* the versions of the view in order and writes the lock in that order.    *)

\* if y is the later of two versions of one incarnation, x is its past
InOrder(x, y) ==
    x.uid = y.uid /\ x.uid # 0 /\ x.rv <= y.rv =>
        /\ x.target = y.target
        /\ x.gen <= y.gen
        /\ x.gen = y.gen => x.policy = y.policy /\ x.replicas = y.replicas

ViewInOrder(v) ==
    /\ worker[v].view.rv <= svCache[v].rv
    /\ \A x \in svEvents[v] : svCache[v].rv <= x.rv
    /\ \A x \in ViewCopies(v) :
          /\ x.uid <= x.rv
          /\ x.rv <= sv[v].rv
          /\ x.uid # 0 => x.policy \in Policies
          /\ sv[v].uid # 0 /\ sv[v].uid <= x.rv => x.uid = sv[v].uid
          /\ \A y \in ViewCopies(v) : InOrder(x, y)

ViewsInOrder == \A v \in Views : ViewInOrder(v)

\* a lock in any version of the RisingWave is behind every copy of its view
LockInOrder(l, uid) ==
    /\ l.uid # 0
    /\ l.uid <= svCache[l.name].rv
    /\ \A x \in ViewCopies(l.name) :
          x.uid = l.uid =>
              /\ x.target = uid
              /\ l.gen <= x.gen
              /\ l.gen = x.gen => l.groups = GroupLocks(x)

LocksInOrder ==
    \A obj \in RisingWaveCopies \cup {rw} : \A l \in obj.locks : LockInOrder(l, obj.uid)

\* releaseScaleViewLock has only dropped locks of incarnations that are gone
DroppedAreDead ==
    \A l \in ctrl.obj.locks \ (ctrl.todo \cup ctrl.alive) : sv[l.name].uid # l.uid

(* What the reconciles read and hold is a past of what is stored, in the   *)
(* order in which it was stored: requests on stale objects change nothing, *)
(* a lock is never newer than its view, and only the locks of deleted      *)
(* views are dropped.                                                      *)
HistoryInv ==
    /\ TypeOK
    /\ WorkerReads
    /\ ControllerReads
    /\ VersionsAgree
    /\ ViewsInOrder
    /\ LocksInOrder
    /\ DroppedAreDead

-----------------------------------------------------------------------------
(* Why nobody goes to sleep on unfinished work: what an idle operator has  *)
(* not done is known to an event, a queue or a reconcile that is on its    *)
(* way.                                                                    *)

(* The informers deliver the stored version last.                          *)
InformersCatchUp ==
    /\ IF rwEvents = {} THEN rwCache = rw ELSE rw \in rwEvents
    /\ \A v \in Views :
          /\ IF svEvents[v] = {} THEN svCache[v] = sv[v] ELSE sv[v] \in svEvents[v]
          /\ \A x \in svEvents[v] : x.rv = sv[v].rv => x = sv[v]

(* Versions of the RisingWave: uids are not reused, the cache is the past  *)
(* of the events, and nothing refers to a RisingWave to come.              *)
RisingWavesInOrder ==
    /\ \A x \in RisingWaveCopies \cup {rw} :
          /\ x.uid <= x.rv
          /\ rw.uid # 0 /\ rw.uid <= x.rv => x.uid = rw.uid
    /\ \A e \in rwEvents : rwCache.rv <= e.rv
    /\ \A v \in Views : sv[v].target <= rw.rv

(* While the informer shows a view that is gone, the deletion is still to  *)
(* be delivered.                                                           *)
DeletesAnnounced ==
    \A v \in Views : \A x \in {svCache[v]} \cup svEvents[v] :
        x.uid \notin {0, sv[v].uid} => \E e \in svEvents[v] : e.uid = 0 /\ e.rv > x.rv

\* releaseScaleViewLock is about to drop this lock
Releasing(l) ==
    /\ ctrl.pc = "release"
    /\ ctrl.obj = rw
    /\ l \notin ctrl.alive
    /\ l \in ctrl.todo => svCache[l.name].uid # l.uid

(* The lock of a view that is gone has been noticed, or is going to be.    *)
DeadLocksNoticed ==
    rw.uid # 0 =>
        \A l \in rw.locks :
            sv[l.name].uid # l.uid =>
                \/ rwEvents # {}
                \/ rwQueue
                \/ \E e \in svEvents[l.name] : e.uid = 0
                \/ Releasing(l)

\* the view is bound to the RisingWave there is
Bound(v) == sv[v].uid # 0 /\ rw.uid # 0 /\ sv[v].target = rw.uid

(* The webhook saw the RisingWave in the cache when it admitted the view.  *)
TargetsCached == \A v \in Views : Bound(v) => rwCache.uid = rw.uid

(* A lock at the generation of its view that was there once still is.      *)
CurrentLocksKept ==
    \A v \in Views : \A x \in RisingWaveCopies :
        Bound(v) /\ x.uid = rw.uid /\ HoldsCurrent(v, sv[v], x.locks)
            => HoldsCurrent(v, sv[v], rw.locks)

\* nothing is going to start another reconcile of the view
Unwoken(v) == svEvents[v] = {} /\ v \notin svQueue

\* copies of one version of a view: only the status in memory may differ
SameVersion(x, y) ==
    /\ x.uid = y.uid
    /\ x.gen = y.gen
    /\ x.rv = y.rv
    /\ x.replicas = y.replicas
    /\ x.policy = y.policy
    /\ x.target = y.target

(* A reconcile that no other follows works on the stored view.             *)
LastReadsCurrent ==
    \A v \in Views :
        Unwoken(v) /\ worker[v].pc # "idle" => SameVersion(worker[v].view, sv[v])

(* No reconcile leaves its bound view without a lock at its generation.    *)
BoundViewsHold ==
    \A v \in Views :
        Unwoken(v) /\ Bound(v) /\ worker[v].pc \in {"idle", "joined", "patch"}
            => HoldsCurrent(v, sv[v], rw.locks)

\* the groups of the lock run its replicas
InStep(l) == \A g \in LockedGroups(l) : rw.groups[g] \in {LockValue(l, g), Absent}

(* No reconcile leaves the groups of its lock behind.                      *)
LocksInStep ==
    rw.uid # 0 /\ rwEvents = {} =>
        \A l \in rw.locks :
            Unwoken(l.name) /\ sv[l.name].uid = l.uid =>
                \/ InStep(l)
                \/ worker[l.name].pc \in {"grab", "grabWrite", "sync"}
                \/ worker[l.name].pc = "patch" /\ worker[l.name].target = rw

(* Whatever SettledWhenIdle asks for and is not done yet is on its way,    *)
(* and what is read is the past of what is stored.                         *)
ProgressInv ==
    /\ HistoryInv
    /\ InformersCatchUp
    /\ RisingWavesInOrder
    /\ DeletesAnnounced
    /\ DeadLocksNoticed
    /\ TargetsCached
    /\ CurrentLocksKept
    /\ LastReadsCurrent
    /\ BoundViewsHold
    /\ LocksInStep

-----------------------------------------------------------------------------
(* The locks as an abstract lock service.                                  *)

OwnerAmong(locks, g) ==
    IF \E l \in locks : g \in LockedGroups(l)
    THEN LET l == CHOOSE k \in locks : g \in LockedGroups(k)
         IN <<l.name, l.uid>>
    ELSE <<"none", 0>>

Service == INSTANCE GroupLockService
              WITH live  <- [v \in Views |-> sv[v].uid],
                   owner <- [g \in Groups |-> OwnerAmong(rw.locks, g)]

(* With the validating webhooks in place, stale caches, racing reconciles  *)
(* and restarts implement the lock service: groups are taken all at once,  *)
(* only free ones, and given back only by dead views.                      *)
ImplementsLockService == Service!Spec
=============================================================================
