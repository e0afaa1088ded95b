-------------------------- MODULE ScaleView_proofs --------------------------
(***************************************************************************)
(* Proofs about ScaleView, for any set of views, groups and policies and   *)
(* any bounds.                                                             *)
(***************************************************************************)
EXTENDS ScaleView, TLAPS

(* The lock that GrabScaleViewLockFor builds for a view is well formed and *)
(* covers exactly the groups of the view's policy.                         *)
LEMMA LockOfType ==
    ASSUME NEW v \in Views, NEW view \in ViewType
    PROVE  /\ LockOf(v, view) \in LockType
           /\ LockedGroups(LockOf(v, view)) = PolicyGroups(view.policy)
<1>1. view.policy \in Seq(PolicyEntries)
  <2>1. view.policy \in Policies \cup {<<>>}
    BY DEF ViewType
  <2>2. \A p \in Policies : p \in Seq(PolicyEntries)
    BY PolicyAssumption DEF PolicyShape
  <2>3. <<>> \in Seq(PolicyEntries)
    OBVIOUS
  <2>4. QED BY <2>1, <2>2, <2>3
<1>2. DOMAIN view.policy = 1 .. Len(view.policy) /\ Len(view.policy) \in Nat
  BY <1>1
<1>3. ASSUME NEW i \in DOMAIN view.policy
      PROVE  [name |-> view.policy[i].group,
              replicas |-> Split(view.policy, view.replicas)[view.policy[i].group]]
                \in GroupLockType
  <2>1. view.policy[i] \in PolicyEntries
    BY <1>1, <1>2, <1>3
  <2>2. view.policy \in Policies
    <3>1. view.policy # <<>>
      BY <1>2, <1>3
    <3>2. QED BY <3>1 DEF ViewType
  <2>3. view.policy[i].group \in PolicyGroups(view.policy)
    BY <1>3 DEF PolicyGroups
  <2>4. Split(view.policy, view.replicas)[view.policy[i].group] \in Replicas
    BY <2>2, <2>3, SplitAssumption DEF ViewType
  <2>5. QED BY <2>1, <2>4 DEF PolicyEntries, GroupLockType
<1>4. GroupLocks(view) \in Seq(GroupLockType)
  BY <1>2, <1>3 DEF GroupLocks
<1>5. LockOf(v, view) \in LockType
  BY <1>4 DEF LockOf, LockType, ViewType
<1>6. LockedGroups(LockOf(v, view)) = PolicyGroups(view.policy)
  BY <1>2 DEF LockedGroups, LockOf, GroupLocks, PolicyGroups
<1>7. QED BY <1>5, <1>6

(* Objects that do not exist are objects of the right shape.               *)
LEMMA EmptyTypes ==
    /\ \A n \in Nat : NoRisingWave(n) \in RisingWaveType /\ NoView(n) \in ViewType
    /\ IdleWorker \in WorkerType
    /\ IdleCtrl \in CtrlType
<1>0. 0 \in Replicas
  BY BoundsAssumption DEF Replicas
<1>1. \A n \in Nat : NoRisingWave(n) \in RisingWaveType
  BY DEF NoRisingWave, RisingWaveType, Absent
<1>2. \A n \in Nat : NoView(n) \in ViewType
  BY <1>0 DEF NoView, ViewType
<1>3. IdleWorker \in WorkerType
  BY <1>1, <1>2, BoundsAssumption DEF IdleWorker, WorkerType
<1>4. IdleCtrl \in CtrlType
  BY <1>1 DEF IdleCtrl, CtrlType
<1>5. QED BY <1>1, <1>2, <1>3, <1>4

(* The state in which the operator first starts is well formed.            *)
LEMMA InitTypeOK == Init => TypeOK
<1> SUFFICES ASSUME Init PROVE TypeOK
  OBVIOUS
<1>1. InitRisingWave \in RisingWaveType
  BY InitialReplicasAssumption DEF InitRisingWave, RisingWaveType
<1>2. QED
  BY <1>1, EmptyTypes, BoundsAssumption DEF Init, TypeOK

(* What the two reconciles hold in memory keeps its shape.                 *)
LEMMA JoinedType ==
    ASSUME TypeOK, NEW v \in Views, NEW view \in ViewType, Joined(v, view)
    PROVE  worker' \in [Views -> WorkerType]
<1>1. worker \in [Views -> WorkerType] /\ worker[v] \in WorkerType
  BY DEF TypeOK
<1>2. NoRisingWave(0) \in RisingWaveType
  BY EmptyTypes
<1>3. [worker[v] EXCEPT !.pc = "joined", !.view = view,
                         !.target = NoRisingWave(0), !.tries = 0] \in WorkerType
  <2>1. 0 \in 0 .. RetryLimit
    BY BoundsAssumption
  <2>2. \A w \in WorkerType, x \in RisingWaveType, n \in 0 .. RetryLimit :
          [w EXCEPT !.pc = "joined", !.view = view, !.target = x, !.tries = n]
             \in WorkerType
    BY DEF WorkerType
  <2>3. QED BY <1>1, <1>2, <2>1, <2>2
<1>4. QED
  BY <1>1, <1>3 DEF Joined

(* A failed attempt to grab a lock keeps the worker well formed: the       *)
(* retries never exceed RisingWaveScaleViewSyncLockRetryLimit.             *)
LEMMA GrabFailsType ==
    ASSUME TypeOK, NEW v \in Views, GrabFails(v)
    PROVE  /\ worker' \in [Views -> WorkerType]
           /\ svQueue' \in SUBSET Views
<1>1. worker \in [Views -> WorkerType] /\ worker[v] \in WorkerType
  BY DEF TypeOK
<1>2. NoRisingWave(0) \in RisingWaveType
  BY EmptyTypes
<1>3. CASE worker[v].tries + 1 < RetryLimit
  BY <1>1, <1>2, <1>3, BoundsAssumption DEF GrabFails, WorkerType, TypeOK
<1>4. CASE worker[v].tries + 1 >= RetryLimit /\ Joined(v, worker[v].view)
  <2>1. worker[v].view \in ViewType
    BY <1>1 DEF WorkerType
  <2>2. worker' \in [Views -> WorkerType]
    BY <1>4, <2>1, JoinedType
  <2>3. worker[v].tries \in Nat
    BY <1>1 DEF WorkerType
  <2>4. QED BY <1>4, <2>2, <2>3, BoundsAssumption DEF GrabFails, TypeOK
<1>5. QED BY <1>3, <1>4 DEF GrabFails

(* The next version of a stored object is an object of the same shape.     *)
LEMMA NextVersionType ==
    /\ \A obj \in RisingWaveType, groups \in [Groups -> Replicas \cup {Absent}] :
          [obj EXCEPT !.rv = @ + 1, !.groups = groups] \in RisingWaveType
    /\ \A obj \in RisingWaveType, locks \in SUBSET LockType :
          [obj EXCEPT !.rv = @ + 1, !.locks = locks] \in RisingWaveType
    /\ \A obj \in ViewType, b \in BOOLEAN :
          [obj EXCEPT !.rv = @ + 1, !.locked = b] \in ViewType
    /\ \A obj \in ViewType, n \in Replicas :
          [obj EXCEPT !.gen = @ + 1, !.rv = @ + 1, !.replicas = n] \in ViewType
    /\ \A obj \in ViewType, p \in Policies :
          [obj EXCEPT !.gen = @ + 1, !.rv = @ + 1, !.policy = p] \in ViewType
<1>1. \A obj \in RisingWaveType, n \in Nat :
        /\ \A groups \in [Groups -> Replicas \cup {Absent}] :
              [obj EXCEPT !.rv = n, !.groups = groups] \in RisingWaveType
        /\ \A locks \in SUBSET LockType :
              [obj EXCEPT !.rv = n, !.locks = locks] \in RisingWaveType
  BY DEF RisingWaveType
<1>2. \A obj \in ViewType, n \in Nat, b \in BOOLEAN :
         [obj EXCEPT !.rv = n, !.locked = b] \in ViewType
  BY DEF ViewType
<1>3. \A obj \in ViewType, m \in Nat, n \in Nat, k \in Replicas :
         [obj EXCEPT !.gen = m, !.rv = n, !.replicas = k] \in ViewType
  BY DEF ViewType
<1>4. \A obj \in ViewType, m \in Nat, n \in Nat, p \in Policies :
         [obj EXCEPT !.gen = m, !.rv = n, !.policy = p] \in ViewType
  BY DEF ViewType
<1>5. /\ \A obj \in RisingWaveType : obj.rv + 1 \in Nat
      /\ \A obj \in ViewType : obj.rv + 1 \in Nat /\ obj.gen + 1 \in Nat
  BY DEF RisingWaveType, ViewType
<1>6. QED BY <1>1, <1>2, <1>3, <1>4, <1>5

(* A write of a well-formed object leaves the stored objects and the       *)
(* pending events well formed.                                             *)
LEMMA StoreTypes ==
    ASSUME TypeOK
    PROVE  /\ \A obj \in RisingWaveType :
                StoreRisingWave(obj) => /\ rw' \in RisingWaveType
                                        /\ rwEvents' \in SUBSET RisingWaveType
           /\ \A v \in Views : \A obj \in ViewType :
                StoreView(v, obj) => /\ sv' \in [Views -> ViewType]
                                     /\ svEvents' \in [Views -> SUBSET ViewType]
           /\ \A groups \in [Groups -> Replicas \cup {Absent}] :
                StoreGroups(groups) => /\ rw' \in RisingWaveType
                                       /\ rwEvents' \in SUBSET RisingWaveType
<1>1. \A obj \in RisingWaveType :
         StoreRisingWave(obj) => /\ rw' \in RisingWaveType
                                 /\ rwEvents' \in SUBSET RisingWaveType
  BY DEF StoreRisingWave, TypeOK
<1>2. \A v \in Views : \A obj \in ViewType :
         StoreView(v, obj) => /\ sv' \in [Views -> ViewType]
                              /\ svEvents' \in [Views -> SUBSET ViewType]
  BY DEF StoreView, TypeOK
<1>3. \A groups \in [Groups -> Replicas \cup {Absent}] :
         [rw EXCEPT !.rv = @ + 1, !.groups = groups] \in RisingWaveType
  BY NextVersionType DEF TypeOK
<1>4. QED BY <1>1, <1>2, <1>3 DEF StoreGroups, TypeOK

(* An informer delivery keeps caches, events and queues well formed.       *)
LEMMA DeliverType ==
    ASSUME TypeOK, DeliverRisingWave \/ \E v \in Views : DeliverView(v)
    PROVE  TypeOK'
<1>1. CASE DeliverRisingWave
  <2>1. \A e \in RisingWaveType : \A l \in e.locks : l.name \in Views
    BY DEF RisingWaveType, LockType
  <2>2. QED BY <1>1, <2>1 DEF DeliverRisingWave, TypeOK
<1>2. ASSUME NEW v \in Views, DeliverView(v)
      PROVE  TypeOK'
  BY <1>2 DEF DeliverView, TypeOK
<1>3. QED BY <1>1, <1>2

(* The node groups a patch leaves are node groups: the lock whose replicas *)
(* it writes is in the copy of the RisingWave that the worker read.        *)
LEMMA MergedType ==
    ASSUME TypeOK, NEW v \in Views, Holds(v, worker[v].view, worker[v].target.locks)
    PROVE  Merged(v, rw.groups) \in [Groups -> Replicas \cup {Absent}]
<1> DEFINE target == worker[v].target
           l == CHOOSE k \in target.locks : k.name = v /\ k.uid = worker[v].view.uid
<1>1. target \in RisingWaveType
  BY DEF TypeOK, WorkerType
<1>2. l \in LockType
  BY <1>1 DEF Holds, RisingWaveType
<1>3. \A g \in LockedGroups(l) : LockValue(l, g) \in Replicas
  <2>1. l.groups \in Seq(GroupLockType)
    BY <1>2 DEF LockType
  <2>2. \A i \in DOMAIN l.groups : l.groups[i] \in GroupLockType
    BY <2>1
  <2>3. \A i \in DOMAIN l.groups : l.groups[i].replicas \in Replicas
    BY <2>2 DEF GroupLockType
  <2> HIDE DEF l
  <2>4. ASSUME NEW g \in LockedGroups(l)
        PROVE  (CHOOSE i \in DOMAIN l.groups : l.groups[i].name = g) \in DOMAIN l.groups
    BY <2>4 DEF LockedGroups
  <2>5. QED BY <2>3, <2>4 DEF LockValue
<1>4. WriteReplicas(target.groups, l) \in [Groups -> Replicas \cup {Absent}]
  <2> HIDE DEF l
  <2>1. target.groups \in [Groups -> Replicas \cup {Absent}]
    BY <1>1 DEF RisingWaveType
  <2> HIDE DEF target
  <2>2. QED BY <1>3, <2>1 DEF WriteReplicas
<1>5. Synced(v, target) \in [Groups -> Replicas \cup {Absent}]
  BY <1>4 DEF Synced
<1>6. rw.groups \in [Groups -> Replicas \cup {Absent}]
  BY DEF TypeOK, RisingWaveType
<1>7. QED BY <1>5, <1>6 DEF Merged

(* A status write for another reason uses up one of those allowed.         *)
LEMMA SpendWriteType ==
    ASSUME TypeOK, budget.writes > 0, budget' = [budget EXCEPT !.writes = @ - 1]
    PROVE  budget' \in [edits: Nat, crashes: Nat, writes: Nat]
BY DEF TypeOK

(* Every step of a view's reconcile keeps the types.                       *)
LEMMA ViewStepType ==
    ASSUME TypeOK, WorkerReads, NEW v \in Views, ViewStep(v)
    PROVE  TypeOK'
<1>0. /\ worker \in [Views -> WorkerType]
      /\ worker[v] \in WorkerType
      /\ worker[v].view \in ViewType
      /\ worker[v].target \in RisingWaveType
      /\ svCache[v] \in ViewType
      /\ sv[v] \in ViewType
      /\ svQueue \in SUBSET Views
  BY DEF TypeOK, WorkerType
<1>1. CASE ReconcileView(v)
  <2>1. IdleWorker \in WorkerType
    BY EmptyTypes
  <2>2. \A w \in WorkerType, view \in ViewType, b \in BOOLEAN :
           [w EXCEPT !.pc = "grab", !.view = view, !.was = b] \in WorkerType
    BY DEF WorkerType
  <2>3. svCache[v].locked \in BOOLEAN
    BY <1>0 DEF ViewType
  <2>4. worker' \in [Views -> WorkerType]
    <3>1. [IdleWorker EXCEPT !.pc = "grab", !.view = svCache[v],
                             !.was = svCache[v].locked] \in WorkerType
      BY <1>0, <2>1, <2>2, <2>3
    <3>2. QED BY <1>0, <1>1, <3>1 DEF ReconcileView
  <2>5. QED BY <1>0, <1>1, <2>4 DEF ReconcileView, TypeOK, api, cache
<1>2. CASE GrabOrUpdateScaleViewLock(v)
  <2>1. \A w \in WorkerType, obj \in RisingWaveType :
           /\ [w EXCEPT !.pc = "sync"] \in WorkerType
           /\ [w EXCEPT !.pc = "grabWrite", !.target = obj] \in WorkerType
    BY DEF WorkerType
  <2>2. worker' \in [Views -> WorkerType] /\ svQueue' \in SUBSET Views
    <3>1. rwCache \in RisingWaveType
      BY DEF TypeOK
    <3>2. /\ [worker[v] EXCEPT !.pc = "sync"] \in WorkerType
          /\ [worker[v] EXCEPT !.pc = "grabWrite", !.target = rwCache] \in WorkerType
      BY <1>0, <2>1, <3>1
    <3>3. CASE worker' = [worker EXCEPT ![v].pc = "sync"] /\ UNCHANGED svQueue
      BY <1>0, <3>2, <3>3
    <3>4. CASE /\ worker' = [worker EXCEPT ![v] =
                               [@ EXCEPT !.pc = "grabWrite", !.target = rwCache]]
               /\ UNCHANGED svQueue
      BY <1>0, <3>2, <3>4
    <3>5. CASE GrabFails(v)
      BY <3>5, GrabFailsType
    <3>6. QED BY <1>2, <3>3, <3>4, <3>5 DEF GrabOrUpdateScaleViewLock
  <2>3. QED BY <1>2, <2>2 DEF GrabOrUpdateScaleViewLock, TypeOK, api, cache
<1>3. CASE UpdateLock(v)
  <2>1. CASE rw.rv = worker[v].target.rv /\ rw.uid # 0
    <3>1. LockOf(v, worker[v].view) \in LockType
      BY <1>0, LockOfType
    <3>2. GrabOrUpdate(v, worker[v].view, worker[v].target.locks) \in SUBSET LockType
      BY <1>0, <3>1 DEF GrabOrUpdate, RisingWaveType
    <3>3. [rw EXCEPT !.rv = @ + 1,
                     !.locks = GrabOrUpdate(v, worker[v].view, worker[v].target.locks)]
             \in RisingWaveType
      BY <3>2, NextVersionType DEF TypeOK
    <3>4. [worker[v].view EXCEPT !.locked = TRUE] \in ViewType
      BY <1>0 DEF ViewType
    <3>5. worker' \in [Views -> WorkerType]
      BY <1>0, <1>3, <2>1, <3>4, JoinedType DEF UpdateLock
    <3>6. rw' \in RisingWaveType /\ rwEvents' \in SUBSET RisingWaveType
      BY <1>3, <2>1, <3>3, StoreTypes DEF UpdateLock
    <3>7. QED BY <1>0, <1>3, <2>1, <3>5, <3>6 DEF UpdateLock, TypeOK, cache
  <2>2. CASE rw.uid = 0 \/ rw.rv # worker[v].target.rv
    <3>1. GrabFails(v) /\ UNCHANGED <<rw, rwEvents>>
      BY <1>3, <2>2 DEF UpdateLock
    <3>2. QED BY <1>3, <3>1, GrabFailsType DEF UpdateLock, TypeOK, cache
  <2>3. QED BY <2>1, <2>2
<1>4. CASE SyncGroupReplicasToRisingWave(v)
  <2>1. \A w \in WorkerType, obj \in RisingWaveType :
           [w EXCEPT !.pc = "patch", !.target = obj] \in WorkerType
    BY DEF WorkerType
  <2>2. worker' \in [Views -> WorkerType] /\ svQueue' \in SUBSET Views
    <3>1. [worker[v] EXCEPT !.pc = "patch", !.target = rwCache] \in WorkerType
      BY <1>0, <2>1 DEF TypeOK
    <3>2. CASE worker' = [worker EXCEPT ![v] =
                            [@ EXCEPT !.pc = "patch", !.target = rwCache]]
      BY <1>0, <1>4, <3>1, <3>2 DEF SyncGroupReplicasToRisingWave
    <3>3. CASE Joined(v, worker[v].view)
      BY <1>0, <1>4, <3>3, JoinedType DEF SyncGroupReplicasToRisingWave
    <3>4. QED BY <1>4, <3>2, <3>3 DEF SyncGroupReplicasToRisingWave
  <2>3. QED BY <1>4, <2>2 DEF SyncGroupReplicasToRisingWave, TypeOK, api, cache
<1>5. CASE PatchReplicas(v)
  <2>1. worker' \in [Views -> WorkerType]
    BY <1>0, <1>5, JoinedType DEF PatchReplicas
  <2>2. CASE StoreGroups(Merged(v, rw.groups)) /\ worker[v].pc = "patch"
    <3>1. Merged(v, rw.groups) \in [Groups -> Replicas \cup {Absent}]
      BY <2>2, MergedType DEF WorkerReads, ReadsJustify
    <3>2. QED BY <1>5, <2>1, <2>2, <3>1, StoreTypes DEF PatchReplicas, TypeOK, cache
  <2>3. CASE svQueue' = svQueue \cup {v} /\ UNCHANGED <<rw, rwEvents>>
    BY <1>5, <2>1, <2>3 DEF PatchReplicas, TypeOK, cache
  <2>4. QED BY <1>5, <2>2, <2>3 DEF PatchReplicas
<1>6. CASE SyncGroupReplicasStatus(v)
  <2>1. \A view \in ViewType, b \in BOOLEAN : [view EXCEPT !.locked = b] \in ViewType
    BY DEF ViewType
  <2>2. \A w \in WorkerType, view \in ViewType :
           [w EXCEPT !.synced = TRUE, !.view = view] \in WorkerType
    BY DEF WorkerType
  <2>3. worker' \in [Views -> WorkerType]
    <3>1. StatusOf(worker[v].view) \in ViewType
      BY <1>0, <2>1 DEF StatusOf
    <3>2. [worker[v] EXCEPT !.synced = TRUE, !.view = StatusOf(worker[v].view)]
             \in WorkerType
      BY <1>0, <2>2, <3>1
    <3>3. QED BY <1>0, <1>6, <3>2 DEF SyncGroupReplicasStatus
  <2>4. QED BY <1>6, <2>3 DEF SyncGroupReplicasStatus, TypeOK, api, cache
<1>7. ASSUME NEW other \in BOOLEAN, UpdateScaleViewStatus(v, other)
      PROVE  TypeOK'
  <2>1. worker' \in [Views -> WorkerType]
    BY <1>0, <1>7, EmptyTypes DEF UpdateScaleViewStatus
  <2>2. [sv[v] EXCEPT !.rv = @ + 1, !.locked = worker[v].view.locked] \in ViewType
    <3>1. worker[v].view.locked \in BOOLEAN
      BY <1>0 DEF ViewType
    <3>2. QED BY <1>0, <3>1, NextVersionType
  <2>3. /\ sv' \in [Views -> ViewType]
        /\ svEvents' \in [Views -> SUBSET ViewType]
        /\ svQueue' \in SUBSET Views
    BY <1>0, <1>7, <2>2, StoreTypes DEF UpdateScaleViewStatus, TypeOK
  <2>4. budget' \in [edits: Nat, crashes: Nat, writes: Nat]
    <3>1. CASE other /\ budget' = [budget EXCEPT !.writes = @ - 1]
      BY <1>7, <3>1, SpendWriteType DEF UpdateScaleViewStatus
    <3>2. CASE UNCHANGED budget
      BY <3>2 DEF TypeOK
    <3>3. QED BY <1>7, <3>1, <3>2 DEF UpdateScaleViewStatus
  <2>5. QED BY <1>7, <2>1, <2>3, <2>4 DEF UpdateScaleViewStatus, TypeOK, cache
<1>8. QED BY <1>1, <1>2, <1>3, <1>4, <1>5, <1>6, <1>7 DEF ViewStep

(* Every step of the RisingWave reconcile keeps the types.                 *)
LEMMA ControllerStepType ==
    ASSUME TypeOK, ControllerStep
    PROVE  TypeOK'
<1>0. ctrl \in CtrlType /\ rw \in RisingWaveType /\ rwCache \in RisingWaveType
  BY DEF TypeOK
<1>1. CASE ReconcileRisingWave
  <2>1. [pc |-> "release", obj |-> rwCache, todo |-> rwCache.locks, alive |-> {}]
           \in CtrlType
    BY <1>0 DEF CtrlType, RisingWaveType
  <2>2. ctrl' \in CtrlType
    BY <1>0, <1>1, <2>1 DEF ReconcileRisingWave
  <2>3. QED BY <1>1, <2>2 DEF ReconcileRisingWave, TypeOK, api, cache
<1>2. CASE ReleaseScaleViewLock
  <2>1. PICK l \in ctrl.todo :
          ctrl' = [ctrl EXCEPT
                     !.todo = @ \ {l},
                     !.alive = IF svCache[l.name].uid = l.uid THEN @ \cup {l} ELSE @]
    BY <1>2 DEF ReleaseScaleViewLock
  <2>2. \A c \in CtrlType, t \in SUBSET LockType, a \in SUBSET LockType :
          [c EXCEPT !.todo = t, !.alive = a] \in CtrlType
    BY DEF CtrlType
  <2>3. /\ ctrl.todo \ {l} \in SUBSET LockType
        /\ (IF svCache[l.name].uid = l.uid THEN ctrl.alive \cup {l} ELSE ctrl.alive)
              \in SUBSET LockType
    BY <1>0, <2>1 DEF CtrlType
  <2>4. ctrl' \in CtrlType
    BY <1>0, <2>1, <2>2, <2>3
  <2>5. QED BY <1>2, <2>4 DEF ReleaseScaleViewLock, TypeOK, api, cache
<1>3. ASSUME NEW other \in BOOLEAN, UpdateRisingWaveStatus(other)
      PROVE  TypeOK'
  <2>1. ctrl' \in CtrlType
    BY <1>3, EmptyTypes DEF UpdateRisingWaveStatus
  <2>2. [rw EXCEPT !.rv = @ + 1, !.locks = ctrl.alive] \in RisingWaveType
    BY <1>0, NextVersionType DEF CtrlType
  <2>3. rw' \in RisingWaveType /\ rwEvents' \in SUBSET RisingWaveType
    <3>1. CASE StoreRisingWave([rw EXCEPT !.rv = @ + 1, !.locks = ctrl.alive])
      BY <2>2, <3>1, StoreTypes
    <3>2. CASE UNCHANGED <<rw, rwEvents>>
      BY <3>2 DEF TypeOK
    <3>3. QED BY <1>3, <3>1, <3>2 DEF UpdateRisingWaveStatus
  <2>4. budget' \in [edits: Nat, crashes: Nat, writes: Nat]
    <3>1. CASE UNCHANGED budget
      BY <3>1 DEF TypeOK
    <3>2. CASE other /\ budget' = [budget EXCEPT !.writes = @ - 1]
      BY <1>3, <3>2, SpendWriteType DEF UpdateRisingWaveStatus
    <3>3. QED BY <1>3, <3>1, <3>2 DEF UpdateRisingWaveStatus
  <2>5. rwQueue' \in BOOLEAN
    BY <1>3 DEF UpdateRisingWaveStatus, TypeOK
  <2>6. QED BY <1>3, <2>1, <2>3, <2>4, <2>5 DEF UpdateRisingWaveStatus, TypeOK, cache
<1>4. QED BY <1>1, <1>2, <1>3 DEF ControllerStep

(* What a user request writes has the right shape.                         *)
LEMMA UserType ==
    ASSUME TypeOK, User
    PROVE  TypeOK'
<1>0. /\ rw \in RisingWaveType
      /\ budget \in [edits: Nat, crashes: Nat, writes: Nat]
      /\ \A v \in Views : sv[v] \in ViewType
      /\ UserReplicas \subseteq Replicas
  BY BoundsAssumption DEF TypeOK
<1>1. ASSUME NEW kind, UserRequest(kind)
      PROVE  /\ budget' \in [edits: Nat, crashes: Nat, writes: Nat]
             /\ UNCHANGED <<rwCache, svCache, svQueue, rwQueue, worker, ctrl>>
  BY <1>0, <1>1 DEF UserRequest, cache
<1>2. ASSUME NEW kind, UserRequest(kind), NEW v \in Views, NEW obj \in ViewType,
             StoreView(v, obj), UNCHANGED <<rw, rwEvents>>
      PROVE  TypeOK'
  BY <1>1, <1>2, StoreTypes DEF TypeOK
<1>3. ASSUME NEW kind, UserRequest(kind), NEW obj \in RisingWaveType,
             StoreRisingWave(obj), UNCHANGED <<sv, svEvents>>
      PROVE  TypeOK'
  BY <1>1, <1>3, StoreTypes DEF TypeOK
<1>4. ASSUME NEW v \in Views, NEW p \in Policies, CreateView(v, p)
      PROVE  TypeOK'
  <2>1. [uid |-> sv[v].rv + 1, gen |-> 1, rv |-> sv[v].rv + 1,
         replicas |-> CurrentReplicas(p), policy |-> p,
         target |-> rw.uid, locked |-> FALSE] \in ViewType
    <3>1. /\ sv[v].rv + 1 \in Nat /\ rw.uid \in Nat
          /\ CurrentReplicas(p) \in Replicas
      BY <1>0, <1>4 DEF CreateView, ViewType, RisingWaveType
    <3>2. QED BY <3>1 DEF ViewType
  <2>2. QED BY <1>2, <1>4, <2>1 DEF CreateView
<1>5. ASSUME NEW v \in Views, NEW n \in UserReplicas, ScaleTo(v, n)
      PROVE  TypeOK'
  <2>1. [sv[v] EXCEPT !.gen = @ + 1, !.rv = @ + 1, !.replicas = n] \in ViewType
    BY <1>0, NextVersionType
  <2>2. QED BY <1>2, <1>5, <2>1 DEF ScaleTo
<1>6. ASSUME NEW v \in Views, NEW p \in Policies, EditPolicy(v, p)
      PROVE  TypeOK'
  <2>1. [sv[v] EXCEPT !.gen = @ + 1, !.rv = @ + 1, !.policy = p] \in ViewType
    BY <1>0, NextVersionType
  <2>2. QED BY <1>2, <1>6, <2>1 DEF EditPolicy
<1>7. ASSUME NEW v \in Views, DeleteView(v)
      PROVE  TypeOK'
  <2>1. NoView(sv[v].rv + 1) \in ViewType
    <3>1. sv[v].rv + 1 \in Nat
      BY <1>0 DEF ViewType
    <3>2. QED BY <3>1, EmptyTypes
  <2>2. QED BY <1>2, <1>7, <2>1 DEF DeleteView
<1>8. ASSUME NEW groups \in EditedGroups, EditRisingWave(groups)
      PROVE  TypeOK'
  <2>1. groups \in [Groups -> Replicas \cup {Absent}]
    BY <1>0 DEF EditedGroups, RisingWaveType
  <2>2. rw' \in RisingWaveType /\ rwEvents' \in SUBSET RisingWaveType
    BY <1>8, <2>1, StoreTypes DEF EditRisingWave
  <2>3. QED BY <1>1, <1>8, <2>2 DEF EditRisingWave, TypeOK
<1>9. CASE DeleteRisingWave
  <2>1. NoRisingWave(rw.rv + 1) \in RisingWaveType
    BY <1>0, EmptyTypes DEF RisingWaveType
  <2>2. QED BY <1>3, <1>9, <2>1 DEF DeleteRisingWave
<1>10. CASE CreateRisingWave
  <2>1. [uid |-> rw.rv + 1, rv |-> rw.rv + 1, groups |-> InitialReplicas,
         locks |-> {}] \in RisingWaveType
    BY <1>0, InitialReplicasAssumption DEF RisingWaveType
  <2>2. QED BY <1>3, <1>10, <2>1 DEF CreateRisingWave
<1>11. QED BY <1>4, <1>5, <1>6, <1>7, <1>8, <1>9, <1>10 DEF User

(* After a restart the caches hold the stored objects.                     *)
LEMMA RestartType ==
    ASSUME TypeOK, Restart
    PROVE  TypeOK'
<1>1. {l.name : l \in rw.locks} \subseteq Views
  BY DEF TypeOK, RisingWaveType, LockType
<1>2. budget' \in [edits: Nat, crashes: Nat, writes: Nat]
  BY DEF Restart, TypeOK
<1>3. worker' \in [Views -> WorkerType] /\ ctrl' \in CtrlType
  BY EmptyTypes DEF Restart
<1>4. QED BY <1>1, <1>2, <1>3 DEF Restart, TypeOK

-----------------------------------------------------------------------------
(* Every request a worker is about to send is justified by what it read:   *)
(* the lock it patches with, or the absence of a conflicting lock.         *)
LEMMA WorkerReadsStep ==
    ASSUME TypeOK, WorkerReads, Next
    PROVE  WorkerReads'
<1>0. IdleWorker.pc = "idle"
  BY DEF IdleWorker
<1>1. ASSUME NEW v \in Views, ViewStep(v)
      PROVE  WorkerReads'
  <2>0. /\ worker \in [Views -> WorkerType]
        /\ worker[v] \in WorkerType
        /\ ReadsJustify(v, worker[v])
    BY DEF TypeOK, WorkerReads
  <2>1. ASSUME NEW w, worker' = [worker EXCEPT ![v] = w], ReadsJustify(v, w)
        PROVE  WorkerReads'
    BY <2>0, <2>1 DEF WorkerReads
  <2>2. ASSUME NEW view, view.uid # 0, Joined(v, view)
        PROVE  WorkerReads'
    <3> DEFINE w == [worker[v] EXCEPT !.pc = "joined", !.view = view,
                                      !.target = NoRisingWave(0), !.tries = 0]
    <3>1. w.pc = "joined" /\ w.view.uid # 0
      BY <2>0, <2>2 DEF WorkerType
    <3>2. ReadsJustify(v, w)
      BY <3>1 DEF ReadsJustify
    <3>3. worker' = [worker EXCEPT ![v] = w]
      BY <2>2 DEF Joined
    <3> HIDE DEF w
    <3>4. QED BY <2>1, <3>2, <3>3
  <2>3. ASSUME worker[v].pc \in {"grab", "grabWrite"}, GrabFails(v)
        PROVE  WorkerReads'
    <3>0. worker[v].view.uid # 0
      BY <2>0, <2>3 DEF ReadsJustify
    <3>1. CASE Joined(v, worker[v].view)
      BY <2>2, <3>0, <3>1
    <3>2. CASE worker' = [worker EXCEPT ![v].pc = "grab", ![v].tries = @ + 1,
                                        ![v].target = NoRisingWave(0)]
      BY <2>0, <3>0, <3>2 DEF WorkerReads, ReadsJustify, WorkerType
    <3>3. QED BY <2>3, <3>1, <3>2 DEF GrabFails
  <2>4. CASE ReconcileView(v)
    <3> DEFINE w == [IdleWorker EXCEPT !.pc = "grab", !.view = svCache[v],
                                       !.was = svCache[v].locked]
    <3>1. w.pc = "grab" /\ w.view = svCache[v]
      BY DEF IdleWorker
    <3>2. svCache[v].uid # 0 => ReadsJustify(v, w)
      BY <3>1 DEF ReadsJustify
    <3>3. svCache[v].uid # 0 => worker' = [worker EXCEPT ![v] = w]
      BY <2>4 DEF ReconcileView
    <3>4. svCache[v].uid = 0 => worker' = worker
      BY <2>4 DEF ReconcileView
    <3> HIDE DEF w
    <3>5. CASE svCache[v].uid # 0
      BY <2>1, <3>2, <3>3, <3>5
    <3>6. CASE svCache[v].uid = 0
      BY <3>4, <3>6 DEF WorkerReads
    <3>7. QED BY <3>5, <3>6
  <2>5. CASE GrabOrUpdateScaleViewLock(v)
    <3>0. worker[v].view.uid # 0 /\ worker[v].pc = "grab"
      BY <2>0, <2>5 DEF ReadsJustify, GrabOrUpdateScaleViewLock
    <3>1. CASE worker' = [worker EXCEPT ![v].pc = "sync"]
      BY <2>0, <3>0, <3>1 DEF WorkerReads, ReadsJustify, WorkerType
    <3>2. CASE /\ Matched(rwCache, worker[v].view)
               /\ \/ Holds(v, worker[v].view, rwCache.locks)
                  \/ CanGrab(v, worker[v].view.policy, rwCache.locks)
               /\ worker' = [worker EXCEPT ![v] =
                               [@ EXCEPT !.pc = "grabWrite", !.target = rwCache]]
      <4> DEFINE w == [worker[v] EXCEPT !.pc = "grabWrite", !.target = rwCache]
      <4>1. w.pc = "grabWrite" /\ w.view = worker[v].view /\ w.target = rwCache
        BY <2>0 DEF WorkerType
      <4>2. worker' = [worker EXCEPT ![v] = w]
        BY <3>2
      <4> HIDE DEF w
      <4>3. ReadsJustify(v, w)
        BY <3>0, <3>2, <4>1 DEF ReadsJustify
      <4>4. QED BY <2>1, <4>2, <4>3
    <3>3. CASE GrabFails(v)
      BY <2>3, <3>0, <3>3
    <3>4. QED BY <2>5, <3>1, <3>2, <3>3 DEF GrabOrUpdateScaleViewLock
  <2>6. CASE UpdateLock(v)
    <3>0. worker[v].view.uid # 0 /\ worker[v].pc = "grabWrite"
      BY <2>0, <2>6 DEF ReadsJustify, UpdateLock
    <3>1. CASE Joined(v, [worker[v].view EXCEPT !.locked = TRUE])
      <4>1. [worker[v].view EXCEPT !.locked = TRUE].uid # 0
        BY <2>0, <3>0 DEF WorkerType, ViewType
      <4>2. QED BY <2>2, <3>1, <4>1
    <3>2. CASE GrabFails(v)
      BY <2>3, <3>0, <3>2
    <3>3. QED BY <2>6, <3>1, <3>2 DEF UpdateLock
  <2>7. CASE SyncGroupReplicasToRisingWave(v)
    <3>0. worker[v].view.uid # 0
      BY <2>0, <2>7 DEF ReadsJustify, SyncGroupReplicasToRisingWave
    <3>1. CASE Joined(v, worker[v].view)
      BY <2>2, <3>0, <3>1
    <3>2. CASE /\ HoldsCurrent(v, worker[v].view, rwCache.locks)
               /\ worker' = [worker EXCEPT ![v] =
                               [@ EXCEPT !.pc = "patch", !.target = rwCache]]
      <4> DEFINE w == [worker[v] EXCEPT !.pc = "patch", !.target = rwCache]
      <4>1. w.pc = "patch" /\ w.view = worker[v].view /\ w.target = rwCache
        BY <2>0 DEF WorkerType
      <4>2. worker' = [worker EXCEPT ![v] = w]
        BY <3>2
      <4> HIDE DEF w
      <4>3. Holds(v, w.view, w.target.locks)
        BY <3>2, <4>1 DEF Holds, HoldsCurrent
      <4>4. ReadsJustify(v, w)
        BY <3>0, <4>1, <4>3 DEF ReadsJustify
      <4>5. QED BY <2>1, <4>2, <4>4
    <3>3. QED BY <2>7, <3>1, <3>2 DEF SyncGroupReplicasToRisingWave
  <2>8. CASE PatchReplicas(v)
    <3>0. worker[v].view.uid # 0
      BY <2>0, <2>8 DEF ReadsJustify, PatchReplicas
    <3>1. QED BY <2>2, <2>8, <3>0 DEF PatchReplicas
  <2>9. CASE SyncGroupReplicasStatus(v)
    <3> DEFINE view == StatusOf(worker[v].view)
               w == [worker[v] EXCEPT !.synced = TRUE, !.view = view]
    <3>0. /\ worker[v].view.uid # 0
          /\ worker[v].pc \in {"grab", "joined"}
      BY <2>0, <2>9 DEF ReadsJustify, SyncGroupReplicasStatus
    <3>1. view.uid = worker[v].view.uid
      BY <2>0 DEF StatusOf, WorkerType, ViewType
    <3>2. worker' = [worker EXCEPT ![v] = w]
      BY <2>9 DEF SyncGroupReplicasStatus
    <3> HIDE DEF view
    <3>3. w.pc = worker[v].pc /\ w.view = view
      BY <2>0 DEF WorkerType
    <3> HIDE DEF w
    <3>4. ReadsJustify(v, w)
      BY <3>0, <3>1, <3>3 DEF ReadsJustify
    <3>5. QED BY <2>1, <3>2, <3>4
  <2>10. ASSUME NEW other \in BOOLEAN, UpdateScaleViewStatus(v, other)
         PROVE  WorkerReads'
    <3>1. ReadsJustify(v, IdleWorker)
      BY <1>0 DEF ReadsJustify
    <3>2. QED BY <2>1, <2>10, <3>1 DEF UpdateScaleViewStatus
  <2>11. QED BY <1>1, <2>4, <2>5, <2>6, <2>7, <2>8, <2>9, <2>10 DEF ViewStep
<1>2. CASE Restart
  <2>1. \A v \in Views : worker'[v] = IdleWorker
    BY <1>2 DEF Restart
  <2>2. QED BY <1>0, <2>1 DEF WorkerReads, ReadsJustify
<1>3. CASE UNCHANGED worker
  BY <1>3 DEF WorkerReads
<1>4. ASSUME DeliverRisingWave \/ ControllerStep \/ User \/ \E v \in Views : DeliverView(v)
      PROVE  UNCHANGED worker
  BY <1>4 DEF DeliverRisingWave, DeliverView, ControllerStep, ReconcileRisingWave,
              ReleaseScaleViewLock, UpdateRisingWaveStatus, User, UserRequest,
              CreateView, ScaleTo, EditPolicy, DeleteView, EditRisingWave,
              DeleteRisingWave, CreateRisingWave
<1>5. QED BY <1>1, <1>2, <1>3, <1>4 DEF Next

(* Every step keeps the types.                                             *)
LEMMA NextType ==
    ASSUME TypeOK, WorkerReads, Next
    PROVE  TypeOK'
BY DeliverType, ViewStepType, ControllerStepType, UserType, RestartType DEF Next

(* A worker that is about to patch has read its own lock, so every object  *)
(* that is written has the shape of its kind.                              *)
THEOREM TypeCorrect == Spec => []TypeOK
<1>1. Init => TypeOK /\ WorkerReads
  <2>1. ASSUME NEW v \in Views
        PROVE  ReadsJustify(v, IdleWorker)
    BY DEF ReadsJustify, IdleWorker
  <2>2. Init => WorkerReads
    BY <2>1 DEF Init, WorkerReads
  <2>3. QED BY <2>2, InitTypeOK
<1>2. TypeOK /\ WorkerReads /\ [Next]_vars => (TypeOK /\ WorkerReads)'
  <2>1. CASE Next
    BY <2>1, NextType, WorkerReadsStep
  <2>2. CASE UNCHANGED vars
    BY <2>2 DEF vars, TypeOK, WorkerReads
  <2>3. QED BY <2>1, <2>2
<1>3. QED BY <1>1, <1>2, PTL DEF Spec

-----------------------------------------------------------------------------
(* A worker's copies of the RisingWave and of the view stay what they are, *)
(* are dropped, or are the cache's; only the status of the view is changed *)
(* in memory.                                                              *)
LEMMA WorkerStep ==
    ASSUME TypeOK, NEW v \in Views, ViewStep(v), NEW u \in Views
    PROVE  /\ worker'[u].target \in {worker[u].target, rwCache, NoRisingWave(0)}
           /\ \/ worker'[u].view = NoView(0)
              \/ worker'[u].view = svCache[u]
              \/ SameVersion(worker'[u].view, worker[u].view)
<1>0. /\ worker \in [Views -> WorkerType]
      /\ worker[v] \in WorkerType
      /\ worker[v].view \in ViewType
  BY DEF TypeOK, WorkerType
<1> DEFINE Keeps(w) ==
        /\ w.target \in {worker[v].target, rwCache, NoRisingWave(0)}
        /\ \/ w.view = NoView(0)
           \/ w.view = svCache[v]
           \/ SameVersion(w.view, worker[v].view)
<1>1. ASSUME NEW w, worker' = [worker EXCEPT ![v] = w], Keeps(w)
      PROVE  /\ worker'[u].target \in {worker[u].target, rwCache, NoRisingWave(0)}
             /\ \/ worker'[u].view = NoView(0)
                \/ worker'[u].view = svCache[u]
                \/ SameVersion(worker'[u].view, worker[u].view)
  <2>1. CASE u = v
    BY <1>0, <1>1, <2>1
  <2>2. CASE u # v
    BY <1>0, <1>1, <2>2 DEF SameVersion
  <2>3. QED BY <2>1, <2>2
<1>2. SUFFICES worker' = worker \/ \E w : worker' = [worker EXCEPT ![v] = w] /\ Keeps(w)
  <2>1. CASE worker' = worker
    BY <2>1 DEF SameVersion
  <2>2. CASE \E w : worker' = [worker EXCEPT ![v] = w] /\ Keeps(w)
    <3>1. PICK w : worker' = [worker EXCEPT ![v] = w] /\ Keeps(w)
      BY <2>2
    <3> HIDE DEF Keeps
    <3>2. QED BY <1>1, <3>1
  <2>3. QED BY <1>2, <2>1, <2>2
<1>3. ASSUME NEW view, SameVersion(view, worker[v].view), Joined(v, view)
      PROVE  \E w : worker' = [worker EXCEPT ![v] = w] /\ Keeps(w)
  <2> DEFINE w == [worker[v] EXCEPT !.pc = "joined", !.view = view,
                                    !.target = NoRisingWave(0), !.tries = 0]
  <2>1. w.target = NoRisingWave(0) /\ w.view = view
    BY <1>0 DEF WorkerType
  <2>2. worker' = [worker EXCEPT ![v] = w]
    BY <1>3 DEF Joined
  <2> HIDE DEF w
  <2>3. Keeps(w)
    BY <1>3, <2>1
  <2> HIDE DEF Keeps
  <2>4. QED BY <2>2, <2>3
<1>4. ASSUME NEW w, worker' = [worker EXCEPT ![v] = w], w.view = worker[v].view,
             w.target \in {worker[v].target, rwCache, NoRisingWave(0)}
      PROVE  \E x : worker' = [worker EXCEPT ![v] = x] /\ Keeps(x)
  <2>1. Keeps(w)
    BY <1>4 DEF SameVersion
  <2> HIDE DEF Keeps
  <2>2. QED BY <1>4, <2>1
<1>5. ASSUME GrabFails(v)
      PROVE  \E w : worker' = [worker EXCEPT ![v] = w] /\ Keeps(w)
  <2>1. CASE Joined(v, worker[v].view)
    <3> HIDE DEF Keeps
    <3>1. SameVersion(worker[v].view, worker[v].view)
      BY DEF SameVersion
    <3>2. QED BY <1>3, <2>1, <3>1
  <2>2. CASE worker' = [worker EXCEPT ![v].pc = "grab", ![v].tries = @ + 1,
                                      ![v].target = NoRisingWave(0)]
    <3> DEFINE w == [worker[v] EXCEPT !.pc = "grab", !.tries = worker[v].tries + 1,
                                      !.target = NoRisingWave(0)]
    <3>1. worker' = [worker EXCEPT ![v] = w]
      BY <1>0, <2>2 DEF WorkerType
    <3>2. w.view = worker[v].view /\ w.target = NoRisingWave(0)
      BY <1>0 DEF WorkerType
    <3> HIDE DEF Keeps, w
    <3>3. QED BY <1>4, <3>1, <3>2
  <2>3. QED BY <1>5, <2>1, <2>2 DEF GrabFails
<1>6. CASE ReconcileView(v)
  <2> DEFINE w == [IdleWorker EXCEPT !.pc = "grab", !.view = svCache[v],
                                     !.was = svCache[v].locked]
  <2>1. w.view = svCache[v] /\ w.target = NoRisingWave(0)
    BY DEF IdleWorker
  <2>2. worker' = worker \/ worker' = [worker EXCEPT ![v] = w]
    BY <1>6 DEF ReconcileView
  <2> HIDE DEF w
  <2>3. Keeps(w)
    BY <2>1
  <2> HIDE DEF Keeps
  <2>4. QED BY <2>2, <2>3
<1>7. CASE GrabOrUpdateScaleViewLock(v)
  <2>1. CASE worker' = [worker EXCEPT ![v].pc = "sync"]
    <3> DEFINE w == [worker[v] EXCEPT !.pc = "sync"]
    <3>1. worker' = [worker EXCEPT ![v] = w]
      BY <2>1
    <3>2. w.view = worker[v].view /\ w.target = worker[v].target
      BY <1>0 DEF WorkerType
    <3> HIDE DEF Keeps, w
    <3>3. QED BY <1>4, <3>1, <3>2
  <2>2. CASE worker' = [worker EXCEPT ![v] =
                          [@ EXCEPT !.pc = "grabWrite", !.target = rwCache]]
    <3> DEFINE w == [worker[v] EXCEPT !.pc = "grabWrite", !.target = rwCache]
    <3>1. worker' = [worker EXCEPT ![v] = w]
      BY <2>2
    <3>2. w.view = worker[v].view /\ w.target = rwCache
      BY <1>0 DEF WorkerType
    <3> HIDE DEF Keeps, w
    <3>3. QED BY <1>4, <3>1, <3>2
  <2> HIDE DEF Keeps
  <2>3. QED BY <1>5, <1>7, <2>1, <2>2 DEF GrabOrUpdateScaleViewLock
<1>8. CASE UpdateLock(v)
  <2>1. SameVersion([worker[v].view EXCEPT !.locked = TRUE], worker[v].view)
    BY <1>0 DEF ViewType, SameVersion
  <2> HIDE DEF Keeps
  <2>2. QED BY <1>3, <1>5, <1>8, <2>1 DEF UpdateLock
<1>9. CASE SyncGroupReplicasToRisingWave(v)
  <2>1. CASE worker' = [worker EXCEPT ![v] =
                          [@ EXCEPT !.pc = "patch", !.target = rwCache]]
    <3> DEFINE w == [worker[v] EXCEPT !.pc = "patch", !.target = rwCache]
    <3>1. worker' = [worker EXCEPT ![v] = w]
      BY <2>1
    <3>2. w.view = worker[v].view /\ w.target = rwCache
      BY <1>0 DEF WorkerType
    <3> HIDE DEF Keeps, w
    <3>3. QED BY <1>4, <3>1, <3>2
  <2> HIDE DEF Keeps
  <2>2. SameVersion(worker[v].view, worker[v].view)
    BY DEF SameVersion
  <2>3. QED BY <1>3, <1>9, <2>1, <2>2 DEF SyncGroupReplicasToRisingWave
<1>10. CASE PatchReplicas(v)
  <2> HIDE DEF Keeps
  <2>1. SameVersion(worker[v].view, worker[v].view)
    BY DEF SameVersion
  <2>2. QED BY <1>3, <1>10, <2>1 DEF PatchReplicas
<1>11. CASE SyncGroupReplicasStatus(v)
  <2> DEFINE view == StatusOf(worker[v].view)
             w == [worker[v] EXCEPT !.synced = TRUE, !.view = view]
  <2>1. SameVersion(view, worker[v].view)
    BY <1>0 DEF StatusOf, ViewType, SameVersion
  <2>2. worker' = [worker EXCEPT ![v] = w]
    BY <1>11 DEF SyncGroupReplicasStatus
  <2> HIDE DEF view
  <2>3. w.view = view /\ w.target = worker[v].target
    BY <1>0 DEF WorkerType
  <2> HIDE DEF w
  <2>4. Keeps(w)
    BY <2>1, <2>3
  <2> HIDE DEF Keeps
  <2>5. QED BY <2>2, <2>4
<1>12. ASSUME NEW other \in BOOLEAN, UpdateScaleViewStatus(v, other)
       PROVE  \E w : worker' = [worker EXCEPT ![v] = w] /\ Keeps(w)
  <2>1. IdleWorker.view = NoView(0) /\ IdleWorker.target = NoRisingWave(0)
    BY DEF IdleWorker
  <2>2. Keeps(IdleWorker)
    BY <2>1
  <2>3. worker' = [worker EXCEPT ![v] = IdleWorker]
    BY <1>12 DEF UpdateScaleViewStatus
  <2> HIDE DEF Keeps
  <2>4. QED BY <2>2, <2>3
<1> HIDE DEF Keeps
<1>13. QED BY <1>6, <1>7, <1>8, <1>9, <1>10, <1>11, <1>12 DEF ViewStep

(* Who writes the stored RisingWave, and what happens to its locks: a      *)
(* write makes the next version and announces it; it keeps or drops locks, *)
(* unless it is the request of a worker that grabs or updates its own.     *)
LEMMA RisingWaveWritten ==
    ASSUME TypeOK, ControllerReads, VersionsAgree, Next
    PROVE  /\ \/ rw' = rw /\ rwEvents' \subseteq rwEvents
              \/ rw'.rv = rw.rv + 1 /\ rwEvents' = rwEvents \cup {rw'}
           /\ \/ rw'.locks \subseteq rw.locks
              \/ \E v \in Views :
                    /\ UpdateLock(v)
                    /\ worker[v].target = rw
                    /\ rw'.locks = GrabOrUpdate(v, worker[v].view, rw.locks)
<1>0. rw \in RisingWaveType
  BY DEF TypeOK
<1>1. ASSUME NEW locks,
             StoreRisingWave([rw EXCEPT !.rv = @ + 1, !.locks = locks])
      PROVE  rw'.rv = rw.rv + 1 /\ rw'.locks = locks /\ rwEvents' = rwEvents \cup {rw'}
  BY <1>0, <1>1 DEF StoreRisingWave, RisingWaveType
<1>2. ASSUME NEW groups, StoreGroups(groups)
      PROVE  /\ \/ rw' = rw /\ rwEvents' \subseteq rwEvents
                \/ rw'.rv = rw.rv + 1 /\ rwEvents' = rwEvents \cup {rw'}
             /\ rw'.locks \subseteq rw.locks
  <2>1. CASE groups = rw.groups
    BY <1>2, <2>1 DEF StoreGroups
  <2>2. CASE groups # rw.groups
    BY <1>0, <1>2, <2>2 DEF StoreGroups, StoreRisingWave, RisingWaveType
  <2>3. QED BY <2>1, <2>2
<1>3. CASE rw' = rw /\ rwEvents' \subseteq rwEvents
  BY <1>3
<1>4. ASSUME NEW v \in Views, UpdateLock(v)
      PROVE  /\ \/ rw' = rw /\ rwEvents' \subseteq rwEvents
                \/ rw'.rv = rw.rv + 1 /\ rwEvents' = rwEvents \cup {rw'}
             /\ \/ rw'.locks \subseteq rw.locks
                \/ /\ worker[v].target = rw
                   /\ rw'.locks = GrabOrUpdate(v, worker[v].view, rw.locks)
  <2>1. CASE rw.uid # 0 /\ rw.rv = worker[v].target.rv
    <3>1. worker[v].target = rw
      BY <2>1 DEF VersionsAgree, RisingWaveCopies
    <3>2. StoreRisingWave([rw EXCEPT !.rv = @ + 1,
                              !.locks = GrabOrUpdate(v, worker[v].view, rw.locks)])
      BY <1>4, <2>1, <3>1 DEF UpdateLock
    <3>3. QED BY <1>1, <3>1, <3>2
  <2>2. CASE ~(rw.uid # 0 /\ rw.rv = worker[v].target.rv)
    BY <1>4, <2>2 DEF UpdateLock
  <2>3. QED BY <2>1, <2>2
<1>5. ASSUME NEW v \in Views, PatchReplicas(v)
      PROVE  (\E groups : StoreGroups(groups)) \/ (rw' = rw /\ rwEvents' = rwEvents)
  BY <1>5 DEF PatchReplicas
<1>6. ASSUME NEW v \in Views, ViewStep(v), ~UpdateLock(v), ~PatchReplicas(v)
      PROVE  rw' = rw /\ rwEvents' = rwEvents
  BY <1>6 DEF ViewStep, ReconcileView, GrabOrUpdateScaleViewLock,
              SyncGroupReplicasToRisingWave, SyncGroupReplicasStatus,
              UpdateScaleViewStatus, api
<1>7. ASSUME ControllerStep
      PROVE  /\ \/ rw' = rw /\ rwEvents' \subseteq rwEvents
                \/ rw'.rv = rw.rv + 1 /\ rwEvents' = rwEvents \cup {rw'}
             /\ rw'.locks \subseteq rw.locks
  <2>1. CASE rw' = rw /\ rwEvents' = rwEvents
    BY <2>1
  <2>2. CASE /\ rw.rv = ctrl.obj.rv
             /\ StoreRisingWave([rw EXCEPT !.rv = @ + 1, !.locks = ctrl.alive])
    <3>1. ctrl.obj = rw
      BY <2>2 DEF VersionsAgree, RisingWaveCopies
    <3>2. ctrl.alive \subseteq rw.locks
      BY <3>1 DEF ControllerReads
    <3>3. QED BY <1>1, <2>2, <3>2
  <2>3. QED BY <1>7, <2>1, <2>2
            DEF ControllerStep, ReconcileRisingWave, ReleaseScaleViewLock,
                UpdateRisingWaveStatus, api
<1>8. ASSUME User
      PROVE  /\ \/ rw' = rw /\ rwEvents' \subseteq rwEvents
                \/ rw'.rv = rw.rv + 1 /\ rwEvents' = rwEvents \cup {rw'}
             /\ rw'.locks \subseteq rw.locks
  <2> DEFINE Written == /\ \/ rw' = rw /\ rwEvents' \subseteq rwEvents
                           \/ rw'.rv = rw.rv + 1 /\ rwEvents' = rwEvents \cup {rw'}
                        /\ rw'.locks \subseteq rw.locks
  <2>1. ASSUME rw' = rw /\ rwEvents' = rwEvents
        PROVE  Written
    BY <2>1
  <2>2. ASSUME NEW groups \in EditedGroups, EditRisingWave(groups)
        PROVE  Written
    BY <1>2, <2>2 DEF EditRisingWave
  <2>3. CASE DeleteRisingWave
    BY <1>0, <2>3 DEF DeleteRisingWave, StoreRisingWave, NoRisingWave
  <2>4. CASE CreateRisingWave
    BY <1>0, <2>4 DEF CreateRisingWave, StoreRisingWave
  <2> SUFFICES Written
    OBVIOUS
  <2> HIDE DEF Written
  <2>5. ASSUME NEW v \in Views, NEW p \in Policies, CreateView(v, p)
        PROVE  Written
    BY <2>1, <2>5 DEF CreateView
  <2>6. ASSUME NEW v \in Views, NEW n \in UserReplicas, ScaleTo(v, n)
        PROVE  Written
    BY <2>1, <2>6 DEF ScaleTo
  <2>7. ASSUME NEW v \in Views, NEW p \in Policies, EditPolicy(v, p)
        PROVE  Written
    BY <2>1, <2>7 DEF EditPolicy
  <2>8. ASSUME NEW v \in Views, DeleteView(v)
        PROVE  Written
    BY <2>1, <2>8 DEF DeleteView
  <2>9. DeleteRisingWave \/ CreateRisingWave => Written
    BY <2>3, <2>4 DEF Written
  <2>10. QED BY <1>8, <2>2, <2>5, <2>6, <2>7, <2>8, <2>9 DEF User
<1>9. ASSUME DeliverRisingWave \/ Restart \/ \E v \in Views : DeliverView(v)
      PROVE  rw' = rw /\ rwEvents' \subseteq rwEvents
  BY <1>9 DEF DeliverRisingWave, Restart, DeliverView
<1>10. ASSUME NEW v \in Views, ViewStep(v)
       PROVE  /\ \/ rw' = rw /\ rwEvents' \subseteq rwEvents
                 \/ rw'.rv = rw.rv + 1 /\ rwEvents' = rwEvents \cup {rw'}
              /\ \/ rw'.locks \subseteq rw.locks
                 \/ /\ UpdateLock(v)
                    /\ worker[v].target = rw
                    /\ rw'.locks = GrabOrUpdate(v, worker[v].view, rw.locks)
  <2>1. CASE UpdateLock(v)
    BY <1>4, <2>1
  <2>2. CASE PatchReplicas(v)
    BY <1>2, <1>5, <2>2
  <2>3. CASE ~UpdateLock(v) /\ ~PatchReplicas(v)
    BY <1>6, <1>10, <2>3
  <2>4. QED BY <2>1, <2>2, <2>3
<1>11. QED BY <1>7, <1>8, <1>9, <1>10 DEF Next

(* A copy of the RisingWave, in the cache, in the event stream or in a     *)
(* reconcile, comes from another copy or from the stored object.           *)
LEMMA RisingWaveCopiesStep ==
    ASSUME TypeOK, ControllerReads, VersionsAgree, Next
    PROVE  \A x \in RisingWaveCopies' :
              x \in RisingWaveCopies \cup {rw, rw', NoRisingWave(0)}
<1>1. \/ rw' = rw /\ rwEvents' \subseteq rwEvents
      \/ rw'.rv = rw.rv + 1 /\ rwEvents' = rwEvents \cup {rw'}
  BY RisingWaveWritten
<1>2. rwCache' \in {rwCache, rw} \cup rwEvents
  BY DEF Next, DeliverRisingWave, DeliverView, ViewStep, ReconcileView,
         GrabOrUpdateScaleViewLock, UpdateLock, SyncGroupReplicasToRisingWave,
         PatchReplicas, SyncGroupReplicasStatus, UpdateScaleViewStatus,
         ControllerStep, ReconcileRisingWave, ReleaseScaleViewLock,
         UpdateRisingWaveStatus, User, UserRequest, CreateView, ScaleTo, EditPolicy,
         DeleteView, EditRisingWave, DeleteRisingWave, CreateRisingWave, Restart, cache
<1>3. ctrl'.obj \in {ctrl.obj, rwCache, NoRisingWave(0)}
  <2>1. CASE UNCHANGED ctrl
    BY <2>1
  <2>2. CASE ControllerStep
    <3>1. ctrl \in CtrlType
      BY DEF TypeOK
    <3>2. CASE ReconcileRisingWave
      BY <3>2 DEF ReconcileRisingWave
    <3>3. CASE ReleaseScaleViewLock
      BY <3>1, <3>3 DEF ReleaseScaleViewLock, CtrlType
    <3>4. ASSUME NEW other \in BOOLEAN, UpdateRisingWaveStatus(other)
          PROVE  ctrl'.obj = NoRisingWave(0)
      BY <3>4 DEF UpdateRisingWaveStatus, IdleCtrl
    <3>5. QED BY <2>2, <3>2, <3>3, <3>4 DEF ControllerStep
  <2>3. CASE Restart
    BY <2>3 DEF Restart, IdleCtrl
  <2>4. QED BY <2>1, <2>2, <2>3
        DEF Next, DeliverRisingWave, DeliverView, ViewStep, ReconcileView,
            GrabOrUpdateScaleViewLock, UpdateLock, SyncGroupReplicasToRisingWave,
            PatchReplicas, SyncGroupReplicasStatus, UpdateScaleViewStatus,
            User, UserRequest, CreateView, ScaleTo, EditPolicy,
            DeleteView, EditRisingWave, DeleteRisingWave, CreateRisingWave
<1>4. ASSUME NEW u \in Views
      PROVE  worker'[u].target \in {worker[u].target, rwCache, NoRisingWave(0)}
  <2>1. CASE UNCHANGED worker
    BY <2>1
  <2>2. CASE \E v \in Views : ViewStep(v)
    BY <2>2, WorkerStep
  <2>3. CASE Restart
    BY <2>3 DEF Restart, IdleWorker
  <2>4. QED BY <2>1, <2>2, <2>3
        DEF Next, DeliverRisingWave, DeliverView, ControllerStep, ReconcileRisingWave,
            ReleaseScaleViewLock, UpdateRisingWaveStatus, User, UserRequest,
            CreateView, ScaleTo, EditPolicy, DeleteView, EditRisingWave,
            DeleteRisingWave, CreateRisingWave
<1>5. QED BY <1>1, <1>2, <1>3, <1>4 DEF RisingWaveCopies

(* Optimistic locking: the copies in the cache, in the event stream and in *)
(* the reconciles are versions that were stored once.                      *)
LEMMA VersionsAgreeStep ==
    ASSUME TypeOK, ControllerReads, VersionsAgree, Next
    PROVE  VersionsAgree'
<1>0. /\ rw \in RisingWaveType
      /\ rw.rv \in Nat
      /\ \A x \in RisingWaveCopies : x.rv \in Nat
  BY DEF TypeOK, RisingWaveCopies, RisingWaveType, WorkerType, CtrlType
<1>1. \/ rw' = rw
      \/ rw'.rv = rw.rv + 1
  BY RisingWaveWritten
<1>2. \A x \in RisingWaveCopies' : x \in RisingWaveCopies \cup {rw, rw', NoRisingWave(0)}
  BY RisingWaveCopiesStep
<1>3. NoRisingWave(0).rv = 0
  BY DEF NoRisingWave
<1>4. QED
  <2>1. \A x \in RisingWaveCopies : x.rv <= rw.rv /\ (x.rv = rw.rv => x = rw)
    BY DEF VersionsAgree
  <2>2. rw.rv > 0
    BY DEF VersionsAgree
  <2>3. CASE rw' = rw
    BY <1>0, <1>2, <1>3, <2>1, <2>2, <2>3 DEF VersionsAgree
  <2>4. CASE rw'.rv = rw.rv + 1
    BY <1>0, <1>2, <1>3, <2>1, <2>2, <2>4 DEF VersionsAgree
  <2>5. QED BY <1>1, <2>3, <2>4

(* The controller only keeps locks that the RisingWave it read has.        *)
LEMMA ControllerReadsStep ==
    ASSUME TypeOK, ControllerReads, Next
    PROVE  ControllerReads'
<1>0. ctrl \in CtrlType
  BY DEF TypeOK
<1>1. CASE UNCHANGED ctrl
  BY <1>1 DEF ControllerReads
<1>2. CASE ReconcileRisingWave
  BY <1>2 DEF ReconcileRisingWave, ControllerReads
<1>3. CASE ReleaseScaleViewLock
  BY <1>0, <1>3 DEF ReleaseScaleViewLock, ControllerReads, CtrlType
<1>4. ASSUME NEW other \in BOOLEAN, UpdateRisingWaveStatus(other) \/ Restart
      PROVE  ControllerReads'
  BY <1>4 DEF UpdateRisingWaveStatus, Restart, IdleCtrl, ControllerReads
<1>5. QED BY <1>1, <1>2, <1>3, <1>4
      DEF Next, ControllerStep, DeliverRisingWave, DeliverView, ViewStep, ReconcileView,
          GrabOrUpdateScaleViewLock, UpdateLock, SyncGroupReplicasToRisingWave,
          PatchReplicas, SyncGroupReplicasStatus, UpdateScaleViewStatus,
          User, UserRequest, CreateView, ScaleTo, EditPolicy,
          DeleteView, EditRisingWave, DeleteRisingWave, CreateRisingWave

(* No copy of a view outlives the uniqueness of uids: after a step a copy  *)
(* has the incarnation and the groups of a copy before the step, or it is  *)
(* the object that was just created, with a uid larger than all others.    *)
LEMMA ViewCopiesStep ==
    ASSUME TypeOK, ValidateScaleViews, Next, NEW u \in Views
    PROVE  /\ sv'[u].rv >= sv[u].rv
           /\ \A x \in ViewCopies(u)' :
                 \/ x.uid = 0
                 \/ \E y \in ViewCopies(u) :
                       /\ x.uid = y.uid
                       /\ PolicyGroups(x.policy) = PolicyGroups(y.policy)
                 \/ /\ x = sv'[u]
                    /\ x.uid = sv[u].rv + 1
                    /\ sv'[u].rv = x.uid
<1> DEFINE Old(x) == \/ x.uid = 0
                     \/ \E y \in ViewCopies(u) :
                          /\ x.uid = y.uid
                          /\ PolicyGroups(x.policy) = PolicyGroups(y.policy)
           New(x) == x.uid = sv[u].rv + 1 /\ x.rv = x.uid
<1>0. /\ sv \in [Views -> ViewType]
      /\ svEvents \in [Views -> SUBSET ViewType]
      /\ sv[u] \in ViewType
      /\ sv[u].rv \in Nat
  BY DEF TypeOK, ViewType
<1>1. \A x \in ViewCopies(u) : Old(x)
  OBVIOUS
<1>2. sv[u] \in ViewCopies(u) /\ svCache[u] \in ViewCopies(u)
        /\ worker[u].view \in ViewCopies(u) /\ svEvents[u] \subseteq ViewCopies(u)
  BY DEF ViewCopies
<1>3. ASSUME NEW v \in Views, NEW obj, StoreView(v, obj),
             u = v => obj.rv = sv[u].rv + 1 /\ (Old(obj) \/ New(obj))
      PROVE  /\ sv'[u].rv >= sv[u].rv
             /\ Old(sv'[u]) \/ New(sv'[u])
             /\ svEvents'[u] \subseteq svEvents[u] \cup {sv'[u]}
  <2> HIDE DEF Old, New
  <2>1. CASE u = v
    BY <1>0, <1>3, <2>1 DEF StoreView
  <2>2. CASE u # v
    <3>1. sv'[u] = sv[u] /\ svEvents'[u] = svEvents[u]
      BY <1>0, <1>3, <2>2 DEF StoreView
    <3>2. QED BY <1>0, <1>1, <1>2, <3>1
  <2>3. QED BY <2>1, <2>2
<1>4. CASE /\ \/ sv'[u] = sv[u]
              \/ /\ sv'[u].rv >= sv[u].rv
                 /\ Old(sv'[u]) \/ New(sv'[u])
           /\ svEvents'[u] \subseteq svEvents[u] \cup {sv'[u]}
           /\ svCache'[u] \in {svCache[u], sv[u]} \cup svEvents[u]
           /\ \/ worker'[u].view.uid = 0
              \/ worker'[u].view = svCache[u]
              \/ /\ worker'[u].view.uid = worker[u].view.uid
                 /\ worker'[u].view.policy = worker[u].view.policy
  <2>1. sv'[u].rv >= sv[u].rv
    BY <1>0, <1>4
  <2>2. Old(sv'[u]) \/ New(sv'[u])
    <3> HIDE DEF Old, New
    <3>1. QED BY <1>1, <1>2, <1>4
  <2>3. Old(worker'[u].view)
    BY <1>2, <1>4
  <2>4. \A x \in ViewCopies(u)' : Old(x) \/ (x = sv'[u] /\ New(x))
    <3> HIDE DEF Old, New
    <3>1. QED BY <1>1, <1>2, <1>4, <2>2, <2>3 DEF ViewCopies
  <2>5. QED BY <2>1, <2>4
<1>5. CASE \E v \in Views : ViewStep(v)
  <2>1. PICK v \in Views : ViewStep(v)
    BY <1>5
  <2>2. /\ svCache' = svCache
        /\ \/ worker'[u].view.uid = 0
           \/ worker'[u].view = svCache[u]
           \/ /\ worker'[u].view.uid = worker[u].view.uid
              /\ worker'[u].view.policy = worker[u].view.policy
    <3>1. svCache' = svCache
      BY <2>1 DEF ViewStep, ReconcileView, GrabOrUpdateScaleViewLock, UpdateLock,
                  SyncGroupReplicasToRisingWave, PatchReplicas,
                  SyncGroupReplicasStatus, UpdateScaleViewStatus, cache
    <3>2. QED BY <2>1, <3>1, WorkerStep DEF SameVersion, NoView
  <2>3. CASE UNCHANGED <<sv, svEvents>>
    <3> HIDE DEF Old, New
    <3>1. QED BY <1>4, <2>2, <2>3
  <2>4. CASE StoreView(v, [sv[v] EXCEPT !.rv = @ + 1, !.locked = worker[v].view.locked])
    <3> DEFINE obj == [sv[v] EXCEPT !.rv = @ + 1, !.locked = worker[v].view.locked]
    <3>1. u = v => /\ obj.rv = sv[u].rv + 1
                   /\ obj.uid = sv[u].uid
                   /\ obj.policy = sv[u].policy
      BY <1>0 DEF ViewType
    <3>2. StoreView(v, obj)
      BY <2>4
    <3> HIDE DEF obj
    <3>3. u = v => Old(obj)
      BY <1>2, <3>1
    <3> HIDE DEF Old, New
    <3>4. QED BY <1>3, <1>4, <2>2, <3>1, <3>2, <3>3
  <2>5. QED BY <2>1, <2>3, <2>4
        DEF ViewStep, ReconcileView, GrabOrUpdateScaleViewLock, UpdateLock,
            SyncGroupReplicasToRisingWave, PatchReplicas,
            SyncGroupReplicasStatus, UpdateScaleViewStatus, api
<1>6. CASE User
  <2>1. UNCHANGED <<svCache, worker>>
    BY <1>6 DEF User, UserRequest, CreateView, ScaleTo, EditPolicy, DeleteView,
                EditRisingWave, DeleteRisingWave, CreateRisingWave, cache
  <2>2. CASE UNCHANGED <<sv, svEvents>>
    <3> HIDE DEF Old, New
    <3>1. QED BY <1>4, <2>1, <2>2
  <2>3. ASSUME NEW v \in Views, NEW obj, StoreView(v, obj),
               u = v => obj.rv = sv[u].rv + 1 /\ (Old(obj) \/ New(obj))
        PROVE  /\ sv'[u].rv >= sv[u].rv
               /\ \A x \in ViewCopies(u)' : Old(x) \/ (x = sv'[u] /\ New(x))
    <3> HIDE DEF Old, New
    <3>1. /\ sv'[u].rv >= sv[u].rv
          /\ Old(sv'[u]) \/ New(sv'[u])
          /\ svEvents'[u] \subseteq svEvents[u] \cup {sv'[u]}
      BY <1>3, <2>3
    <3>2. \A x \in ViewCopies(u)' : Old(x) \/ (x = sv'[u] /\ New(x))
      BY <1>1, <1>2, <2>1, <3>1 DEF ViewCopies
    <3>3. QED BY <3>1, <3>2
  <2>4. ASSUME NEW v \in Views, NEW p \in Policies, CreateView(v, p)
        PROVE  /\ sv'[u].rv >= sv[u].rv
               /\ \A x \in ViewCopies(u)' : Old(x) \/ (x = sv'[u] /\ New(x))
    <3> DEFINE obj == [uid |-> sv[v].rv + 1, gen |-> 1, rv |-> sv[v].rv + 1,
                       replicas |-> CurrentReplicas(p), policy |-> p,
                       target |-> rw.uid, locked |-> FALSE]
    <3>1. StoreView(v, obj)
      BY <2>4 DEF CreateView
    <3>2. u = v => obj.rv = sv[u].rv + 1 /\ New(obj)
      OBVIOUS
    <3> HIDE DEF Old, New, obj
    <3>3. QED BY <2>3, <3>1, <3>2
  <2>5. ASSUME NEW v \in Views, NEW n \in UserReplicas, ScaleTo(v, n)
        PROVE  /\ sv'[u].rv >= sv[u].rv
               /\ \A x \in ViewCopies(u)' : Old(x) \/ (x = sv'[u] /\ New(x))
    <3> DEFINE obj == [sv[v] EXCEPT !.gen = @ + 1, !.rv = @ + 1, !.replicas = n]
    <3>1. StoreView(v, obj)
      BY <2>5 DEF ScaleTo
    <3>2. u = v => /\ obj.rv = sv[u].rv + 1
                   /\ obj.uid = sv[u].uid
                   /\ obj.policy = sv[u].policy
      BY <1>0 DEF ViewType
    <3> HIDE DEF obj
    <3>3. u = v => Old(obj)
      BY <1>2, <3>2
    <3> HIDE DEF Old, New
    <3>4. QED BY <2>3, <3>1, <3>2, <3>3
  <2>6. ASSUME NEW v \in Views, NEW p \in Policies, EditPolicy(v, p)
        PROVE  /\ sv'[u].rv >= sv[u].rv
               /\ \A x \in ViewCopies(u)' : Old(x) \/ (x = sv'[u] /\ New(x))
    <3> DEFINE obj == [sv[v] EXCEPT !.gen = @ + 1, !.rv = @ + 1, !.policy = p]
    <3>1. StoreView(v, obj)
      BY <2>6 DEF EditPolicy
    <3>2. u = v => /\ obj.rv = sv[u].rv + 1
                   /\ obj.uid = sv[u].uid
                   /\ obj.policy = p
      BY <1>0 DEF ViewType
    <3>3. PolicyGroups(p) = PolicyGroups(sv[v].policy)
      BY <2>6 DEF EditPolicy
    <3> HIDE DEF obj
    <3>4. u = v => Old(obj)
      BY <1>2, <3>2, <3>3
    <3> HIDE DEF Old, New
    <3>5. QED BY <2>3, <3>1, <3>2, <3>4
  <2>7. ASSUME NEW v \in Views, DeleteView(v)
        PROVE  /\ sv'[u].rv >= sv[u].rv
               /\ \A x \in ViewCopies(u)' : Old(x) \/ (x = sv'[u] /\ New(x))
    <3> DEFINE obj == NoView(sv[v].rv + 1)
    <3>1. StoreView(v, obj)
      BY <2>7 DEF DeleteView
    <3>2. u = v => obj.rv = sv[u].rv + 1 /\ obj.uid = 0
      BY DEF NoView
    <3> HIDE DEF obj
    <3>3. u = v => Old(obj)
      BY <3>2
    <3> HIDE DEF Old, New
    <3>4. QED BY <2>3, <3>1, <3>2, <3>3
  <2>8. CASE /\ sv'[u].rv >= sv[u].rv
             /\ \A x \in ViewCopies(u)' : Old(x) \/ (x = sv'[u] /\ New(x))
    BY <2>8
  <2>9. CASE (\E groups \in EditedGroups : EditRisingWave(groups))
               \/ DeleteRisingWave \/ CreateRisingWave
    <3>1. UNCHANGED <<sv, svEvents>>
      BY <2>9 DEF EditRisingWave, DeleteRisingWave, CreateRisingWave
    <3> HIDE DEF Old, New
    <3>2. QED BY <2>2, <3>1
  <2> HIDE DEF Old, New
  <2>10. QED BY <1>6, <2>4, <2>5, <2>6, <2>7, <2>8, <2>9 DEF User
<1>7. ASSUME NEW v \in Views, DeliverView(v)
      PROVE  /\ UNCHANGED <<sv, worker>>
             /\ svEvents'[u] \subseteq svEvents[u]
             /\ svCache'[u] \in {svCache[u]} \cup svEvents[u]
  BY <1>0, <1>7 DEF DeliverView, TypeOK
<1>8. CASE DeliverRisingWave \/ ControllerStep \/ Restart \/ \E v \in Views : DeliverView(v)
  <2>1. CASE DeliverRisingWave \/ ControllerStep
    <3>1. UNCHANGED <<sv, svEvents, svCache, worker>>
      BY <2>1 DEF DeliverRisingWave, ControllerStep, ReconcileRisingWave,
                  ReleaseScaleViewLock, UpdateRisingWaveStatus, api, cache
    <3> HIDE DEF Old, New
    <3>2. QED BY <1>4, <3>1
  <2>2. CASE Restart
    <3>1. /\ sv' = sv /\ svEvents'[u] = {} /\ svCache' = sv
          /\ worker'[u].view.uid = 0
      BY <2>2 DEF Restart, IdleWorker, NoView
    <3> HIDE DEF Old, New
    <3>2. QED BY <1>4, <3>1
  <2>3. CASE \E v \in Views : DeliverView(v)
    <3> HIDE DEF Old, New
    <3>1. QED BY <1>4, <1>7, <2>3
  <2>4. QED BY <1>8, <2>1, <2>2, <2>3
<1> HIDE DEF Old, New
<1>9. QED BY <1>5, <1>6, <1>8 DEF Next

(* The groups of an incarnation stay what they were when it was created.   *)
LEMMA GroupsPinnedStep ==
    ASSUME TypeOK, WorkerReads, GroupsPinned, ValidateScaleViews, Next
    PROVE  GroupsPinned'
<1> SUFFICES ASSUME NEW v \in Views
             PROVE  \A x \in ViewCopies(v)' :
                      /\ x.uid <= sv'[v].rv
                      /\ \A y \in ViewCopies(v)' :
                            x.uid = y.uid /\ x.uid # 0
                                => PolicyGroups(x.policy) = PolicyGroups(y.policy)
  BY DEF GroupsPinned
<1>0. /\ sv[v].rv \in Nat /\ sv'[v].rv \in Int
      /\ \A x \in ViewCopies(v) : x.uid \in Nat
  <2>1. sv[v].rv \in Nat /\ \A x \in ViewCopies(v) : x.uid \in Nat
    BY DEF TypeOK, ViewCopies, ViewType, WorkerType
  <2>2. sv'[v].rv \in Int
    <3>1. TypeOK'
      BY NextType
    <3>2. QED BY <3>1 DEF TypeOK, ViewType
  <2>3. QED BY <2>1, <2>2
<1>1. /\ sv'[v].rv >= sv[v].rv
      /\ \A x \in ViewCopies(v)' :
            \/ x.uid = 0
            \/ \E y \in ViewCopies(v) :
                  /\ x.uid = y.uid
                  /\ PolicyGroups(x.policy) = PolicyGroups(y.policy)
            \/ /\ x = sv'[v]
               /\ x.uid = sv[v].rv + 1
               /\ sv'[v].rv = x.uid
  BY ViewCopiesStep
<1>2. \A x, y \in ViewCopies(v) :
         /\ x.uid <= sv[v].rv
         /\ x.uid = y.uid /\ x.uid # 0 => PolicyGroups(x.policy) = PolicyGroups(y.policy)
  BY DEF GroupsPinned
<1>3. QED BY <1>0, <1>1, <1>2

(* The request of a worker that grabs or updates its lock: the lock it     *)
(* writes covers the groups of its view, and its own old lock, if it is    *)
(* there, covers the same.                                                 *)
LEMMA LocksStep ==
    ASSUME LockInv, ValidateScaleViews, Next
    PROVE  \/ rw'.locks \subseteq rw.locks
           \/ \E v \in Views :
                 LET view == worker[v].view
                     new == LockOf(v, view)
                 IN /\ view.uid # 0
                    /\ LockedGroups(new) = PolicyGroups(view.policy)
                    /\ \A k \in rw'.locks : k # new =>
                          /\ k \in rw.locks
                          /\ k.name # v
                          /\ LockedGroups(k) \cap LockedGroups(new) = {}
<1>1. CASE rw'.locks \subseteq rw.locks
  BY <1>1
<1>2. ASSUME NEW v \in Views, UpdateLock(v), worker[v].target = rw,
             rw'.locks = GrabOrUpdate(v, worker[v].view, rw.locks)
      PROVE  LET view == worker[v].view
                 new == LockOf(v, view)
             IN /\ view.uid # 0
                /\ LockedGroups(new) = PolicyGroups(view.policy)
                /\ \A k \in rw'.locks : k # new =>
                      /\ k \in rw.locks
                      /\ k.name # v
                      /\ LockedGroups(k) \cap LockedGroups(new) = {}
  <2> DEFINE view == worker[v].view
             new == LockOf(v, view)
  <2>0. view \in ViewType /\ view \in ViewCopies(v)
    BY DEF LockInv, TypeOK, WorkerType, ViewCopies
  <2>1. LockedGroups(new) = PolicyGroups(view.policy)
    BY <2>0, LockOfType
  <2>2. /\ view.uid # 0
        /\ Holds(v, view, rw.locks) \/ CanGrab(v, view.policy, rw.locks)
    BY <1>2 DEF LockInv, WorkerReads, ReadsJustify, UpdateLock
  <2> HIDE DEF view
  <2>3. ASSUME NEW k \in rw'.locks, k # new
        PROVE  /\ k \in rw.locks
               /\ k.name # v
               /\ LockedGroups(k) \cap LockedGroups(new) = {}
    <3>1. k \in rw.locks /\ ~(k.name = v /\ k.uid = view.uid)
      BY <1>2, <2>3 DEF GrabOrUpdate, view
    <3>2. CASE CanGrab(v, view.policy, rw.locks)
      BY <2>1, <3>1, <3>2 DEF CanGrab
    <3>3. CASE Holds(v, view, rw.locks)
      <4>1. PICK h \in rw.locks : h.name = v /\ h.uid = view.uid
        BY <3>3 DEF Holds
      <4>2. PolicyGroups(view.policy) = LockedGroups(h)
        BY <2>0, <4>1 DEF LockInv, LocksPinned
      <4>3. k # h
        BY <3>1, <4>1
      <4>4. k.name # h.name /\ LockedGroups(k) \cap LockedGroups(h) = {}
        BY <3>1, <4>3 DEF LockInv, LockExclusive, Exclusive
      <4>5. QED BY <2>1, <3>1, <4>1, <4>2, <4>4
    <3>4. QED BY <2>2, <3>2, <3>3
  <2> HIDE DEF new
  <2>4. QED BY <2>1, <2>2, <2>3 DEF view, new
<1>3. QED
  <2>1. \/ rw'.locks \subseteq rw.locks
        \/ \E v \in Views : /\ UpdateLock(v)
                            /\ worker[v].target = rw
                            /\ rw'.locks = GrabOrUpdate(v, worker[v].view, rw.locks)
    BY RisingWaveWritten DEF LockInv
  <2>2. QED BY <1>2, <2>1

(* A lock covers the groups of its view's incarnation, and is the only one *)
(* that covers them.                                                       *)
LEMMA LocksPinnedStep ==
    ASSUME LockInv, ValidateScaleViews, Next
    PROVE  LocksPinned' /\ LockExclusive'
<1>0. TypeOK /\ GroupsPinned /\ LocksPinned /\ LockExclusive /\ TypeOK'
  BY NextType DEF LockInv
<1>1. ASSUME NEW v \in Views
      PROVE  /\ sv'[v].rv >= sv[v].rv
             /\ sv[v].rv \in Nat
             /\ sv'[v].rv \in Nat
             /\ \A x \in ViewCopies(v) : x.uid \in Nat /\ x.uid <= sv[v].rv
             /\ \A x \in ViewCopies(v)' :
                   \/ x.uid = 0
                   \/ \E y \in ViewCopies(v) :
                         /\ x.uid = y.uid
                         /\ PolicyGroups(x.policy) = PolicyGroups(y.policy)
                   \/ x.uid = sv[v].rv + 1
  <2>1. sv[v].rv \in Nat /\ sv'[v].rv \in Nat
    BY <1>0 DEF TypeOK, ViewType
  <2>2. \A x \in ViewCopies(v) : x.uid \in Nat /\ x.uid <= sv[v].rv
    <3>1. \A x \in ViewCopies(v) : x.uid \in Nat
      <4>1. TypeOK
        BY <1>0
      <4>2. QED BY <4>1 DEF TypeOK, ViewCopies, ViewType, WorkerType
    <3>2. QED BY <1>0, <3>1 DEF GroupsPinned
  <2>3. QED BY <1>0, <2>1, <2>2, ViewCopiesStep
<1>2. ASSUME NEW l \in rw.locks
      PROVE  /\ l.uid # 0
             /\ l.uid <= sv'[l.name].rv
             /\ \A x \in ViewCopies(l.name)' :
                   x.uid = l.uid => PolicyGroups(x.policy) = LockedGroups(l)
  <2>1. l.name \in Views /\ l.uid \in Nat
    BY <1>0 DEF TypeOK, RisingWaveType, LockType
  <2>2. /\ l.uid # 0
        /\ l.uid <= sv[l.name].rv
        /\ \A x \in ViewCopies(l.name) :
              x.uid = l.uid => PolicyGroups(x.policy) = LockedGroups(l)
    BY <1>0 DEF LocksPinned
  <2>3. QED BY <1>1, <2>1, <2>2
<1>3. CASE rw'.locks \subseteq rw.locks
  <2>1. LocksPinned'
    BY <1>2, <1>3 DEF LocksPinned
  <2>2. LockExclusive'
    BY <1>0, <1>3 DEF LockExclusive, Exclusive
  <2>3. QED BY <2>1, <2>2
<1>4. ASSUME NEW v \in Views,
             worker[v].view.uid # 0,
             LockedGroups(LockOf(v, worker[v].view)) = PolicyGroups(worker[v].view.policy),
             \A k \in rw'.locks : k # LockOf(v, worker[v].view) =>
                 /\ k \in rw.locks
                 /\ k.name # v
                 /\ LockedGroups(k) \cap LockedGroups(LockOf(v, worker[v].view)) = {}
      PROVE  LocksPinned' /\ LockExclusive'
  <2> DEFINE view == worker[v].view
             new == LockOf(v, view)
  <2>1. new.name = v /\ new.uid = view.uid
    BY DEF LockOf
  <2>2. view \in ViewCopies(v)
    BY DEF ViewCopies
  <2> HIDE DEF view, new
  <2>3. view.uid # 0 /\ LockedGroups(new) = PolicyGroups(view.policy)
    BY <1>4 DEF view, new
  <2>4. \A k \in rw'.locks : k # new =>
           k \in rw.locks /\ k.name # v /\ LockedGroups(k) \cap LockedGroups(new) = {}
    BY <1>4 DEF view, new
  <2>5. /\ new.uid # 0
        /\ new.uid <= sv'[v].rv
        /\ \A x \in ViewCopies(v)' :
              x.uid = new.uid => PolicyGroups(x.policy) = LockedGroups(new)
    <3>1. \A y \in ViewCopies(v) :
             y.uid = view.uid => PolicyGroups(y.policy) = PolicyGroups(view.policy)
      BY <1>0, <2>2, <2>3 DEF GroupsPinned
    <3>2. QED BY <1>1, <2>1, <2>2, <2>3, <3>1
  <2>6. LocksPinned'
    <3>1. ASSUME NEW l \in rw'.locks
          PROVE  /\ l.uid # 0
                 /\ l.uid <= sv'[l.name].rv
                 /\ \A x \in ViewCopies(l.name)' :
                       x.uid = l.uid => PolicyGroups(x.policy) = LockedGroups(l)
      <4>1. CASE l = new
        BY <2>1, <2>5, <4>1
      <4>2. CASE l # new
        BY <1>2, <2>4, <4>2
      <4>3. QED BY <4>1, <4>2
    <3>2. QED BY <3>1 DEF LocksPinned
  <2>7. LockExclusive'
    BY <1>0, <2>1, <2>4 DEF LockExclusive, Exclusive
  <2>8. QED BY <2>6, <2>7
<1>5. QED BY <1>3, <1>4, LocksStep

(* The strengthened invariant is inductive.                                *)
LEMMA LockInvInductive ==
    ASSUME ValidateScaleViews
    PROVE  /\ Init => LockInv
           /\ LockInv /\ [Next]_vars => LockInv'
<1>1. Init => LockInv
  <2> SUFFICES ASSUME Init PROVE LockInv
    OBVIOUS
  <2>1. TypeOK
    BY InitTypeOK
  <2>2. /\ rw = InitRisingWave /\ rwCache = InitRisingWave /\ rwEvents = {}
        /\ ctrl = IdleCtrl
        /\ \A v \in Views : /\ worker[v] = IdleWorker
                            /\ sv[v] = NoView(0) /\ svCache[v] = NoView(0)
                            /\ svEvents[v] = {}
    BY DEF Init
  <2>3. WorkerReads
    BY <2>2 DEF WorkerReads, ReadsJustify, IdleWorker
  <2>4. ControllerReads
    BY <2>2 DEF ControllerReads, IdleCtrl
  <2>5. VersionsAgree
    BY <2>2 DEF VersionsAgree, RisingWaveCopies, IdleWorker, IdleCtrl,
                InitRisingWave, NoRisingWave
  <2>6. GroupsPinned
    BY <2>2 DEF GroupsPinned, ViewCopies, IdleWorker, NoView
  <2>7. LocksPinned /\ LockExclusive
    BY <2>2 DEF LocksPinned, LockExclusive, Exclusive, InitRisingWave
  <2>8. QED BY <2>1, <2>3, <2>4, <2>5, <2>6, <2>7 DEF LockInv
<1>2. ASSUME LockInv, Next PROVE LockInv'
  <2>1. TypeOK' /\ WorkerReads'
    BY <1>2, NextType, WorkerReadsStep DEF LockInv
  <2>2. ControllerReads' /\ VersionsAgree'
    BY <1>2, ControllerReadsStep, VersionsAgreeStep DEF LockInv
  <2>3. GroupsPinned'
    BY <1>2, GroupsPinnedStep DEF LockInv
  <2>4. LocksPinned' /\ LockExclusive'
    BY <1>2, LocksPinnedStep
  <2>5. QED BY <2>1, <2>2, <2>3, <2>4 DEF LockInv
<1>3. ASSUME LockInv, UNCHANGED vars PROVE LockInv'
  BY <1>3 DEF vars, LockInv, TypeOK, WorkerReads, ReadsJustify, ControllerReads,
              VersionsAgree, RisingWaveCopies, GroupsPinned, ViewCopies, LocksPinned,
              LockExclusive
<1>4. QED BY <1>1, <1>2, <1>3

(* What the reconciles read justifies what they write, and the locks pin   *)
(* the groups of their views, where the validating webhook sees the        *)
(* requests on scale views.                                                *)
THEOREM LockInvariant ==
    ASSUME ValidateScaleViews
    PROVE  Spec => []LockInv
BY LockInvInductive, PTL DEF Spec

(* Where the validating webhook sees the requests on scale views, no two   *)
(* locks of a RisingWave share a node group or a name, for any number of   *)
(* views, groups, policies, retries, restarts and user requests.           *)
THEOREM LockExclusion ==
    ASSUME ValidateScaleViews
    PROVE  Spec => []LockExclusive
<1>1. LockInv => LockExclusive
  BY DEF LockInv
<1>2. QED BY <1>1, LockInvariant, PTL
=============================================================================
