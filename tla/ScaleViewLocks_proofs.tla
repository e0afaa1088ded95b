----------------------- MODULE ScaleViewLocks_proofs -----------------------
(***************************************************************************)
(* More proofs about ScaleView: a lock follows its view, the webhook keeps *)
(* the groups of a lock together, the locks implement the abstract lock    *)
(* service, and no wakeup is lost.  The last two need the webhooks on      *)
(* views, the others do not.                                               *)
(***************************************************************************)
EXTENDS ScaleView_proofs

(* RisingWaveValidatingWebhook.validateUpdate: the two counters let an     *)
(* update through only if it takes every group of a lock to the lock's     *)
(* replicas, or leaves every one of them where it is.                      *)
LEMMA ValidateUpdateAllOrNone ==
    ASSUME NEW new, NEW old, NEW l \in LockType,
           \A k \in DOMAIN l.groups : GroupLockAdmits(l, new, old, k)
    PROVE  \/ \A g \in LockedGroups(l) :
                 new[g] # Absent /\ new[g] = ReadReplicas(old, g)
           \/ \A g \in LockedGroups(l) : new[g] = LockValue(l, g)
<1> DEFINE name(i) == l.groups[i].name
           asked(i) == l.groups[i].replicas
           kept(i) == ReadReplicas(old, name(i))
<1>1. /\ DOMAIN l.groups = 1 .. Len(l.groups)
      /\ Len(l.groups) \in Nat
  BY DEF LockType
<1>2. ASSUME NEW k \in DOMAIN l.groups
      PROVE  /\ new[name(k)] # Absent
             /\ \A i \in 1 .. k :
                   new[name(i)] # asked(i) /\ new[name(i)] = kept(i) /\ new[name(i)] # Absent
                       => new[name(k)] = kept(k)
             /\ \A i \in 1 .. k :
                   /\ new[name(i)] # Absent
                   /\ new[name(i)] = asked(i) \/ new[name(i)] # kept(i)
                   => new[name(k)] = asked(k)
  <2>1. GroupLockAdmits(l, new, old, k)
    BY <1>2
  <2>2. QED BY <2>1 DEF GroupLockAdmits, UpdateCounted, UnchangedCounted
<1>3. \A k \in DOMAIN l.groups : new[name(k)] = asked(k) \/ new[name(k)] = kept(k)
  <2> HIDE DEF name, asked, kept
  <2>1. QED BY <1>1, <1>2
<1>4. CASE \A k \in DOMAIN l.groups : new[name(k)] = asked(k)
  <2>1. ASSUME NEW g \in LockedGroups(l)
        PROVE  new[g] = LockValue(l, g)
    <3>1. \E i \in DOMAIN l.groups : l.groups[i].name = g
      BY DEF LockedGroups
    <3> DEFINE j == CHOOSE i \in DOMAIN l.groups : l.groups[i].name = g
    <3>2. j \in DOMAIN l.groups /\ l.groups[j].name = g
      BY <3>1
    <3>3. LockValue(l, g) = l.groups[j].replicas
      BY DEF LockValue
    <3> HIDE DEF j
    <3>4. QED BY <1>4, <3>2, <3>3
  <2>2. QED BY <2>1
<1>5. ASSUME NEW i \in DOMAIN l.groups, new[name(i)] # asked(i)
      PROVE  \A g \in LockedGroups(l) : new[g] # Absent /\ new[g] = ReadReplicas(old, g)
  <2>1. new[name(i)] = kept(i) /\ new[name(i)] # Absent
    BY <1>2, <1>3, <1>5
  <2>2. ASSUME NEW j \in DOMAIN l.groups
        PROVE  new[name(j)] # Absent /\ new[name(j)] = kept(j)
    <3> HIDE DEF name, asked, kept
    <3>1. i \in Nat /\ j \in Nat /\ (i \in 1 .. j \/ j \in 1 .. i)
      BY <1>1
    <3>2. CASE i \in 1 .. j
      BY <1>2, <1>5, <2>1, <3>2
    <3>3. CASE j \in 1 .. i
      BY <1>2, <1>5, <2>1, <3>3
    <3>4. QED BY <3>1, <3>2, <3>3
  <2>3. QED BY <2>2 DEF LockedGroups
<1>6. QED BY <1>4, <1>5

(* The groups of a stored RisingWave change only through the webhook: by   *)
(* the patch of a worker or the edit of a user.                            *)
LEMMA GroupsWritten ==
    ASSUME TypeOK, Next, rw'.uid = rw.uid, rw'.groups # rw.groups
    PROVE  validateUpdate(rw.locks, rw'.groups, rw.groups)
<1>0. rw \in RisingWaveType
  BY DEF TypeOK
<1>1. ASSUME NEW groups, StoreGroups(groups), validateUpdate(rw.locks, groups, rw.groups)
      PROVE  validateUpdate(rw.locks, rw'.groups, rw.groups)
  <2>1. rw'.groups = groups
    BY <1>0, <1>1 DEF StoreGroups, StoreRisingWave, RisingWaveType
  <2>2. QED BY <1>1, <2>1
<1>2. ASSUME NEW locks, StoreRisingWave([rw EXCEPT !.rv = @ + 1, !.locks = locks])
      PROVE  rw'.groups = rw.groups
  BY <1>0, <1>2 DEF StoreRisingWave, RisingWaveType
<1>3. ASSUME NEW v \in Views, ViewStep(v)
      PROVE  validateUpdate(rw.locks, rw'.groups, rw.groups)
  <2>1. CASE PatchReplicas(v)
    <3>1. rw' # rw
      OBVIOUS
    <3>2. QED BY <1>1, <2>1, <3>1 DEF PatchReplicas
  <2>2. CASE UpdateLock(v)
    BY <1>2, <2>2 DEF UpdateLock
  <2>3. CASE ~PatchReplicas(v) /\ ~UpdateLock(v)
    BY <1>3, <2>3 DEF ViewStep, ReconcileView, GrabOrUpdateScaleViewLock,
                  SyncGroupReplicasToRisingWave, SyncGroupReplicasStatus,
                  UpdateScaleViewStatus, api
  <2>4. QED BY <2>1, <2>2, <2>3
<1>4. ~ControllerStep
  BY <1>2 DEF ControllerStep, ReconcileRisingWave, ReleaseScaleViewLock,
              UpdateRisingWaveStatus, api
<1>5. ~(DeliverRisingWave \/ Restart \/ \E v \in Views : DeliverView(v))
  BY DEF DeliverRisingWave, Restart, DeliverView
<1>6. ASSUME User
      PROVE  validateUpdate(rw.locks, rw'.groups, rw.groups)
  <2>1. ASSUME NEW groups, EditRisingWave(groups)
        PROVE  validateUpdate(rw.locks, rw'.groups, rw.groups)
    BY <1>1, <2>1 DEF EditRisingWave
  <2>2. ~DeleteRisingWave /\ ~CreateRisingWave
    BY <1>0 DEF DeleteRisingWave, CreateRisingWave, StoreRisingWave, NoRisingWave,
                RisingWaveType
  <2>3. ~ \E v \in Views, p \in Policies : CreateView(v, p) \/ EditPolicy(v, p)
    BY DEF CreateView, EditPolicy
  <2>4. ~ \E v \in Views : DeleteView(v) \/ \E n \in UserReplicas : ScaleTo(v, n)
    BY DEF DeleteView, ScaleTo
  <2>5. QED BY <1>6, <2>1, <2>2, <2>3, <2>4 DEF User
<1>7. QED BY <1>3, <1>4, <1>5, <1>6 DEF Next

(* The validating webhook of the RisingWave keeps the groups of every lock *)
(* together: whoever changes node groups, users and workers on stale reads *)
(* alike, takes all the groups of a lock to its replicas or none of them,  *)
(* and removes none.                                                       *)
THEOREM GroupsMoveTogether == Spec => LockedGroupsMoveTogether
<1> DEFINE Together ==
        rw'.uid = rw.uid /\ rw'.groups # rw.groups =>
          \A l \in rw.locks :
             \/ \A g \in LockedGroups(l) :
                   rw'.groups[g] # Absent /\ rw'.groups[g] = ReadReplicas(rw.groups, g)
             \/ \A g \in LockedGroups(l) : rw'.groups[g] = LockValue(l, g)
<1>1. TypeOK /\ [Next]_vars => [Together]_vars
  <2> SUFFICES ASSUME TypeOK, Next, rw'.uid = rw.uid, rw'.groups # rw.groups,
                      NEW l \in rw.locks
               PROVE  \/ \A g \in LockedGroups(l) :
                            /\ rw'.groups[g] # Absent
                            /\ rw'.groups[g] = ReadReplicas(rw.groups, g)
                      \/ \A g \in LockedGroups(l) : rw'.groups[g] = LockValue(l, g)
    OBVIOUS
  <2>1. rw.locks \in SUBSET LockType
    BY DEF TypeOK, RisingWaveType
  <2>2. validateUpdate(rw.locks, rw'.groups, rw.groups)
    BY GroupsWritten
  <2>3. l \in LockType /\ \A k \in DOMAIN l.groups :
                               GroupLockAdmits(l, rw'.groups, rw.groups, k)
    BY <2>1, <2>2 DEF validateUpdate
  <2>4. QED BY <2>3, ValidateUpdateAllOrNone
<1>2. QED BY <1>1, TypeCorrect, PTL DEF Spec, LockedGroupsMoveTogether

-----------------------------------------------------------------------------
\* what a write of a view may do: delete it, create it anew, or change it
Changed(x, y) ==
    \/ y.uid = 0
    \/ /\ x.uid = 0 /\ y.uid = y.rv
       /\ y.policy \in Policies
    \/ /\ x.uid # 0 /\ y.uid = x.uid
       /\ y.target = x.target
       /\ y.policy \in Policies \cup {x.policy}
       /\ \/ y.gen = x.gen + 1
          \/ y.gen = x.gen /\ y.policy = x.policy /\ y.replicas = x.replicas

\* a write of the view: the next version is stored and announced
Written(u) ==
    /\ sv'[u].rv = sv[u].rv + 1
    /\ Changed(sv[u], sv'[u])
    /\ svEvents'[u] = svEvents[u] \cup {sv'[u]}

(* A user request writes at most one view, and reaches no reconcile.       *)
LEMMA ViewWrittenByUser ==
    ASSUME TypeOK, User, NEW u \in Views
    PROVE  /\ \/ sv'[u] = sv[u] /\ svEvents'[u] = svEvents[u]
              \/ Written(u)
           /\ svCache' = svCache
           /\ worker' = worker
<1>0. /\ sv \in [Views -> ViewType]
      /\ svEvents \in [Views -> SUBSET ViewType]
      /\ sv[u] \in ViewType
      /\ sv[u].rv \in Nat /\ sv[u].gen \in Nat
  BY DEF TypeOK, ViewType
<1>1. svCache' = svCache /\ worker' = worker
  BY DEF User, UserRequest, CreateView, ScaleTo, EditPolicy, DeleteView,
         EditRisingWave, DeleteRisingWave, CreateRisingWave, cache
<1>2. ASSUME NEW v \in Views, NEW obj, StoreView(v, obj),
             u = v => obj.rv = sv[u].rv + 1 /\ Changed(sv[u], obj)
      PROVE  \/ sv'[u] = sv[u] /\ svEvents'[u] = svEvents[u]
             \/ Written(u)
  <2>1. CASE u = v
    BY <1>0, <1>2, <2>1 DEF StoreView, Written
  <2>2. CASE u # v
    BY <1>0, <1>2, <2>2 DEF StoreView
  <2>3. QED BY <2>1, <2>2
<1>3. ASSUME NEW v \in Views, NEW p \in Policies, CreateView(v, p)
      PROVE  \/ sv'[u] = sv[u] /\ svEvents'[u] = svEvents[u]
             \/ Written(u)
  <2> DEFINE obj == [uid |-> sv[v].rv + 1, gen |-> 1, rv |-> sv[v].rv + 1,
                     replicas |-> CurrentReplicas(p), policy |-> p,
                     target |-> rw.uid, locked |-> FALSE]
  <2>1. StoreView(v, obj) /\ sv[v].uid = 0
    BY <1>3 DEF CreateView
  <2>2. u = v => obj.rv = sv[u].rv + 1 /\ Changed(sv[u], obj)
    BY <2>1 DEF Changed
  <2> HIDE DEF obj
  <2>3. QED BY <1>2, <2>1, <2>2
<1>4. ASSUME NEW v \in Views, NEW n \in UserReplicas, ScaleTo(v, n)
      PROVE  \/ sv'[u] = sv[u] /\ svEvents'[u] = svEvents[u]
             \/ Written(u)
  <2> DEFINE obj == [sv[v] EXCEPT !.gen = @ + 1, !.rv = @ + 1, !.replicas = n]
  <2>1. StoreView(v, obj) /\ sv[v].uid # 0
    BY <1>4 DEF ScaleTo
  <2>2. u = v => obj.rv = sv[u].rv + 1 /\ Changed(sv[u], obj)
    BY <1>0, <2>1 DEF Changed, ViewType
  <2> HIDE DEF obj
  <2>3. QED BY <1>2, <2>1, <2>2
<1>5. ASSUME NEW v \in Views, NEW p \in Policies, EditPolicy(v, p)
      PROVE  \/ sv'[u] = sv[u] /\ svEvents'[u] = svEvents[u]
             \/ Written(u)
  <2> DEFINE obj == [sv[v] EXCEPT !.gen = @ + 1, !.rv = @ + 1, !.policy = p]
  <2>1. StoreView(v, obj) /\ sv[v].uid # 0
    BY <1>5 DEF EditPolicy
  <2>2. u = v => obj.rv = sv[u].rv + 1 /\ Changed(sv[u], obj)
    BY <1>0, <2>1 DEF Changed, ViewType
  <2> HIDE DEF obj
  <2>3. QED BY <1>2, <2>1, <2>2
<1>6. ASSUME NEW v \in Views, DeleteView(v)
      PROVE  \/ sv'[u] = sv[u] /\ svEvents'[u] = svEvents[u]
             \/ Written(u)
  <2>1. StoreView(v, NoView(sv[v].rv + 1))
    BY <1>6 DEF DeleteView
  <2>2. u = v => /\ NoView(sv[v].rv + 1).rv = sv[u].rv + 1
                 /\ Changed(sv[u], NoView(sv[v].rv + 1))
    BY DEF Changed, NoView
  <2>3. QED BY <1>2, <2>1, <2>2
<1>7. ASSUME UNCHANGED <<sv, svEvents>>
      PROVE  \/ sv'[u] = sv[u] /\ svEvents'[u] = svEvents[u]
             \/ Written(u)
  BY <1>7
<1>8. QED BY <1>1, <1>3, <1>4, <1>5, <1>6, <1>7
          DEF User, EditRisingWave, DeleteRisingWave, CreateRisingWave

(* A reconcile writes at most the status of its own view.                  *)
LEMMA ViewWrittenByWorker ==
    ASSUME TypeOK, NEW u \in Views, NEW v \in Views, ViewStep(v)
    PROVE  \/ sv'[u] = sv[u] /\ svEvents'[u] = svEvents[u]
           \/ Written(u)
<1>0. /\ sv \in [Views -> ViewType]
      /\ svEvents \in [Views -> SUBSET ViewType]
      /\ sv[u] \in ViewType
      /\ sv[u].rv \in Nat
  BY DEF TypeOK, ViewType
<1>1. CASE UNCHANGED <<sv, svEvents>>
  BY <1>1
<1>2. CASE /\ StoreView(v, [sv[v] EXCEPT !.rv = @ + 1, !.locked = worker[v].view.locked])
           /\ sv[v].uid # 0
  <2> DEFINE obj == [sv[v] EXCEPT !.rv = @ + 1, !.locked = worker[v].view.locked]
  <2>1. u = v => obj.rv = sv[u].rv + 1 /\ Changed(sv[u], obj)
    BY <1>0, <1>2 DEF Changed, ViewType
  <2> HIDE DEF obj
  <2>2. sv' = [sv EXCEPT ![v] = obj] /\ svEvents' = [svEvents EXCEPT ![v] = @ \cup {obj}]
    BY <1>2 DEF StoreView, obj
  <2>3. CASE u = v
    BY <1>0, <2>1, <2>2, <2>3 DEF Written
  <2>4. CASE u # v
    BY <1>0, <2>2, <2>4
  <2>5. QED BY <2>3, <2>4
<1>3. QED BY <1>1, <1>2
      DEF ViewStep, ReconcileView, GrabOrUpdateScaleViewLock, UpdateLock,
          SyncGroupReplicasToRisingWave, PatchReplicas,
          SyncGroupReplicasStatus, UpdateScaleViewStatus, api

(* What a step does to the copies of a view: the stored object is written, *)
(* or its oldest announced version reaches the cache, or a restart lists   *)
(* it; the worker reads the cache.                                         *)
LEMMA ViewStepCases ==
    ASSUME TypeOK, Next, NEW u \in Views
    PROVE  /\ \/ sv'[u] = sv[u] /\ svEvents'[u] = svEvents[u] /\ svCache'[u] = svCache[u]
              \/ Written(u) /\ svCache'[u] = svCache[u]
              \/ /\ sv'[u] = sv[u]
                 /\ svCache'[u] \in svEvents[u]
                 /\ \A x \in svEvents[u] : svCache'[u].rv <= x.rv
                 /\ svEvents'[u] \subseteq svEvents[u]
              \/ /\ sv'[u] = sv[u] /\ svCache'[u] = sv[u] /\ svEvents'[u] = {}
                 /\ worker'[u].view = NoView(0)
           /\ \/ worker'[u].view = NoView(0)
              \/ worker'[u].view = svCache[u]
              \/ SameVersion(worker'[u].view, worker[u].view)
<1>0. /\ sv \in [Views -> ViewType] /\ svCache \in [Views -> ViewType]
      /\ svEvents \in [Views -> SUBSET ViewType]
      /\ sv[u] \in ViewType
      /\ sv[u].rv \in Nat
  BY DEF TypeOK, ViewType
<1>1. UNCHANGED worker => SameVersion(worker'[u].view, worker[u].view)
  BY DEF SameVersion
<1>2. CASE DeliverRisingWave \/ ControllerStep
  <2>1. UNCHANGED <<sv, svEvents, svCache, worker>>
    BY <1>2 DEF DeliverRisingWave, ControllerStep, ReconcileRisingWave,
                ReleaseScaleViewLock, UpdateRisingWaveStatus, api, cache
  <2>2. QED BY <1>1, <2>1
<1>3. ASSUME NEW v \in Views, DeliverView(v)
      PROVE  /\ UNCHANGED <<sv, worker>>
             /\ \/ svEvents'[u] = svEvents[u] /\ svCache'[u] = svCache[u]
                \/ /\ svCache'[u] \in svEvents[u]
                   /\ \A x \in svEvents[u] : svCache'[u].rv <= x.rv
                   /\ svEvents'[u] \subseteq svEvents[u]
  <2>1. PICK e \in svEvents[v] :
           /\ \A x \in svEvents[v] : e.rv <= x.rv
           /\ svCache' = [svCache EXCEPT ![v] = e]
           /\ svEvents' = [svEvents EXCEPT ![v] = @ \ {e}]
    BY <1>3 DEF DeliverView
  <2>2. UNCHANGED <<sv, worker>>
    BY <1>3 DEF DeliverView
  <2>3. CASE u = v
    BY <1>0, <2>1, <2>2, <2>3
  <2>4. CASE u # v
    BY <1>0, <2>1, <2>2, <2>4
  <2>5. QED BY <2>3, <2>4
<1>4. ASSUME NEW v \in Views, ViewStep(v)
      PROVE  /\ svCache' = svCache
             /\ \/ sv'[u] = sv[u] /\ svEvents'[u] = svEvents[u]
                \/ Written(u)
  <2>1. svCache' = svCache
    BY <1>4 DEF ViewStep, ReconcileView, GrabOrUpdateScaleViewLock, UpdateLock,
                SyncGroupReplicasToRisingWave, PatchReplicas,
                SyncGroupReplicasStatus, UpdateScaleViewStatus, cache
  <2>2. QED BY <1>4, <2>1, ViewWrittenByWorker
<1>5. CASE Restart
  BY <1>5 DEF Restart, IdleWorker
<1>6. CASE User
  BY <1>1, <1>6, ViewWrittenByUser
<1>7. CASE \E v \in Views : DeliverView(v)
  BY <1>1, <1>3, <1>7
<1>8. CASE \E v \in Views : ViewStep(v)
  BY <1>4, <1>8, WorkerStep
<1>9. QED BY <1>2, <1>5, <1>6, <1>7, <1>8 DEF Next

(* A copy of a view after a step is empty, or a copy of a version that was *)
(* already there, or the version that was just written.                    *)
LEMMA ViewCopiesCases ==
    ASSUME TypeOK, Next, NEW u \in Views, NEW x \in ViewCopies(u)'
    PROVE  \/ x = NoView(0)
           \/ \E y \in ViewCopies(u) : SameVersion(x, y)
           \/ x = sv'[u] /\ Written(u)
<1>1. \A y \in ViewCopies(u) : SameVersion(y, y)
  BY DEF SameVersion
<1>2. x \in {sv'[u], svCache'[u], worker'[u].view} \cup svEvents'[u]
  BY DEF ViewCopies
<1>3. /\ sv[u] \in ViewCopies(u) /\ svCache[u] \in ViewCopies(u)
      /\ worker[u].view \in ViewCopies(u)
      /\ \A e \in svEvents[u] : e \in ViewCopies(u)
  BY DEF ViewCopies
<1>4. CASE x = worker'[u].view
  <2>1. \/ worker'[u].view = NoView(0)
        \/ worker'[u].view = svCache[u]
        \/ SameVersion(worker'[u].view, worker[u].view)
    BY ViewStepCases
  <2>2. QED BY <1>1, <1>3, <1>4, <2>1
<1>5. CASE x # worker'[u].view
  <2>1. \/ sv'[u] = sv[u] /\ svEvents'[u] = svEvents[u] /\ svCache'[u] = svCache[u]
        \/ Written(u) /\ svCache'[u] = svCache[u]
        \/ /\ sv'[u] = sv[u]
           /\ svCache'[u] \in svEvents[u]
           /\ svEvents'[u] \subseteq svEvents[u]
        \/ sv'[u] = sv[u] /\ svCache'[u] = sv[u] /\ svEvents'[u] = {}
    BY ViewStepCases
  <2>2. CASE Written(u) /\ svCache'[u] = svCache[u]
    <3>1. svEvents'[u] = svEvents[u] \cup {sv'[u]}
      BY <2>2 DEF Written
    <3>2. QED BY <1>1, <1>2, <1>3, <1>5, <2>2, <3>1
  <2>3. CASE ~(Written(u) /\ svCache'[u] = svCache[u])
    <3>1. x \in ViewCopies(u)
      BY <1>2, <1>3, <1>5, <2>1, <2>3
    <3>2. QED BY <1>1, <3>1
  <2>4. QED BY <2>1, <2>2, <2>3
<1>6. QED BY <1>4, <1>5

(* The cache of views never goes back.                                     *)
LEMMA CacheGoesForward ==
    ASSUME TypeOK, ViewsInOrder, Next, NEW u \in Views
    PROVE  svCache[u].rv <= svCache'[u].rv
<1>1. /\ svCache[u].rv <= sv[u].rv
      /\ \A x \in svEvents[u] : svCache[u].rv <= x.rv
  BY DEF ViewsInOrder, ViewInOrder, ViewCopies
<1>2. svCache[u].rv \in Nat
  BY DEF TypeOK, ViewType
<1>3. QED BY <1>1, <1>2, ViewStepCases

(* The copies of a view stay in the order of the versions.                 *)
LEMMA ViewsInOrderStep ==
    ASSUME TypeOK, WorkerReads, ViewsInOrder, Next
    PROVE  ViewsInOrder'
<1> SUFFICES ASSUME NEW u \in Views PROVE ViewInOrder(u)'
  BY DEF ViewsInOrder
<1>0. ViewInOrder(u)
  BY DEF ViewsInOrder
<1>1. /\ \A x \in ViewCopies(u) : x \in ViewType
      /\ \A x \in ViewCopies(u)' : x \in ViewType
  <2>1. TypeOK'
    BY NextType
  <2>2. QED BY <2>1 DEF TypeOK, ViewCopies, WorkerType
<1>2. \A x \in ViewType : x.uid \in Nat /\ x.rv \in Nat /\ x.gen \in Nat
  BY DEF ViewType
<1>3. /\ sv[u] \in ViewCopies(u) /\ svCache[u] \in ViewCopies(u)
      /\ worker[u].view \in ViewCopies(u)
      /\ \A e \in svEvents[u] : e \in ViewCopies(u)
      /\ sv'[u] \in ViewCopies(u)' /\ svCache'[u] \in ViewCopies(u)'
      /\ worker'[u].view \in ViewCopies(u)'
  BY DEF ViewCopies
<1>4. /\ worker[u].view.rv <= svCache[u].rv
      /\ \A x \in svEvents[u] : svCache[u].rv <= x.rv
      /\ \A x \in ViewCopies(u) :
            /\ x.uid <= x.rv
            /\ x.rv <= sv[u].rv
            /\ x.uid # 0 => x.policy \in Policies
            /\ sv[u].uid # 0 /\ sv[u].uid <= x.rv => x.uid = sv[u].uid
            /\ \A y \in ViewCopies(u) : InOrder(x, y)
  BY <1>0 DEF ViewInOrder
<1>5. NoView(0).rv = 0 /\ NoView(0).uid = 0
  BY DEF NoView
<1>6. \/ sv'[u] = sv[u]
      \/ sv'[u].rv = sv[u].rv + 1 /\ Changed(sv[u], sv'[u])
  BY ViewStepCases DEF Written
<1>7. svCache[u].rv <= svCache'[u].rv
  BY CacheGoesForward
<1>8. worker'[u].view.rv <= svCache'[u].rv
  <2>1. \/ worker'[u].view = NoView(0)
        \/ worker'[u].view = svCache[u]
        \/ worker'[u].view.rv = worker[u].view.rv
    BY ViewStepCases DEF SameVersion
  <2>2. QED BY <1>1, <1>2, <1>3, <1>4, <1>5, <1>7, <2>1
<1>9. \A x \in svEvents'[u] : svCache'[u].rv <= x.rv
  <2>1. \/ svEvents'[u] = svEvents[u] /\ svCache'[u] = svCache[u]
        \/ Written(u) /\ svCache'[u] = svCache[u]
        \/ /\ \A x \in svEvents[u] : svCache'[u].rv <= x.rv
           /\ svEvents'[u] \subseteq svEvents[u]
        \/ svEvents'[u] = {}
    BY ViewStepCases
  <2>2. CASE Written(u) /\ svCache'[u] = svCache[u]
    <3>1. svEvents'[u] = svEvents[u] \cup {sv'[u]} /\ sv'[u].rv = sv[u].rv + 1
      BY <2>2 DEF Written
    <3>2. QED BY <1>1, <1>2, <1>3, <1>4, <2>2, <3>1
  <2>3. QED BY <1>4, <2>1, <2>2
<1>10. ASSUME NEW x \in ViewCopies(u)'
       PROVE  \/ x = NoView(0)
              \/ \E y \in ViewCopies(u) : SameVersion(x, y)
              \/ /\ x = sv'[u]
                 /\ sv'[u].rv = sv[u].rv + 1
                 /\ Changed(sv[u], sv'[u])
  BY ViewCopiesCases DEF Written
<1>11. ASSUME NEW x \in ViewCopies(u)'
       PROVE  /\ x.uid <= x.rv
              /\ x.rv <= sv'[u].rv
              /\ x.uid # 0 => x.policy \in Policies
              /\ sv'[u].uid # 0 /\ sv'[u].uid <= x.rv => x.uid = sv'[u].uid
  <2>1. CASE x = NoView(0)
    BY <1>1, <1>2, <1>3, <1>5, <2>1
  <2>2. ASSUME NEW y \in ViewCopies(u), SameVersion(x, y)
        PROVE  /\ x.uid <= x.rv
               /\ x.rv <= sv'[u].rv
               /\ x.uid # 0 => x.policy \in Policies
               /\ sv'[u].uid # 0 /\ sv'[u].uid <= x.rv => x.uid = sv'[u].uid
    BY <1>1, <1>2, <1>3, <1>4, <1>6, <2>2 DEF SameVersion, Changed
  <2>3. CASE x = sv'[u] /\ sv'[u].rv = sv[u].rv + 1 /\ Changed(sv[u], sv'[u])
    BY <1>1, <1>2, <1>3, <1>4, <2>3 DEF Changed
  <2>4. QED BY <1>10, <2>1, <2>2, <2>3
<1>12. ASSUME NEW x \in ViewCopies(u)', NEW y \in ViewCopies(u)'
       PROVE  InOrder(x, y)
  <2> SUFFICES ASSUME x.uid = y.uid, x.uid # 0, x.rv <= y.rv
               PROVE  /\ x.target = y.target
                      /\ x.gen <= y.gen
                      /\ x.gen = y.gen => x.policy = y.policy /\ x.replicas = y.replicas
    BY DEF InOrder
  <2>1. ASSUME NEW z \in ViewCopies(u), SameVersion(x, z)
        PROVE  /\ x.target = y.target
               /\ x.gen <= y.gen
               /\ x.gen = y.gen => x.policy = y.policy /\ x.replicas = y.replicas
    <3>1. ASSUME NEW t \in ViewCopies(u), SameVersion(y, t)
          PROVE  /\ x.target = y.target
                 /\ x.gen <= y.gen
                 /\ x.gen = y.gen => x.policy = y.policy /\ x.replicas = y.replicas
      <4>1. InOrder(z, t)
        BY <1>4
      <4>2. QED BY <2>1, <3>1, <4>1 DEF SameVersion, InOrder
    <3>2. CASE y = sv'[u] /\ sv'[u].rv = sv[u].rv + 1 /\ Changed(sv[u], sv'[u])
      <4>1. InOrder(z, sv[u]) /\ z.rv <= sv[u].rv /\ z.uid <= z.rv
        BY <1>3, <1>4
      <4>2. /\ z.uid \in Nat /\ z.rv \in Nat /\ z.gen \in Nat
            /\ sv[u].rv \in Nat /\ sv[u].gen \in Nat
        BY <1>1, <1>2, <1>3
      <4>3. sv'[u].uid = z.uid /\ z.uid # 0
        BY <2>1, <3>2 DEF SameVersion
      <4>4. sv'[u].uid = sv[u].uid
        BY <3>2, <4>1, <4>2, <4>3 DEF Changed
      <4>5. /\ z.target = sv[u].target
            /\ z.gen <= sv[u].gen
            /\ z.gen = sv[u].gen => z.policy = sv[u].policy /\ z.replicas = sv[u].replicas
        BY <4>1, <4>3, <4>4 DEF InOrder
      <4>6. /\ sv'[u].target = sv[u].target
            /\ \/ sv'[u].gen = sv[u].gen + 1
               \/ /\ sv'[u].gen = sv[u].gen
                  /\ sv'[u].policy = sv[u].policy
                  /\ sv'[u].replicas = sv[u].replicas
        BY <3>2, <4>3, <4>4 DEF Changed
      <4>7. QED BY <2>1, <3>2, <4>2, <4>5, <4>6 DEF SameVersion
    <3>3. QED BY <1>5, <1>10, <3>1, <3>2
  <2>2. CASE x = sv'[u] /\ sv'[u].rv = sv[u].rv + 1 /\ Changed(sv[u], sv'[u])
    <3>1. y = x
      <4>1. ASSUME NEW t \in ViewCopies(u), SameVersion(y, t)
            PROVE  FALSE
        <5>1. y.rv <= sv[u].rv
          BY <1>4, <4>1 DEF SameVersion
        <5>2. QED BY <1>1, <1>2, <1>3, <2>2, <5>1
      <4>2. QED BY <1>5, <1>10, <2>2, <4>1
    <3>2. QED BY <1>1, <1>2, <3>1
  <2>3. QED BY <1>5, <1>10, <2>1, <2>2
<1>13. QED BY <1>8, <1>9, <1>11, <1>12 DEF ViewInOrder

-----------------------------------------------------------------------------
\* the request of a worker goes through: it read the stored RisingWave
GrabbedBy(v) ==
    /\ worker[v].pc = "grabWrite"
    /\ worker[v].target = rw
    /\ rw'.locks = GrabOrUpdate(v, worker[v].view, rw.locks)

\* so does the status written by releaseScaleViewLock
ReleasedByController ==
    /\ ctrl.obj = rw
    /\ ctrl.todo = {}
    /\ rw'.locks = ctrl.alive

(* Who changes the locks of the RisingWave: nobody, its deletion, the      *)
(* controller that releases, or one worker that grabs or updates.          *)
LEMMA LocksWritten ==
    ASSUME TypeOK, VersionsAgree, Next
    PROVE  \/ rw'.uid = rw.uid /\ rw'.locks = rw.locks
           \/ sv' = sv /\ rw'.uid # rw.uid /\ rw'.locks = {}
           \/ sv' = sv /\ rw'.uid = rw.uid /\ ReleasedByController
           \/ sv' = sv /\ rw'.uid = rw.uid /\ \E v \in Views : GrabbedBy(v)
<1>0. rw \in RisingWaveType /\ rw.rv \in Nat
  BY DEF TypeOK, RisingWaveType
<1>1. ASSUME NEW locks, StoreRisingWave([rw EXCEPT !.rv = @ + 1, !.locks = locks])
      PROVE  rw'.uid = rw.uid /\ rw'.locks = locks
  BY <1>0, <1>1 DEF StoreRisingWave, RisingWaveType
<1>2. ASSUME NEW groups, StoreGroups(groups)
      PROVE  rw'.uid = rw.uid /\ rw'.locks = rw.locks
  BY <1>0, <1>2 DEF StoreGroups, StoreRisingWave, RisingWaveType
<1>3. ASSUME NEW v \in Views, ViewStep(v)
      PROVE  \/ rw'.uid = rw.uid /\ rw'.locks = rw.locks
             \/ sv' = sv /\ rw'.uid = rw.uid /\ GrabbedBy(v)
  <2>1. CASE UpdateLock(v)
    <3>1. CASE rw.uid # 0 /\ rw.rv = worker[v].target.rv
      <4>1. worker[v].target = rw
        BY <3>1 DEF VersionsAgree, RisingWaveCopies
      <4>2. /\ worker[v].pc = "grabWrite" /\ sv' = sv
            /\ StoreRisingWave([rw EXCEPT !.rv = @ + 1,
                                  !.locks = GrabOrUpdate(v, worker[v].view, rw.locks)])
        BY <2>1, <3>1, <4>1 DEF UpdateLock
      <4>3. QED BY <1>1, <4>1, <4>2 DEF GrabbedBy
    <3>2. CASE ~(rw.uid # 0 /\ rw.rv = worker[v].target.rv)
      BY <2>1, <3>2 DEF UpdateLock
    <3>3. QED BY <3>1, <3>2
  <2>2. CASE PatchReplicas(v)
    BY <1>2, <2>2 DEF PatchReplicas
  <2>3. CASE ~UpdateLock(v) /\ ~PatchReplicas(v)
    BY <1>3, <2>3 DEF ViewStep, ReconcileView, GrabOrUpdateScaleViewLock,
                  SyncGroupReplicasToRisingWave, SyncGroupReplicasStatus,
                  UpdateScaleViewStatus, api
  <2>4. QED BY <2>1, <2>2, <2>3
<1>4. ASSUME ControllerStep
      PROVE  \/ rw'.uid = rw.uid /\ rw'.locks = rw.locks
             \/ sv' = sv /\ rw'.uid = rw.uid /\ ReleasedByController
  <2>1. CASE rw' = rw
    BY <2>1
  <2>2. ASSUME NEW other \in BOOLEAN, UpdateRisingWaveStatus(other), rw' # rw
        PROVE  sv' = sv /\ rw'.uid = rw.uid /\ ReleasedByController
    <3>1. /\ rw.rv = ctrl.obj.rv /\ ctrl.todo = {} /\ sv' = sv
          /\ StoreRisingWave([rw EXCEPT !.rv = @ + 1, !.locks = ctrl.alive])
      BY <2>2 DEF UpdateRisingWaveStatus
    <3>2. ctrl.obj = rw
      BY <3>1 DEF VersionsAgree, RisingWaveCopies
    <3>3. QED BY <1>1, <3>1, <3>2 DEF ReleasedByController
  <2>3. QED BY <1>4, <2>1, <2>2
            DEF ControllerStep, ReconcileRisingWave, ReleaseScaleViewLock, api
<1>5. ASSUME User
      PROVE  \/ rw'.uid = rw.uid /\ rw'.locks = rw.locks
             \/ sv' = sv /\ rw'.uid # rw.uid /\ rw'.locks = {}
  <2>1. ASSUME NEW groups, EditRisingWave(groups)
        PROVE  rw'.uid = rw.uid /\ rw'.locks = rw.locks
    BY <1>2, <2>1 DEF EditRisingWave
  <2>2. DeleteRisingWave => sv' = sv /\ rw'.uid # rw.uid /\ rw'.locks = {}
    BY DEF DeleteRisingWave, StoreRisingWave, NoRisingWave
  <2>3. CreateRisingWave => sv' = sv /\ rw'.uid # rw.uid /\ rw'.locks = {}
    BY <1>0 DEF CreateRisingWave, StoreRisingWave
  <2>4. ASSUME NEW v \in Views, NEW p \in Policies, CreateView(v, p) \/ EditPolicy(v, p)
        PROVE  rw' = rw
    BY <2>4 DEF CreateView, EditPolicy
  <2>5. ASSUME NEW v \in Views, DeleteView(v) \/ \E n \in UserReplicas : ScaleTo(v, n)
        PROVE  rw' = rw
    BY <2>5 DEF DeleteView, ScaleTo
  <2>6. QED BY <1>5, <2>1, <2>2, <2>3, <2>4, <2>5 DEF User
<1>6. DeliverRisingWave \/ Restart \/ (\E v \in Views : DeliverView(v)) => rw' = rw
  BY DEF DeliverRisingWave, Restart, DeliverView
<1>7. QED BY <1>3, <1>4, <1>5, <1>6 DEF Next

(* A lock that is behind every copy of its view stays behind: copies are   *)
(* replaced by later ones, and a new incarnation has a new uid.            *)
LEMMA LockStaysInOrder ==
    ASSUME TypeOK, WorkerReads, ViewsInOrder, Next,
           NEW l \in LockType, NEW uid, LockInOrder(l, uid)
    PROVE  LockInOrder(l, uid)'
<1> DEFINE v == l.name
<1>0. v \in Views /\ l.uid \in Nat /\ l.gen \in Nat
  BY DEF LockType
<1>1. /\ l.uid # 0
      /\ l.uid <= svCache[v].rv
      /\ \A x \in ViewCopies(v) :
            x.uid = l.uid => /\ x.target = uid
                             /\ l.gen <= x.gen
                             /\ l.gen = x.gen => l.groups = GroupLocks(x)
  BY DEF LockInOrder
<1> HIDE DEF v
<1>2. /\ svCache[v].rv \in Nat /\ svCache'[v].rv \in Nat
      /\ sv[v].rv \in Nat /\ sv[v].gen \in Nat
      /\ svCache[v].rv <= svCache'[v].rv
      /\ svCache[v].rv <= sv[v].rv
  <2>1. TypeOK'
    BY NextType
  <2>2. svCache[v].rv <= sv[v].rv
    BY <1>0 DEF ViewsInOrder, ViewInOrder, ViewCopies
  <2>3. QED BY <1>0, <2>1, <2>2, CacheGoesForward DEF TypeOK, ViewType
<1>3. ASSUME NEW x \in ViewCopies(v)', x.uid = l.uid
      PROVE  /\ x.target = uid
             /\ l.gen <= x.gen
             /\ l.gen = x.gen => l.groups = GroupLocks(x)
  <2>1. x # NoView(0)
    BY <1>1, <1>3 DEF NoView
  <2>2. ASSUME NEW y \in ViewCopies(v), SameVersion(x, y)
        PROVE  /\ x.target = uid
               /\ l.gen <= x.gen
               /\ l.gen = x.gen => l.groups = GroupLocks(x)
    <3>1. GroupLocks(x) = GroupLocks(y)
      BY <2>2 DEF SameVersion, GroupLocks
    <3>2. QED BY <1>1, <1>3, <2>2, <3>1 DEF SameVersion
  <2>3. CASE x = sv'[v] /\ Written(v)
    <3>1. sv[v] \in ViewCopies(v)
      BY DEF ViewCopies
    <3>2. /\ sv[v].uid = l.uid
          /\ x.target = sv[v].target
          /\ \/ x.gen = sv[v].gen + 1
             \/ x.gen = sv[v].gen /\ x.policy = sv[v].policy /\ x.replicas = sv[v].replicas
      BY <1>0, <1>1, <1>2, <1>3, <2>3 DEF Written, Changed
    <3>3. CASE x.gen = sv[v].gen + 1
      BY <1>0, <1>1, <1>2, <3>1, <3>2, <3>3
    <3>4. CASE x.gen = sv[v].gen /\ x.policy = sv[v].policy /\ x.replicas = sv[v].replicas
      <4>1. GroupLocks(x) = GroupLocks(sv[v])
        BY <3>4 DEF GroupLocks
      <4>2. QED BY <1>1, <3>1, <3>2, <3>4, <4>1
    <3>5. QED BY <3>2, <3>3, <3>4
  <2>4. QED BY <1>0, <2>1, <2>2, <2>3, ViewCopiesCases
<1>4. QED BY <1>0, <1>1, <1>2, <1>3 DEF LockInOrder, v

(* The lock that a worker writes is behind every copy of its view, because *)
(* what the worker read is the oldest copy there is.                       *)
LEMMA NewLockInOrder ==
    ASSUME TypeOK, WorkerReads, ViewsInOrder, NEW v \in Views,
           worker[v].pc = "grabWrite"
    PROVE  /\ LockOf(v, worker[v].view) \in LockType
           /\ LockInOrder(LockOf(v, worker[v].view), worker[v].target.uid)
<1> DEFINE view == worker[v].view
           l == LockOf(v, view)
<1>0. l.name = v /\ l.uid = view.uid /\ l.gen = view.gen /\ l.groups = GroupLocks(view)
  BY DEF LockOf
<1>1. view.uid # 0 /\ view.target = worker[v].target.uid
  BY DEF WorkerReads, ReadsJustify, Matched
<1>2. view \in ViewType /\ view \in ViewCopies(v)
  BY DEF TypeOK, WorkerType, ViewCopies
<1>3. /\ view.rv <= svCache[v].rv
      /\ view.uid <= view.rv
      /\ svCache[v].rv <= sv[v].rv
      /\ \A x \in svEvents[v] : svCache[v].rv <= x.rv
      /\ \A x \in ViewCopies(v) : InOrder(view, x)
  BY <1>2 DEF ViewsInOrder, ViewInOrder, ViewCopies
<1>4. /\ view.rv \in Nat /\ view.uid \in Nat /\ svCache[v].rv \in Nat /\ sv[v].rv \in Nat
      /\ \A x \in svEvents[v] : x.rv \in Nat
  BY <1>2 DEF TypeOK, ViewType
<1>5. l \in LockType
  BY <1>2, LockOfType
<1> HIDE DEF view, l
<1>6. \A x \in ViewCopies(v) : view.rv <= x.rv
  <2>1. \A x \in ViewCopies(v) : x \in {sv[v], svCache[v], view} \cup svEvents[v]
    BY DEF ViewCopies, view
  <2>2. QED BY <1>3, <1>4, <2>1
<1>7. ASSUME NEW x \in ViewCopies(v), x.uid = l.uid
      PROVE  /\ x.target = worker[v].target.uid
             /\ l.gen <= x.gen
             /\ l.gen = x.gen => l.groups = GroupLocks(x)
  <2>1. /\ view.target = x.target
        /\ view.gen <= x.gen
        /\ view.gen = x.gen => view.policy = x.policy /\ view.replicas = x.replicas
    BY <1>0, <1>1, <1>3, <1>6, <1>7 DEF InOrder
  <2>2. view.gen = x.gen => GroupLocks(view) = GroupLocks(x)
    BY <2>1 DEF GroupLocks
  <2>3. QED BY <1>0, <1>1, <2>1, <2>2
<1>8. LockInOrder(l, worker[v].target.uid)
  BY <1>0, <1>1, <1>3, <1>4, <1>7 DEF LockInOrder
<1>9. QED BY <1>5, <1>8 DEF view, l

(* The locks of every version of the RisingWave stay behind their views.   *)
LEMMA LocksInOrderStep ==
    ASSUME HistoryInv, Next
    PROVE  LocksInOrder'
<1>0. /\ TypeOK /\ WorkerReads /\ ControllerReads /\ VersionsAgree
      /\ ViewsInOrder /\ LocksInOrder
  BY DEF HistoryInv
<1>1. \A x \in RisingWaveCopies \cup {rw} : x.locks \in SUBSET LockType
  BY <1>0 DEF TypeOK, RisingWaveCopies, RisingWaveType, WorkerType, CtrlType
<1>2. ASSUME NEW x \in RisingWaveCopies \cup {rw}, NEW l \in x.locks
      PROVE  l \in LockType /\ LockInOrder(l, x.uid)'
  <2>1. l \in LockType /\ LockInOrder(l, x.uid)
    BY <1>0, <1>1 DEF LocksInOrder
  <2>2. QED BY <1>0, <2>1, LockStaysInOrder
<1>3. ASSUME NEW l \in rw'.locks, NEW uid, uid = rw'.uid
      PROVE  LockInOrder(l, uid)'
  <2>1. CASE rw'.uid = rw.uid /\ l \in rw.locks
    <3>1. PICK x \in RisingWaveCopies \cup {rw} : x = rw
      OBVIOUS
    <3>2. l \in x.locks /\ x.uid = uid
      BY <1>3, <2>1, <3>1
    <3>3. QED BY <1>2, <3>2
  <2>2. ASSUME NEW v \in Views, GrabbedBy(v), rw'.uid = rw.uid, l \notin rw.locks
        PROVE  LockInOrder(l, uid)'
    <3>1. l = LockOf(v, worker[v].view)
      BY <1>3, <2>2 DEF GrabbedBy, GrabOrUpdate
    <3>2. l \in LockType /\ LockInOrder(l, uid)
      BY <1>0, <1>3, <2>2, <3>1, NewLockInOrder DEF GrabbedBy
    <3>3. QED BY <1>0, <3>2, LockStaysInOrder
  <2>3. ReleasedByController => l \in rw.locks
    BY <1>0, <1>3 DEF ReleasedByController, ControllerReads
  <2>4. QED BY <1>0, <1>3, <2>1, <2>2, <2>3, LocksWritten
<1>4. ASSUME NEW x \in RisingWaveCopies' \cup {rw'}, NEW l \in x.locks
      PROVE  LockInOrder(l, x.uid)'
  <2>1. x \in RisingWaveCopies \cup {rw, rw', NoRisingWave(0)}
    BY <1>0, RisingWaveCopiesStep
  <2>2. x # NoRisingWave(0)
    BY <1>4 DEF NoRisingWave
  <2>3. CASE x = rw'
    BY <1>3, <1>4, <2>3
  <2>4. QED BY <1>2, <1>4, <2>1, <2>2, <2>3
<1>5. QED BY <1>4 DEF LocksInOrder

(* A view that is gone does not come back under the same uid.              *)
LEMMA DeadStaysDead ==
    ASSUME TypeOK, ViewsInOrder, Next, NEW l \in LockType, NEW uid,
           LockInOrder(l, uid), sv[l.name].uid # l.uid
    PROVE  sv'[l.name].uid # l.uid
<1> DEFINE v == l.name
<1>0. /\ v \in Views /\ l.uid \in Nat
      /\ sv[v].rv \in Nat /\ svCache[v].rv \in Nat
      /\ l.uid # 0 /\ l.uid <= svCache[v].rv
  BY DEF LockType, TypeOK, ViewType, LockInOrder
<1>1. svCache[v].rv <= sv[v].rv
  BY <1>0 DEF ViewsInOrder, ViewInOrder, ViewCopies
<1>2. \/ sv'[v] = sv[v]
      \/ sv'[v].rv = sv[v].rv + 1 /\ Changed(sv[v], sv'[v])
  BY <1>0, ViewStepCases DEF Written
<1>3. CASE sv'[v] = sv[v]
  BY <1>3
<1>4. CASE sv'[v].rv = sv[v].rv + 1 /\ Changed(sv[v], sv'[v])
  BY <1>0, <1>1, <1>4 DEF Changed
<1>5. QED BY <1>2, <1>3, <1>4

(* releaseScaleViewLock drops the locks that its cache shows no view for;  *)
(* by then the cache is past the creation of the view that took the lock,  *)
(* so the view is gone.                                                    *)
LEMMA DroppedAreDeadStep ==
    ASSUME HistoryInv, Next
    PROVE  DroppedAreDead'
<1>0. TypeOK /\ ViewsInOrder /\ LocksInOrder /\ DroppedAreDead /\ ctrl \in CtrlType
  BY DEF HistoryInv, TypeOK
<1>1. ASSUME NEW l \in ctrl.obj.locks
      PROVE  l \in LockType /\ LockInOrder(l, ctrl.obj.uid)
  BY <1>0 DEF LocksInOrder, RisingWaveCopies, CtrlType, RisingWaveType
<1>2. ASSUME NEW l \in ctrl.obj.locks, sv[l.name].uid # l.uid
      PROVE  sv'[l.name].uid # l.uid
  BY <1>0, <1>1, <1>2, DeadStaysDead
<1>3. CASE UNCHANGED ctrl
  BY <1>0, <1>2, <1>3 DEF DroppedAreDead
<1>4. CASE ReconcileRisingWave
  <2>1. CASE rwCache.uid = 0
    BY <1>3, <1>4, <2>1 DEF ReconcileRisingWave
  <2>2. CASE rwCache.uid # 0
    BY <1>4, <2>2 DEF ReconcileRisingWave, DroppedAreDead
  <2>3. QED BY <2>1, <2>2
<1>5. CASE ReleaseScaleViewLock
  <2>1. PICK d \in ctrl.todo :
           ctrl' = [ctrl EXCEPT
                      !.todo = @ \ {d},
                      !.alive = IF svCache[d.name].uid = d.uid THEN @ \cup {d} ELSE @]
    BY <1>5 DEF ReleaseScaleViewLock
  <2>2. /\ ctrl'.obj = ctrl.obj
        /\ ctrl'.todo = ctrl.todo \ {d}
        /\ ctrl'.alive = IF svCache[d.name].uid = d.uid THEN ctrl.alive \cup {d}
                                                        ELSE ctrl.alive
    BY <1>0, <2>1 DEF CtrlType
  <2>3. ASSUME NEW l \in ctrl'.obj.locks, l \notin ctrl'.todo \cup ctrl'.alive
        PROVE  sv'[l.name].uid # l.uid
    <3>1. CASE l = d
      <4>1. l \in ctrl.obj.locks /\ svCache[l.name].uid # l.uid
        BY <2>2, <2>3, <3>1
      <4>2. l.uid # 0 /\ l.uid <= svCache[l.name].rv /\ l.name \in Views
        BY <1>1, <4>1 DEF LockInOrder, LockType
      <4>3. sv[l.name].uid # l.uid
        BY <1>0, <4>1, <4>2 DEF ViewsInOrder, ViewInOrder, ViewCopies
      <4>4. QED BY <1>2, <4>1, <4>3
    <3>2. CASE l # d
      BY <1>0, <1>2, <2>2, <2>3, <3>2 DEF DroppedAreDead
    <3>3. QED BY <3>1, <3>2
  <2>4. QED BY <2>3 DEF DroppedAreDead
<1>6. ASSUME NEW other \in BOOLEAN, UpdateRisingWaveStatus(other) \/ Restart
      PROVE  DroppedAreDead'
  BY <1>6 DEF UpdateRisingWaveStatus, Restart, IdleCtrl, NoRisingWave, DroppedAreDead
<1>7. QED BY <1>3, <1>4, <1>5, <1>6
      DEF Next, ControllerStep, DeliverRisingWave, DeliverView, ViewStep, ReconcileView,
          GrabOrUpdateScaleViewLock, UpdateLock, SyncGroupReplicasToRisingWave,
          PatchReplicas, SyncGroupReplicasStatus, UpdateScaleViewStatus,
          User, UserRequest, CreateView, ScaleTo, EditPolicy,
          DeleteView, EditRisingWave, DeleteRisingWave, CreateRisingWave

(* Nothing has been read or held at the start.                              *)
LEMMA InitHistoryInv == Init => HistoryInv
<1> SUFFICES ASSUME Init PROVE HistoryInv
  OBVIOUS
<1>1. TypeOK
  BY InitTypeOK
<1>2. /\ rw = InitRisingWave /\ rwCache = InitRisingWave /\ rwEvents = {}
      /\ ctrl = IdleCtrl
      /\ \A v \in Views : /\ worker[v] = IdleWorker
                          /\ sv[v] = NoView(0) /\ svCache[v] = NoView(0)
                          /\ svEvents[v] = {}
  BY DEF Init
<1>3. WorkerReads /\ ControllerReads
  BY <1>2 DEF WorkerReads, ReadsJustify, IdleWorker, ControllerReads, IdleCtrl
<1>4. VersionsAgree
  BY <1>2 DEF VersionsAgree, RisingWaveCopies, IdleWorker, IdleCtrl,
              InitRisingWave, NoRisingWave
<1>5. ViewsInOrder
  BY <1>2 DEF ViewsInOrder, ViewInOrder, ViewCopies, InOrder, IdleWorker, NoView
<1>6. LocksInOrder
  BY <1>2 DEF LocksInOrder, RisingWaveCopies, IdleWorker, IdleCtrl,
              InitRisingWave, NoRisingWave
<1>7. DroppedAreDead
  BY <1>2 DEF DroppedAreDead, IdleCtrl, NoRisingWave
<1>8. QED BY <1>1, <1>3, <1>4, <1>5, <1>6, <1>7 DEF HistoryInv

(* What is read and held is a past of what is stored, with the webhooks on *)
(* scale views or without.                                                 *)
THEOREM HistoryInvariant == Spec => []HistoryInv
<1>1. Init => HistoryInv
  BY InitHistoryInv
<1>2. ASSUME HistoryInv, Next PROVE HistoryInv'
  <2>1. TypeOK' /\ WorkerReads' /\ ControllerReads' /\ VersionsAgree'
    BY <1>2, NextType, WorkerReadsStep, ControllerReadsStep, VersionsAgreeStep
       DEF HistoryInv
  <2>2. ViewsInOrder'
    BY <1>2, ViewsInOrderStep DEF HistoryInv
  <2>3. QED BY <1>2, <2>1, <2>2, LocksInOrderStep, DroppedAreDeadStep DEF HistoryInv
<1>3. ASSUME HistoryInv, UNCHANGED vars PROVE HistoryInv'
  BY <1>3 DEF vars, HistoryInv, TypeOK, WorkerReads, ReadsJustify, ControllerReads,
              VersionsAgree, RisingWaveCopies, ViewsInOrder, ViewInOrder, ViewCopies,
              LocksInOrder, LockInOrder, DroppedAreDead
<1>4. QED BY <1>1, <1>2, <1>3, PTL DEF Spec

(* A lock is never ahead of its view, and one that carries the generation  *)
(* of its view carries the split that SplitReplicas makes of it, however   *)
(* many versions the worker that wrote it lagged behind.                   *)
THEOREM LocksFollowViews == Spec => []LockAgreesWithView
<1>1. HistoryInv => LockAgreesWithView
  BY DEF HistoryInv, LocksInOrder, LockInOrder, ViewCopies, LockAgreesWithView
<1>2. QED BY <1>1, HistoryInvariant, PTL

(* A view only ever locks groups of the RisingWave it was created for,     *)
(* however often RisingWaves and views are deleted and created again.      *)
THEOREM LocksAreBound == Spec => []LocksOfBoundViews
<1>1. HistoryInv => LocksOfBoundViews
  BY DEF HistoryInv, LocksInOrder, LockInOrder, ViewCopies, LocksOfBoundViews
<1>2. QED BY <1>1, HistoryInvariant, PTL

\* what a step keeps of the lock of a view that exists
Kept(l) == \E k \in rw'.locks : k.name = l.name /\ k.uid = l.uid /\ k.gen >= l.gen

(* No step drops the lock of a view that exists or takes it back to an     *)
(* older generation, as long as the RisingWave stays the same object.      *)
LEMMA LiveLockKeptStep ==
    ASSUME HistoryInv, Next, rw'.uid = rw.uid, NEW l \in rw.locks,
           sv[l.name].uid = l.uid
    PROVE  Kept(l)
<1>0. TypeOK /\ VersionsAgree /\ LocksInOrder /\ DroppedAreDead
  BY DEF HistoryInv
<1>1. l \in LockType /\ l.gen \in Nat
  BY <1>0 DEF TypeOK, RisingWaveType, LockType
<1>2. CASE l \in rw'.locks
  BY <1>1, <1>2 DEF Kept
<1>3. CASE ReleasedByController
  <2>1. l \in ctrl.alive
    BY <1>0, <1>3 DEF ReleasedByController, DroppedAreDead
  <2>2. QED BY <1>2, <1>3, <2>1 DEF ReleasedByController
<1>4. ASSUME NEW v \in Views, GrabbedBy(v), l \notin rw'.locks
      PROVE  Kept(l)
  <2> DEFINE view == worker[v].view
             new == LockOf(v, view)
  <2>1. l.name = v /\ l.uid = view.uid /\ new \in rw'.locks
    BY <1>4 DEF GrabbedBy, GrabOrUpdate
  <2>2. view \in ViewCopies(v) /\ view.gen \in Nat
    BY <1>0 DEF ViewCopies, TypeOK, WorkerType, ViewType
  <2>3. new.name = v /\ new.uid = view.uid /\ new.gen = view.gen
    BY DEF LockOf
  <2> HIDE DEF view, new
  <2>4. LockInOrder(l, rw.uid)
    BY <1>0 DEF LocksInOrder
  <2>5. l.gen <= view.gen
    BY <2>1, <2>2, <2>4 DEF LockInOrder
  <2>6. QED BY <1>1, <2>1, <2>2, <2>3, <2>5 DEF Kept
<1>5. QED BY <1>0, <1>2, <1>3, <1>4, LocksWritten

(* Releasing never drops the lock of a view that exists, and a lock never  *)
(* goes back to an older generation: neither a stale cache nor a restart   *)
(* takes the groups from a live view.                                      *)
THEOREM LiveLocksAreKept == Spec => LiveLockKept
<1> DEFINE Safe == rw'.uid = rw.uid =>
                     \A l \in rw.locks :
                        sv[l.name].uid = l.uid =>
                           \E k \in rw'.locks :
                              k.name = l.name /\ k.uid = l.uid /\ k.gen >= l.gen
<1>1. HistoryInv /\ [Next]_vars => [Safe]_vars
  BY LiveLockKeptStep DEF Kept
<1>2. QED BY <1>1, HistoryInvariant, PTL DEF Spec, LiveLockKept

-----------------------------------------------------------------------------
(* The owner of a group among exclusive locks is the one lock on it.       *)
LEMMA OwnerUnique ==
    ASSUME NEW locks, Exclusive(locks), NEW l \in locks, NEW g \in LockedGroups(l)
    PROVE  OwnerAmong(locks, g) = <<l.name, l.uid>>
<1>1. \A k \in locks : g \in LockedGroups(k) => k = l
  BY DEF Exclusive
<1>2. (CHOOSE k \in locks : g \in LockedGroups(k)) = l
  BY <1>1
<1>3. QED BY <1>2 DEF OwnerAmong

(* A group that no lock has on its list has no owner.                      *)
LEMMA OwnerNone ==
    ASSUME NEW locks, NEW g, \A l \in locks : g \notin LockedGroups(l)
    PROVE  OwnerAmong(locks, g) = <<"none", 0>>
BY DEF OwnerAmong

(* A step writes at most one view.                                         *)
LEMMA OneViewWritten ==
    ASSUME Next
    PROVE  sv' = sv \/ \E v \in Views : \E obj : sv' = [sv EXCEPT ![v] = obj]
<1>1. ASSUME NEW v \in Views, ViewStep(v) \/ DeliverView(v)
      PROVE  sv' = sv \/ \E obj : sv' = [sv EXCEPT ![v] = obj]
  BY <1>1 DEF DeliverView, ViewStep, ReconcileView, GrabOrUpdateScaleViewLock, UpdateLock,
              SyncGroupReplicasToRisingWave, PatchReplicas, SyncGroupReplicasStatus,
              UpdateScaleViewStatus, StoreView, api
<1>2. DeliverRisingWave \/ ControllerStep \/ Restart => sv' = sv
  BY DEF DeliverRisingWave, ControllerStep, ReconcileRisingWave, ReleaseScaleViewLock,
         UpdateRisingWaveStatus, Restart, api
<1>3. CASE User
  <2>1. ASSUME NEW v \in Views, NEW p \in Policies, CreateView(v, p) \/ EditPolicy(v, p)
        PROVE  \E obj : sv' = [sv EXCEPT ![v] = obj]
    BY <2>1 DEF CreateView, EditPolicy, StoreView
  <2>2. ASSUME NEW v \in Views, DeleteView(v) \/ \E n \in UserReplicas : ScaleTo(v, n)
        PROVE  \E obj : sv' = [sv EXCEPT ![v] = obj]
    BY <2>2 DEF DeleteView, ScaleTo, StoreView
  <2>3. (\E groups \in EditedGroups : EditRisingWave(groups))
          \/ DeleteRisingWave \/ CreateRisingWave => sv' = sv
    BY DEF EditRisingWave, DeleteRisingWave, CreateRisingWave
  <2>4. QED BY <1>3, <2>1, <2>2, <2>3 DEF User
<1>4. QED BY <1>1, <1>2, <1>3 DEF Next

(* A step that leaves the locks alone creates or deletes one view of the   *)
(* lock service, or changes nothing that it shows.                         *)
LEMMA ViewsStepRefines ==
    ASSUME HistoryInv, LockInv, Next, rw'.locks = rw.locks
    PROVE  [Service!Next]_(Service!vars)
<1> DEFINE live == [v \in Views |-> sv[v].uid]
           owner == [g \in Groups |-> OwnerAmong(rw.locks, g)]
<1>0. sv \in [Views -> ViewType] /\ \A v \in Views : sv[v].uid \in Nat /\ sv[v].rv \in Nat
  BY DEF HistoryInv, TypeOK, ViewType
<1>1. owner' = owner
  OBVIOUS
<1>2. CASE \A v \in Views : sv'[v].uid = sv[v].uid
  <2>1. live' = live
    BY <1>2
  <2>2. QED BY <1>1, <2>1 DEF Service!vars
<1>3. ASSUME NEW v \in Views, sv'[v].uid # sv[v].uid
      PROVE  Service!Create(v) \/ Service!Delete(v)
  <2>1. \A u \in Views : u # v => sv'[u].uid = sv[u].uid
    BY <1>0, <1>3, OneViewWritten
  <2>2. Changed(sv[v], sv'[v]) /\ sv'[v].rv = sv[v].rv + 1
    BY <1>3, ViewStepCases DEF HistoryInv, Written
  <2>3. live' = [live EXCEPT ![v] = sv'[v].uid]
    BY <2>1
  <2>4. CASE sv'[v].uid = 0
    <3>1. live[v] # 0 /\ live' = [live EXCEPT ![v] = 0]
      BY <1>3, <2>3, <2>4
    <3>2. QED BY <1>1, <3>1 DEF Service!Delete
  <2>5. CASE sv'[v].uid # 0
    <3>1. sv[v].uid = 0 /\ sv'[v].uid = sv[v].rv + 1
      BY <1>3, <2>2, <2>5 DEF Changed
    <3>2. ASSUME NEW g \in Groups
          PROVE  OwnerAmong(rw.locks, g) # <<v, sv'[v].uid>>
      <4>1. CASE \A l \in rw.locks : g \notin LockedGroups(l)
        BY <2>5, <4>1, OwnerNone
      <4>2. ASSUME NEW l \in rw.locks, g \in LockedGroups(l)
            PROVE  OwnerAmong(rw.locks, g) # <<v, sv'[v].uid>>
        <5>1. OwnerAmong(rw.locks, g) = <<l.name, l.uid>>
          BY <4>2, OwnerUnique DEF LockInv, LockExclusive
        <5>2. l.uid <= sv[l.name].rv /\ l.uid \in Nat
          BY DEF LockInv, LocksPinned, TypeOK, RisingWaveType, LockType
        <5>3. QED BY <1>0, <3>1, <5>1, <5>2
      <4>3. QED BY <4>1, <4>2
    <3>3. /\ live[v] = 0
          /\ live'[v] \in Nat \ {0}
          /\ live' = [live EXCEPT ![v] = live'[v]]
          /\ \A g \in Groups : owner[g] # <<v, live'[v]>>
      <4>1. live'[v] = sv'[v].uid /\ live[v] = 0
        BY <3>1
      <4>2. sv'[v].uid \in Nat \ {0}
        BY <1>0, <2>5, <3>1
      <4>3. \A g \in Groups : owner[g] # <<v, live'[v]>>
        BY <3>2, <4>1
      <4>4. QED BY <2>3, <4>1, <4>2, <4>3
    <3>4. QED BY <1>1, <3>3 DEF Service!Create
  <2>6. QED BY <2>4, <2>5
<1>4. QED BY <1>2, <1>3 DEF Service!Next

(* The status written by releaseScaleViewLock releases groups of dead      *)
(* views, all groups of each, or changes nothing that the service shows.   *)
LEMMA ReleaseRefines ==
    ASSUME HistoryInv, LockInv, ReleasedByController, sv' = sv
    PROVE  [Service!Next]_(Service!vars)
<1> DEFINE live == [v \in Views |-> sv[v].uid]
           owner == [g \in Groups |-> OwnerAmong(rw.locks, g)]
           freed == {g \in Groups : \E l \in rw.locks \ rw'.locks : g \in LockedGroups(l)}
<1>0. /\ Exclusive(rw.locks)
      /\ \A l \in rw.locks : l.name \in Views /\ l.uid # 0 /\ LockedGroups(l) \subseteq Groups
  <2>1. \A l \in rw.locks : l \in LockType /\ l.uid # 0
    BY DEF LockInv, TypeOK, RisingWaveType, LocksPinned
  <2>2. ASSUME NEW l \in LockType
        PROVE  l.name \in Views /\ LockedGroups(l) \subseteq Groups
    <3>1. l.name \in Views /\ l.groups \in Seq(GroupLockType)
      BY DEF LockType
    <3>2. \A i \in DOMAIN l.groups : l.groups[i] \in GroupLockType
      BY <3>1
    <3>3. QED BY <3>1, <3>2 DEF GroupLockType, LockedGroups
  <2>3. QED BY <2>1, <2>2 DEF LockInv, LockExclusive
<1>1. rw'.locks \subseteq rw.locks
  BY DEF HistoryInv, ReleasedByController, ControllerReads
<1>2. Exclusive(rw'.locks)
  BY <1>0, <1>1 DEF Exclusive
<1>3. \A l \in rw.locks \ rw'.locks : sv[l.name].uid # l.uid
  BY DEF HistoryInv, ReleasedByController, DroppedAreDead
<1>4. live' = live
  OBVIOUS
<1>5. ASSUME NEW g \in Groups
      PROVE  OwnerAmong(rw'.locks, g) =
                IF g \in freed THEN <<"none", 0>> ELSE OwnerAmong(rw.locks, g)
  <2>1. CASE g \in freed
    <3>1. PICK l \in rw.locks \ rw'.locks : g \in LockedGroups(l)
      BY <2>1
    <3>2. \A k \in rw'.locks : g \notin LockedGroups(k)
      BY <1>0, <1>1, <3>1 DEF Exclusive
    <3>3. QED BY <2>1, <3>2, OwnerNone
  <2>2. CASE g \notin freed
    <3>1. CASE \A l \in rw.locks : g \notin LockedGroups(l)
      <4>1. \A l \in rw'.locks : g \notin LockedGroups(l)
        BY <1>1, <3>1
      <4>2. QED BY <2>2, <3>1, <4>1, OwnerNone
    <3>2. ASSUME NEW l \in rw.locks, g \in LockedGroups(l)
          PROVE  OwnerAmong(rw'.locks, g) = OwnerAmong(rw.locks, g)
      <4>1. l \in rw'.locks
        BY <2>2, <3>2
      <4>2. OwnerAmong(rw'.locks, g) = <<l.name, l.uid>>
        BY <1>2, <3>2, <4>1, OwnerUnique
      <4>3. OwnerAmong(rw.locks, g) = <<l.name, l.uid>>
        BY <1>0, <3>2, OwnerUnique
      <4>4. QED BY <4>2, <4>3
    <3>3. QED BY <2>2, <3>1, <3>2
  <2>3. QED BY <2>1, <2>2
<1>6. ASSUME NEW l \in rw.locks \ rw'.locks, NEW g \in LockedGroups(l)
      PROVE  /\ OwnerAmong(rw.locks, g) = <<l.name, l.uid>>
             /\ \A h \in Groups :
                   OwnerAmong(rw.locks, h) = <<l.name, l.uid>> => h \in freed
  <2>1. OwnerAmong(rw.locks, g) = <<l.name, l.uid>>
    BY <1>0, OwnerUnique
  <2>2. ASSUME NEW h \in Groups, OwnerAmong(rw.locks, h) = <<l.name, l.uid>>
        PROVE  h \in LockedGroups(l)
    <3>1. PICK k \in rw.locks : h \in LockedGroups(k)
      BY <1>0, <2>2, OwnerNone
    <3>2. OwnerAmong(rw.locks, h) = <<k.name, k.uid>>
      BY <1>0, <3>1, OwnerUnique
    <3>3. k = l
      BY <1>0, <2>2, <3>2 DEF Exclusive
    <3>4. QED BY <3>1, <3>3
  <2>3. QED BY <2>1, <2>2
<1> HIDE DEF freed
<1>7. owner' = [g \in Groups |-> IF g \in freed THEN <<"none", 0>> ELSE owner[g]]
  BY <1>5
<1>8. CASE freed = {}
  BY <1>4, <1>7, <1>8 DEF Service!vars
<1>9. CASE freed # {}
  <2>1. freed \in SUBSET Groups
    BY DEF freed
  <2>2. ASSUME NEW g \in freed
        PROVE  /\ owner[g] # Service!None
               /\ ~Service!Alive(owner[g])
               /\ \A h \in Groups : owner[h] = owner[g] => h \in freed
    <3>1. PICK l \in rw.locks \ rw'.locks : g \in LockedGroups(l)
      BY DEF freed
    <3>2. g \in Groups /\ owner[g] = <<l.name, l.uid>>
      BY <1>0, <1>6, <3>1
    <3>3. live[l.name] # l.uid
      BY <1>0, <1>3, <3>1
    <3>4. l.uid # 0
      BY <1>0, <3>1
    <3>5. ~Service!Alive(<<l.name, l.uid>>) /\ <<l.name, l.uid>> # Service!None
      BY <3>3, <3>4 DEF Service!Alive, Service!None
    <3>6. \A h \in Groups : owner[h] = owner[g] => h \in freed
      BY <1>6, <3>1, <3>2
    <3>7. QED BY <3>2, <3>5, <3>6
  <2>3. Service!Release(freed)
    BY <1>4, <1>7, <1>9, <2>2 DEF Service!Release, Service!None
  <2>4. QED BY <2>1, <2>3 DEF Service!Next
<1>10. QED BY <1>8, <1>9

(* The request of a worker acquires free groups for a view that owns none, *)
(* or updates a lock in place, which the service does not show.            *)
LEMMA GrabRefines ==
    ASSUME HistoryInv, LockInv, LockInv', sv' = sv, NEW v \in Views, GrabbedBy(v)
    PROVE  [Service!Next]_(Service!vars)
<1> DEFINE live == [u \in Views |-> sv[u].uid]
           owner == [g \in Groups |-> OwnerAmong(rw.locks, g)]
           view == worker[v].view
           new == LockOf(v, view)
           taken == LockedGroups(new)
<1>0. Exclusive(rw.locks) /\ Exclusive(rw'.locks)
  BY DEF LockInv, LockExclusive
<1>1. /\ view \in ViewType /\ view \in ViewCopies(v)
      /\ new.name = v /\ new.uid = view.uid
      /\ taken = PolicyGroups(view.policy)
      /\ new \in rw'.locks
      /\ \A l : l \in rw'.locks /\ l # new =>
            l \in rw.locks /\ ~(l.name = v /\ l.uid = view.uid)
      /\ \A l \in rw.locks : ~(l.name = v /\ l.uid = view.uid) => l \in rw'.locks
  <2>1. view \in ViewType /\ view \in ViewCopies(v)
    BY DEF LockInv, TypeOK, WorkerType, ViewCopies
  <2>2. QED BY <2>1, LockOfType DEF GrabbedBy, GrabOrUpdate, LockOf
<1>2. /\ view.uid # 0
      /\ Holds(v, view, rw.locks) \/ CanGrab(v, view.policy, rw.locks)
  BY DEF LockInv, WorkerReads, ReadsJustify, GrabbedBy
<1>3. taken # {} /\ taken \in SUBSET Groups
  <2>1. view.policy \in Policies
    BY <1>1, <1>2 DEF HistoryInv, ViewsInOrder, ViewInOrder
  <2>2. view.policy # <<>> /\ view.policy \in Seq(PolicyEntries)
    BY <2>1, PolicyAssumption DEF PolicyShape
  <2>3. /\ 1 \in DOMAIN view.policy
        /\ \A i \in DOMAIN view.policy : view.policy[i].group \in Groups
    <3>1. \A i \in DOMAIN view.policy : view.policy[i] \in PolicyEntries
      BY <2>2
    <3>2. Len(view.policy) \in Nat /\ DOMAIN view.policy = 1 .. Len(view.policy)
      BY <2>2
    <3>3. Len(view.policy) # 0
      BY <2>2
    <3>4. QED BY <3>1, <3>2, <3>3 DEF PolicyEntries
  <2>4. QED BY <1>1, <2>3 DEF PolicyGroups
<1>4. live' = live
  OBVIOUS
<1> HIDE DEF view, new, taken
<1>5. ASSUME NEW g \in Groups
      PROVE  OwnerAmong(rw'.locks, g) =
                IF g \in taken THEN <<v, view.uid>> ELSE OwnerAmong(rw.locks, g)
  <2>1. CASE g \in taken
    BY <1>0, <1>1, <2>1, OwnerUnique DEF taken
  <2>2. CASE g \notin taken
    <3>1. CASE \A l \in rw.locks : g \notin LockedGroups(l)
      <4>1. \A l \in rw'.locks : g \notin LockedGroups(l)
        BY <1>1, <2>2, <3>1 DEF taken
      <4>2. QED BY <2>2, <3>1, <4>1, OwnerNone
    <3>2. ASSUME NEW l \in rw.locks, g \in LockedGroups(l)
          PROVE  OwnerAmong(rw'.locks, g) = OwnerAmong(rw.locks, g)
      <4>1. ~(l.name = v /\ l.uid = view.uid)
        BY <1>1, <2>2, <3>2 DEF LockInv, LocksPinned
      <4>2. OwnerAmong(rw'.locks, g) = <<l.name, l.uid>>
        BY <1>0, <1>1, <3>2, <4>1, OwnerUnique
      <4>3. OwnerAmong(rw.locks, g) = <<l.name, l.uid>>
        BY <1>0, <3>2, OwnerUnique
      <4>4. QED BY <4>2, <4>3
    <3>3. QED BY <2>2, <3>1, <3>2
  <2>3. QED BY <2>1, <2>2
<1>6. owner' = [g \in Groups |-> IF g \in taken THEN <<v, view.uid>> ELSE owner[g]]
  BY <1>5
<1>7. CASE Holds(v, view, rw.locks)
  <2>1. PICK h \in rw.locks : h.name = v /\ h.uid = view.uid
    BY <1>7 DEF Holds
  <2>2. LockedGroups(h) = taken
    BY <1>1, <2>1 DEF LockInv, LocksPinned
  <2>3. \A g \in taken : OwnerAmong(rw.locks, g) = <<v, view.uid>>
    BY <1>0, <2>1, <2>2, OwnerUnique
  <2>4. owner' = owner
    BY <1>3, <1>6, <2>3
  <2>5. QED BY <1>4, <2>4 DEF Service!vars
<1>8. CASE CanGrab(v, view.policy, rw.locks)
  <2>1. \A g \in taken : owner[g] = <<"none", 0>>
    <3>1. \A g \in taken : \A l \in rw.locks : g \notin LockedGroups(l)
      BY <1>1, <1>8 DEF CanGrab
    <3>2. QED BY <1>3, <3>1, OwnerNone
  <2>2. ASSUME NEW g \in Groups, owner[g] # <<"none", 0>>
        PROVE  owner[g][1] # v
    <3>1. PICK l \in rw.locks : g \in LockedGroups(l)
      BY <2>2, OwnerNone
    <3>2. owner[g] = <<l.name, l.uid>>
      BY <1>0, <3>1, OwnerUnique
    <3>3. QED BY <1>8, <3>1, <3>2 DEF CanGrab
  <2>3. \E uid \in {owner'[g][2] : g \in taken} :
           owner' = [g \in Groups |-> IF g \in taken THEN <<v, uid>> ELSE owner[g]]
    <3>1. PICK g \in taken : g \in Groups
      BY <1>3
    <3>2. owner'[g] = <<v, view.uid>>
      BY <1>6, <3>1
    <3>3. view.uid \in {owner'[h][2] : h \in taken}
      BY <3>1, <3>2
    <3> HIDE DEF owner
    <3>4. QED BY <1>6, <3>3
  <2>4. Service!Acquire(v, taken)
    BY <1>3, <1>4, <2>1, <2>2, <2>3 DEF Service!Acquire, Service!None
  <2>5. QED BY <1>3, <2>4 DEF Service!Next
<1>9. QED BY <1>2, <1>7, <1>8

(* The scale view controllers implement the lock service: for any number   *)
(* of views, groups and policies, stale caches, racing reconciles, retries *)
(* and restarts included, groups are taken all at once, only free ones,    *)
(* and given back only by deleted views.                                   *)
THEOREM Refinement ==
    ASSUME ValidateScaleViews
    PROVE  Spec => ImplementsLockService
<1>1. Init => Service!Init
  <2> SUFFICES ASSUME Init PROVE Service!Init
    OBVIOUS
  <2>1. [v \in Views |-> sv[v].uid] = [v \in Views |-> 0]
    BY DEF Init, NoView
  <2>2. rw.locks = {}
    BY DEF Init, InitRisingWave
  <2>3. [g \in Groups |-> OwnerAmong(rw.locks, g)] = [g \in Groups |-> <<"none", 0>>]
    BY <2>2, OwnerNone
  <2>4. QED BY <2>1, <2>3 DEF Service!Init, Service!None
<1>2. ASSUME HistoryInv, LockInv, LockInv', Next
      PROVE  [Service!Next]_(Service!vars)
  <2>1. CASE sv' = sv /\ rw'.locks = {}
    <3>1. [g \in Groups |-> OwnerAmong(rw.locks, g)]' = [g \in Groups |-> <<"none", 0>>]
      BY <2>1, OwnerNone
    <3>2. Service!Forget
      BY <2>1, <3>1 DEF Service!Forget, Service!None
    <3>3. QED BY <3>2 DEF Service!Next
  <2>2. QED BY <1>2, <2>1, LocksWritten, ViewsStepRefines, ReleaseRefines, GrabRefines
            DEF HistoryInv
<1>3. UNCHANGED vars => UNCHANGED Service!vars
  BY DEF vars, Service!vars
<1>4. HistoryInv /\ LockInv /\ LockInv' /\ [Next]_vars => [Service!Next]_(Service!vars)
  BY <1>2, <1>3
<1>5. QED BY <1>1, <1>4, HistoryInvariant, LockInvariant, PTL
          DEF Spec, ImplementsLockService, Service!Spec

-----------------------------------------------------------------------------
\* what may happen to a version of the RisingWave: the next one is written
Rewritten ==
    /\ rw'.rv = rw.rv + 1
    /\ rw'.uid \in {rw.uid, 0, rw.rv + 1}
    /\ rwEvents' = rwEvents \cup {rw'}

(* What a step does to the copies of the RisingWave in the informer: the   *)
(* object is written, its oldest announced version reaches the cache, or a *)
(* restart lists it.                                                       *)
LEMMA RisingWaveStepCases ==
    ASSUME TypeOK, Next
    PROVE  \/ rw' = rw /\ rwEvents' = rwEvents /\ rwCache' = rwCache
           \/ Rewritten /\ rwCache' = rwCache
           \/ /\ rw' = rw
              /\ rwCache' \in rwEvents
              /\ \A x \in rwEvents : rwCache'.rv <= x.rv
              /\ rwEvents' = rwEvents \ {rwCache'}
              /\ rwQueue'
              /\ svQueue' = svQueue \cup {l.name : l \in rwCache'.locks \cup rwCache.locks}
           \/ rw' = rw /\ rwCache' = rw /\ rwEvents' = {} /\ Restart
<1>0. rw \in RisingWaveType /\ rw.rv \in Nat
  BY DEF TypeOK, RisingWaveType
<1>1. ASSUME NEW locks, StoreRisingWave([rw EXCEPT !.rv = @ + 1, !.locks = locks])
      PROVE  Rewritten
  BY <1>0, <1>1 DEF StoreRisingWave, RisingWaveType, Rewritten
<1>2. ASSUME NEW groups, StoreGroups(groups)
      PROVE  Rewritten \/ UNCHANGED <<rw, rwEvents>>
  BY <1>0, <1>2 DEF StoreGroups, StoreRisingWave, RisingWaveType, Rewritten
<1>3. CASE DeliverRisingWave
  BY <1>3 DEF DeliverRisingWave
<1>4. CASE Restart
  BY <1>4 DEF Restart
<1>5. ASSUME NEW v \in Views, DeliverView(v)
      PROVE  rw' = rw /\ rwEvents' = rwEvents /\ rwCache' = rwCache
  BY <1>5 DEF DeliverView
<1>6. ASSUME NEW v \in Views, ViewStep(v)
      PROVE  /\ Rewritten \/ UNCHANGED <<rw, rwEvents>>
             /\ rwCache' = rwCache
  <2>1. CASE UpdateLock(v)
    BY <1>1, <2>1 DEF UpdateLock, cache
  <2>2. CASE PatchReplicas(v)
    BY <1>2, <2>2 DEF PatchReplicas, cache
  <2>3. CASE ~UpdateLock(v) /\ ~PatchReplicas(v)
    BY <1>6, <2>3 DEF ViewStep, ReconcileView, GrabOrUpdateScaleViewLock,
                  SyncGroupReplicasToRisingWave, SyncGroupReplicasStatus,
                  UpdateScaleViewStatus, api, cache
  <2>4. QED BY <2>1, <2>2, <2>3
<1>7. ASSUME ControllerStep
      PROVE  /\ Rewritten \/ UNCHANGED <<rw, rwEvents>>
             /\ rwCache' = rwCache
  <2>1. ASSUME NEW other \in BOOLEAN, UpdateRisingWaveStatus(other)
        PROVE  /\ Rewritten \/ UNCHANGED <<rw, rwEvents>>
               /\ rwCache' = rwCache
    BY <1>1, <2>1 DEF UpdateRisingWaveStatus, cache
  <2>2. QED BY <1>7, <2>1 DEF ControllerStep, ReconcileRisingWave,
                              ReleaseScaleViewLock, api, cache
<1>8. ASSUME User
      PROVE  /\ Rewritten \/ UNCHANGED <<rw, rwEvents>>
             /\ rwCache' = rwCache
  <2>1. ASSUME NEW groups, EditRisingWave(groups)
        PROVE  Rewritten \/ UNCHANGED <<rw, rwEvents>>
    BY <1>2, <2>1 DEF EditRisingWave
  <2>2. ASSUME NEW obj, StoreRisingWave(obj), obj.rv = rw.rv + 1,
               obj.uid \in {0, rw.rv + 1}
        PROVE  Rewritten
    BY <2>2 DEF StoreRisingWave, Rewritten
  <2> DEFINE new == [uid |-> rw.rv + 1, rv |-> rw.rv + 1,
                     groups |-> InitialReplicas, locks |-> {}]
  <2>6. NoRisingWave(rw.rv + 1).rv = rw.rv + 1 /\ NoRisingWave(rw.rv + 1).uid = 0
    BY DEF NoRisingWave
  <2>7. new.rv = rw.rv + 1 /\ new.uid = rw.rv + 1
    OBVIOUS
  <2>8. DeleteRisingWave => Rewritten
    BY <2>2, <2>6 DEF DeleteRisingWave
  <2>9. CreateRisingWave => StoreRisingWave(new)
    BY DEF CreateRisingWave
  <2> HIDE DEF new
  <2>10. CreateRisingWave => Rewritten
    BY <2>2, <2>7, <2>9
  <2>3. ASSUME NEW v \in Views, NEW p \in Policies, CreateView(v, p) \/ EditPolicy(v, p)
        PROVE  rw' = rw /\ rwEvents' = rwEvents
    BY <2>3 DEF CreateView, EditPolicy
  <2>4. ASSUME NEW v \in Views, DeleteView(v) \/ \E n \in UserReplicas : ScaleTo(v, n)
        PROVE  rw' = rw /\ rwEvents' = rwEvents
    BY <2>4 DEF DeleteView, ScaleTo
  <2>5. rwCache' = rwCache
    BY <1>8 DEF User, UserRequest, CreateView, ScaleTo, EditPolicy, DeleteView,
                EditRisingWave, DeleteRisingWave, CreateRisingWave, cache
  <2>11. QED BY <1>8, <2>1, <2>3, <2>4, <2>5, <2>8, <2>10 DEF User
<1>9. QED BY <1>3, <1>4, <1>5, <1>6, <1>7, <1>8 DEF Next

\* the oldest announced version of a view reaches the cache
Delivered(u) ==
    /\ sv'[u] = sv[u]
    /\ svCache'[u] \in svEvents[u]
    /\ \A x \in svEvents[u] : svCache'[u].rv <= x.rv
    /\ svEvents'[u] = svEvents[u] \ {svCache'[u]}
    /\ u \in svQueue'
    /\ svCache'[u].uid = 0 => rwQueue'

(* A delivered event wakes the view's reconcile, and the deletion of a     *)
(* view wakes the reconcile of the RisingWave.                             *)
LEMMA DeliveryWakes ==
    ASSUME TypeOK, Next, NEW u \in Views
    PROVE  \/ sv'[u] = sv[u] /\ svEvents'[u] = svEvents[u] /\ svCache'[u] = svCache[u]
           \/ Written(u) /\ svCache'[u] = svCache[u]
           \/ Delivered(u)
           \/ Restart /\ sv'[u] = sv[u] /\ svCache'[u] = sv[u] /\ svEvents'[u] = {}
<1>0. /\ svCache \in [Views -> ViewType]
      /\ svEvents \in [Views -> SUBSET ViewType]
  BY DEF TypeOK
<1>1. CASE Restart
  BY <1>1 DEF Restart
<1>2. ASSUME NEW v \in Views, DeliverView(v)
      PROVE  \/ sv'[u] = sv[u] /\ svEvents'[u] = svEvents[u] /\ svCache'[u] = svCache[u]
             \/ Delivered(u)
  <2>1. PICK e \in svEvents[v] :
           /\ \A x \in svEvents[v] : e.rv <= x.rv
           /\ svCache' = [svCache EXCEPT ![v] = e]
           /\ svEvents' = [svEvents EXCEPT ![v] = @ \ {e}]
           /\ svQueue' = svQueue \cup {v}
           /\ rwQueue' = (rwQueue \/ e.uid = 0)
           /\ sv' = sv
    BY <1>2 DEF DeliverView
  <2>2. CASE u = v
    <3>1. svCache'[u] = e /\ svEvents'[u] = svEvents[u] \ {e}
      BY <1>0, <2>1, <2>2
    <3>2. QED BY <2>1, <2>2, <3>1 DEF Delivered
  <2>3. CASE u # v
    BY <1>0, <2>1, <2>3
  <2>4. QED BY <2>2, <2>3
<1>3. CASE ~Restart /\ ~ \E v \in Views : DeliverView(v)
  <2>1. svCache' = svCache
    BY <1>3 DEF Next, DeliverRisingWave, ViewStep, ReconcileView,
         GrabOrUpdateScaleViewLock, UpdateLock, SyncGroupReplicasToRisingWave,
         PatchReplicas, SyncGroupReplicasStatus, UpdateScaleViewStatus,
         ControllerStep, ReconcileRisingWave, ReleaseScaleViewLock,
         UpdateRisingWaveStatus, User, UserRequest, CreateView, ScaleTo, EditPolicy,
         DeleteView, EditRisingWave, DeleteRisingWave, CreateRisingWave, cache
  <2>2. CASE DeliverRisingWave \/ ControllerStep
    <3>1. UNCHANGED <<sv, svEvents>>
      BY <2>2 DEF DeliverRisingWave, ControllerStep, ReconcileRisingWave,
                  ReleaseScaleViewLock, UpdateRisingWaveStatus, api
    <3>2. QED BY <2>1, <3>1
  <2>3. CASE User
    BY <2>1, <2>3, ViewWrittenByUser
  <2>4. ASSUME NEW v \in Views, ViewStep(v)
        PROVE  \/ sv'[u] = sv[u] /\ svEvents'[u] = svEvents[u]
               \/ Written(u)
    BY <2>4, ViewWrittenByWorker
  <2>5. QED BY <1>3, <2>1, <2>2, <2>3, <2>4 DEF Next
<1>4. QED BY <1>1, <1>2, <1>3

(* Since versions are delivered in order, the stored one comes last.       *)
LEMMA CatchUpStep ==
    ASSUME TypeOK, VersionsAgree, ViewsInOrder, InformersCatchUp, Next
    PROVE  InformersCatchUp'
<1>1. IF rwEvents' = {} THEN rwCache' = rw' ELSE rw' \in rwEvents'
  <2>1. IF rwEvents = {} THEN rwCache = rw ELSE rw \in rwEvents
    BY DEF InformersCatchUp
  <2>2. CASE /\ rw' = rw
             /\ rwCache' \in rwEvents
             /\ \A x \in rwEvents : rwCache'.rv <= x.rv
             /\ rwEvents' = rwEvents \ {rwCache'}
    <3>1. rw \in rwEvents
      BY <2>1, <2>2
    <3>2. \A x \in rwEvents : x.rv \in Nat /\ x.rv <= rw.rv /\ (x.rv = rw.rv => x = rw)
      BY DEF VersionsAgree, RisingWaveCopies, TypeOK, RisingWaveType
    <3>3. rwCache' = rw => \A x \in rwEvents : x = rw
      BY <2>2, <3>1, <3>2
    <3>4. QED BY <2>2, <3>1, <3>3
  <2>3. QED BY <2>1, <2>2, RisingWaveStepCases DEF Rewritten
<1>2. ASSUME NEW u \in Views
      PROVE  /\ IF svEvents'[u] = {} THEN svCache'[u] = sv'[u] ELSE sv'[u] \in svEvents'[u]
             /\ \A x \in svEvents'[u] : x.rv = sv'[u].rv => x = sv'[u]
  <2>1. /\ IF svEvents[u] = {} THEN svCache[u] = sv[u] ELSE sv[u] \in svEvents[u]
        /\ \A x \in svEvents[u] : x.rv = sv[u].rv => x = sv[u]
    BY DEF InformersCatchUp
  <2>2. sv[u].rv \in Nat /\ \A x \in svEvents[u] : x.rv \in Nat /\ x.rv <= sv[u].rv
    BY DEF ViewsInOrder, ViewInOrder, ViewCopies, TypeOK, ViewType
  <2>3. CASE Delivered(u)
    <3>1. sv[u] \in svEvents[u] /\ sv'[u] = sv[u]
      BY <2>1, <2>3 DEF Delivered
    <3>2. svCache'[u] = sv[u] => \A x \in svEvents[u] : x = sv[u]
      BY <2>1, <2>2, <2>3, <3>1 DEF Delivered
    <3>3. QED BY <2>1, <2>3, <3>1, <3>2 DEF Delivered
  <2>4. CASE Written(u)
    <3>1. sv'[u].rv = sv[u].rv + 1 /\ svEvents'[u] = svEvents[u] \cup {sv'[u]}
      BY <2>4 DEF Written
    <3>2. QED BY <2>2, <3>1
  <2>5. QED BY <2>1, <2>3, <2>4, DeliveryWakes
<1>3. QED BY <1>1, <1>2 DEF InformersCatchUp

(* A view is bound when it is created, to the RisingWave that is stored;   *)
(* the webhook lets it in only if the cache shows that RisingWave.         *)
LEMMA TargetStep ==
    ASSUME TypeOK, Next, NEW u \in Views
    PROVE  \/ sv'[u].target = sv[u].target /\ sv'[u].uid = sv[u].uid
           \/ sv'[u].target = 0 /\ sv'[u].uid = 0
           \/ /\ sv'[u].target = rw.uid
              /\ UNCHANGED <<rw, rwEvents, rwCache>>
              /\ ValidateScaleViews => rwCache.uid = rw.uid
<1>0. sv \in [Views -> ViewType] /\ sv[u] \in ViewType
  BY DEF TypeOK
<1>1. ASSUME NEW v \in Views, NEW obj, StoreView(v, obj)
      PROVE  sv'[u] = IF u = v THEN obj ELSE sv[u]
  BY <1>0, <1>1 DEF StoreView
<1>2. CASE sv' = sv
  BY <1>2
<1>3. ASSUME NEW v \in Views, NEW p \in Policies, CreateView(v, p)
      PROVE  \/ sv'[u] = sv[u]
             \/ /\ sv'[u].target = rw.uid
                /\ UNCHANGED <<rw, rwEvents, rwCache>>
                /\ ValidateScaleViews => rwCache.uid = rw.uid
  <2> DEFINE obj == [uid |-> sv[v].rv + 1, gen |-> 1, rv |-> sv[v].rv + 1,
                     replicas |-> CurrentReplicas(p), policy |-> p,
                     target |-> rw.uid, locked |-> FALSE]
  <2>1. StoreView(v, obj) /\ obj.target = rw.uid
    BY <1>3 DEF CreateView
  <2>2. UNCHANGED <<rw, rwEvents, rwCache>> /\ (ValidateScaleViews => rwCache.uid = rw.uid)
    BY <1>3 DEF CreateView, UserRequest, cache
  <2> HIDE DEF obj
  <2>3. QED BY <1>1, <2>1, <2>2
<1>4. ASSUME NEW v \in Views, NEW n, ScaleTo(v, n)
      PROVE  sv'[u].target = sv[u].target /\ sv'[u].uid = sv[u].uid
  <2> DEFINE obj == [sv[v] EXCEPT !.gen = @ + 1, !.rv = @ + 1, !.replicas = n]
  <2>1. StoreView(v, obj)
    BY <1>4 DEF ScaleTo
  <2>2. u = v => obj.target = sv[u].target /\ obj.uid = sv[u].uid
    BY <1>0 DEF ViewType
  <2> HIDE DEF obj
  <2>3. QED BY <1>1, <2>1, <2>2
<1>5. ASSUME NEW v \in Views, NEW p, EditPolicy(v, p)
      PROVE  sv'[u].target = sv[u].target /\ sv'[u].uid = sv[u].uid
  <2> DEFINE obj == [sv[v] EXCEPT !.gen = @ + 1, !.rv = @ + 1, !.policy = p]
  <2>1. StoreView(v, obj)
    BY <1>5 DEF EditPolicy
  <2>2. u = v => obj.target = sv[u].target /\ obj.uid = sv[u].uid
    BY <1>0 DEF ViewType
  <2> HIDE DEF obj
  <2>3. QED BY <1>1, <2>1, <2>2
<1>6. ASSUME NEW v \in Views, DeleteView(v)
      PROVE  \/ sv'[u] = sv[u]
             \/ sv'[u].target = 0 /\ sv'[u].uid = 0
  <2>1. StoreView(v, NoView(sv[v].rv + 1))
    BY <1>6 DEF DeleteView
  <2>2. NoView(sv[v].rv + 1).target = 0 /\ NoView(sv[v].rv + 1).uid = 0
    BY DEF NoView
  <2>3. QED BY <1>1, <2>1, <2>2
<1>7. ASSUME NEW v \in Views, ViewStep(v)
      PROVE  sv'[u].target = sv[u].target /\ sv'[u].uid = sv[u].uid
  <2>1. CASE StoreView(v, [sv[v] EXCEPT !.rv = @ + 1, !.locked = worker[v].view.locked])
    <3> DEFINE obj == [sv[v] EXCEPT !.rv = @ + 1, !.locked = worker[v].view.locked]
    <3>1. u = v => obj.target = sv[u].target /\ obj.uid = sv[u].uid
      BY <1>0 DEF ViewType
    <3> HIDE DEF obj
    <3>2. StoreView(v, obj)
      BY <2>1 DEF obj
    <3>3. QED BY <1>1, <3>1, <3>2
  <2>2. QED BY <1>2, <1>7, <2>1
        DEF ViewStep, ReconcileView, GrabOrUpdateScaleViewLock, UpdateLock,
            SyncGroupReplicasToRisingWave, PatchReplicas,
            SyncGroupReplicasStatus, UpdateScaleViewStatus, api
<1>8. CASE User
  <2>1. CASE sv' = sv
    BY <1>2, <2>1
  <2>2. QED BY <1>3, <1>4, <1>5, <1>6, <1>8, <2>1
        DEF User, EditRisingWave, DeleteRisingWave, CreateRisingWave
<1>9. DeliverRisingWave \/ ControllerStep \/ Restart => sv' = sv
  BY DEF DeliverRisingWave, ControllerStep, ReconcileRisingWave, ReleaseScaleViewLock,
         UpdateRisingWaveStatus, Restart, api
<1>10. ASSUME NEW v \in Views, DeliverView(v) PROVE sv' = sv
  BY <1>10 DEF DeliverView
<1>11. QED BY <1>2, <1>7, <1>8, <1>9, <1>10 DEF Next

(* The versions of the RisingWave stay in order.                           *)
LEMMA RisingWavesInOrderStep ==
    ASSUME TypeOK, ControllerReads, VersionsAgree, RisingWavesInOrder, Next
    PROVE  RisingWavesInOrder'
<1>0. /\ rw.rv \in Nat /\ rw.uid \in Nat
      /\ \A x \in RisingWaveCopies \cup {rw} : x.rv \in Nat /\ x.uid \in Nat /\ x.rv <= rw.rv
      /\ rwCache \in RisingWaveCopies
      /\ \A e \in rwEvents : e \in RisingWaveCopies
  <2>1. \A x \in RisingWaveCopies \cup {rw} : x.rv \in Nat /\ x.uid \in Nat
    BY DEF TypeOK, RisingWaveCopies, RisingWaveType, WorkerType, CtrlType
  <2>2. QED BY <2>1 DEF VersionsAgree, RisingWaveCopies
<1>1. /\ \A x \in RisingWaveCopies \cup {rw} :
            /\ x.uid <= x.rv
            /\ rw.uid # 0 /\ rw.uid <= x.rv => x.uid = rw.uid
      /\ \A e \in rwEvents : rwCache.rv <= e.rv
      /\ \A v \in Views : sv[v].target <= rw.rv
  BY DEF RisingWavesInOrder
<1>2. \/ rw' = rw
      \/ rw'.rv = rw.rv + 1 /\ rw'.uid \in {rw.uid, 0, rw.rv + 1}
  BY RisingWaveStepCases DEF Rewritten
<1>3. ASSUME NEW x \in RisingWaveCopies' \cup {rw'}
      PROVE  /\ x.uid <= x.rv
             /\ rw'.uid # 0 /\ rw'.uid <= x.rv => x.uid = rw'.uid
  <2>1. x \in RisingWaveCopies \cup {rw, rw', NoRisingWave(0)}
    BY RisingWaveCopiesStep
  <2>2. NoRisingWave(0).uid = 0 /\ NoRisingWave(0).rv = 0 /\ rw'.uid \in Nat
    BY <1>0, <1>2 DEF NoRisingWave
  <2>3. CASE x = rw'
    BY <1>0, <1>1, <1>2, <2>3
  <2>4. CASE x = NoRisingWave(0)
    BY <2>2, <2>4
  <2>5. CASE x \in RisingWaveCopies \cup {rw}
    BY <1>0, <1>1, <1>2, <2>5
  <2>6. QED BY <2>1, <2>3, <2>4, <2>5
<1>4. ASSUME NEW e \in rwEvents' PROVE rwCache'.rv <= e.rv
  <2>1. CASE Rewritten /\ rwCache' = rwCache
    BY <1>0, <1>1, <2>1 DEF Rewritten
  <2>2. QED BY <1>1, <2>1, RisingWaveStepCases
<1>5. ASSUME NEW u \in Views PROVE sv'[u].target <= rw'.rv
  <2>1. sv[u].target \in Nat /\ sv[u].target <= rw.rv /\ rw.uid <= rw.rv
    BY <1>1 DEF TypeOK, ViewType
  <2>2. rw'.rv = rw.rv \/ rw'.rv = rw.rv + 1
    BY <1>2
  <2>3. sv'[u].target \in {sv[u].target, 0, rw.uid}
    BY TargetStep
  <2>4. QED BY <1>0, <2>1, <2>2, <2>3
<1>6. QED BY <1>3, <1>4, <1>5 DEF RisingWavesInOrder

(* A view that is bound after a step and was there before it was bound     *)
(* before it: no new RisingWave has the uid of an old one.                 *)
LEMMA BoundBefore ==
    ASSUME TypeOK, RisingWavesInOrder, Next, NEW u \in Views, Bound(u)',
           sv'[u].target = sv[u].target, sv'[u].uid = sv[u].uid
    PROVE  Bound(u) /\ rw'.uid = rw.uid
<1>1. rw.rv \in Nat /\ sv[u].target \in Nat /\ sv[u].target <= rw.rv
  BY DEF TypeOK, RisingWaveType, ViewType, RisingWavesInOrder
<1>2. rw'.uid \in {rw.uid, 0, rw.rv + 1}
  BY RisingWaveStepCases DEF Rewritten
<1>3. sv'[u].uid # 0 /\ rw'.uid # 0 /\ sv'[u].target = rw'.uid
  BY DEF Bound
<1>4. rw'.uid = rw.uid
  BY <1>1, <1>2, <1>3
<1>5. QED BY <1>3, <1>4 DEF Bound

(* The cache does not go back behind the RisingWave of a bound view.       *)
LEMMA TargetsCachedStep ==
    ASSUME ValidateScaleViews, TypeOK, RisingWavesInOrder, TargetsCached, Next
    PROVE  TargetsCached'
<1> SUFFICES ASSUME NEW u \in Views, Bound(u)' PROVE rwCache'.uid = rw'.uid
  BY DEF TargetsCached
<1>1. CASE sv'[u].target = sv[u].target /\ sv'[u].uid = sv[u].uid
  <2>1. Bound(u) /\ rw'.uid = rw.uid
    BY <1>1, BoundBefore
  <2>2. rwCache.uid = rw.uid /\ rw.uid # 0
    BY <2>1 DEF TargetsCached, Bound
  <2>3. \A e \in rwEvents : e.uid = rw.uid
    <3>1. rwCache.uid <= rwCache.rv /\ rwCache.uid \in Nat /\ rwCache.rv \in Nat
      BY DEF RisingWavesInOrder, RisingWaveCopies, TypeOK, RisingWaveType
    <3>2. \A e \in rwEvents : e.rv \in Nat /\ rwCache.rv <= e.rv
      BY DEF RisingWavesInOrder, TypeOK, RisingWaveType
    <3>3. \A e \in rwEvents : rw.uid <= e.rv
      BY <2>2, <3>1, <3>2
    <3>4. QED BY <2>2, <3>3 DEF RisingWavesInOrder, RisingWaveCopies
  <2>4. rwCache' \in {rwCache, rw} \cup rwEvents
    BY RisingWaveStepCases
  <2>5. QED BY <2>1, <2>2, <2>3, <2>4
<1>2. CASE sv'[u].target = rw.uid /\ UNCHANGED <<rw, rwCache>> /\ rwCache.uid = rw.uid
  BY <1>2
<1>3. QED BY <1>1, <1>2, TargetStep DEF Bound

(* The event of a deletion is delivered after the versions before it.      *)
LEMMA DeletesAnnouncedStep ==
    ASSUME TypeOK, ViewsInOrder, DeletesAnnounced, Next
    PROVE  DeletesAnnounced'
<1> SUFFICES ASSUME NEW u \in Views, NEW x \in {svCache'[u]} \cup svEvents'[u],
                    x.uid \notin {0, sv'[u].uid}
             PROVE  \E e \in svEvents'[u] : e.uid = 0 /\ e.rv > x.rv
  BY DEF DeletesAnnounced
<1>0. /\ sv[u].rv \in Nat
      /\ \A y \in {svCache[u]} \cup svEvents[u] : y.rv \in Nat /\ y.rv <= sv[u].rv
  BY DEF TypeOK, ViewType, ViewsInOrder, ViewInOrder, ViewCopies
<1>1. ASSUME NEW y \in {svCache[u]} \cup svEvents[u], y.uid \notin {0, sv[u].uid}
      PROVE  \E e \in svEvents[u] : e.uid = 0 /\ e.rv > y.rv
  BY <1>1 DEF DeletesAnnounced
<1>2. CASE sv'[u] = sv[u] /\ svEvents'[u] = svEvents[u] /\ svCache'[u] = svCache[u]
  BY <1>1, <1>2
<1>3. CASE Written(u) /\ svCache'[u] = svCache[u]
  <2>1. /\ sv'[u].rv = sv[u].rv + 1
        /\ svEvents'[u] = svEvents[u] \cup {sv'[u]}
        /\ Changed(sv[u], sv'[u])
    BY <1>3 DEF Written
  <2>2. x \in {svCache[u]} \cup svEvents[u]
    BY <1>3, <2>1
  <2>3. CASE sv'[u].uid = 0
    BY <1>0, <2>1, <2>2, <2>3
  <2>4. CASE sv'[u].uid # 0
    <3>1. x.uid \notin {0, sv[u].uid}
      BY <2>1, <2>4 DEF Changed
    <3>2. QED BY <1>1, <2>1, <2>2, <3>1
  <2>5. QED BY <2>3, <2>4
<1>4. CASE Delivered(u)
  <2>1. x \in svEvents[u] /\ sv'[u] = sv[u] /\ svEvents'[u] = svEvents[u] \ {svCache'[u]}
    BY <1>4 DEF Delivered
  <2>2. PICK e \in svEvents[u] : e.uid = 0 /\ e.rv > x.rv
    BY <1>1, <2>1
  <2>3. svCache'[u] \in svEvents[u] /\ svCache'[u].rv <= x.rv
    BY <1>4, <2>1 DEF Delivered
  <2>4. e # svCache'[u]
    BY <1>0, <2>1, <2>2, <2>3
  <2>5. QED BY <2>1, <2>2, <2>4
<1>5. CASE sv'[u] = sv[u] /\ svCache'[u] = sv[u] /\ svEvents'[u] = {}
  BY <1>5
<1>6. QED BY <1>2, <1>3, <1>4, <1>5, DeliveryWakes

(* A lock at the generation of its view stays one as long as the view and  *)
(* the RisingWave stay the same: it is not released, and no worker takes   *)
(* it back.                                                                *)
LEMMA CurrentLockStays ==
    ASSUME HistoryInv, HistoryInv', Next, rw'.uid = rw.uid, NEW u \in Views,
           sv'[u].uid = sv[u].uid, sv'[u].gen = sv[u].gen,
           HoldsCurrent(u, sv[u], rw.locks)
    PROVE  HoldsCurrent(u, sv'[u], rw'.locks)
<1>1. PICK l \in rw.locks : l.name = u /\ l.uid = sv[u].uid /\ l.gen = sv[u].gen
  BY DEF HoldsCurrent
<1>2. PICK k \in rw'.locks : k.name = u /\ k.uid = sv'[u].uid /\ k.gen >= sv'[u].gen
  BY <1>1, LiveLockKeptStep DEF Kept
<1>3. k.gen \in Nat /\ sv'[u].gen \in Nat
  BY DEF HistoryInv, TypeOK, RisingWaveType, LockType, ViewType
<1>4. k.gen <= sv'[u].gen
  <2>1. LockInOrder(k, rw.uid)'
    BY DEF HistoryInv, LocksInOrder
  <2>2. QED BY <1>2, <2>1 DEF LockInOrder, ViewCopies
<1>5. QED BY <1>2, <1>3, <1>4 DEF HoldsCurrent

(* A lock that some version of the RisingWave shows at the generation its  *)
(* view has now is still there.                                            *)
LEMMA CurrentLocksKeptStep ==
    ASSUME HistoryInv, HistoryInv', RisingWavesInOrder, CurrentLocksKept, Next
    PROVE  CurrentLocksKept'
<1> SUFFICES ASSUME NEW u \in Views, NEW x \in RisingWaveCopies', Bound(u)',
                    x.uid = rw'.uid, HoldsCurrent(u, sv'[u], x.locks)
             PROVE  HoldsCurrent(u, sv'[u], rw'.locks)
  BY DEF CurrentLocksKept
<1>0. TypeOK /\ ControllerReads /\ VersionsAgree /\ ViewsInOrder /\ LocksInOrder
  BY DEF HistoryInv
<1>1. x \in RisingWaveCopies \cup {rw, rw', NoRisingWave(0)}
  BY <1>0, RisingWaveCopiesStep
<1>2. CASE x = rw'
  BY <1>2
<1>3. CASE x = NoRisingWave(0)
  BY <1>3 DEF NoRisingWave, HoldsCurrent
<1>4. CASE x \in RisingWaveCopies \cup {rw}
  <2>1. PICK l \in x.locks : l.name = u /\ l.uid = sv'[u].uid /\ l.gen = sv'[u].gen
    BY DEF HoldsCurrent
  <2>2. LockInOrder(l, x.uid)
    BY <1>0, <1>4 DEF LocksInOrder
  <2>3. /\ l.uid # 0
        /\ l.uid <= svCache[u].rv
        /\ sv[u].uid = l.uid => l.gen <= sv[u].gen
    BY <2>1, <2>2 DEF LockInOrder, ViewCopies
  <2>4. /\ svCache[u].rv <= sv[u].rv
        /\ svCache[u].rv \in Nat /\ sv[u].rv \in Nat /\ sv[u].gen \in Nat
        /\ sv'[u].uid \in Nat /\ sv'[u].gen \in Nat
    <3>1. TypeOK'
      BY DEF HistoryInv
    <3>2. svCache[u].rv <= sv[u].rv
      BY <1>0 DEF ViewsInOrder, ViewInOrder, ViewCopies
    <3>3. QED BY <1>0, <3>1, <3>2 DEF TypeOK, ViewType
  <2>5. \/ sv'[u] = sv[u]
        \/ sv'[u].rv = sv[u].rv + 1 /\ Changed(sv[u], sv'[u])
    BY <1>0, ViewStepCases DEF Written
  <2>6. sv'[u].uid = sv[u].uid /\ sv'[u].gen = sv[u].gen /\ sv'[u].target = sv[u].target
    BY <2>1, <2>3, <2>4, <2>5 DEF Changed
  <2>7. Bound(u) /\ rw'.uid = rw.uid
    BY <1>0, <2>6, BoundBefore
  <2>8. HoldsCurrent(u, sv[u], x.locks)
    BY <2>1, <2>6 DEF HoldsCurrent
  <2>9. HoldsCurrent(u, sv[u], rw.locks)
    BY <1>4, <2>7, <2>8 DEF CurrentLocksKept
  <2>10. QED BY <2>6, <2>7, <2>9, CurrentLockStays
<1>5. QED BY <1>1, <1>2, <1>3, <1>4

\* somebody is going to see that the lock is dead
Noticed(l) ==
    \/ rwEvents # {}
    \/ rwQueue
    \/ \E e \in svEvents[l.name] : e.uid = 0
    \/ Releasing(l)

(* Once the event of the deletion is delivered, the reconcile of the       *)
(* RisingWave finds the view gone and drops its lock.                      *)
LEMMA DeadLocksNoticedStep ==
    ASSUME HistoryInv, InformersCatchUp, DeletesAnnounced, DeadLocksNoticed, Next
    PROVE  DeadLocksNoticed'
<1> SUFFICES ASSUME rw'.uid # 0, NEW l \in rw'.locks, sv'[l.name].uid # l.uid
             PROVE  Noticed(l)'
  BY DEF DeadLocksNoticed, Noticed
<1>0. /\ TypeOK /\ ControllerReads /\ VersionsAgree /\ ViewsInOrder /\ LocksInOrder
      /\ ctrl \in CtrlType
  BY DEF HistoryInv, TypeOK
<1>1. CASE Rewritten
  BY <1>1 DEF Rewritten, Noticed
<1>2. CASE rw' = rw /\ rwCache' = rwCache /\ rwEvents' = rwEvents
  <2>0. l \in rw.locks /\ rw.uid # 0
    BY <1>2
  <2>1. l.name \in Views /\ l.uid # 0
    BY <1>0, <2>0 DEF TypeOK, RisingWaveType, LockType, LocksInOrder, LockInOrder
  <2> DEFINE v == l.name
  <2> HIDE DEF v
  <2>2. CASE sv[v].uid = l.uid
    <3>1. Written(v)
      BY <1>0, <2>1, <2>2, DeliveryWakes DEF Delivered, v
    <3>2. sv'[v].uid = 0 /\ sv'[v] \in svEvents'[v]
      BY <2>1, <2>2, <3>1 DEF Written, Changed, v
    <3>3. QED BY <3>2 DEF Noticed, v
  <2>3. CASE sv[v].uid # l.uid
    <3>1. rwEvents # {} \/ rwQueue \/ (\E e \in svEvents[v] : e.uid = 0) \/ Releasing(l)
      BY <2>0, <2>3 DEF DeadLocksNoticed, v
    <3>2. CASE rwEvents # {}
      BY <1>2, <3>2 DEF Noticed
    <3>3. ASSUME NEW e \in svEvents[v], e.uid = 0, ~Restart
          PROVE  Noticed(l)'
      BY <1>0, <2>1, <3>3, DeliveryWakes DEF Written, Delivered, Noticed, v
    <3>4. CASE rwEvents = {} /\ rwQueue /\ ~ \E e \in svEvents[v] : e.uid = 0
      <4>1. CASE rwQueue'
        BY <4>1 DEF Noticed
      <4>2. CASE ~rwQueue'
        <5>1. ReconcileRisingWave
          BY <3>4, <4>2 DEF Next, DeliverRisingWave, DeliverView, ViewStep, ReconcileView,
               GrabOrUpdateScaleViewLock, UpdateLock, SyncGroupReplicasToRisingWave,
               PatchReplicas, SyncGroupReplicasStatus, UpdateScaleViewStatus,
               ControllerStep, ReleaseScaleViewLock,
               UpdateRisingWaveStatus, User, UserRequest, CreateView, ScaleTo, EditPolicy,
               DeleteView, EditRisingWave, DeleteRisingWave, CreateRisingWave, Restart
        <5>2. rwCache = rw /\ svCache' = svCache
          BY <3>4, <5>1 DEF InformersCatchUp, ReconcileRisingWave, cache
        <5>3. ctrl' = [pc |-> "release", obj |-> rw, todo |-> rw.locks, alive |-> {}]
          BY <2>0, <5>1, <5>2 DEF ReconcileRisingWave
        <5>4. svCache[v].uid # l.uid
          BY <2>1, <2>3, <3>4 DEF DeletesAnnounced, v
        <5>5. QED BY <1>2, <5>2, <5>3, <5>4 DEF Releasing, Noticed, v
      <4>3. QED BY <4>1, <4>2
    <3>5. CASE rwEvents = {} /\ ~rwQueue /\ Releasing(l) /\ ~ \E e \in svEvents[v] : e.uid = 0
      <4>1. /\ ctrl.pc = "release" /\ ctrl.obj = rw /\ l \notin ctrl.alive
            /\ l \in ctrl.todo => svCache[v].uid # l.uid
        BY <3>5 DEF Releasing, v
      <4>2. CASE Restart
        BY <1>2, <2>0, <4>2 DEF Restart, Noticed
      <4>3. CASE UNCHANGED ctrl /\ ~Restart
        <5>1. svCache'[v].uid # l.uid \/ svCache'[v] = svCache[v]
          <6>1. \A x \in svEvents[v] : x.uid # l.uid
            BY <2>1, <2>3, <3>5 DEF DeletesAnnounced, v
          <6>2. QED BY <1>0, <2>1, <4>3, <6>1, DeliveryWakes DEF Delivered, v
        <5>2. QED BY <1>2, <4>1, <4>3, <5>1 DEF Releasing, Noticed, v
      <4>4. CASE ReleaseScaleViewLock
        <5>1. PICK d \in ctrl.todo :
                 ctrl' = [ctrl EXCEPT
                            !.todo = @ \ {d},
                            !.alive = IF svCache[d.name].uid = d.uid
                                      THEN @ \cup {d} ELSE @]
          BY <4>4 DEF ReleaseScaleViewLock
        <5>2. /\ ctrl'.obj = ctrl.obj /\ ctrl'.pc = ctrl.pc
              /\ ctrl'.todo = ctrl.todo \ {d}
              /\ ctrl'.alive = IF svCache[d.name].uid = d.uid THEN ctrl.alive \cup {d}
                                                              ELSE ctrl.alive
          BY <1>0, <5>1 DEF CtrlType
        <5>3. svCache' = svCache
          BY <4>4 DEF ReleaseScaleViewLock, cache
        <5>4. QED BY <1>2, <4>1, <5>2, <5>3 DEF Releasing, Noticed, v
      <4>5. ASSUME NEW other \in BOOLEAN, UpdateRisingWaveStatus(other)
            PROVE  FALSE
        <5>1. ctrl.alive # ctrl.obj.locks
          BY <2>0, <4>1
        <5>2. StoreRisingWave([rw EXCEPT !.rv = @ + 1, !.locks = ctrl.alive])
          BY <2>0, <4>1, <4>5, <5>1 DEF UpdateRisingWaveStatus
        <5>3. QED BY <1>2, <3>5, <5>2 DEF StoreRisingWave
      <4>6. ~ReconcileRisingWave
        BY <3>5 DEF ReconcileRisingWave
      <4>7. QED BY <4>2, <4>3, <4>4, <4>5, <4>6
          DEF Next, ControllerStep, DeliverRisingWave, DeliverView, ViewStep, ReconcileView,
              GrabOrUpdateScaleViewLock, UpdateLock, SyncGroupReplicasToRisingWave,
              PatchReplicas, SyncGroupReplicasStatus, UpdateScaleViewStatus,
              User, UserRequest, CreateView, ScaleTo, EditPolicy,
              DeleteView, EditRisingWave, DeleteRisingWave, CreateRisingWave
    <3>6. CASE Restart
      BY <1>2, <2>0, <3>6 DEF Restart, Noticed
    <3>7. QED BY <3>1, <3>2, <3>3, <3>4, <3>5, <3>6
  <2>4. QED BY <2>2, <2>3
<1>3. CASE rwQueue'
  BY <1>3 DEF Noticed
<1>4. Restart /\ rw' = rw => rwQueue'
  BY DEF Restart
<1>5. QED BY <1>0, <1>1, <1>2, <1>3, <1>4, RisingWaveStepCases

(* A step that is not one of the view's own reconcile leaves that          *)
(* reconcile alone, and wakes another one if it changes the view.          *)
LEMMA OtherStep ==
    ASSUME TypeOK, Next, NEW u \in Views, ~ViewStep(u), ~Restart
    PROVE  /\ worker'[u] = worker[u]
           /\ Unwoken(u)' => Unwoken(u) /\ sv'[u] = sv[u]
<1>0. worker \in [Views -> WorkerType]
  BY DEF TypeOK
<1>1. \/ sv'[u] = sv[u] /\ svEvents'[u] = svEvents[u]
      \/ svEvents'[u] # {}
      \/ u \in svQueue'
  BY DeliveryWakes DEF Written, Delivered
<1>2. CASE DeliverRisingWave \/ ControllerStep \/ User
  <2>1. worker' = worker /\ svQueue \subseteq svQueue'
    BY <1>2 DEF DeliverRisingWave, ControllerStep, ReconcileRisingWave,
         ReleaseScaleViewLock, UpdateRisingWaveStatus, User, UserRequest, CreateView,
         ScaleTo, EditPolicy, DeleteView, EditRisingWave, DeleteRisingWave,
         CreateRisingWave
  <2>2. QED BY <1>1, <2>1 DEF Unwoken
<1>3. ASSUME NEW v \in Views, DeliverView(v)
      PROVE  /\ worker'[u] = worker[u]
             /\ Unwoken(u)' => Unwoken(u) /\ sv'[u] = sv[u]
  <2>1. worker' = worker /\ svQueue \subseteq svQueue'
    BY <1>3 DEF DeliverView
  <2>2. QED BY <1>1, <2>1 DEF Unwoken
<1>4. ASSUME NEW v \in Views, ViewStep(v)
      PROVE  /\ worker'[u] = worker[u]
             /\ Unwoken(u)' => Unwoken(u) /\ sv'[u] = sv[u]
  <2>1. u # v
    BY <1>4
  <2>2. worker' = worker \/ \E w : worker' = [worker EXCEPT ![v] = w]
    <3>1. CASE GrabOrUpdateScaleViewLock(v) \/ UpdateLock(v)
      BY <3>1 DEF GrabOrUpdateScaleViewLock, UpdateLock, GrabFails, Joined
    <3>2. CASE ~GrabOrUpdateScaleViewLock(v) /\ ~UpdateLock(v)
      BY <1>4, <3>2 DEF ViewStep, ReconcileView, SyncGroupReplicasToRisingWave,
             PatchReplicas, SyncGroupReplicasStatus, UpdateScaleViewStatus, Joined
    <3>3. QED BY <3>1, <3>2
  <2>3. svQueue \ {v} \subseteq svQueue'
    BY <1>4 DEF ViewStep, ReconcileView, GrabOrUpdateScaleViewLock, UpdateLock, GrabFails,
             SyncGroupReplicasToRisingWave, PatchReplicas, SyncGroupReplicasStatus,
             UpdateScaleViewStatus
  <2>4. worker'[u] = worker[u]
    BY <1>0, <2>1, <2>2
  <2>5. QED BY <1>1, <2>1, <2>3, <2>4 DEF Unwoken
<1>5. QED BY <1>2, <1>3, <1>4 DEF Next

\* the end of the sequential part of a reconcile that asks for no other one
Finishes(u) ==
    LET view == worker[u].view IN
    \/ /\ worker[u].pc = "patch" /\ worker'[u].pc = "joined"
       /\ StoreGroups(Merged(u, rw.groups))
    \/ /\ worker[u].pc = "sync" /\ worker'[u].pc = "joined"
       /\ ~Matched(rwCache, view)
    \/ /\ worker[u].pc = "sync"
       /\ HoldsCurrent(u, view, rwCache.locks)
       /\ \/ worker'[u].pc = "joined" /\ Synced(u, rwCache) = rwCache.groups
          \/ worker'[u].pc = "patch" /\ worker'[u].target = rwCache

\* a reconcile that was started goes on
GoesOn(u) ==
    /\ worker[u].pc # "idle"
    /\ worker'[u].pc # "idle" => SameVersion(worker'[u].view, worker[u].view)
    /\ \/ u \in svQueue'
       \/ worker'[u].pc \in {"grab", "grabWrite", "sync"}
       \/ worker'[u].pc = worker[u].pc /\ worker'[u].target = worker[u].target
       \/ worker[u].pc = "joined" /\ worker'[u].pc = "idle"
       \/ Finishes(u)

(* The end of the sequential part.                                         *)
LEMMA JoinedFields ==
    ASSUME TypeOK, NEW u \in Views, NEW view, Joined(u, view)
    PROVE  worker'[u].pc = "joined" /\ worker'[u].view = view
<1>1. worker \in [Views -> WorkerType] /\ worker[u] \in WorkerType
  BY DEF TypeOK
<1>2. worker'[u] = [worker[u] EXCEPT !.pc = "joined", !.view = view,
                                     !.target = NoRisingWave(0), !.tries = 0]
  BY <1>1 DEF Joined
<1>3. QED BY <1>1, <1>2 DEF WorkerType

(* RetryInterval tries again, or asks for another reconcile.               *)
LEMMA GrabFailsGoesOn ==
    ASSUME TypeOK, NEW u \in Views, worker[u].pc \in {"grab", "grabWrite"}, GrabFails(u)
    PROVE  GoesOn(u)
<1>0. worker \in [Views -> WorkerType] /\ worker[u] \in WorkerType
  BY DEF TypeOK
<1>1. SameVersion(worker[u].view, worker[u].view)
  BY DEF SameVersion
<1>2. CASE worker' = [worker EXCEPT ![u].pc = "grab", ![u].tries = @ + 1,
                                    ![u].target = NoRisingWave(0)]
  <2>1. worker'[u] = [worker[u] EXCEPT !.pc = "grab", !.tries = @ + 1,
                                       !.target = NoRisingWave(0)]
    BY <1>0, <1>2
  <2>2. worker'[u].pc = "grab" /\ worker'[u].view = worker[u].view
    BY <1>0, <2>1 DEF WorkerType
  <2>3. QED BY <1>1, <2>2 DEF GoesOn
<1>3. CASE Joined(u, worker[u].view) /\ svQueue' = svQueue \cup {u}
  BY <1>1, <1>3, JoinedFields DEF GoesOn
<1>4. QED BY <1>2, <1>3 DEF GrabFails

(* What the steps of a reconcile do, one action at a time.                 *)
LEMMA OwnStep ==
    ASSUME TypeOK, NEW u \in Views, ViewStep(u), ~ReconcileView(u)
    PROVE  GoesOn(u)
<1> DEFINE view == worker[u].view
<1>0. /\ worker \in [Views -> WorkerType] /\ worker[u] \in WorkerType
      /\ view \in ViewType
  BY DEF TypeOK, WorkerType
<1>1. SameVersion(view, view)
  BY DEF SameVersion
<1>2. CASE GrabOrUpdateScaleViewLock(u)
  <2>1. worker[u].pc = "grab"
    BY <1>2 DEF GrabOrUpdateScaleViewLock
  <2>2. CASE worker' = [worker EXCEPT ![u].pc = "sync"]
    <3>1. worker'[u] = [worker[u] EXCEPT !.pc = "sync"]
      BY <1>0, <2>2
    <3>2. worker'[u].pc = "sync" /\ worker'[u].view = view
      BY <1>0, <3>1 DEF WorkerType
    <3>3. QED BY <1>1, <2>1, <3>2 DEF GoesOn
  <2>3. CASE worker' = [worker EXCEPT ![u] =
                          [@ EXCEPT !.pc = "grabWrite", !.target = rwCache]]
    <3>1. worker'[u] = [worker[u] EXCEPT !.pc = "grabWrite", !.target = rwCache]
      BY <1>0, <2>3
    <3>2. worker'[u].pc = "grabWrite" /\ worker'[u].view = view
      BY <1>0, <3>1 DEF WorkerType
    <3>3. QED BY <1>1, <2>1, <3>2 DEF GoesOn
  <2>4. CASE GrabFails(u)
    BY <2>1, <2>4, GrabFailsGoesOn
  <2>5. QED BY <1>2, <2>2, <2>3, <2>4 DEF GrabOrUpdateScaleViewLock
<1>3. CASE UpdateLock(u)
  <2>1. worker[u].pc = "grabWrite"
    BY <1>3 DEF UpdateLock
  <2>2. CASE Joined(u, [view EXCEPT !.locked = TRUE]) /\ svQueue' = svQueue \cup {u}
    <3>1. SameVersion([view EXCEPT !.locked = TRUE], view)
      BY <1>0 DEF SameVersion, ViewType
    <3> HIDE DEF view
    <3>2. QED BY <2>1, <2>2, <3>1, JoinedFields DEF GoesOn, view
  <2>3. CASE GrabFails(u)
    BY <2>1, <2>3, GrabFailsGoesOn
  <2>4. QED BY <1>3, <2>2, <2>3 DEF UpdateLock
<1>4. CASE SyncGroupReplicasToRisingWave(u)
  <2>1. worker[u].pc = "sync"
    BY <1>4 DEF SyncGroupReplicasToRisingWave
  <2>2. CASE Joined(u, view) /\ (~Matched(rwCache, view) \/ svQueue' = svQueue \cup {u})
    BY <1>1, <2>1, <2>2, JoinedFields DEF GoesOn, Finishes
  <2>3. CASE /\ HoldsCurrent(u, view, rwCache.locks)
             /\ Synced(u, rwCache) = rwCache.groups /\ Joined(u, view)
    BY <1>1, <2>1, <2>3, JoinedFields DEF GoesOn, Finishes
  <2>4. CASE /\ HoldsCurrent(u, view, rwCache.locks)
             /\ worker' = [worker EXCEPT ![u] =
                             [@ EXCEPT !.pc = "patch", !.target = rwCache]]
    <3>1. worker'[u] = [worker[u] EXCEPT !.pc = "patch", !.target = rwCache]
      BY <1>0, <2>4
    <3>2. /\ worker'[u].pc = "patch" /\ worker'[u].view = view
          /\ worker'[u].target = rwCache
      BY <1>0, <3>1 DEF WorkerType
    <3>3. QED BY <1>1, <2>1, <2>4, <3>2 DEF GoesOn, Finishes
  <2>5. QED BY <1>4, <2>2, <2>3, <2>4 DEF SyncGroupReplicasToRisingWave
<1>5. CASE PatchReplicas(u)
  <2>1. /\ worker[u].pc = "patch" /\ Joined(u, view)
        /\ StoreGroups(Merged(u, rw.groups)) \/ svQueue' = svQueue \cup {u}
    BY <1>5 DEF PatchReplicas
  <2>2. QED BY <1>1, <2>1, JoinedFields DEF GoesOn, Finishes
<1>6. CASE SyncGroupReplicasStatus(u)
  <2>1. worker'[u] = [worker[u] EXCEPT !.synced = TRUE, !.view = StatusOf(view)]
    BY <1>0, <1>6 DEF SyncGroupReplicasStatus
  <2>2. /\ worker'[u].pc = worker[u].pc /\ worker'[u].target = worker[u].target
        /\ worker'[u].view = StatusOf(view)
    BY <1>0, <2>1 DEF WorkerType
  <2>3. SameVersion(StatusOf(view), view)
    BY <1>0 DEF StatusOf, SameVersion, ViewType
  <2>4. worker[u].pc # "idle"
    BY <1>6 DEF SyncGroupReplicasStatus
  <2>5. QED BY <2>2, <2>3, <2>4 DEF GoesOn
<1>7. ASSUME NEW other \in BOOLEAN, UpdateScaleViewStatus(u, other)
      PROVE  GoesOn(u)
  <2>1. worker[u].pc = "joined" /\ worker'[u] = IdleWorker
    BY <1>0, <1>7 DEF UpdateScaleViewStatus
  <2>2. worker'[u].pc = "idle"
    BY <2>1 DEF IdleWorker
  <2>3. QED BY <2>1, <2>2 DEF GoesOn
<1>8. QED BY <1>2, <1>3, <1>4, <1>5, <1>6, <1>7 DEF ViewStep

(* A reconcile starts on what the informer shows.                          *)
LEMMA StartStep ==
    ASSUME TypeOK, InformersCatchUp, NEW u \in Views, ReconcileView(u), Unwoken(u)'
    PROVE  /\ sv'[u] = sv[u]
           /\ sv[u].uid = 0 => worker'[u].pc = "idle"
           /\ sv[u].uid # 0 => worker'[u].pc = "grab" /\ worker'[u].view = sv[u]
<1>0. worker \in [Views -> WorkerType]
  BY DEF TypeOK
<1>1. /\ sv' = sv /\ svEvents' = svEvents /\ worker[u].pc = "idle"
      /\ worker' = IF svCache[u].uid = 0
                   THEN worker
                   ELSE [worker EXCEPT ![u] =
                            [IdleWorker EXCEPT !.pc = "grab", !.view = svCache[u],
                                               !.was = svCache[u].locked]]
  BY DEF ReconcileView, api
<1>2. svCache[u] = sv[u]
  BY <1>1 DEF Unwoken, InformersCatchUp
<1>3. CASE sv[u].uid = 0
  BY <1>1, <1>2, <1>3
<1>4. CASE sv[u].uid # 0
  <2>1. worker'[u] = [IdleWorker EXCEPT !.pc = "grab", !.view = sv[u], !.was = sv[u].locked]
    BY <1>0, <1>1, <1>2, <1>4
  <2>2. QED BY <1>1, <1>4, <2>1 DEF IdleWorker
<1>5. QED BY <1>3, <1>4

(* A reconcile in flight is woken again when its view changes.             *)
LEMMA OwnUnwoken ==
    ASSUME TypeOK, Next, NEW u \in Views, ~ReconcileView(u), ~Restart, Unwoken(u)'
    PROVE  Unwoken(u) /\ sv'[u] = sv[u]
<1>1. CASE ~ViewStep(u)
  BY <1>1, OtherStep
<1>2. CASE ViewStep(u)
  <2>1. svQueue \subseteq svQueue'
    BY <1>2 DEF ViewStep, GrabOrUpdateScaleViewLock, UpdateLock, GrabFails,
             SyncGroupReplicasToRisingWave, PatchReplicas, SyncGroupReplicasStatus,
             UpdateScaleViewStatus
  <2>2. \/ sv'[u] = sv[u] /\ svEvents'[u] = svEvents[u]
        \/ svEvents'[u] # {}
    BY <1>2, ViewWrittenByWorker DEF Written
  <2>3. QED BY <2>1, <2>2 DEF Unwoken
<1>3. QED BY <1>1, <1>2

(* The last reconcile of a view works on the view that is stored.          *)
LEMMA LastReadsCurrentStep ==
    ASSUME TypeOK, InformersCatchUp, LastReadsCurrent, Next
    PROVE  LastReadsCurrent'
<1> SUFFICES ASSUME NEW u \in Views, Unwoken(u)', worker'[u].pc # "idle"
             PROVE  SameVersion(worker'[u].view, sv'[u])
  BY DEF LastReadsCurrent
<1>1. ~Restart
  BY DEF Restart, IdleWorker
<1>2. CASE ReconcileView(u)
  <2>1. worker'[u].view = sv'[u]
    BY <1>2, StartStep
  <2>2. QED BY <2>1 DEF SameVersion
<1>3. CASE ~ReconcileView(u)
  <2>1. Unwoken(u) /\ sv'[u] = sv[u]
    BY <1>1, <1>3, OwnUnwoken
  <2>2. CASE ViewStep(u)
    <3>1. GoesOn(u)
      BY <1>3, <2>2, OwnStep
    <3>2. SameVersion(worker'[u].view, worker[u].view) /\ SameVersion(worker[u].view, sv[u])
      BY <2>1, <3>1 DEF GoesOn, LastReadsCurrent
    <3>3. QED BY <2>1, <3>2 DEF SameVersion
  <2>3. CASE ~ViewStep(u)
    <3>1. worker'[u] = worker[u]
      BY <1>1, <2>3, OtherStep
    <3>2. QED BY <2>1, <3>1 DEF LastReadsCurrent
  <2>4. QED BY <2>2, <2>3
<1>4. QED BY <1>2, <1>3

(* A reconcile ends with a lock at the generation of its view, or asks for *)
(* another one.                                                            *)
LEMMA BoundViewsHoldStep ==
    ASSUME HistoryInv, HistoryInv', InformersCatchUp, RisingWavesInOrder, TargetsCached,
           CurrentLocksKept, LastReadsCurrent, BoundViewsHold, Next
    PROVE  BoundViewsHold'
<1> SUFFICES ASSUME NEW u \in Views, Unwoken(u)', Bound(u)',
                    worker'[u].pc \in {"idle", "joined", "patch"}
             PROVE  HoldsCurrent(u, sv'[u], rw'.locks)
  BY DEF BoundViewsHold
<1>0. TypeOK /\ sv'[u].uid # 0
  BY DEF HistoryInv, Bound
<1>1. ~Restart
  BY <1>0 DEF Restart, Unwoken
<1>2. ~ReconcileView(u)
  BY <1>0, StartStep
<1>3. Unwoken(u) /\ sv'[u] = sv[u]
  BY <1>0, <1>1, <1>2, OwnUnwoken
<1>4. Bound(u) /\ rw'.uid = rw.uid
  BY <1>0, <1>3, BoundBefore
<1>5. SUFFICES HoldsCurrent(u, sv[u], rw.locks)
  BY <1>3, <1>4, CurrentLockStays
<1>6. CASE worker[u].pc \in {"idle", "joined", "patch"}
  BY <1>3, <1>4, <1>6 DEF BoundViewsHold
<1>7. CASE worker[u].pc \notin {"idle", "joined", "patch"}
  <2>1. ViewStep(u)
    BY <1>0, <1>1, <1>7, OtherStep
  <2>2. GoesOn(u) /\ u \notin svQueue'
    BY <1>0, <1>2, <2>1, OwnStep DEF Unwoken
  <2>3. \/ ~Matched(rwCache, worker[u].view)
        \/ HoldsCurrent(u, worker[u].view, rwCache.locks)
    BY <1>7, <2>2 DEF GoesOn, Finishes
  <2>4. SameVersion(worker[u].view, sv[u])
    BY <1>3, <1>7 DEF LastReadsCurrent
  <2>5. rwCache.uid = rw.uid /\ rwCache \in RisingWaveCopies
    BY <1>4 DEF TargetsCached, RisingWaveCopies
  <2>6. Matched(rwCache, worker[u].view)
    BY <1>4, <2>4, <2>5 DEF Matched, SameVersion, Bound
  <2>7. HoldsCurrent(u, sv[u], rwCache.locks)
    BY <2>3, <2>4, <2>6 DEF HoldsCurrent, SameVersion
  <2>8. QED BY <1>4, <2>5, <2>7 DEF CurrentLocksKept
<1>8. QED BY <1>6, <1>7

(* When nothing is left to write, the groups of the lock run its replicas. *)
LEMMA SyncedInStep ==
    ASSUME LockInv, NEW l \in rw.locks, worker[l.name].view.uid = l.uid,
           \A g \in LockedGroups(l) : Synced(l.name, rw)[g] = rw.groups[g]
    PROVE  InStep(l)
<1> DEFINE v == l.name
           k == CHOOSE m \in rw.locks : m.name = v /\ m.uid = worker[v].view.uid
<1>1. \A m \in rw.locks : m.name = v => m = l
  BY DEF LockInv, LockExclusive, Exclusive
<1>2. k = l
  BY <1>1
<1>3. Synced(v, rw) = WriteReplicas(rw.groups, k)
  BY DEF Synced
<1> HIDE DEF v, k
<1>4. Synced(v, rw) = WriteReplicas(rw.groups, l)
  BY <1>2, <1>3
<1>5. LockedGroups(l) \subseteq Groups
  <2>1. l.groups \in Seq(GroupLockType)
    BY DEF LockInv, TypeOK, RisingWaveType, LockType
  <2>2. \A i \in DOMAIN l.groups : l.groups[i] \in GroupLockType
    BY <2>1
  <2>3. QED BY <2>2 DEF GroupLockType, LockedGroups
<1>6. ASSUME NEW g \in LockedGroups(l)
      PROVE  rw.groups[g] \in {LockValue(l, g), Absent}
  <2>1. WriteReplicas(rw.groups, l)[g] =
           IF rw.groups[g] # Absent /\ g \in LockedGroups(l)
           THEN LockValue(l, g) ELSE rw.groups[g]
    BY <1>5 DEF WriteReplicas
  <2>2. WriteReplicas(rw.groups, l)[g] = rw.groups[g]
    BY <1>4 DEF v
  <2>3. QED BY <2>1, <2>2
<1>7. QED BY <1>6 DEF InStep

(* The patch of a worker carries all the groups of its lock.               *)
LEMMA MergedCarriesLock ==
    ASSUME HistoryInv, LockInv, NEW l \in rw.locks, worker[l.name].view.uid = l.uid,
           NEW groups, NEW g \in LockedGroups(l)
    PROVE  Merged(l.name, groups)[g] = Synced(l.name, worker[l.name].target)[g]
<1> DEFINE v == l.name
           view == worker[v].view
<1>1. v \in Views /\ l.uid # 0
  BY DEF LockInv, TypeOK, RisingWaveType, LockType, LocksPinned
<1>2. view \in ViewCopies(v)
  BY DEF ViewCopies
<1>3. PolicyGroups(view.policy) = LockedGroups(l)
  BY <1>2 DEF LockInv, LocksPinned
<1>4. view.policy \in Policies
  BY <1>1, <1>2 DEF HistoryInv, ViewsInOrder, ViewInOrder
<1> HIDE DEF view
<1>5. PICK i \in DOMAIN view.policy : view.policy[i].group = g
  BY <1>3 DEF PolicyGroups
<1>6. /\ view.policy \in Seq(PolicyEntries) /\ view.policy # <<>>
      /\ \A a, b \in DOMAIN view.policy :
            ComponentOf[view.policy[a].group] = ComponentOf[view.policy[b].group]
  BY <1>4, PolicyAssumption DEF PolicyShape
<1>7. 1 \in DOMAIN view.policy /\ view.policy[i] \in PolicyEntries
  <2>1. Len(view.policy) \in Nat /\ DOMAIN view.policy = 1 .. Len(view.policy)
    BY <1>6
  <2>2. Len(view.policy) # 0
    BY <1>6
  <2>3. QED BY <1>5, <1>6, <2>1, <2>2
<1>8. ComponentOf[g] = ComponentOf[view.policy[1].group] /\ g \in Groups
  BY <1>5, <1>6, <1>7 DEF PolicyEntries
<1>9. QED BY <1>8 DEF Merged, view

(* A reconcile ends with the groups of its lock at the lock's replicas, or *)
(* another one is going to follow.                                         *)
LEMMA LocksInStepStep ==
    ASSUME HistoryInv, LockInv, InformersCatchUp, LastReadsCurrent, LocksInStep, Next
    PROVE  LocksInStep'
<1> SUFFICES ASSUME rw'.uid # 0, rwEvents' = {}, NEW l \in rw'.locks,
                    Unwoken(l.name)', sv'[l.name].uid = l.uid
             PROVE  \/ InStep(l)'
                    \/ worker'[l.name].pc \in {"grab", "grabWrite", "sync"}
                    \/ worker'[l.name].pc = "patch" /\ worker'[l.name].target = rw'
  BY DEF LocksInStep
<1> DEFINE v == l.name
<1>0. TypeOK /\ LocksInOrder
  BY DEF HistoryInv
<1>1. ~Restart
  BY DEF Restart, Unwoken
<1>2. rw' = rw /\ rwCache = rw /\ rwEvents = {}
  <2>1. CASE /\ rw' = rw
             /\ rwCache' \in rwEvents
             /\ rwEvents' = rwEvents \ {rwCache'}
             /\ svQueue' = svQueue \cup {k.name : k \in rwCache'.locks \cup rwCache.locks}
    <3>1. rwCache' = rw
      BY <2>1 DEF InformersCatchUp
    <3>2. l.name \in svQueue'
      BY <2>1, <3>1
    <3>3. QED BY <3>2 DEF Unwoken
  <2>2. CASE rw' = rw /\ rwEvents' = rwEvents
    BY <2>2 DEF InformersCatchUp
  <2>3. QED BY <1>0, <1>1, <2>1, <2>2, RisingWaveStepCases DEF Rewritten
<1>3. l \in rw.locks /\ v \in Views /\ l.uid # 0
  BY <1>0, <1>2 DEF TypeOK, RisingWaveType, LockType, LocksInOrder, LockInOrder
<1>4. InStep(l) => InStep(l)'
  BY <1>2 DEF InStep
<1> HIDE DEF v
<1>5. CASE ReconcileView(v)
  BY <1>0, <1>3, <1>5, StartStep DEF v
<1>6. CASE ~ReconcileView(v)
  <2>1. Unwoken(v) /\ sv'[v] = sv[v] /\ sv[v].uid = l.uid
    <3>1. Unwoken(v) /\ sv'[v] = sv[v]
      BY <1>0, <1>1, <1>3, <1>6, OwnUnwoken DEF v
    <3>2. QED BY <3>1 DEF v
  <2>2. \/ InStep(l)
        \/ worker[v].pc \in {"grab", "grabWrite", "sync"}
        \/ worker[v].pc = "patch" /\ worker[v].target = rw
    BY <1>2, <1>3, <2>1 DEF LocksInStep, v
  <2>3. CASE ~ViewStep(v)
    <3>1. worker'[v] = worker[v]
      BY <1>0, <1>1, <1>3, <2>3, OtherStep
    <3>2. QED BY <1>2, <1>4, <2>2, <3>1 DEF v
  <2>4. CASE ViewStep(v) /\ ~InStep(l)
    <3>0. GoesOn(v) /\ v \notin svQueue'
      BY <1>0, <1>3, <1>6, <2>4, OwnStep DEF Unwoken, v
    <3>1. worker[v].pc # "idle" /\ worker[v].pc # "joined"
      BY <2>2, <2>4
    <3>2. SameVersion(worker[v].view, sv[v])
      BY <1>3, <2>1, <3>1 DEF LastReadsCurrent
    <3>3. worker[v].view.uid = l.uid
      BY <2>1, <3>2 DEF SameVersion
    <3>4. Matched(rwCache, worker[v].view)
      <4>1. LockInOrder(l, rw.uid)
        BY <1>0, <1>3 DEF LocksInOrder
      <4>2. sv[v].target = rw.uid
        BY <2>1, <4>1 DEF LockInOrder, ViewCopies, v
      <4>3. QED BY <1>2, <3>2, <4>2 DEF SameVersion, Matched
    <3>5. ~(\A g \in LockedGroups(l) : Synced(v, rw)[g] = rw.groups[g])
      BY <1>3, <2>4, <3>3, SyncedInStep DEF v
    <3>6. CASE worker[v].pc = "patch" /\ StoreGroups(Merged(v, rw.groups))
      <4>1. worker[v].target = rw
        BY <2>2, <2>4, <3>6
      <4>2. Merged(v, rw.groups) = rw.groups
        <5>1. rw \in RisingWaveType /\ rw.rv \in Nat
          BY <1>0 DEF TypeOK, RisingWaveType
        <5>2. QED BY <1>2, <3>6, <5>1 DEF StoreGroups, StoreRisingWave, RisingWaveType
      <4>3. \A g \in LockedGroups(l) : Merged(v, rw.groups)[g] = Synced(v, rw)[g]
        BY <1>3, <3>3, <4>1, MergedCarriesLock DEF v
      <4>4. QED BY <3>5, <4>2, <4>3
    <3>7. CASE ~(worker[v].pc = "patch" /\ StoreGroups(Merged(v, rw.groups)))
      BY <1>2, <2>2, <2>4, <3>0, <3>1, <3>4, <3>5, <3>7 DEF GoesOn, Finishes, v
    <3>8. QED BY <3>6, <3>7
  <2>5. QED BY <1>4, <2>3, <2>4
<1>7. QED BY <1>5, <1>6

(* The operator loses no wakeup: for any number of views, groups and       *)
(* policies, whatever is not done yet is known to an event that is on its  *)
(* way, to a work queue or to a reconcile in flight, and restarts do not   *)
(* change that.  The webhook on views is needed: a view that the cache     *)
(* could not match would never be looked at again.                         *)
THEOREM ProgressInvariant ==
    ASSUME ValidateScaleViews
    PROVE  Spec => []ProgressInv
<1>1. Init => ProgressInv
  <2> SUFFICES ASSUME Init PROVE ProgressInv
    OBVIOUS
  <2>0. HistoryInv
    BY InitHistoryInv
  <2>1. /\ rw = InitRisingWave /\ rwCache = InitRisingWave /\ rwEvents = {}
        /\ ctrl = IdleCtrl
        /\ \A v \in Views : /\ worker[v] = IdleWorker
                            /\ sv[v] = NoView(0) /\ svCache[v] = NoView(0)
                            /\ svEvents[v] = {}
    BY DEF Init
  <2>2. InformersCatchUp /\ DeletesAnnounced
    BY <2>1 DEF InformersCatchUp, DeletesAnnounced, NoView
  <2>3. RisingWavesInOrder
    BY <2>1 DEF RisingWavesInOrder, RisingWaveCopies, IdleWorker, IdleCtrl,
                InitRisingWave, NoRisingWave, NoView
  <2>4. rw.locks = {} /\ \A v \in Views : ~Bound(v) /\ worker[v].pc = "idle"
    BY <2>1 DEF InitRisingWave, Bound, NoView, IdleWorker
  <2>5. DeadLocksNoticed /\ LocksInStep
    BY <2>4 DEF DeadLocksNoticed, LocksInStep
  <2>6. TargetsCached /\ CurrentLocksKept /\ LastReadsCurrent /\ BoundViewsHold
    BY <2>4 DEF TargetsCached, CurrentLocksKept, LastReadsCurrent, BoundViewsHold
  <2>7. QED BY <2>0, <2>2, <2>3, <2>5, <2>6 DEF ProgressInv
<1>2. ASSUME ProgressInv, HistoryInv', LockInv, Next PROVE ProgressInv'
  <2>0. /\ HistoryInv /\ TypeOK /\ ControllerReads /\ VersionsAgree /\ ViewsInOrder
        /\ InformersCatchUp /\ RisingWavesInOrder /\ DeletesAnnounced
        /\ DeadLocksNoticed /\ TargetsCached /\ CurrentLocksKept
        /\ LastReadsCurrent /\ BoundViewsHold /\ LocksInStep
    BY <1>2 DEF ProgressInv, HistoryInv
  <2>1. InformersCatchUp' /\ RisingWavesInOrder' /\ DeletesAnnounced'
    BY <1>2, <2>0, CatchUpStep, RisingWavesInOrderStep, DeletesAnnouncedStep
  <2>2. DeadLocksNoticed' /\ TargetsCached' /\ CurrentLocksKept'
    BY <1>2, <2>0, DeadLocksNoticedStep, TargetsCachedStep, CurrentLocksKeptStep
  <2>3. LastReadsCurrent' /\ BoundViewsHold' /\ LocksInStep'
    BY <1>2, <2>0, LastReadsCurrentStep, BoundViewsHoldStep, LocksInStepStep
  <2>4. QED BY <1>2, <2>1, <2>2, <2>3 DEF ProgressInv
<1>3. ASSUME ProgressInv, HistoryInv', UNCHANGED vars PROVE ProgressInv'
  BY <1>3 DEF ProgressInv, vars, InformersCatchUp, RisingWavesInOrder, RisingWaveCopies,
              DeletesAnnounced, DeadLocksNoticed, Releasing, TargetsCached, Bound,
              CurrentLocksKept, LastReadsCurrent, Unwoken, BoundViewsHold, LocksInStep,
              InStep
<1>4. QED BY <1>1, <1>2, <1>3, HistoryInvariant, LockInvariant, PTL DEF Spec

(* The operator never goes to sleep on unfinished work: when nothing is    *)
(* queued, in flight or undelivered, every lock belongs to a view that     *)
(* exists, every view of the RisingWave holds a lock at its generation,    *)
(* and the groups of every lock run its replicas.                          *)
THEOREM IdleMeansSettled ==
    ASSUME ValidateScaleViews
    PROVE  Spec => []SettledWhenIdle
<1>1. ASSUME ProgressInv PROVE SettledWhenIdle
  <2> SUFFICES ASSUME Quiescent, rw.uid # 0
               PROVE  /\ \A l \in rw.locks : sv[l.name].uid = l.uid
                      /\ \A v \in Views :
                            sv[v].uid # 0 /\ sv[v].target = rw.uid
                                => HoldsCurrent(v, sv[v], rw.locks)
                      /\ \A l \in rw.locks : InStep(l)
    BY DEF SettledWhenIdle, InStep
  <2>0. /\ rwEvents = {} /\ ~rwQueue /\ ctrl.pc = "idle"
        /\ \A v \in Views : svEvents[v] = {} /\ worker[v].pc = "idle" /\ Unwoken(v)
    BY DEF Quiescent, Unwoken
  <2>1. \A l \in rw.locks : l.name \in Views
    BY <1>1 DEF ProgressInv, HistoryInv, TypeOK, RisingWaveType, LockType
  <2>2. \A l \in rw.locks : sv[l.name].uid = l.uid
    BY <1>1, <2>0, <2>1 DEF ProgressInv, DeadLocksNoticed, Releasing
  <2>3. \A v \in Views : sv[v].uid # 0 /\ sv[v].target = rw.uid
                             => HoldsCurrent(v, sv[v], rw.locks)
    BY <1>1, <2>0 DEF ProgressInv, BoundViewsHold, Bound
  <2>4. \A l \in rw.locks : InStep(l)
    BY <1>1, <2>0, <2>1, <2>2 DEF ProgressInv, LocksInStep
  <2>5. QED BY <2>2, <2>3, <2>4
<1>2. QED BY <1>1, ProgressInvariant, PTL
=============================================================================
