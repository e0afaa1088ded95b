------------------------ MODULE RisingWaveWorkflow ------------------------
(***************************************************************************)
(* The RisingWave controller: the workflow of one reconcile, the           *)
(* conditions it keeps in the status, and the objects it syncs, against an *)
(* API server, lagging informer caches, users, rollouts and restarts.      *)
(*                                                                         *)
(* A reconcile works on a snapshot of the RisingWave taken from the cache. *)
(* Its branches run in parallel: they read conditions from the snapshot    *)
(* and write to one mutable copy of the status, which the last action      *)
(* sends to the API server.  Three branches share one run of SyncAllAndWait*)
(* and each marks its own condition when it gets past the barrier.         *)
(***************************************************************************)
EXTENDS RisingWaveObjects

CONSTANTS
    Specs,           \* the specifications users write
    FirstSpecs,      \* bound: the ones they start with
    MaxEdits,        \* bound: changes of .spec, and creations after the first
    MaxEvents,       \* bound: pauses, deletions, disruptions, failing API
                     \*   requests and restarts
    Informers        \* bound: the kinds whose caches move together

ASSUME BoundsAssumption ==
    MaxEdits \in Nat /\ MaxEvents \in Nat /\ UNION Informers = Kinds /\ FirstSpecs \subseteq Specs

ASSUME SpecsAssumption ==
    Specs \subseteq [standalone : BOOLEAN, kruise : BOOLEAN, monitor : BOOLEAN,
                    groups : [Components -> SUBSET Groups], volumes : Nat]

VARIABLES
    rw,       \* the stored RisingWave
    rwCache,  \* the one the informer shows
    objs,     \* the stored objects
    cache,    \* the ones the informers show
    pending,  \* informers with events they have not delivered
    queue,    \* is the RisingWave in the work queue?
    wf,       \* the reconcile in flight
    version,  \* the version of the operator
    uids,     \* the number of RisingWaves created so far
    edits,    \* how many of MaxEdits are left
    events    \* and of MaxEvents

vars == <<rw, rwCache, objs, cache, pending, queue, wf, version, uids, edits, events>>

Conditions == {"Initializing", "Running", "Upgrading"}

(* The status of a condition, "None" when there is no such condition.      *)
NoConditions == [t \in Conditions |-> "None"]

NoStatus == [observed |-> 0, conds |-> NoConditions]
NoRW == [uid |-> 0, gen |-> 0, paused |-> FALSE, deleting |-> FALSE,
         spec |-> [standalone |-> FALSE], status |-> NoStatus]

NewRW(uid, spec) == [uid |-> uid, gen |-> 1, paused |-> FALSE, deleting |-> FALSE,
                     spec |-> spec, status |-> NoStatus]

Idle == [stage |-> "idle"]

(* Every write leaves an event with the informer of its kind.              *)
RisingWaveInformer == {"RisingWave"}

Notify == pending' = pending
            \cup {kinds \in Informers : \E o \in Objects :
                     Kind(o) \in kinds /\ objs'[o] # objs[o]}
            \cup (IF rw' # rw THEN {RisingWaveInformer} ELSE {})

-----------------------------------------------------------------------------
(* RisingWaveManager: conditions are read from the snapshot r and written  *)
(* to the mutable status.                                                  *)

ConditionIs(r, type, status) == r.status.conds[type] = status

UpdateCondition(conds, type, status) == [conds EXCEPT ![type] = status]
RemoveCondition(conds, type) == [conds EXCEPT ![type] = "None"]

IsObservedGenerationOutdated(r) == r.status.observed < r.gen

FirstTimeObserved(r) == r.status.conds = NoConditions

(* One of the three branches behind the shared SyncAllAndWait is open.     *)
NeedsSync(r) == \/ ConditionIs(r, "Initializing", "True")
                \/ ConditionIs(r, "Running", "False")
                \/ ConditionIs(r, "Upgrading", "True")

NeedsUpgrade(r) == ConditionIs(r, "Running", "True") /\ IsObservedGenerationOutdated(r)

-----------------------------------------------------------------------------
(* A reconcile.                                                            *)
(*   stage    "sync", "barrier", then "done"                               *)
(*   collect  has syncRunningStatus run, and what did it find?             *)
(*   monitor  is syncServiceMonitorIfPossible still to run?                *)
(*   failed   some action asked for a requeue                              *)

Active == wf # Idle

NextWork == queue /\ ~Active

(* Reconcile: nothing to do for a RisingWave that is gone, paused or being *)
(* deleted.                                                                *)
Skip ==
    /\ NextWork
    /\ rwCache = NoRW \/ rwCache.paused \/ rwCache.deleting
    /\ queue' = FALSE
    /\ UNCHANGED <<rw, rwCache, objs, cache, pending, wf, version, uids, edits, events>>

Start ==
    /\ NextWork
    /\ rwCache # NoRW /\ ~rwCache.paused /\ ~rwCache.deleting
    /\ queue' = FALSE
    /\ LET r == rwCache
           conds == r.status.conds
           first == UpdateCondition(UpdateCondition(conds, "Initializing", "True"),
                                    "Running", "False")
       IN  wf' = [stage   |-> IF NeedsSync(r) THEN "sync" ELSE "done",
                  snap    |-> r,
                  status  |-> [observed |-> IF NeedsSync(r) THEN r.gen ELSE r.status.observed,
                               conds    |-> IF FirstTimeObserved(r) THEN first
                                            ELSE IF NeedsUpgrade(r)
                                            THEN UpdateCondition(conds, "Upgrading", "True")
                                            ELSE conds],
                  collect |-> "todo",
                  monitor |-> r.spec.monitor,
                  failed  |-> FALSE]
    /\ UNCHANGED <<rw, rwCache, objs, cache, pending, version, uids, edits, events>>

(* What a run of the actions of some units may leave behind.  Within an    *)
(* action the deletes come first and the first error ends it; the compute  *)
(* actions end with the first action that fails, the others join.  Every   *)
(* request is about an object of its own and depends on no other request,  *)
(* so one step stands for all their interleavings.  At most one request of *)
(* a run hits a fault.                                                     *)
Deletes == {o \in Objects : Request(o, cache[o], wf.snap) = "delete"}

ActionRan(act, ran, failing) ==
    \/ act \subseteq ran /\ act \cap failing = {}
    \/ \E f \in act \cap failing :
          /\ act \cap ran \cap failing = {f}
          /\ IF f \in Deletes THEN act \cap ran \subseteq Deletes
                              ELSE act \cap Deletes \subseteq ran

UnitRan(u, ran, failing) ==
    \A i \in DOMAIN ActionsOf(u) :
        IF RunsInOrder(u) /\ \E j \in 1 .. i - 1 : ActionsOf(u)[j] \cap failing # {}
        THEN ActionsOf(u)[i] \cap ran = {}
        ELSE ActionRan(ActionsOf(u)[i], ran, failing)

RunsOf(units, faulty) ==
    LET touched == UNION {UnitObjects(u) : u \in units}
        clean   == [o \in touched |-> AnswerTo(o, objs[o], cache[o], wf.snap, version)]
        answers == IF faulty
                   THEN UNION {{[clean EXCEPT ![o] = a] :
                            a \in FaultyAnswers(o, objs[o], cache[o], wf.snap, version)} :
                                o \in touched}
                   ELSE {clean}
        Failing(ans) == {o \in touched : ~ans[o].ok}
        Affected(ans) == UNION {UnitObjects(u) : u \in
                            {w \in units : UnitObjects(w) \cap Failing(ans) # {}}}
    IN  UNION {{[ok   |-> Failing(ans) = {},
                 objs |-> [o \in Objects |->
                             IF o \in touched \ skipped THEN ans[o].obj ELSE objs[o]]] :
                  skipped \in {k \in SUBSET Affected(ans) :
                    \A u \in units : UnitRan(u, touched \ k, Failing(ans))}} :
               ans \in answers}

(* A fault, like every disturbance, takes one of the events left.          *)
Faults == {FALSE} \cup (IF events > 0 THEN {TRUE} ELSE {})
Spend(faulty) == events' = IF faulty THEN events - 1 ELSE events
Disturb == events > 0 /\ events' = events - 1

(* syncConfigs, then syncAllComponents, which syncs the config again: an   *)
(* error skips the rest of SyncAllAndWait and requeues.                    *)
SyncConfigsFails ==
    /\ wf.stage = "sync"
    /\ \E faulty \in Faults : \E run \in RunsOf({"config"}, faulty) :
          /\ ~run.ok
          /\ objs' = run.objs
          /\ Spend(faulty)
    /\ wf' = [wf EXCEPT !.stage = "done", !.failed = TRUE]
    /\ UNCHANGED <<rw, rwCache, cache, queue, version, uids, edits>>
    /\ Notify

SyncAllComponents ==
    /\ wf.stage = "sync"
    /\ \E faulty \in Faults : \E run \in RunsOf(Units, faulty) :
          /\ objs' = run.objs
          /\ wf' = [wf EXCEPT !.stage = IF run.ok THEN "barrier" ELSE "done",
                              !.failed = @ \/ ~run.ok]
          /\ Spend(faulty)
    /\ UNCHANGED <<rw, rwCache, cache, queue, version, uids, edits>>
    /\ Notify

(* Past the barrier each of the three branches marks its own condition.    *)
(* Two other branches may write the same conditions: NeedsUpgrade sets     *)
(* Upgrading, and syncRunningStatus, which read the caches before, may     *)
(* still be about to turn Running off.  The last write wins.               *)
UpgradingMarks(conds, r) ==
    IF ~ConditionIs(r, "Upgrading", "True") THEN {conds}
    ELSE {UpdateCondition(conds, "Upgrading", "False")}
         \cup (IF NeedsUpgrade(r) THEN {UpdateCondition(conds, "Upgrading", "True")} ELSE {})

RunningMarks(conds, r, broken) ==
    IF ~ConditionIs(r, "Running", "False") THEN {conds}
    ELSE {UpdateCondition(conds, "Running", "True")}
         \cup (IF broken THEN {UpdateCondition(conds, "Running", "False")} ELSE {})

InitializingMark(conds, r) ==
    IF ConditionIs(r, "Initializing", "True") THEN RemoveCondition(conds, "Initializing")
                                              ELSE conds

GetterFails == \E o \in Objects : WaitedFor(o) /\ GetFails(o, cache[o], wf.snap)

AllComponentsReady ==
    /\ wf.stage = "barrier"
    /\ ~GetterFails
    /\ \A o \in Objects : Barrier(o, cache[o], wf.snap)
    /\ \E conds \in RunningMarks(InitializingMark(wf.status.conds, wf.snap),
                                 wf.snap, wf.collect = "broken") :
       \E marked \in UpgradingMarks(conds, wf.snap) :
          wf' = [wf EXCEPT !.stage = "done", !.status.conds = marked]
    /\ UNCHANGED <<rw, rwCache, objs, cache, pending, queue, version, uids, edits, events>>

(* The barrier exits, without a requeue unless a getter failed.            *)
KeepWaiting ==
    /\ wf.stage = "barrier"
    /\ GetterFails \/ \E o \in Objects : ~Barrier(o, cache[o], wf.snap)
    /\ wf' = [wf EXCEPT !.stage = "done", !.failed = @ \/ GetterFails]
    /\ UNCHANGED <<rw, rwCache, objs, cache, pending, queue, version, uids, edits, events>>

(* syncRunningStatus.                                                      *)
CollectRunningStatistics ==
    /\ Active /\ wf.collect = "todo"
    /\ LET r == wf.snap
           broken == \E o \in CollectedFor(r.spec) : Missing(o, cache[o], r)
           fails == \E o \in CollectedFor(r.spec) : GetFails(o, cache[o], r)
       IN  wf' = [wf EXCEPT
                    !.collect = IF fails \/ ~broken THEN "complete" ELSE "broken",
                    !.failed = @ \/ fails,
                    !.status.conds = IF ~fails /\ broken
                                     THEN UpdateCondition(@, "Running", "False") ELSE @]
    /\ UNCHANGED <<rw, rwCache, objs, cache, pending, queue, version, uids, edits, events>>

(* syncServiceMonitorIfPossible.  It shares nothing with the other         *)
(* branches, so it may as well run after them.                             *)
SyncServiceMonitor ==
    /\ wf.stage = "done" /\ wf.collect # "todo" /\ wf.monitor
    /\ \E faulty \in Faults : \E run \in RunsOf({"monitor"}, faulty) :
          /\ objs' = run.objs
          /\ wf' = [wf EXCEPT !.monitor = FALSE, !.failed = @ \/ ~run.ok]
          /\ Spend(faulty)
    /\ UNCHANGED <<rw, rwCache, cache, queue, version, uids, edits>>
    /\ Notify

(* UpdateRemoteRisingWaveStatus: nothing is sent when nothing changed;     *)
(* NotFound is skipped, a conflict or an error requeues.                   *)
BranchesDone == wf.stage = "done" /\ wf.collect # "todo" /\ ~wf.monitor

UpdateStatus_Overwrites ==
    /\ BranchesDone
    /\ rw' = IF rw # NoRW /\ wf.status # wf.snap.status
             THEN [rw EXCEPT !.status = wf.status] ELSE rw
    /\ queue' = (queue \/ wf.failed)
    /\ wf' = Idle
    /\ UNCHANGED <<rwCache, objs, cache, version, uids, edits, events>>
    /\ Notify

UpdateStatus ==
    /\ BranchesDone
    /\ \E faulty \in Faults :
          LET changed == wf.status # wf.snap.status
              stored  == changed /\ rw = wf.snap /\ ~faulty
              requeue == wf.failed \/ (changed /\ rw # NoRW /\ ~stored)
          IN  /\ faulty => changed
              /\ rw' = IF stored THEN [rw EXCEPT !.status = wf.status] ELSE rw
              /\ queue' = (queue \/ requeue \/ (faulty /\ changed))
              /\ Spend(faulty)
    /\ wf' = Idle
    /\ UNCHANGED <<rwCache, objs, cache, version, uids, edits>>
    /\ Notify

Worker == \/ Skip \/ Start \/ SyncConfigsFails \/ SyncAllComponents \/ AllComponentsReady
          \/ KeepWaiting \/ CollectRunningStatistics \/ SyncServiceMonitor
          \/ UpdateStatus

-----------------------------------------------------------------------------
(* Informers: the RisingWave's, and one per kind of object.  Every change  *)
(* of an owned object enqueues its owner; ServiceMonitors are not watched. *)

DeliverRisingWave ==
    /\ RisingWaveInformer \in pending
    /\ rwCache' = rw
    /\ pending' = pending \ {RisingWaveInformer}
    /\ queue' = TRUE
    /\ UNCHANGED <<rw, objs, cache, wf, version, uids, edits, events>>

DeliverObjects(kinds) ==
    /\ kinds \in pending
    /\ pending' = pending \ {kinds}
    /\ cache' = [o \in Objects |-> IF Kind(o) \in kinds THEN objs[o] ELSE cache[o]]
    /\ queue' = (queue \/ kinds # {"ServiceMonitor"})
    /\ UNCHANGED <<rw, rwCache, objs, wf, version, uids, edits, events>>

-----------------------------------------------------------------------------
(* Users, the workload controllers, the garbage collector and restarts.    *)

Create ==
    /\ rw = NoRW /\ edits > 0
    /\ \E spec \in Specs : rw' = NewRW(uids + 1, spec)
    /\ uids' = uids + 1
    /\ edits' = edits - 1
    /\ UNCHANGED <<rwCache, objs, cache, queue, wf, version, events>>
    /\ Notify

EditSpec ==
    /\ rw # NoRW /\ edits > 0
    /\ \E spec \in Specs \ {rw.spec} : rw' = [rw EXCEPT !.spec = spec, !.gen = @ + 1]
    /\ edits' = edits - 1
    /\ UNCHANGED <<rwCache, objs, cache, queue, wf, version, uids, events>>
    /\ Notify

(* The pause annotation is metadata: the generation stays.                 *)
TogglePause ==
    /\ rw # NoRW
    /\ Disturb
    /\ rw' = [rw EXCEPT !.paused = ~@]
    /\ UNCHANGED <<rwCache, objs, cache, queue, wf, version, uids, edits>>
    /\ Notify

(* Deleted in the background, or in the foreground: then it stays until    *)
(* its objects are gone.  Only deletions that a creation may follow are    *)
(* explored.                                                               *)
Delete ==
    /\ rw # NoRW /\ ~rw.deleting /\ edits > 0
    /\ Disturb
    /\ \/ rw' = NoRW
       \/ rw' = [rw EXCEPT !.deleting = TRUE]
    /\ UNCHANGED <<rwCache, objs, cache, queue, wf, version, uids, edits>>
    /\ Notify

Orphaned(o) == objs[o] # Absent /\ (objs[o].owner # rw.uid \/ rw.deleting)

CollectGarbage(kinds) ==
    /\ \E o \in Objects : Kind(o) \in kinds /\ Orphaned(o)
    /\ objs' = [o \in Objects |-> IF Kind(o) \in kinds /\ Orphaned(o) THEN Absent ELSE objs[o]]
    /\ UNCHANGED <<rw, rwCache, cache, queue, wf, version, uids, edits, events>>
    /\ Notify

FinishDelete ==
    /\ rw.deleting /\ \A o \in Objects : objs[o].owner # rw.uid
    /\ rw' = NoRW
    /\ UNCHANGED <<rwCache, objs, cache, queue, wf, version, uids, edits, events>>
    /\ Notify

RollOut(o) ==
    /\ IsWorkload(o) /\ objs[o] # Absent /\ ~objs[o].ready
    /\ objs' = [objs EXCEPT ![o].ready = TRUE]
    /\ UNCHANGED <<rw, rwCache, cache, queue, wf, version, uids, edits, events>>
    /\ Notify

(* Somebody deletes an object of the RisingWave, or its Pods fail.         *)
Disrupt(o) ==
    /\ objs[o] # Absent
    /\ Disturb
    /\ \/ objs' = [objs EXCEPT ![o] = Absent]
       \/ IsWorkload(o) /\ objs[o].ready /\ objs' = [objs EXCEPT ![o].ready = FALSE]
    /\ UNCHANGED <<rw, rwCache, cache, queue, wf, version, uids, edits>>
    /\ Notify

(* A restart drops the reconcile and lists everything anew, perhaps with a *)
(* new version of the operator.                                            *)
Restart ==
    /\ Disturb
    /\ wf' = Idle
    /\ queue' = TRUE
    /\ version' \in {version, version + 1}
    /\ rwCache' = rw
    /\ cache' = objs
    /\ pending' = {}
    /\ UNCHANGED <<rw, objs, uids, edits>>

-----------------------------------------------------------------------------
(* The RisingWave has just been created.                                   *)
Init ==
    /\ \E spec \in FirstSpecs : rw = NewRW(1, spec)
    /\ rwCache = NoRW
    /\ objs = [o \in Objects |-> Absent] /\ cache = objs
    /\ pending = {RisingWaveInformer}
    /\ queue = FALSE
    /\ wf = Idle
    /\ version = 1
    /\ uids = 1
    /\ edits = MaxEdits
    /\ events = MaxEvents

Deliveries == DeliverRisingWave \/ \E kinds \in Informers : DeliverObjects(kinds)

Users == Create \/ EditSpec \/ TogglePause \/ Delete

Converge == \/ FinishDelete
            \/ \E kinds \in Informers : CollectGarbage(kinds)
            \/ \E o \in Objects : RollOut(o)

Disruption == \E o \in Objects : Disrupt(o)

Next == Worker \/ Deliveries \/ Users \/ Converge \/ Disruption \/ Restart

Spec == Init /\ [][Next]_vars

(* Weak fairness of Worker, spelled out: a Worker step is possible exactly *)
(* when a reconcile is in flight or the key is queued, and the steps that  *)
(* change wf or take the key from the queue are those of Worker and the    *)
(* finitely many restarts.                                                 *)
WorkerSteps == wf' # wf \/ (queue /\ ~queue')

WorkerIsFair == []<>(~Active /\ ~queue) \/ []<><<WorkerSteps>>_vars

(* The work queue serves every key, informers catch up, workloads roll out *)
(* and the garbage collector runs.                                         *)
FairSpec == /\ Spec
            /\ WorkerIsFair
            /\ WF_vars(DeliverRisingWave)
            /\ \A kinds \in Informers : WF_vars(DeliverObjects(kinds))
            /\ WF_vars(Converge)

-----------------------------------------------------------------------------
ObjectValues ==
    [owner : 0 .. uids, gen : Nat \cup {NoSync}, volumes : Nat, version : 0 .. version,
     ready : BOOLEAN]
StatusValues ==
    [observed : Nat,
     conds : [Conditions -> {"None", "True", "False"}]]

RisingWaveValues ==
    [uid : 1 .. uids, gen : Nat \ {0}, paused : BOOLEAN, deleting : BOOLEAN,
     spec : Specs, status : StatusValues]
ReconcileValues ==
    [stage : {"sync", "barrier", "done"}, snap : RisingWaveValues, status : StatusValues,
     collect : {"todo", "complete", "broken"}, monitor : BOOLEAN, failed : BOOLEAN]

(* Types of the state.                                                     *)
TypeOK ==
    /\ rw \in RisingWaveValues \cup {NoRW}
    /\ rwCache \in RisingWaveValues \cup {NoRW}
    /\ objs \in [Objects -> ObjectValues]
    /\ cache \in [Objects -> ObjectValues]
    /\ pending \subseteq Informers \cup {RisingWaveInformer}
    /\ queue \in BOOLEAN
    /\ wf \in ReconcileValues \cup {Idle}
    /\ version \in Nat /\ uids \in Nat
    /\ edits \in 0 .. MaxEdits /\ events \in 0 .. MaxEvents

Live == rw # NoRW /\ ~rw.paused /\ ~rw.deleting

Owned(o) == objs[o] # Absent /\ objs[o].owner = rw.uid

(* The status says that the latest generation runs.                        *)
ReportsComplete ==
    /\ rw.status.observed = rw.gen
    /\ ConditionIs(rw, "Running", "True")
    /\ ~ConditionIs(rw, "Initializing", "True")
    /\ ~ConditionIs(rw, "Upgrading", "True")

(* Nothing is left to happen: no reconcile, no event, no rollout.          *)
Quiet ==
    /\ ~Active /\ ~queue /\ pending \subseteq {{"ServiceMonitor"}}
    /\ \A o \in Objects : ~Orphaned(o)
    /\ \A o \in Objects : IsWorkload(o) /\ objs[o] # Absent => objs[o].ready

(* Nothing is forgotten: when everything is quiet, the latest generation   *)
(* is observed and running, and every object it asks for exists.  Whatever *)
(* was edited, deleted, lost or interrupted on the way, some event or      *)
(* requeue brought the controller back to it.                              *)
SettledWhenQuiet ==
    Quiet /\ Live =>
        /\ ReportsComplete
        /\ \A o \in CollectedFor(rw.spec) : Wanted(o, rw.spec) => Owned(o)

(* The status does not claim a generation before its workloads carry it:   *)
(* while the latest generation is reported complete, no workload it asks   *)
(* for, and not the meta service, is still of an older one, however far    *)
(* the caches lag behind.                                                  *)
CompleteMeansSynced ==
    rw # NoRW /\ ReportsComplete =>
        \A o \in Objects : WaitedFor(o) /\ Wanted(o, rw.spec) /\ Owned(o) =>
            objs[o].gen = rw.gen

-----------------------------------------------------------------------------
(* Why: one reconcile at a time works on a snapshot of a cache that never  *)
(* goes back, so what it writes is never older than what was written.      *)

\* x was read before y
InOrder(x, y) ==
    x # NoRW /\ y # NoRW =>
        /\ x.uid <= y.uid
        /\ x.uid = y.uid => x.gen <= y.gen /\ y.status.observed <= x.gen

Snapshot == IF Active THEN wf.snap ELSE NoRW

CopiesInOrder ==
    /\ InOrder(Snapshot, rwCache) /\ InOrder(Snapshot, rw) /\ InOrder(rwCache, rw)
    /\ \A r \in {Snapshot, rwCache, rw} : r.status.observed <= r.gen

\* an object is built from one of the snapshots taken so far
ObjectInOrder(o, y) ==
    y # Absent =>
        /\ y.gen = NoSync <=> o = Config
        /\ \A r \in {Snapshot, rwCache, rw} :
              r # NoRW => /\ y.owner <= r.uid
                          /\ y.owner = r.uid => y.gen <= r.gen

ObjectsInOrder ==
    \A o \in Objects :
        /\ ObjectInOrder(o, objs[o])
        /\ ObjectInOrder(o, cache[o])
        /\ cache[o] # Absent /\ objs[o] # Absent =>
              /\ cache[o].owner <= objs[o].owner
              /\ cache[o].owner = objs[o].owner => cache[o].gen <= objs[o].gen

\* what a reconcile may make of the status it read
StatusFollows ==
    Active =>
        /\ wf.status.observed \in {wf.snap.gen, wf.snap.status.observed}
        /\ wf.status.conds["Initializing"] = "True" =>
              FirstTimeObserved(wf.snap) \/ ConditionIs(wf.snap, "Initializing", "True")

\* the status, of generation gen, says that this generation runs
Claims(status, gen) ==
    /\ status.observed = gen
    /\ status.conds["Running"] = "True"
    /\ status.conds["Initializing"] # "True"
    /\ status.conds["Upgrading"] # "True"

CarriesGeneration(r) ==
    \A o \in Objects :
        WaitedFor(o) /\ Wanted(o, r.spec) /\ objs[o] # Absent /\ objs[o].owner = r.uid
            => objs[o].gen >= r.gen

ClaimsHold ==
    /\ \A r \in {Snapshot, rwCache, rw} :
          r # NoRW /\ Claims(r.status, r.gen) => CarriesGeneration(r)
    /\ Active /\ Claims(wf.status, wf.snap.gen) => CarriesGeneration(wf.snap)

(* The types, the order in which the controller reads and writes, and a    *)
(* status that does not claim too much.                                    *)
WorkflowInv ==
    /\ TypeOK
    /\ CopiesInOrder
    /\ ObjectsInOrder
    /\ StatusFollows
    /\ ClaimsHold
    /\ CompleteMeansSynced

-----------------------------------------------------------------------------
(* Why nothing is forgotten: every change wakes the controller, and while  *)
(* nothing does, a reconcile sees the stored state all along.              *)

\* the objects whose changes enqueue the RisingWave
Watched == {o \in Objects : Kind(o) # "ServiceMonitor"}

InformersCatchUp ==
    /\ RisingWaveInformer \notin pending => rwCache = rw
    /\ \A o \in Objects : \A kinds \in Informers :
          Kind(o) \in kinds /\ kinds \notin pending => cache[o] = objs[o]

SpecsInOrder ==
    \A r, s \in {Snapshot, rwCache, rw} :
        r.uid = s.uid /\ r.gen = s.gen => r.spec = s.spec

\* an object that carries a generation is one the generation asks for
ObjectsAskedFor ==
    \A o \in Objects : \A r \in {Snapshot, rwCache, rw} :
        r # NoRW /\ objs[o] # Absent /\ objs[o].owner = r.uid /\ objs[o].gen = r.gen =>
            Wanted(o, r.spec)

\* a RisingWave that was ever reconciled has the condition Running
RunningIsKept ==
    \A r \in {Snapshot, rwCache, rw} :
        FirstTimeObserved(r) \/ r.status.conds["Running"] # "None"

\* what a reconcile has made of the status it read, whatever it has found
StatusSoFar ==
    Active =>
        LET r == wf.snap
            conds == wf.status.conds
        IN  /\ conds["Running"] # "None"
            /\ wf.stage # "done" => NeedsSync(r)
            /\ NeedsSync(r) => wf.status.observed = r.gen
            /\ NeedsUpgrade(r) /\ ~NeedsSync(r) => conds["Upgrading"] = "True"
            /\ conds["Upgrading"] = "True" => ConditionIs(r, "Upgrading", "True") \/ NeedsUpgrade(r)
            /\ wf.collect = "broken" =>
                  conds["Running"] = "False" \/ ConditionIs(r, "Running", "False")

\* no change is on its way to the controller
Unwoken == ~queue /\ pending \subseteq {{"ServiceMonitor"}}

\* syncing for r succeeds and changes nothing
SyncIsIdle(r) ==
    \A o \in Watched :
        LET answer == AnswerTo(o, objs[o], cache[o], r, version)
        IN  answer.ok /\ answer.obj = objs[o]

IsWaiting(r) == \E o \in Watched : ~Barrier(o, cache[o], r)

IsBroken(r) == \E o \in CollectedFor(r.spec) : Missing(o, cache[o], r)

\* what a reconcile has found, as long as it need not run again
FindingsHold ==
    Active /\ Unwoken =>
        LET r == wf.snap
            conds == wf.status.conds
        IN  /\ r = rw
            /\ NeedsSync(r) /\ wf.stage # "sync" /\ ~wf.failed => SyncIsIdle(r)
            /\ NeedsSync(r) /\ wf.stage = "done" /\ ~wf.failed =>
                  \/ IsWaiting(r)
                  \/ /\ conds["Initializing"] # "True"
                     /\ conds["Upgrading"] = "True" => NeedsUpgrade(r)
                     /\ ConditionIs(r, "Running", "False") =>
                           conds["Running"] = "True" \/ wf.collect = "broken"
            /\ wf.collect = "broken" => IsBroken(r)
            /\ wf.collect = "complete" /\ ~wf.failed => ~IsBroken(r)

\* what the last reconcile has left, as long as nothing has happened since
LastReconcileHolds ==
    ~Active /\ Unwoken /\ Live =>
        /\ rw.status.conds["Running"] # "None"
        /\ ~NeedsUpgrade(rw)
        /\ NeedsSync(rw) => SyncIsIdle(rw) /\ (IsWaiting(rw) \/ IsBroken(rw))
        /\ IsBroken(rw) => ConditionIs(rw, "Running", "False")

(* All of this, for every state: the reason for SettledWhenQuiet.          *)
QuietInv ==
    /\ WorkflowInv
    /\ InformersCatchUp
    /\ SpecsInOrder
    /\ ObjectsAskedFor
    /\ RunningIsKept
    /\ StatusSoFar
    /\ FindingsHold
    /\ LastReconcileHolds

-----------------------------------------------------------------------------

(* The status moves forward: of one RisingWave, the observed generation    *)
(* never decreases, and once Initializing is removed it never comes back,  *)
(* although every reconcile computes the status from a cached RisingWave   *)
(* that may be older than its own last write.                              *)
StatusMovesForward ==
    [][rw' # NoRW /\ rw'.uid = rw.uid =>
          /\ rw'.status.observed >= rw.status.observed
          /\ ConditionIs(rw', "Initializing", "True") =>
                rw.status.conds = NoConditions \/ ConditionIs(rw, "Initializing", "True")]_vars

(* A RisingWave deleted and created again under the same name never        *)
(* touches what the first one left behind.                                 *)
TouchesOwnObjects ==
    [][\A o \in Objects :
        wf' # wf /\ objs'[o] # objs[o] /\ objs[o] # Absent => objs[o].owner = wf.snap.uid]_vars

(* Only what the specification asks for runs.                              *)
NothingExtra ==
    Quiet /\ Live => \A o \in Objects : IsWorkload(o) /\ Owned(o) => Wanted(o, rw.spec)

(* In the end every RisingWave that is neither paused nor deleted runs its *)
(* latest generation.                                                      *)
Settles == <>[](Live => ReportsComplete)

=============================================================================
