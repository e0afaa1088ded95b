--------------------- MODULE RisingWaveWorkflow_proofs ---------------------
(***************************************************************************)
(* Proofs about RisingWaveWorkflow, for any components, node groups and    *)
(* specifications, either value of the operator's flags, any informers and *)
(* any bounds.                                                             *)
(***************************************************************************)
EXTENDS RisingWaveWorkflow, TLAPS

\* an object that one request, answered or hit by a fault, leaves behind
Left(o, x, c, r, v, y) ==
    \/ y = AnswerTo(o, x, c, r, v).obj
    \/ \E a \in FaultyAnswers(o, x, c, r, v) : y = a.obj

(* What the requests of the manager ask of a cached object.                *)
LEMMA RequestCases ==
    ASSUME NEW o, NEW c, NEW r
    PROVE  /\ Request(o, c, r) \in {"none", "fail", "create", "update", "delete"}
           /\ Request(o, c, r) = "update" =>
                 c # Absent /\ c.owner = r.uid /\ c.gen # NoSync /\ ~(c.gen >= r.gen)
           /\ Request(o, c, r) = "delete" => c # Absent /\ c.owner = r.uid
<1>1. CASE GetFails(o, c, r)
  BY <1>1 DEF Request
<1>2. CASE ~GetFails(o, c, r) /\ Seen(o, c, r) = Absent
  BY <1>2 DEF Request
<1>3. CASE ~GetFails(o, c, r) /\ Seen(o, c, r) # Absent
  <2>1. Seen(o, c, r) = c /\ c # Absent /\ c.owner = r.uid
    BY <1>3 DEF Seen, GetFails, Foreign
  <2>2. QED BY <1>3, <2>1 DEF Request, isObjectSynced
<1>4. QED BY <1>1, <1>2, <1>3

(* What a request leaves behind: the object as it was; a new one where     *)
(* there was none; a new one, or none, in place of the one the cache       *)
(* shows, which is of an older generation; or none, where the cache shows  *)
(* one of the RisingWave's own.                                            *)
LEMMA LeftCases ==
    ASSUME NEW o, NEW x, NEW c, NEW r, NEW v, NEW y, Left(o, x, c, r, v, y)
    PROVE  \/ y = x
           \/ x = Absent /\ y = New(o, r, v)
           \/ /\ x = c /\ c # Absent /\ c.owner = r.uid
              /\ c.gen # NoSync /\ ~(c.gen >= r.gen)
              /\ y \in {New(o, r, v), Absent}
           \/ /\ y = Absent /\ c # Absent /\ c.owner = r.uid
              /\ IsListed(o) \/ x.owner = c.owner
<1> DEFINE request == Request(o, c, r)
           answered == AnswerTo(o, x, c, r, v).obj
<1>1. /\ request \in {"none", "fail", "create", "update", "delete"}
      /\ request = "update" =>
            c # Absent /\ c.owner = r.uid /\ c.gen # NoSync /\ ~(c.gen >= r.gen)
      /\ request = "delete" => c # Absent /\ c.owner = r.uid
  BY RequestCases
<1>2. request \in {"none", "fail"} => answered = x
  BY DEF AnswerTo, Answer
<1>3. request = "create" => answered = IF x = Absent THEN New(o, r, v) ELSE x
  BY DEF AnswerTo, CreateAnswer, Answer
<1>4. request = "update" => \/ answered = x
                            \/ x = c /\ answered = New(o, r, v)
  <2>1. \/ UpdateAnswer(o, x, c, r, v).obj = x
        \/ x = c /\ UpdateAnswer(o, x, c, r, v).obj = New(o, r, v)
    BY DEF UpdateAnswer, Answer
  <2>2. request = "update" => answered = UpdateAnswer(o, x, c, r, v).obj
    BY DEF AnswerTo
  <2> HIDE DEF answered
  <2>3. QED BY <2>1, <2>2
<1>5. request = "delete" =>
         \/ answered = x
         \/ answered = Absent /\ (IsListed(o) \/ x.owner = c.owner)
  <2>1. \/ DeleteAnswer(o, x, c).obj = x
        \/ /\ IsListed(o) \/ x.owner = c.owner
           /\ DeleteAnswer(o, x, c).obj = Absent
    BY DEF DeleteAnswer, Answer
  <2>2. request = "delete" => answered = DeleteAnswer(o, x, c).obj
    BY DEF AnswerTo
  <2> HIDE DEF answered
  <2>3. QED BY <2>1, <2>2
<1>6. \/ y \in {x, answered}
      \/ y = Absent /\ request = "update" /\ x = c
  BY DEF Left, FaultyAnswers, Answer
<1> HIDE DEF request, answered
<1>7. QED BY <1>1, <1>2, <1>3, <1>4, <1>5, <1>6

(* A run of manager actions leaves every object as it was, or as one       *)
(* request for it leaves it.                                               *)
LEMMA RunLeaves ==
    ASSUME NEW units, NEW faulty \in BOOLEAN, NEW run \in RunsOf(units, faulty)
    PROVE  /\ run.ok \in BOOLEAN
           /\ run.objs = [o \in Objects |-> run.objs[o]]
           /\ \A o \in Objects :
                 \/ run.objs[o] = objs[o]
                 \/ Left(o, objs[o], cache[o], wf.snap, version, run.objs[o])
<1> DEFINE touched == UNION {UnitObjects(u) : u \in units}
           clean == [o \in touched |-> AnswerTo(o, objs[o], cache[o], wf.snap, version)]
           answers == IF faulty
                      THEN UNION {{[clean EXCEPT ![o] = a] :
                             a \in FaultyAnswers(o, objs[o], cache[o], wf.snap, version)} :
                                 o \in touched}
                      ELSE {clean}
           Failing(ans) == {o \in touched : ~ans[o].ok}
           Run(ans, skipped) ==
              [ok   |-> Failing(ans) = {},
               objs |-> [o \in Objects |->
                           IF o \in touched \ skipped THEN ans[o].obj ELSE objs[o]]]
<1> DEFINE Affected(ans) == UNION {UnitObjects(u) : u \in
                               {w \in units : UnitObjects(w) \cap Failing(ans) # {}}}
           Skips(ans) == {k \in SUBSET Affected(ans) :
                            \A u \in units : UnitRan(u, touched \ k, Failing(ans))}
<1>0. run \in UNION {{Run(ans, skipped) : skipped \in Skips(ans)} : ans \in answers}
  BY Zenon DEF RunsOf
<1> HIDE DEF Run, Skips, answers
<1>1. \E ans \in answers : \E skipped : run = Run(ans, skipped)
  BY <1>0
<1> USE DEF Run, answers
<1>2. PICK ans \in answers : \E skipped : run = Run(ans, skipped)
  BY <1>1
<1>3. PICK skipped : run = Run(ans, skipped)
  BY <1>2
<1>4. ASSUME NEW o \in touched
      PROVE  Left(o, objs[o], cache[o], wf.snap, version, ans[o].obj)
  <2>1. CASE ans = clean
    BY <1>4, <2>1 DEF Left
  <2>2. ASSUME NEW p \in touched,
               NEW a \in FaultyAnswers(p, objs[p], cache[p], wf.snap, version),
               ans = [clean EXCEPT ![p] = a]
        PROVE  Left(o, objs[o], cache[o], wf.snap, version, ans[o].obj)
    <3>1. CASE o = p
      BY <1>4, <2>2, <3>1 DEF Left
    <3>2. CASE o # p
      BY <1>4, <2>2, <3>2 DEF Left
    <3>3. QED BY <3>1, <3>2
  <2>3. \/ ans = clean
        \/ \E p \in touched :
              \E a \in FaultyAnswers(p, objs[p], cache[p], wf.snap, version) :
                 ans = [clean EXCEPT ![p] = a]
    <3> HIDE DEF touched, clean
    <3>1. QED BY <1>2
  <2> HIDE DEF touched, clean, answers
  <2>4. QED BY <2>1, <2>2, <2>3
<1>5. run.ok \in BOOLEAN /\ run.objs = [o \in Objects |-> run.objs[o]]
  BY <1>3
<1>6. ASSUME NEW o \in Objects
      PROVE  \/ run.objs[o] = objs[o]
             \/ Left(o, objs[o], cache[o], wf.snap, version, run.objs[o])
  <2>1. run.objs[o] = IF o \in touched \ skipped THEN ans[o].obj ELSE objs[o]
    BY <1>3
  <2>2. QED BY <1>4, <2>1
<1>7. QED BY <1>5, <1>6

-----------------------------------------------------------------------------
(* What the factory builds is an object of the snapshot it was given.      *)
LEMMA NewObject ==
    ASSUME TypeOK, NEW o \in Objects, NEW r \in RisingWaveValues
    PROVE  /\ New(o, r, version) \in ObjectValues
           /\ New(o, r, version) # Absent
           /\ New(o, r, version).owner = r.uid
           /\ o = Config => New(o, r, version).gen = NoSync
           /\ o # Config => New(o, r, version).gen = r.gen
<1>1. /\ r.uid \in 1 .. uids /\ r.gen \in Nat \ {0} /\ r.spec \in Specs
      /\ uids \in Nat /\ version \in Nat
  BY DEF TypeOK, RisingWaveValues
<1>2. r.spec.volumes \in Nat
  BY <1>1, SpecsAssumption
<1>3. IsWorkload(o) \in BOOLEAN
  BY DEF IsWorkload
<1>4. QED BY <1>1, <1>2, <1>3 DEF New, ObjectValues, Absent, NoSync

(* The types of objects, RisingWaves and reconciles only grow.             *)
LEMMA TypesGrow ==
    ASSUME TypeOK, uids' \in Nat, uids <= uids', version' \in Nat, version <= version'
    PROVE  /\ ObjectValues \subseteq ObjectValues'
           /\ RisingWaveValues \subseteq RisingWaveValues'
           /\ ReconcileValues \subseteq ReconcileValues'
<1>1. 0 .. uids \subseteq 0 .. uids' /\ 1 .. uids \subseteq 1 .. uids'
  BY DEF TypeOK
<1>2. 0 .. version \subseteq 0 .. version'
  BY DEF TypeOK
<1>3. ObjectValues \subseteq ObjectValues'
  BY <1>1, <1>2 DEF ObjectValues
<1>4. RisingWaveValues \subseteq RisingWaveValues'
  BY <1>1 DEF RisingWaveValues, StatusValues
<1>5. ReconcileValues \subseteq ReconcileValues'
  BY <1>4 DEF ReconcileValues, StatusValues
<1>6. QED BY <1>3, <1>4, <1>5

\* how a request of the reconcile in flight may change the object o to y
Synced(o, y) ==
    \/ y = objs[o]
    \/ y = Absent /\ objs[o].owner = wf.snap.uid
    \/ /\ y = New(o, wf.snap, version)
       /\ \/ objs[o] = Absent
          \/ objs[o].owner = wf.snap.uid

(* A run of manager actions deletes or replaces only objects of the        *)
(* RisingWave it was started for: a cached object is never newer than the  *)
(* stored one, and the stored one never newer than the snapshot.           *)
LEMMA RunSyncs ==
    ASSUME TypeOK, ObjectsInOrder, Active,
           NEW units, NEW faulty \in BOOLEAN, NEW run \in RunsOf(units, faulty)
    PROVE  /\ run.ok \in BOOLEAN
           /\ run.objs = [o \in Objects |-> run.objs[o]]
           /\ \A o \in Objects : Synced(o, run.objs[o])
<1>1. /\ run.ok \in BOOLEAN
      /\ run.objs = [o \in Objects |-> run.objs[o]]
      /\ \A o \in Objects :
            \/ run.objs[o] = objs[o]
            \/ Left(o, objs[o], cache[o], wf.snap, version, run.objs[o])
  BY RunLeaves
<1>2. ASSUME NEW o \in Objects PROVE Synced(o, run.objs[o])
  <2> DEFINE y == run.objs[o]
             x == objs[o]
             c == cache[o]
             r == wf.snap
  <2>1. r \in RisingWaveValues /\ r # NoRW /\ Snapshot = r
    BY DEF TypeOK, Active, ReconcileValues, RisingWaveValues, NoRW, Snapshot
  <2>2. x.owner \in Nat /\ c.owner \in Nat /\ r.uid \in Nat
    BY <2>1 DEF TypeOK, ObjectValues, RisingWaveValues
  <2>3. x # Absent => x.owner <= r.uid
    BY <2>1 DEF ObjectsInOrder, ObjectInOrder
  <2>4. c # Absent /\ x # Absent => c.owner <= x.owner
    BY DEF ObjectsInOrder
  <2>5. \/ y = x
        \/ x = Absent /\ y = New(o, r, version)
        \/ /\ x = c /\ c # Absent /\ c.owner = r.uid
           /\ c.gen # NoSync /\ ~(c.gen >= r.gen)
           /\ y \in {New(o, r, version), Absent}
        \/ /\ y = Absent /\ c # Absent /\ c.owner = r.uid
           /\ IsListed(o) \/ x.owner = c.owner
    BY <1>1, LeftCases
  <2>6. x = Absent \/ x.owner = r.uid \/ y = x
    BY <2>2, <2>3, <2>4, <2>5
  <2>7. QED BY <2>5, <2>6 DEF Synced
<1>3. QED BY <1>1, <1>2

-----------------------------------------------------------------------------
(* Types.                                                                  *)

(* The values for nothing there are no values of something.                *)
LEMMA NoneTyped ==
    ASSUME uids \in Nat, version \in Nat
    PROVE  /\ Absent \in ObjectValues
           /\ NoStatus \in StatusValues
           /\ NoRW.status = NoStatus /\ NoRW.uid = 0 /\ ~NoRW.deleting
           /\ NoRW \notin RisingWaveValues
           /\ \A r \in ReconcileValues : r.stage # "idle" /\ r # Idle
<1>1. Absent \in ObjectValues
  BY DEF Absent, ObjectValues
<1>2. NoStatus \in StatusValues
  BY DEF NoStatus, StatusValues, NoConditions
<1>3. NoRW.status = NoStatus /\ NoRW.uid = 0 /\ ~NoRW.deleting
  BY DEF NoRW
<1>4. NoRW \notin RisingWaveValues
  BY <1>3 DEF RisingWaveValues
<1>5. \A r \in ReconcileValues : r.stage # "idle" /\ r # Idle
  BY DEF ReconcileValues, Idle
<1>6. QED BY <1>1, <1>2, <1>3, <1>4, <1>5

(* A reconcile in flight has a snapshot and a status.                      *)
LEMMA ReconcileTyped ==
    ASSUME TypeOK, wf.stage # "idle" \/ Active
    PROVE  /\ Active /\ wf \in ReconcileValues
           /\ wf.snap \in RisingWaveValues /\ wf.snap # NoRW /\ Snapshot = wf.snap
           /\ wf.status \in StatusValues
<1>1. wf \in ReconcileValues
  BY DEF TypeOK, Active, Idle
<1>2. wf.snap \in RisingWaveValues /\ wf.status \in StatusValues
  BY <1>1 DEF ReconcileValues
<1>3. Active /\ wf.snap # NoRW
  BY <1>1, <1>2, NoneTyped DEF TypeOK, Active
<1>4. QED BY <1>1, <1>2, <1>3 DEF Snapshot

(* Informers with something to deliver.                                    *)
LEMMA NotifyTyped ==
    ASSUME TypeOK, Notify
    PROVE  pending' \subseteq Informers \cup {RisingWaveInformer}
<1>1. {kinds \in Informers : \E o \in Objects :
          Kind(o) \in kinds /\ objs'[o] # objs[o]} \subseteq Informers
  OBVIOUS
<1>2. QED BY <1>1 DEF TypeOK, Notify

(* A failing request takes one of the events that are left.                *)
LEMMA SpendTyped ==
    ASSUME TypeOK, NEW faulty \in Faults, Spend(faulty)
    PROVE  events' \in 0 .. MaxEvents /\ faulty \in BOOLEAN
<1>1. faulty \in BOOLEAN
  BY DEF Faults
<1>2. faulty => events > 0
  BY Zenon DEF Faults
<1>3. \/ events' = events
      \/ events > 0 /\ events' = events - 1
  BY <1>1, <1>2 DEF Spend
<1>4. QED BY <1>1, <1>3, BoundsAssumption DEF TypeOK

(* Whatever runs and fails of the Sync actions, they leave well-formed     *)
(* objects.                                                                *)
LEMMA SyncTyped ==
    ASSUME TypeOK, ObjectsInOrder, Active,
           NEW units, NEW faulty \in BOOLEAN, NEW run \in RunsOf(units, faulty)
    PROVE  run.objs \in [Objects -> ObjectValues]
<1>1. /\ run.objs = [o \in Objects |-> run.objs[o]]
      /\ \A o \in Objects : Synced(o, run.objs[o])
  BY RunSyncs
<1>2. ASSUME NEW o \in Objects PROVE run.objs[o] \in ObjectValues
  <2>1. objs[o] \in ObjectValues /\ Absent \in ObjectValues
    BY NoneTyped DEF TypeOK
  <2>2. New(o, wf.snap, version) \in ObjectValues
    BY ReconcileTyped, NewObject
  <2>3. QED BY <1>1, <2>1, <2>2 DEF Synced
<1>3. QED BY <1>1, <1>2

(* Marking conditions gives conditions.                                    *)
LEMMA MarksTyped ==
    ASSUME NEW r, NEW conds \in [Conditions -> {"None", "True", "False"}], NEW broken
    PROVE  /\ InitializingMark(conds, r) \in [Conditions -> {"None", "True", "False"}]
           /\ RunningMarks(conds, r, broken) \subseteq [Conditions -> {"None", "True", "False"}]
           /\ UpgradingMarks(conds, r) \subseteq [Conditions -> {"None", "True", "False"}]
<1>1. \A type \in Conditions : \A status \in {"None", "True", "False"} :
         [conds EXCEPT ![type] = status] \in [Conditions -> {"None", "True", "False"}]
  OBVIOUS
<1>2. "Initializing" \in Conditions /\ "Running" \in Conditions /\ "Upgrading" \in Conditions
  BY DEF Conditions
<1>3. InitializingMark(conds, r) \in [Conditions -> {"None", "True", "False"}]
  BY <1>1, <1>2 DEF InitializingMark, RemoveCondition
<1>4. RunningMarks(conds, r, broken) \subseteq [Conditions -> {"None", "True", "False"}]
  BY <1>1, <1>2 DEF RunningMarks, UpdateCondition
<1>5. UpgradingMarks(conds, r) \subseteq [Conditions -> {"None", "True", "False"}]
  BY <1>1, <1>2 DEF UpgradingMarks, UpdateCondition
<1>6. QED BY <1>3, <1>4, <1>5

(* The steps of a reconcile keep the types.                                *)
LEMMA TypeOKWorker ==
    ASSUME TypeOK, ObjectsInOrder, Worker
    PROVE  TypeOK'
<1>1. CASE Skip
  <2>1. /\ ObjectValues' = ObjectValues /\ RisingWaveValues' = RisingWaveValues
        /\ ReconcileValues' = ReconcileValues
    BY <1>1 DEF Skip, RisingWaveValues, ReconcileValues, ObjectValues
  <2>2. QED BY <1>1, <2>1 DEF Skip, TypeOK
<1>2. CASE Start
  <2>1. rwCache \in RisingWaveValues
    BY <1>2 DEF Start, TypeOK
  <2> DEFINE conds == rwCache.status.conds
             first == UpdateCondition(UpdateCondition(conds, "Initializing", "True"),
                                      "Running", "False")
             status == [observed |-> IF NeedsSync(rwCache) THEN rwCache.gen
                                     ELSE rwCache.status.observed,
                        conds    |-> IF FirstTimeObserved(rwCache) THEN first
                                     ELSE IF NeedsUpgrade(rwCache)
                                     THEN UpdateCondition(conds, "Upgrading", "True")
                                     ELSE conds]
  <2>2. conds \in [Conditions -> {"None", "True", "False"}]
    BY <2>1 DEF RisingWaveValues, StatusValues
  <2>3. /\ first \in [Conditions -> {"None", "True", "False"}]
        /\ UpdateCondition(conds, "Upgrading", "True")
              \in [Conditions -> {"None", "True", "False"}]
    BY <2>2 DEF UpdateCondition, Conditions
  <2>4. rwCache.gen \in Nat /\ rwCache.status.observed \in Nat
    BY <2>1 DEF RisingWaveValues, StatusValues
  <2>5. status \in StatusValues
    BY <2>2, <2>3, <2>4 DEF StatusValues
  <2>6. rwCache.spec.monitor \in BOOLEAN
    BY <2>1, SpecsAssumption DEF RisingWaveValues
  <2>7. wf' = [stage |-> IF NeedsSync(rwCache) THEN "sync" ELSE "done",
               snap |-> rwCache, status |-> status, collect |-> "todo",
               monitor |-> rwCache.spec.monitor, failed |-> FALSE]
    BY <1>2 DEF Start
  <2> HIDE DEF status
  <2>8. wf' \in ReconcileValues
    BY <2>1, <2>5, <2>6, <2>7 DEF ReconcileValues
  <2>9. QED BY <1>2, <2>8 DEF Start, TypeOK, RisingWaveValues, ReconcileValues, ObjectValues
<1>3. CASE SyncConfigsFails
  <2>1. wf \in ReconcileValues /\ Active
    BY <1>3, ReconcileTyped DEF SyncConfigsFails
  <2>2. objs' \in [Objects -> ObjectValues] /\ events' \in 0 .. MaxEvents
    BY <1>3, <2>1, SyncTyped, SpendTyped DEF SyncConfigsFails
  <2>3. wf' \in ReconcileValues
    BY <1>3, <2>1 DEF SyncConfigsFails, ReconcileValues
  <2>4. pending' \subseteq Informers \cup {RisingWaveInformer}
    BY <1>3, NotifyTyped DEF SyncConfigsFails
  <2>5. QED BY <1>3, <2>2, <2>3, <2>4
         DEF SyncConfigsFails, TypeOK, RisingWaveValues, ReconcileValues, ObjectValues
<1>4. CASE SyncAllComponents
  <2>1. wf \in ReconcileValues /\ Active
    BY <1>4, ReconcileTyped DEF SyncAllComponents
  <2>2. PICK faulty \in Faults : \E run \in RunsOf(Units, faulty) :
          /\ objs' = run.objs
          /\ wf' = [wf EXCEPT !.stage = IF run.ok THEN "barrier" ELSE "done",
                              !.failed = @ \/ ~run.ok]
          /\ Spend(faulty)
    BY <1>4 DEF SyncAllComponents
  <2>3. PICK run \in RunsOf(Units, faulty) :
          /\ objs' = run.objs
          /\ wf' = [wf EXCEPT !.stage = IF run.ok THEN "barrier" ELSE "done",
                              !.failed = @ \/ ~run.ok]
          /\ Spend(faulty)
    BY <2>2
  <2>4. events' \in 0 .. MaxEvents /\ faulty \in BOOLEAN
    BY <2>3, SpendTyped
  <2>5. objs' \in [Objects -> ObjectValues]
    BY <2>1, <2>3, <2>4, SyncTyped
  <2>6. wf' \in ReconcileValues
    BY <2>1, <2>3 DEF ReconcileValues
  <2>7. pending' \subseteq Informers \cup {RisingWaveInformer}
    BY <1>4, NotifyTyped DEF SyncAllComponents
  <2>8. QED BY <1>4, <2>4, <2>5, <2>6, <2>7
         DEF SyncAllComponents, TypeOK, RisingWaveValues, ReconcileValues, ObjectValues
<1>5. CASE AllComponentsReady
  <2>1. wf \in ReconcileValues /\ wf.status \in StatusValues
    BY <1>5, ReconcileTyped DEF AllComponentsReady
  <2>2. wf.status.conds \in [Conditions -> {"None", "True", "False"}]
    BY <2>1 DEF StatusValues
  <2>3. PICK marked \in [Conditions -> {"None", "True", "False"}] :
          wf' = [wf EXCEPT !.stage = "done", !.status.conds = marked]
    BY <1>5, <2>2, MarksTyped DEF AllComponentsReady
  <2>4. wf' \in ReconcileValues
    BY <2>1, <2>3 DEF ReconcileValues, StatusValues
  <2>5. QED BY <1>5, <2>4
         DEF AllComponentsReady, TypeOK, RisingWaveValues, ReconcileValues, ObjectValues
<1>6. CASE KeepWaiting
  <2>1. wf \in ReconcileValues
    BY <1>6, ReconcileTyped DEF KeepWaiting
  <2>2. wf' \in ReconcileValues
    BY <1>6, <2>1 DEF KeepWaiting, ReconcileValues, GetterFails
  <2>3. QED BY <1>6, <2>2
         DEF KeepWaiting, TypeOK, RisingWaveValues, ReconcileValues, ObjectValues
<1>7. CASE CollectRunningStatistics
  <2>1. wf \in ReconcileValues /\ wf.status \in StatusValues
    BY <1>7, ReconcileTyped DEF CollectRunningStatistics
  <2>2. wf.status.conds \in [Conditions -> {"None", "True", "False"}]
    BY <2>1 DEF StatusValues
  <2>3. UpdateCondition(wf.status.conds, "Running", "False")
           \in [Conditions -> {"None", "True", "False"}]
    BY <2>2 DEF UpdateCondition, Conditions
  <2>4. wf' \in ReconcileValues
    BY <1>7, <2>1, <2>2, <2>3 DEF CollectRunningStatistics, ReconcileValues, StatusValues
  <2>5. QED BY <1>7, <2>4
         DEF CollectRunningStatistics, TypeOK, RisingWaveValues, ReconcileValues, ObjectValues
<1>8. CASE SyncServiceMonitor
  <2>1. wf \in ReconcileValues /\ Active
    BY <1>8, ReconcileTyped DEF SyncServiceMonitor
  <2>2. PICK faulty \in Faults : \E run \in RunsOf({"monitor"}, faulty) :
          /\ objs' = run.objs
          /\ wf' = [wf EXCEPT !.monitor = FALSE, !.failed = @ \/ ~run.ok]
          /\ Spend(faulty)
    BY <1>8 DEF SyncServiceMonitor
  <2>3. PICK run \in RunsOf({"monitor"}, faulty) :
          /\ objs' = run.objs
          /\ wf' = [wf EXCEPT !.monitor = FALSE, !.failed = @ \/ ~run.ok]
          /\ Spend(faulty)
    BY <2>2
  <2>4. events' \in 0 .. MaxEvents /\ faulty \in BOOLEAN
    BY <2>3, SpendTyped
  <2>5. objs' \in [Objects -> ObjectValues]
    BY <2>1, <2>3, <2>4, SyncTyped
  <2>6. wf' \in ReconcileValues
    BY <2>1, <2>3 DEF ReconcileValues
  <2>7. pending' \subseteq Informers \cup {RisingWaveInformer}
    BY <1>8, NotifyTyped DEF SyncServiceMonitor
  <2>8. QED BY <1>8, <2>4, <2>5, <2>6, <2>7
         DEF SyncServiceMonitor, TypeOK, RisingWaveValues, ReconcileValues, ObjectValues
<1>9. CASE UpdateStatus
  <2>1. wf \in ReconcileValues /\ wf.status \in StatusValues
    BY <1>9, ReconcileTyped DEF UpdateStatus, BranchesDone
  <2>2. wf.snap # NoRW
    BY <1>9, ReconcileTyped DEF UpdateStatus, BranchesDone
  <2>3. \/ rw' = rw
        \/ rw = wf.snap /\ rw' = [rw EXCEPT !.status = wf.status]
    BY <1>9 DEF UpdateStatus
  <2>4. rw' \in RisingWaveValues \cup {NoRW}
    BY <2>1, <2>2, <2>3 DEF TypeOK, RisingWaveValues
  <2>5. events' \in 0 .. MaxEvents
    BY <1>9, SpendTyped DEF UpdateStatus
  <2>6. pending' \subseteq Informers \cup {RisingWaveInformer}
    BY <1>9, NotifyTyped DEF UpdateStatus
  <2>7. queue' \in BOOLEAN
    BY <1>9 DEF UpdateStatus
  <2>8. QED BY <1>9, <2>4, <2>5, <2>6, <2>7
         DEF UpdateStatus, TypeOK, RisingWaveValues, ReconcileValues, ObjectValues
<1>10. QED BY <1>1, <1>2, <1>3, <1>4, <1>5, <1>6, <1>7, <1>8, <1>9 DEF Worker

(* The steps of informers, users, Kubernetes and restarts keep the types.  *)
LEMMA TypeOKOther ==
    ASSUME TypeOK, Deliveries \/ Users \/ Converge \/ Disruption \/ Restart
    PROVE  TypeOK'
<1> USE DEF TypeOK
<1>0. Absent \in ObjectValues /\ NoStatus \in StatusValues
  BY NoneTyped
<1>1. CASE Deliveries
  <2>1. ASSUME NEW kinds \in Informers, DeliverObjects(kinds) PROVE TypeOK'
    <3>1. /\ ObjectValues' = ObjectValues /\ RisingWaveValues' = RisingWaveValues
          /\ ReconcileValues' = ReconcileValues
      BY <2>1 DEF DeliverObjects, RisingWaveValues, ReconcileValues, ObjectValues
    <3>2. cache' \in [Objects -> ObjectValues]
      BY <2>1 DEF DeliverObjects
    <3>3. QED BY <2>1, <3>1, <3>2 DEF DeliverObjects
  <2>2. CASE DeliverRisingWave
    <3>1. /\ ObjectValues' = ObjectValues /\ RisingWaveValues' = RisingWaveValues
          /\ ReconcileValues' = ReconcileValues
      BY <2>2 DEF DeliverRisingWave, RisingWaveValues, ReconcileValues, ObjectValues
    <3>2. QED BY <2>2, <3>1 DEF DeliverRisingWave
  <2>3. QED BY <1>1, <2>1, <2>2 DEF Deliveries
<1>2. CASE Create
  <2>1. uids' = uids + 1 /\ version' = version
    BY <1>2 DEF Create
  <2>2. /\ ObjectValues \subseteq ObjectValues' /\ RisingWaveValues \subseteq RisingWaveValues'
        /\ ReconcileValues \subseteq ReconcileValues'
    BY <2>1, TypesGrow
  <2>3. PICK spec \in Specs : rw' = NewRW(uids + 1, spec)
    BY <1>2 DEF Create
  <2>4. rw' \in RisingWaveValues'
    BY <1>0, <2>1, <2>3 DEF NewRW, RisingWaveValues, StatusValues
  <2>5. pending' \subseteq Informers \cup {RisingWaveInformer}
    BY <1>2, NotifyTyped DEF Create
  <2>6. edits' \in 0 .. MaxEdits
    BY <1>2, BoundsAssumption DEF Create
  <2>7. QED BY <1>2, <2>1, <2>2, <2>4, <2>5, <2>6 DEF Create
<1>3. CASE EditSpec \/ TogglePause \/ Delete \/ FinishDelete
  <2>1. /\ ObjectValues' = ObjectValues /\ RisingWaveValues' = RisingWaveValues
        /\ ReconcileValues' = ReconcileValues
    BY <1>3 DEF EditSpec, TogglePause, Delete, FinishDelete,
                RisingWaveValues, ReconcileValues, ObjectValues
  <2>2. rw' \in RisingWaveValues \cup {NoRW}
    <3>1. CASE EditSpec
      <4>1. PICK spec \in Specs : rw' = [rw EXCEPT !.spec = spec, !.gen = @ + 1]
        BY <3>1 DEF EditSpec
      <4>2. rw \in RisingWaveValues
        BY <3>1 DEF EditSpec
      <4>3. rw.gen + 1 \in Nat \ {0}
        BY <4>2 DEF RisingWaveValues
      <4>4. QED BY <4>1, <4>2, <4>3 DEF RisingWaveValues
    <3>2. CASE TogglePause
      BY <3>2 DEF TogglePause, RisingWaveValues
    <3>3. CASE Delete \/ FinishDelete
      BY <3>3 DEF Delete, FinishDelete, RisingWaveValues
    <3>4. QED BY <1>3, <3>1, <3>2, <3>3
  <2>3. pending' \subseteq Informers \cup {RisingWaveInformer}
    BY <1>3, NotifyTyped DEF EditSpec, TogglePause, Delete, FinishDelete
  <2>4. edits' \in 0 .. MaxEdits /\ events' \in 0 .. MaxEvents
    <3>1. edits' = edits \/ (edits > 0 /\ edits' = edits - 1)
      BY <1>3 DEF EditSpec, TogglePause, Delete, FinishDelete
    <3>2. events' = events \/ (events > 0 /\ events' = events - 1)
      BY <1>3 DEF EditSpec, TogglePause, Delete, FinishDelete, Disturb
    <3>3. QED BY <3>1, <3>2, BoundsAssumption
  <2>5. UNCHANGED <<rwCache, objs, cache, queue, wf, version, uids>>
    BY <1>3 DEF EditSpec, TogglePause, Delete, FinishDelete
  <2>6. QED BY <2>1, <2>2, <2>3, <2>4, <2>5
<1>4. ASSUME \/ \E kinds \in Informers : CollectGarbage(kinds)
             \/ \E o \in Objects : RollOut(o) \/ Disrupt(o)
      PROVE  TypeOK'
  <2>1. UNCHANGED <<rw, rwCache, cache, queue, wf, version, uids, edits>> /\ Notify
    BY <1>4 DEF CollectGarbage, RollOut, Disrupt
  <2>2. /\ ObjectValues' = ObjectValues /\ RisingWaveValues' = RisingWaveValues
        /\ ReconcileValues' = ReconcileValues
    BY <2>1 DEF RisingWaveValues, ReconcileValues, ObjectValues
  <2>3. objs' \in [Objects -> ObjectValues]
    <3>1. ASSUME NEW kinds \in Informers, CollectGarbage(kinds)
          PROVE  objs' \in [Objects -> ObjectValues]
      BY <1>0, <3>1 DEF CollectGarbage
    <3>2. ASSUME NEW o \in Objects, RollOut(o) PROVE objs' \in [Objects -> ObjectValues]
      BY <3>2 DEF RollOut, ObjectValues
    <3>3. ASSUME NEW o \in Objects, Disrupt(o) PROVE objs' \in [Objects -> ObjectValues]
      <4>1. CASE objs' = [objs EXCEPT ![o] = Absent]
        BY <1>0, <4>1
      <4>2. CASE objs' = [objs EXCEPT ![o].ready = FALSE]
        BY <4>2 DEF ObjectValues
      <4>3. QED BY <3>3, <4>1, <4>2 DEF Disrupt
    <3>4. QED BY <1>4, <3>1, <3>2, <3>3
  <2>4. events' \in 0 .. MaxEvents
    BY <1>4, BoundsAssumption DEF CollectGarbage, RollOut, Disrupt, Disturb
  <2>5. QED BY <2>1, <2>2, <2>3, <2>4, NotifyTyped
<1>5. CASE Restart
  <2>1. /\ uids' = uids /\ version' \in Nat /\ version <= version'
        /\ events' \in 0 .. MaxEvents
    BY <1>5, BoundsAssumption DEF Restart, Disturb
  <2>2. /\ ObjectValues \subseteq ObjectValues' /\ RisingWaveValues \subseteq RisingWaveValues'
    BY <2>1, TypesGrow
  <2>3. QED BY <1>5, <2>1, <2>2 DEF Restart
<1>6. QED BY <1>1, <1>2, <1>3, <1>4, <1>5 DEF Users, Converge, Disruption

(* Every step keeps the types.                                             *)
LEMMA TypeOKStep ==
    ASSUME TypeOK, ObjectsInOrder, [Next]_vars
    PROVE  TypeOK'
<1>1. CASE UNCHANGED vars
  <2>1. /\ ObjectValues' = ObjectValues /\ RisingWaveValues' = RisingWaveValues
        /\ ReconcileValues' = ReconcileValues
    BY <1>1 DEF vars, RisingWaveValues, ReconcileValues, ObjectValues
  <2>2. QED BY <1>1, <2>1 DEF vars, TypeOK
<1>2. QED BY <1>1, TypeOKWorker, TypeOKOther DEF Next

-----------------------------------------------------------------------------
(* How the three copies of the RisingWave move: the stored one, the one    *)
(* the informer shows and the snapshot of the reconcile in flight.         *)

CacheMoves ==
    \/ rwCache' = rwCache
    \/ rwCache' = rw /\ rw' = rw

SnapshotMoves ==
    \/ Snapshot' = Snapshot
    \/ Snapshot' = NoRW
    \/ Snapshot' = rwCache /\ rwCache' = rwCache /\ rw' = rw

RisingWaveMoves ==
    \/ rw' \in {rw, NoRW}
    \/ /\ rw # NoRW /\ rw' # NoRW /\ rw'.uid = rw.uid /\ rw'.status = rw.status
       /\ \/ rw'.gen = rw.gen /\ rw'.spec = rw.spec
          \/ rw'.gen = rw.gen + 1
    \/ /\ rw = NoRW /\ rw' # NoRW
       /\ rw'.uid = uids + 1 /\ rw'.gen = 1 /\ rw'.status = NoStatus
    \/ /\ Active /\ rw = wf.snap /\ rw' # NoRW
       /\ rw'.uid = rw.uid /\ rw'.gen = rw.gen /\ rw'.spec = rw.spec
       /\ rw'.status = wf.status

(* Between its start and its status write a reconcile keeps its snapshot.  *)
LEMMA ReconcileKeepsSnapshot ==
    ASSUME TypeOK, \/ SyncConfigsFails \/ SyncAllComponents \/ AllComponentsReady
                   \/ KeepWaiting \/ CollectRunningStatistics \/ SyncServiceMonitor
    PROVE  /\ Active /\ Active' /\ wf'.snap = wf.snap
           /\ Snapshot' = Snapshot
           /\ UNCHANGED <<rw, rwCache, cache>>
           /\ wf'.status.observed = wf.status.observed
<1>1. Active /\ wf \in ReconcileValues
  BY ReconcileTyped DEF SyncConfigsFails, SyncAllComponents, AllComponentsReady,
     KeepWaiting, CollectRunningStatistics, SyncServiceMonitor
<1>2. DOMAIN wf = {"stage", "snap", "status", "collect", "monitor", "failed"}
  BY <1>1 DEF ReconcileValues
<1>3. wf'.snap = wf.snap /\ DOMAIN wf' = DOMAIN wf
      /\ wf'.status.observed = wf.status.observed
  <2>1. CASE SyncConfigsFails
    BY <1>1, <2>1 DEF SyncConfigsFails, ReconcileValues
  <2>2. CASE SyncAllComponents
    BY <1>1, <2>2 DEF SyncAllComponents, ReconcileValues
  <2>3. CASE AllComponentsReady
    <3>1. PICK marked : wf' = [wf EXCEPT !.stage = "done", !.status.conds = marked]
      BY <2>3 DEF AllComponentsReady
    <3>2. QED BY <1>1, <3>1 DEF ReconcileValues, StatusValues
  <2>4. CASE KeepWaiting
    BY <1>1, <2>4 DEF KeepWaiting, ReconcileValues
  <2>5. CASE CollectRunningStatistics
    BY <1>1, <2>5 DEF CollectRunningStatistics, ReconcileValues, StatusValues
  <2>6. CASE SyncServiceMonitor
    BY <1>1, <2>6 DEF SyncServiceMonitor, ReconcileValues
  <2>7. QED BY <2>1, <2>2, <2>3, <2>4, <2>5, <2>6
<1>4. wf' # Idle
  <2>1. "snap" \in DOMAIN wf' /\ "snap" \notin DOMAIN Idle
    BY <1>2, <1>3 DEF Idle
  <2>2. QED BY <2>1
<1>5. UNCHANGED <<rw, rwCache, cache>>
  BY DEF SyncConfigsFails, SyncAllComponents, AllComponentsReady,
     KeepWaiting, CollectRunningStatistics, SyncServiceMonitor
<1>6. QED BY <1>1, <1>3, <1>4, <1>5 DEF Active, Snapshot

(* A reconcile takes the cached RisingWave for its snapshot.               *)
LEMMA StartMoves ==
    ASSUME TypeOK, Start
    PROVE  /\ ~Active /\ Active' /\ wf'.snap = rwCache /\ Snapshot' = rwCache
           /\ rwCache \in RisingWaveValues
           /\ UNCHANGED <<rw, rwCache, objs, cache>>
<1>1. /\ DOMAIN wf' = {"stage", "snap", "status", "collect", "monitor", "failed"}
      /\ wf'.snap = rwCache
  BY DEF Start
<1>2. wf' # Idle
  <2>1. "snap" \in DOMAIN wf' /\ "snap" \notin DOMAIN Idle
    BY <1>1 DEF Idle
  <2>2. QED BY <2>1
<1>3. QED BY <1>1, <1>2 DEF Start, NextWork, Active, Snapshot, TypeOK

(* The status write changes nothing, or the status of the very object that *)
(* was the snapshot.                                                       *)
LEMMA UpdateStatusMoves ==
    ASSUME TypeOK, UpdateStatus
    PROVE  /\ Active /\ ~Active' /\ Snapshot' = NoRW
           /\ UNCHANGED <<rwCache, objs, cache>>
           /\ \/ rw' = rw
              \/ /\ rw = wf.snap /\ rw' # NoRW
                 /\ rw'.uid = rw.uid /\ rw'.gen = rw.gen /\ rw'.spec = rw.spec
                 /\ rw'.status = wf.status
<1>1. /\ Active /\ wf.snap # NoRW /\ wf.snap \in RisingWaveValues
      /\ wf.status \in StatusValues
  BY ReconcileTyped DEF UpdateStatus, BranchesDone
<1>2. \/ rw' = rw
      \/ rw = wf.snap /\ rw' = [rw EXCEPT !.status = wf.status]
  BY DEF UpdateStatus
<1>3. ASSUME rw = wf.snap, rw' = [rw EXCEPT !.status = wf.status]
      PROVE  /\ rw'.uid = rw.uid /\ rw'.gen = rw.gen /\ rw'.spec = rw.spec
             /\ rw'.status = wf.status /\ rw' # NoRW
  <2>1. /\ rw'.uid = rw.uid /\ rw'.gen = rw.gen /\ rw'.spec = rw.spec
        /\ rw'.status = wf.status
    BY <1>1, <1>3 DEF RisingWaveValues
  <2>2. rw.uid # 0 /\ NoRW.uid = 0
    BY <1>1, <1>3 DEF RisingWaveValues, NoRW, TypeOK
  <2>3. QED BY <2>1, <2>2
<1>4. QED BY <1>1, <1>2, <1>3 DEF UpdateStatus, Active, Snapshot

(* How the cache, the snapshot and the stored RisingWave may move in a     *)
(* step.                                                                   *)
LEMMA CopiesMove ==
    ASSUME TypeOK, [Next]_vars
    PROVE  CacheMoves /\ SnapshotMoves /\ RisingWaveMoves
<1>1. CASE UNCHANGED vars
  BY <1>1 DEF vars, CacheMoves, SnapshotMoves, RisingWaveMoves, Snapshot, Active
<1>2. CASE Skip
  BY <1>2 DEF Skip, CacheMoves, SnapshotMoves, RisingWaveMoves, Snapshot, Active
<1>3. CASE Start
  BY <1>3, StartMoves DEF CacheMoves, SnapshotMoves, RisingWaveMoves
<1>4. CASE \/ SyncConfigsFails \/ SyncAllComponents \/ AllComponentsReady
           \/ KeepWaiting \/ CollectRunningStatistics \/ SyncServiceMonitor
  BY <1>4, ReconcileKeepsSnapshot DEF CacheMoves, SnapshotMoves, RisingWaveMoves
<1>5. CASE UpdateStatus
  BY <1>5, UpdateStatusMoves DEF CacheMoves, SnapshotMoves, RisingWaveMoves
<1>6. CASE Deliveries
  BY <1>6 DEF Deliveries, DeliverRisingWave, DeliverObjects,
              CacheMoves, SnapshotMoves, RisingWaveMoves, Snapshot, Active
<1>7. CASE Users \/ Converge \/ Disruption
  <2>1. UNCHANGED <<rwCache, wf>>
    BY <1>7 DEF Users, Converge, Disruption, Create, EditSpec, TogglePause, Delete,
                FinishDelete, CollectGarbage, RollOut, Disrupt
  <2>2. CacheMoves /\ SnapshotMoves
    BY <2>1 DEF CacheMoves, SnapshotMoves, Snapshot, Active
  <2>3. RisingWaveMoves
    <3>1. CASE Create
      <4>1. PICK spec \in Specs : rw' = NewRW(uids + 1, spec)
        BY <3>1 DEF Create
      <4>2. rw'.uid = uids + 1 /\ rw'.gen = 1 /\ rw'.status = NoStatus
        BY <4>1 DEF NewRW
      <4>3. rw' # NoRW
        BY <4>2 DEF NoRW, TypeOK
      <4>4. QED BY <3>1, <4>2, <4>3 DEF Create, RisingWaveMoves
    <3>2. CASE EditSpec \/ TogglePause \/ Delete
      <4>1. rw # NoRW /\ rw \in RisingWaveValues
        BY <3>2 DEF EditSpec, TogglePause, Delete, TypeOK
      <4>2. \/ rw' = NoRW
            \/ /\ rw'.uid = rw.uid /\ rw'.status = rw.status
               /\ \/ rw'.gen = rw.gen /\ rw'.spec = rw.spec
                  \/ rw'.gen = rw.gen + 1
        BY <3>2, <4>1 DEF EditSpec, TogglePause, Delete, RisingWaveValues
      <4>3. QED BY <4>1, <4>2 DEF RisingWaveMoves
    <3>3. CASE Converge \/ Disruption
      BY <3>3 DEF Converge, Disruption, FinishDelete, CollectGarbage, RollOut, Disrupt,
                  RisingWaveMoves
    <3>4. QED BY <1>7, <3>1, <3>2, <3>3 DEF Users
  <2>4. QED BY <2>2, <2>3
<1>8. CASE Restart
  BY <1>8 DEF Restart, CacheMoves, SnapshotMoves, RisingWaveMoves, Snapshot, Active
<1>9. QED BY <1>1, <1>2, <1>3, <1>4, <1>5, <1>6, <1>7, <1>8 DEF Next, Worker

(* The conditions after the barrier: Initializing is never set there.      *)
LEMMA MarksKeepInitializing ==
    ASSUME NEW r, NEW broken,
           NEW conds0 \in [Conditions -> {"None", "True", "False"}],
           NEW conds \in RunningMarks(InitializingMark(conds0, r), r, broken),
           NEW marked \in UpgradingMarks(conds, r)
    PROVE  marked["Initializing"] \in {conds0["Initializing"], "None"}
<1> USE DEF Conditions
<1>1. /\ InitializingMark(conds0, r) \in [Conditions -> {"None", "True", "False"}]
      /\ InitializingMark(conds0, r)["Initializing"] \in {conds0["Initializing"], "None"}
  BY DEF InitializingMark, RemoveCondition
<1>2. /\ conds \in [Conditions -> {"None", "True", "False"}]
      /\ conds["Initializing"] = InitializingMark(conds0, r)["Initializing"]
  BY <1>1 DEF RunningMarks, UpdateCondition
<1>3. marked["Initializing"] = conds["Initializing"]
  BY <1>2 DEF UpgradingMarks, UpdateCondition
<1>4. QED BY <1>1, <1>2, <1>3

(* The status that a reconcile works on when it starts.                    *)
LEMMA StartStatus ==
    ASSUME TypeOK, Start
    PROVE  /\ wf'.status.observed =
                 IF NeedsSync(rwCache) THEN rwCache.gen ELSE rwCache.status.observed
           /\ FirstTimeObserved(rwCache) => wf'.status.conds["Initializing"] = "True"
           /\ ~FirstTimeObserved(rwCache) /\ NeedsUpgrade(rwCache) =>
                 /\ wf'.status.conds["Upgrading"] = "True"
                 /\ wf'.status.conds["Initializing"] = rwCache.status.conds["Initializing"]
           /\ ~FirstTimeObserved(rwCache) /\ ~NeedsUpgrade(rwCache) =>
                 wf'.status.conds = rwCache.status.conds
<1> DEFINE conds == rwCache.status.conds
           first == UpdateCondition(UpdateCondition(conds, "Initializing", "True"),
                                    "Running", "False")
<1>1. rwCache \in RisingWaveValues
  BY StartMoves
<1>2. conds \in [Conditions -> {"None", "True", "False"}]
  BY <1>1 DEF RisingWaveValues, StatusValues
<1>3. /\ wf'.status.observed =
            IF NeedsSync(rwCache) THEN rwCache.gen ELSE rwCache.status.observed
      /\ wf'.status.conds =
            IF FirstTimeObserved(rwCache) THEN first
            ELSE IF NeedsUpgrade(rwCache) THEN UpdateCondition(conds, "Upgrading", "True")
            ELSE conds
  BY DEF Start
<1>4. /\ first["Initializing"] = "True"
      /\ UpdateCondition(conds, "Upgrading", "True")["Upgrading"] = "True"
      /\ UpdateCondition(conds, "Upgrading", "True")["Initializing"] = conds["Initializing"]
  BY <1>2 DEF UpdateCondition, Conditions
<1> HIDE DEF first, conds
<1>5. QED BY <1>3, <1>4 DEF conds

(* The observed generation stays behind the generation.                    *)
LEMMA StatusFollowsStep ==
    ASSUME TypeOK, StatusFollows, [Next]_vars
    PROVE  StatusFollows'
<1>1. CASE wf' = wf
  BY <1>1 DEF StatusFollows, Active
<1>2. CASE Start
  <2>1. /\ wf'.status.observed \in {wf'.snap.gen, wf'.snap.status.observed}
        /\ wf'.status.conds["Initializing"] = "True" =>
              FirstTimeObserved(rwCache) \/ ConditionIs(rwCache, "Initializing", "True")
    BY <1>2, StartMoves, StartStatus DEF ConditionIs
  <2>2. QED BY <1>2, <2>1, StartMoves DEF StatusFollows, FirstTimeObserved, ConditionIs
<1>3. CASE \/ SyncConfigsFails \/ SyncAllComponents \/ AllComponentsReady
           \/ KeepWaiting \/ CollectRunningStatistics \/ SyncServiceMonitor
  <2>1. /\ Active /\ wf'.snap = wf.snap /\ wf'.status.observed = wf.status.observed
    BY <1>3, ReconcileKeepsSnapshot
  <2>2. /\ wf \in ReconcileValues
        /\ wf.status.conds \in [Conditions -> {"None", "True", "False"}]
    BY <2>1, ReconcileTyped DEF StatusValues
  <2>3. wf'.status.conds["Initializing"] \in {wf.status.conds["Initializing"], "None"}
    <3>1. CASE SyncConfigsFails \/ KeepWaiting
      BY <2>2, <3>1 DEF SyncConfigsFails, KeepWaiting, ReconcileValues
    <3>2. CASE SyncAllComponents
      BY <2>2, <3>2 DEF SyncAllComponents, ReconcileValues
    <3>3. CASE SyncServiceMonitor
      BY <2>2, <3>3 DEF SyncServiceMonitor, ReconcileValues
    <3>4. CASE AllComponentsReady
      <4>1. PICK conds \in RunningMarks(InitializingMark(wf.status.conds, wf.snap),
                                        wf.snap, wf.collect = "broken") :
               \E marked \in UpgradingMarks(conds, wf.snap) :
                  wf' = [wf EXCEPT !.stage = "done", !.status.conds = marked]
        BY <3>4 DEF AllComponentsReady
      <4>2. PICK marked \in UpgradingMarks(conds, wf.snap) :
                  wf' = [wf EXCEPT !.stage = "done", !.status.conds = marked]
        BY <4>1
      <4>3. wf'.status.conds = marked
        BY <2>2, <4>2 DEF ReconcileValues, StatusValues
      <4>4. QED BY <2>2, <4>3, MarksKeepInitializing
    <3>5. CASE CollectRunningStatistics
      <4>1. \/ wf'.status.conds = wf.status.conds
            \/ wf'.status.conds = UpdateCondition(wf.status.conds, "Running", "False")
        BY <2>2, <3>5 DEF CollectRunningStatistics, ReconcileValues, StatusValues
      <4>2. QED BY <2>2, <4>1 DEF UpdateCondition, Conditions
    <3>6. QED BY <1>3, <3>1, <3>2, <3>3, <3>4, <3>5
  <2>4. QED BY <2>1, <2>3 DEF StatusFollows, FirstTimeObserved, ConditionIs
<1>4. CASE UpdateStatus \/ Restart
  BY <1>4 DEF UpdateStatus, Restart, StatusFollows, Active
<1>5. CASE Skip \/ Deliveries \/ Users \/ Converge \/ Disruption \/ UNCHANGED vars
  BY <1>1, <1>5 DEF Skip, Deliveries, DeliverRisingWave, DeliverObjects, Users, Create,
     EditSpec, TogglePause, Delete, Converge, FinishDelete, CollectGarbage, RollOut,
     Disruption, Disrupt, vars
<1>6. QED BY <1>2, <1>3, <1>4, <1>5 DEF Next, Worker

-----------------------------------------------------------------------------
(* Order.                                                                  *)

(* A copy of the RisingWave after a step is one from before it, moved      *)
(* forward, or a RisingWave just created.                                  *)
LEMMA CopiesAdvance ==
    ASSUME TypeOK, StatusFollows, CopiesInOrder, [Next]_vars,
           NEW r, r \in {Snapshot', rwCache', rw'}, r # NoRW
    PROVE  \/ \E q \in {Snapshot, rwCache, rw} :
                 q # NoRW /\ q.uid = r.uid /\ q.gen <= r.gen
           \/ rw = NoRW /\ r = rw' /\ r.uid = uids + 1
<1>1. CacheMoves /\ SnapshotMoves /\ RisingWaveMoves
  BY CopiesMove
<1>2. \A q \in {Snapshot, rwCache, rw} : q # NoRW => q.gen \in Nat /\ q.uid \in Nat
  BY DEF TypeOK, Snapshot, Active, RisingWaveValues, ReconcileValues
<1>3. CASE r \in {Snapshot, rwCache, rw}
  BY <1>2, <1>3
<1>4. CASE r \notin {Snapshot, rwCache, rw}
  <2>1. r = rw' /\ rw' # rw
    BY <1>1, <1>4 DEF CacheMoves, SnapshotMoves
  <2>2. \/ rw # NoRW /\ rw'.uid = rw.uid /\ rw'.gen \in {rw.gen, rw.gen + 1}
        \/ rw = NoRW /\ rw'.uid = uids + 1
    BY <1>1, <1>4, <2>1, ReconcileTyped DEF RisingWaveMoves
  <2>3. QED BY <1>2, <2>1, <2>2
<1>5. QED BY <1>3, <1>4

(* Snapshot, cache and stored RisingWave stay in order.                    *)
LEMMA CopiesInOrderStep ==
    ASSUME TypeOK, StatusFollows, CopiesInOrder, [Next]_vars
    PROVE  CopiesInOrder'
<1>1. CacheMoves /\ SnapshotMoves /\ RisingWaveMoves
  BY CopiesMove
<1>2. \A q \in {Snapshot, rwCache, rw} :
         /\ q.uid \in 0 .. uids /\ q.gen \in Nat /\ q.status.observed \in Nat
         /\ q.status.observed <= q.gen
  <2>1. NoRW.uid = 0 /\ NoRW.gen = 0 /\ NoRW.status.observed = 0
    BY DEF NoRW, NoStatus
  <2>2. ASSUME NEW q \in RisingWaveValues
        PROVE  q.uid \in 0 .. uids /\ q.gen \in Nat /\ q.status.observed \in Nat
    BY DEF RisingWaveValues, StatusValues, TypeOK
  <2>3. Snapshot \in RisingWaveValues \cup {NoRW}
    BY DEF TypeOK, Snapshot, Active, ReconcileValues
  <2>4. QED BY <2>1, <2>2, <2>3 DEF TypeOK, CopiesInOrder
<1>3. InOrder(Snapshot, rwCache) /\ InOrder(Snapshot, rw) /\ InOrder(rwCache, rw)
  BY DEF CopiesInOrder
<1>4. uids \in Nat
  BY DEF TypeOK
<1>5. CASE rw' \in {rw, NoRW}
  BY <1>1, <1>2, <1>3, <1>5 DEF CopiesInOrder, CacheMoves, SnapshotMoves, InOrder, NoRW, NoStatus
<1>6. CASE rw' \notin {rw, NoRW}
  <2>1. rwCache' = rwCache /\ Snapshot' \in {Snapshot, NoRW}
    BY <1>1, <1>6 DEF CacheMoves, SnapshotMoves
  <2>2. CASE /\ rw # NoRW /\ rw'.uid = rw.uid /\ rw'.status = rw.status
             /\ rw'.gen \in {rw.gen, rw.gen + 1}
    BY <1>2, <1>3, <2>1, <2>2 DEF CopiesInOrder, InOrder, NoRW, NoStatus
  <2>3. CASE rw = NoRW /\ rw'.uid = uids + 1 /\ rw'.gen = 1 /\ rw'.status = NoStatus
    BY <1>2, <1>3, <1>4, <2>1, <2>3 DEF CopiesInOrder, InOrder, NoRW, NoStatus
  <2>4. CASE /\ Active /\ rw = wf.snap
             /\ rw'.uid = rw.uid /\ rw'.gen = rw.gen /\ rw'.status = wf.status
    <3>1. Snapshot = rw /\ rw # NoRW
      BY <2>4, ReconcileTyped
    <3>2. rw'.status.observed \in {rw.gen, rw.status.observed}
      BY <2>4 DEF StatusFollows
    <3>3. QED BY <1>2, <1>3, <2>1, <2>4, <3>1, <3>2 DEF CopiesInOrder, InOrder, NoRW, NoStatus
  <2>5. QED BY <1>1, <1>6, <2>2, <2>3, <2>4 DEF RisingWaveMoves
<1>7. QED BY <1>5, <1>6

-----------------------------------------------------------------------------
(* How the objects move, in the API server and in the caches.              *)

ObjectMoves(o) ==
    \/ objs'[o] \in {objs[o], Absent}
    \/ /\ objs'[o] # Absent /\ objs[o] # Absent
       /\ objs'[o].owner = objs[o].owner /\ objs'[o].gen = objs[o].gen
    \/ /\ Active /\ Snapshot' = Snapshot /\ UNCHANGED <<rw, rwCache, cache>>
       /\ objs'[o] = New(o, wf.snap, version)

CachedObjectMoves(o) ==
    \/ cache'[o] = cache[o]
    \/ cache'[o] = objs[o] /\ objs'[o] = objs[o]

(* The Sync actions leave an object alone, delete it, or make it what the  *)
(* snapshot asks for.                                                      *)
LEMMA SyncMoves ==
    ASSUME TypeOK, ObjectsInOrder, NEW o \in Objects,
           SyncConfigsFails \/ SyncAllComponents \/ SyncServiceMonitor
    PROVE  Synced(o, objs'[o])
<1>1. Active
  BY ReconcileTyped DEF SyncConfigsFails, SyncAllComponents, SyncServiceMonitor
<1>2. \A faulty \in Faults : faulty \in BOOLEAN
  BY DEF Faults
<1>3. CASE SyncConfigsFails
  BY <1>1, <1>2, <1>3, RunSyncs DEF SyncConfigsFails
<1>4. CASE SyncAllComponents
  BY <1>1, <1>2, <1>4, RunSyncs DEF SyncAllComponents
<1>5. CASE SyncServiceMonitor
  BY <1>1, <1>2, <1>5, RunSyncs DEF SyncServiceMonitor
<1>6. QED BY <1>3, <1>4, <1>5

(* How an object and its cached copy may move in a step.                   *)
LEMMA ObjectsMove ==
    ASSUME TypeOK, ObjectsInOrder, [Next]_vars, NEW o \in Objects
    PROVE  ObjectMoves(o) /\ CachedObjectMoves(o)
<1>1. CASE objs' = objs /\ cache' = cache
  BY <1>1 DEF ObjectMoves, CachedObjectMoves
<1>2. CASE SyncConfigsFails \/ SyncAllComponents \/ SyncServiceMonitor
  <2>1. Synced(o, objs'[o])
    BY <1>2, SyncMoves
  <2>2. Active /\ Snapshot' = Snapshot /\ UNCHANGED <<rw, rwCache, cache>>
    BY <1>2, ReconcileKeepsSnapshot
  <2>3. QED BY <2>1, <2>2 DEF Synced, ObjectMoves, CachedObjectMoves
<1>3. CASE \/ UNCHANGED vars \/ Skip \/ Start \/ AllComponentsReady \/ KeepWaiting
           \/ CollectRunningStatistics \/ UpdateStatus \/ DeliverRisingWave \/ Users
           \/ FinishDelete
  BY <1>1, <1>3 DEF vars, Skip, Start, AllComponentsReady, KeepWaiting, UpdateStatus,
     CollectRunningStatistics, DeliverRisingWave, Users, Create, EditSpec, TogglePause,
     Delete, FinishDelete
<1>4. ASSUME NEW kinds \in Informers, DeliverObjects(kinds)
      PROVE  ObjectMoves(o) /\ CachedObjectMoves(o)
  BY <1>4 DEF DeliverObjects, ObjectMoves, CachedObjectMoves
<1>5. ASSUME NEW kinds \in Informers, CollectGarbage(kinds)
      PROVE  ObjectMoves(o) /\ CachedObjectMoves(o)
  BY <1>5 DEF CollectGarbage, ObjectMoves, CachedObjectMoves
<1>6. ASSUME NEW p \in Objects, RollOut(p) \/ Disrupt(p)
      PROVE  ObjectMoves(o) /\ CachedObjectMoves(o)
  <2>1. cache' = cache /\ objs[p] # Absent /\ objs[p] \in ObjectValues
    BY <1>6 DEF RollOut, Disrupt, TypeOK
  <2>2. CASE o # p
    BY <1>6, <2>1, <2>2 DEF RollOut, Disrupt, TypeOK, ObjectMoves, CachedObjectMoves
  <2>3. CASE o = p
    <3>1. CASE objs' = [objs EXCEPT ![o] = Absent]
      BY <2>1, <3>1 DEF TypeOK, ObjectMoves, CachedObjectMoves
    <3>2. ASSUME NEW ready, objs' = [objs EXCEPT ![o].ready = ready]
          PROVE  ObjectMoves(o) /\ CachedObjectMoves(o)
      <4>1. objs'[o].owner = objs[o].owner /\ objs'[o].gen = objs[o].gen
        BY <2>1, <2>3, <3>2 DEF TypeOK, ObjectValues
      <4>2. QED BY <2>1, <2>3, <4>1 DEF ObjectMoves, CachedObjectMoves
    <3>3. QED BY <1>6, <2>3, <3>1, <3>2 DEF RollOut, Disrupt
  <2>4. QED BY <2>2, <2>3
<1>7. CASE Restart
  BY <1>7 DEF Restart, ObjectMoves, CachedObjectMoves
<1>8. QED BY <1>2, <1>3, <1>4, <1>5, <1>6, <1>7
      DEF Next, Worker, Deliveries, Converge, Disruption

(* The clauses of ObjectInOrder, with the copies as a parameter.           *)
ObjectBefore(o, y, r) ==
    r # NoRW => /\ y.owner <= r.uid
                /\ y.owner = r.uid => y.gen <= r.gen

(* An object that no copy of the RisingWave is behind stays so: the copies *)
(* move forward.                                                           *)
LEMMA ObjectStaysInOrder ==
    ASSUME TypeOK, TypeOK', StatusFollows, CopiesInOrder, [Next]_vars,
           NEW o, NEW y \in ObjectValues, y # Absent,
           \A r \in {Snapshot, rwCache, rw} : ObjectBefore(o, y, r)
    PROVE  \A r \in {Snapshot', rwCache', rw'} : ObjectBefore(o, y, r)
<1> SUFFICES ASSUME NEW r, r \in {Snapshot', rwCache', rw'}, r # NoRW
             PROVE  y.owner <= r.uid /\ (y.owner = r.uid => y.gen <= r.gen)
  BY DEF ObjectBefore
<1>1. y.owner \in 0 .. uids /\ y.gen \in Int /\ uids \in Nat
  BY DEF ObjectValues, TypeOK, NoSync
<1>2. CASE r.uid = uids + 1
  BY <1>1, <1>2
<1>3. ASSUME NEW q \in {Snapshot, rwCache, rw}, q # NoRW, q.uid = r.uid, q.gen <= r.gen
      PROVE  y.owner <= r.uid /\ (y.owner = r.uid => y.gen <= r.gen)
  <2>1. q.gen \in Nat
    BY <1>3 DEF TypeOK, Snapshot, Active, RisingWaveValues, ReconcileValues
  <2>2. r.gen \in Int
    BY DEF TypeOK, Snapshot, Active, RisingWaveValues, ReconcileValues
  <2>3. QED BY <1>1, <1>3, <2>1, <2>2 DEF ObjectBefore
<1>4. QED BY <1>2, <1>3, CopiesAdvance

(* What is built from the snapshot is of no later generation than any copy *)
(* from the snapshot on.                                                   *)
LEMMA NewObjectInOrder ==
    ASSUME TypeOK, CopiesInOrder, Active, NEW o \in Objects
    PROVE  /\ \A r \in {Snapshot, rwCache, rw} :
                 ObjectBefore(o, New(o, wf.snap, version), r)
           /\ New(o, wf.snap, version).gen = NoSync <=> o = Config
<1>1. /\ wf.snap \in RisingWaveValues /\ wf.snap # NoRW /\ Snapshot = wf.snap
  BY ReconcileTyped
<1> DEFINE y == New(o, wf.snap, version)
<1>2. /\ y.owner = wf.snap.uid
      /\ o = Config => y.gen = NoSync
      /\ o # Config => y.gen = wf.snap.gen
  BY <1>1, NewObject
<1>3. wf.snap.gen \in Nat \ {0} /\ wf.snap.uid \in Nat
  BY <1>1 DEF RisingWaveValues
<1>4. y.gen = NoSync <=> o = Config
  BY <1>2, <1>3 DEF NoSync
<1>5. \A r \in {Snapshot, rwCache, rw} : r # NoRW =>
         /\ r.gen \in Nat /\ r.uid \in Nat
         /\ wf.snap.uid <= r.uid
         /\ wf.snap.uid = r.uid => wf.snap.gen <= r.gen
  <2>1. \A r \in {Snapshot, rwCache, rw} : r # NoRW => r.gen \in Nat /\ r.uid \in Nat
    BY DEF TypeOK, Snapshot, Active, RisingWaveValues, ReconcileValues
  <2>2. QED BY <1>1, <1>3, <2>1 DEF CopiesInOrder, InOrder
<1> HIDE DEF y
<1>6. \A r \in {Snapshot, rwCache, rw} : ObjectBefore(o, y, r)
  BY <1>2, <1>3, <1>5 DEF ObjectBefore, NoSync
<1>7. QED BY <1>4, <1>6 DEF y

(* No object is ahead of the RisingWave that it was built from.            *)
LEMMA ObjectsInOrderStep ==
    ASSUME TypeOK, TypeOK', StatusFollows, CopiesInOrder, ObjectsInOrder, [Next]_vars
    PROVE  ObjectsInOrder'
<1> SUFFICES ASSUME NEW o \in Objects
             PROVE  /\ ObjectInOrder(o, objs[o])' /\ ObjectInOrder(o, cache[o])'
                    /\ cache'[o] # Absent /\ objs'[o] # Absent =>
                          /\ cache'[o].owner <= objs'[o].owner
                          /\ cache'[o].owner = objs'[o].owner =>
                                cache'[o].gen <= objs'[o].gen
  BY DEF ObjectsInOrder
<1>1. ObjectMoves(o) /\ CachedObjectMoves(o)
  BY ObjectsMove
<1>2. ASSUME NEW y \in ObjectValues, ObjectInOrder(o, y), y # Absent
      PROVE  /\ y.gen = NoSync <=> o = Config
             /\ \A r \in {Snapshot', rwCache', rw'} : ObjectBefore(o, y, r)
  <2>1. \A r \in {Snapshot, rwCache, rw} : ObjectBefore(o, y, r)
    BY <1>2 DEF ObjectInOrder, ObjectBefore
  <2>2. QED BY <1>2, <2>1, ObjectStaysInOrder DEF ObjectInOrder
<1>3. /\ objs[o] \in ObjectValues /\ ObjectInOrder(o, objs[o])
      /\ cache[o] \in ObjectValues /\ ObjectInOrder(o, cache[o])
      /\ objs[o].owner \in Nat /\ objs[o].gen \in Int
      /\ cache[o].owner \in Nat /\ cache[o].gen \in Int
      /\ cache[o] # Absent /\ objs[o] # Absent =>
            /\ cache[o].owner <= objs[o].owner
            /\ cache[o].owner = objs[o].owner => cache[o].gen <= objs[o].gen
  BY DEF TypeOK, ObjectsInOrder, ObjectValues, NoSync
<1>4. cache'[o] # Absent =>
         /\ cache'[o].gen = NoSync <=> o = Config
         /\ \A r \in {Snapshot', rwCache', rw'} : ObjectBefore(o, cache'[o], r)
  BY <1>1, <1>2, <1>3 DEF CachedObjectMoves
<1>5. CASE objs'[o] \in {objs[o], Absent}
  <2>1. objs'[o] # Absent =>
           /\ objs'[o].gen = NoSync <=> o = Config
           /\ \A r \in {Snapshot', rwCache', rw'} : ObjectBefore(o, objs'[o], r)
    BY <1>2, <1>3, <1>5
  <2>2. QED BY <1>1, <1>3, <1>4, <1>5, <2>1 DEF ObjectInOrder, ObjectBefore, CachedObjectMoves
<1>6. CASE /\ objs'[o] # Absent /\ objs[o] # Absent /\ objs'[o] # objs[o]
           /\ objs'[o].owner = objs[o].owner /\ objs'[o].gen = objs[o].gen
  <2>1. /\ objs'[o].gen = NoSync <=> o = Config
        /\ \A r \in {Snapshot', rwCache', rw'} : ObjectBefore(o, objs'[o], r)
    BY <1>2, <1>3, <1>6 DEF ObjectBefore
  <2>2. QED BY <1>1, <1>3, <1>4, <1>6, <2>1 DEF ObjectInOrder, ObjectBefore, CachedObjectMoves
<1>7. CASE /\ Active /\ Snapshot' = Snapshot /\ UNCHANGED <<rw, rwCache, cache>>
           /\ objs'[o] = New(o, wf.snap, version)
  <2>1. /\ objs'[o].gen = NoSync <=> o = Config
        /\ \A r \in {Snapshot', rwCache', rw'} : ObjectBefore(o, objs'[o], r)
    BY <1>7, NewObjectInOrder
  <2>2. /\ wf.snap \in RisingWaveValues /\ wf.snap # NoRW /\ Snapshot = wf.snap
        /\ objs'[o].owner = wf.snap.uid
        /\ o = Config => objs'[o].gen = NoSync
        /\ o # Config => objs'[o].gen = wf.snap.gen
    BY <1>7, ReconcileTyped, NewObject
  <2>3. cache'[o] # Absent =>
           /\ cache'[o].owner <= objs'[o].owner
           /\ cache'[o].owner = objs'[o].owner => cache'[o].gen <= objs'[o].gen
    <3>1. cache[o] # Absent =>
             /\ cache[o].owner <= wf.snap.uid
             /\ cache[o].owner = wf.snap.uid => cache[o].gen <= wf.snap.gen
             /\ cache[o].gen = NoSync <=> o = Config
      BY <1>3, <2>2 DEF ObjectInOrder
    <3>2. QED BY <1>7, <2>2, <3>1 DEF NoSync
  <2>4. QED BY <1>4, <2>1, <2>3 DEF ObjectInOrder, ObjectBefore
<1>8. QED BY <1>1, <1>5, <1>6, <1>7 DEF ObjectMoves

-----------------------------------------------------------------------------
(* Claims.                                                                 *)

(* The barrier does not look at the ConfigMap.                             *)
LEMMA ConfigIsNotWaitedFor == ~WaitedFor(Config)
<1>1. Kind(Config) = "ConfigMap" /\ Kind(Service("meta")) = "Service"
  BY DEF Kind, Config, Service
<1>2. ~IsWorkload(Config)
  BY <1>1 DEF IsWorkload, WorkloadKinds
<1>3. Config # Service("meta")
  BY <1>1
<1>4. QED BY <1>2, <1>3 DEF WaitedFor

(* Objects that carry a generation go on doing so, unless the reconcile in *)
(* flight is for an older one.                                             *)
LEMMA CarriesGenerationStays ==
    ASSUME TypeOK, ObjectsInOrder, [Next]_vars,
           NEW r, r.gen \in Nat, CarriesGeneration(r),
           Active /\ wf.snap.uid = r.uid => r.gen <= wf.snap.gen
    PROVE  CarriesGeneration(r)'
<1> SUFFICES ASSUME NEW o \in Objects, WaitedFor(o), Wanted(o, r.spec),
                    objs'[o] # Absent, objs'[o].owner = r.uid
             PROVE  objs'[o].gen >= r.gen
  BY DEF CarriesGeneration
<1>1. ObjectMoves(o)
  BY ObjectsMove
<1>2. objs[o] # Absent /\ objs[o].owner = r.uid => objs[o].gen >= r.gen
  BY DEF CarriesGeneration
<1>3. CASE Active /\ objs'[o] = New(o, wf.snap, version)
  <2>1. wf.snap \in RisingWaveValues /\ wf.snap.gen \in Nat
    BY <1>3, ReconcileTyped DEF RisingWaveValues
  <2>2. objs'[o].owner = wf.snap.uid /\ objs'[o].gen = wf.snap.gen
    BY <1>3, <2>1, NewObject, ConfigIsNotWaitedFor
  <2>3. QED BY <1>3, <2>1, <2>2
<1>4. QED BY <1>1, <1>2, <1>3 DEF ObjectMoves

(* Past the barrier every object waited for carries the generation of the  *)
(* snapshot, in the cache and therefore in the API server.                 *)
LEMMA BarrierCarries ==
    ASSUME TypeOK, ObjectsInOrder, AllComponentsReady
    PROVE  CarriesGeneration(wf.snap)
<1> SUFFICES ASSUME NEW o \in Objects, WaitedFor(o), Wanted(o, wf.snap.spec),
                    objs[o] # Absent, objs[o].owner = wf.snap.uid
             PROVE  objs[o].gen >= wf.snap.gen
  BY DEF CarriesGeneration
<1>1. wf.snap \in RisingWaveValues /\ wf.snap.gen \in Nat
  BY ReconcileTyped DEF AllComponentsReady, RisingWaveValues
<1>2. Barrier(o, cache[o], wf.snap) /\ ~GetFails(o, cache[o], wf.snap)
  BY DEF AllComponentsReady, GetterFails
<1>3. isObjectSynced(Seen(o, cache[o], wf.snap), wf.snap.gen)
  <2>1. CASE IsWorkload(o)
    <3>1. o # Service("meta")
      BY <2>1 DEF IsWorkload, WorkloadKinds, Kind, Service
    <3>2. WorkloadReady(o, cache[o], wf.snap)
      BY <1>2, <2>1, <3>1 DEF Barrier
    <3>3. QED BY <3>2 DEF WorkloadReady
  <2>2. CASE ~IsWorkload(o) /\ o = Service("meta")
    <3>1. ~IsListed(o)
      BY <2>2 DEF IsListed
    <3>2. MetaServiceReady(cache[o], wf.snap)
      BY <1>2, <2>2 DEF Barrier
    <3>3. Kind(o) = "Service" /\ Component(o) = "meta"
      BY <2>2 DEF Service, Kind, Component
    <3>4. /\ Component(Service("standalone")) = "standalone"
          /\ Component(Service("frontend")) = "frontend"
          /\ Kind(Monitor) = "ServiceMonitor" /\ Kind(Config) = "ConfigMap"
      BY DEF Service, Component, Kind, Monitor, Config
    <3>5. ~wf.snap.spec.standalone
      BY <2>2, <3>1, <3>3, <3>4 DEF Wanted
    <3>6. QED BY <3>1, <3>2, <3>5 DEF MetaServiceReady, Seen
  <2>3. QED BY <2>1, <2>2 DEF WaitedFor
<1>4. /\ Seen(o, cache[o], wf.snap) = cache[o] /\ cache[o] # Absent
      /\ cache[o].owner = wf.snap.uid
  BY <1>2, <1>3 DEF Seen, GetFails, Foreign, isObjectSynced
<1>5. cache[o].gen \in Int /\ objs[o].gen \in Int
  BY DEF TypeOK, ObjectValues, NoSync
<1>6. cache[o].gen # NoSync /\ cache[o].gen <= objs[o].gen
  BY <1>4, ConfigIsNotWaitedFor DEF ObjectsInOrder, ObjectInOrder
<1>7. QED BY <1>1, <1>3, <1>4, <1>5, <1>6 DEF isObjectSynced

\* x and y agree on what CarriesGeneration reads
SameGeneration(x, y) == x.uid = y.uid /\ x.gen = y.gen /\ x.spec = y.spec

(* A claim in a copy of the RisingWave comes from a claim in a copy, or    *)
(* from the reconcile in flight.                                           *)
LEMMA ClaimsComeFrom ==
    ASSUME TypeOK, CopiesInOrder, [Next]_vars,
           NEW r, r \in {Snapshot', rwCache', rw'}, r # NoRW, Claims(r.status, r.gen)
    PROVE  \/ \E q \in {Snapshot, rwCache, rw} :
                 q # NoRW /\ Claims(q.status, q.gen) /\ SameGeneration(q, r)
           \/ Active /\ Claims(wf.status, wf.snap.gen) /\ SameGeneration(wf.snap, r)
<1>1. CacheMoves /\ SnapshotMoves /\ RisingWaveMoves
  BY CopiesMove
<1>2. CASE r \in {Snapshot, rwCache, rw}
  BY <1>2 DEF SameGeneration
<1>3. CASE r \notin {Snapshot, rwCache, rw}
  <2>1. r = rw' /\ rw' \notin {rw, NoRW}
    BY <1>1, <1>3 DEF CacheMoves, SnapshotMoves
  <2>2. CASE /\ rw # NoRW /\ rw'.uid = rw.uid /\ rw'.status = rw.status
             /\ rw'.gen = rw.gen /\ rw'.spec = rw.spec
    BY <2>1, <2>2 DEF SameGeneration
  <2>3. CASE rw # NoRW /\ rw'.status = rw.status /\ rw'.gen = rw.gen + 1
    <3>1. rw.status.observed <= rw.gen /\ rw.gen \in Nat /\ rw.status.observed \in Nat
      BY <2>3 DEF CopiesInOrder, TypeOK, RisingWaveValues, StatusValues
    <3>2. QED BY <2>1, <2>3, <3>1 DEF Claims
  <2>4. CASE rw'.gen = 1 /\ rw'.status = NoStatus
    BY <2>1, <2>4 DEF Claims, NoStatus
  <2>5. CASE /\ Active /\ rw = wf.snap /\ rw'.status = wf.status
             /\ rw'.uid = rw.uid /\ rw'.gen = rw.gen /\ rw'.spec = rw.spec
    BY <2>1, <2>5 DEF SameGeneration
  <2>6. QED BY <1>1, <2>1, <2>2, <2>3, <2>4, <2>5 DEF RisingWaveMoves
<1>4. QED BY <1>2, <1>3

(* A claim of the reconcile in flight is older than the step, comes from   *)
(* the cached RisingWave, or is made past the barrier.                     *)
LEMMA ReconcileClaims ==
    ASSUME TypeOK, [Next]_vars, Active', Claims(wf'.status, wf'.snap.gen)
    PROVE  \/ Active /\ Claims(wf.status, wf.snap.gen) /\ wf'.snap = wf.snap
           \/ rwCache # NoRW /\ Claims(rwCache.status, rwCache.gen) /\ wf'.snap = rwCache
           \/ AllComponentsReady /\ wf'.snap = wf.snap
<1>1. CASE wf' = wf
  BY <1>1 DEF Active
<1>2. CASE Start
  <2>1. wf'.snap = rwCache /\ rwCache # NoRW
    BY <1>2, StartMoves DEF Start
  <2>2. wf'.status.conds["Initializing"] # "True" /\ wf'.status.conds["Upgrading"] # "True"
    BY DEF Claims
  <2>3. ~FirstTimeObserved(rwCache) /\ ~NeedsUpgrade(rwCache)
    BY <1>2, <2>2, StartStatus
  <2>4. wf'.status.conds = rwCache.status.conds
    BY <1>2, <2>3, StartStatus
  <2>5. ~NeedsSync(rwCache)
    BY <2>4 DEF NeedsSync, ConditionIs, Claims
  <2>6. Claims(rwCache.status, rwCache.gen)
    BY <1>2, <2>1, <2>4, <2>5, StartStatus DEF Claims
  <2>7. QED BY <2>1, <2>6
<1>3. CASE SyncConfigsFails \/ SyncAllComponents \/ KeepWaiting \/ SyncServiceMonitor
  <2>1. Active /\ wf'.snap = wf.snap /\ wf \in ReconcileValues
    BY <1>3, ReconcileKeepsSnapshot, ReconcileTyped
  <2>2. wf'.status = wf.status
    BY <1>3, <2>1 DEF SyncConfigsFails, SyncAllComponents, KeepWaiting, SyncServiceMonitor,
                      ReconcileValues
  <2>3. QED BY <2>1, <2>2
<1>4. CASE CollectRunningStatistics
  <2>1. Active /\ wf'.snap = wf.snap /\ wf \in ReconcileValues
    BY <1>4, ReconcileKeepsSnapshot, ReconcileTyped
  <2>2. wf.status \in StatusValues /\ wf'.status.observed = wf.status.observed
    BY <1>4, <2>1, ReconcileKeepsSnapshot, ReconcileTyped
  <2>3. \/ wf'.status.conds = wf.status.conds
        \/ wf'.status.conds = UpdateCondition(wf.status.conds, "Running", "False")
    BY <1>4, <2>1 DEF CollectRunningStatistics, ReconcileValues, StatusValues
  <2>4. UpdateCondition(wf.status.conds, "Running", "False")["Running"] = "False"
    BY <2>2 DEF StatusValues, UpdateCondition, Conditions
  <2>5. QED BY <2>1, <2>2, <2>3, <2>4 DEF Claims
<1>5. CASE AllComponentsReady
  BY <1>5, ReconcileKeepsSnapshot
<1>6. CASE UpdateStatus \/ Restart
  BY <1>6 DEF UpdateStatus, Restart, Active
<1>7. CASE Skip \/ Deliveries \/ Users \/ Converge \/ Disruption \/ UNCHANGED vars
  BY <1>1, <1>7 DEF Skip, Deliveries, DeliverRisingWave, DeliverObjects, Users, Create,
     EditSpec, TogglePause, Delete, Converge, FinishDelete, CollectGarbage, RollOut,
     Disruption, Disrupt, vars
<1>8. QED BY <1>2, <1>3, <1>4, <1>5, <1>6, <1>7 DEF Next, Worker

(* What the status, stored or about to be, claims of the workloads stays   *)
(* true.                                                                   *)
LEMMA ClaimsHoldStep ==
    ASSUME TypeOK, CopiesInOrder, ObjectsInOrder, StatusFollows, ClaimsHold, [Next]_vars
    PROVE  ClaimsHold'
<1>1. \A q \in {Snapshot, rwCache, rw} :
         q # NoRW => q.gen \in Nat /\ q.uid \in Nat /\ q.status.observed \in Nat
  BY DEF TypeOK, Snapshot, Active, RisingWaveValues, ReconcileValues, StatusValues
<1>2. ASSUME NEW q \in {Snapshot, rwCache, rw}, q # NoRW, Claims(q.status, q.gen),
             Active, wf.snap.uid = q.uid
      PROVE  q.gen <= wf.snap.gen
  <2>1. Snapshot = wf.snap /\ wf.snap # NoRW /\ q.status.observed = q.gen
    BY <1>2, ReconcileTyped DEF Claims
  <2>2. QED BY <1>1, <1>2, <2>1 DEF CopiesInOrder, InOrder
<1>3. ASSUME NEW q, NEW r, SameGeneration(q, r), CarriesGeneration(q)
      PROVE  CarriesGeneration(r)
  BY <1>3 DEF SameGeneration, CarriesGeneration
<1>4. ASSUME NEW r, r \in {Snapshot', rwCache', rw'}, r # NoRW, Claims(r.status, r.gen)
      PROVE  CarriesGeneration(r)'
  <2>1. CarriesGeneration(r) /\ r.gen \in Nat
        /\ (Active /\ wf.snap.uid = r.uid => r.gen <= wf.snap.gen)
    <3>1. ASSUME NEW q \in {Snapshot, rwCache, rw},
                 q # NoRW, Claims(q.status, q.gen), SameGeneration(q, r)
          PROVE  /\ CarriesGeneration(r) /\ r.gen \in Nat
                 /\ (Active /\ wf.snap.uid = r.uid => r.gen <= wf.snap.gen)
      <4>1. CarriesGeneration(q)
        BY <3>1 DEF ClaimsHold
      <4>2. q.gen = r.gen /\ q.uid = r.uid /\ q.gen \in Nat
        BY <1>1, <3>1 DEF SameGeneration
      <4>3. QED BY <1>2, <1>3, <3>1, <4>1, <4>2
    <3>2. ASSUME Active, Claims(wf.status, wf.snap.gen), SameGeneration(wf.snap, r)
          PROVE  /\ CarriesGeneration(r) /\ r.gen \in Nat
                 /\ (Active /\ wf.snap.uid = r.uid => r.gen <= wf.snap.gen)
      <4>1. CarriesGeneration(wf.snap)
        BY <3>2 DEF ClaimsHold
      <4>2. wf.snap.gen = r.gen /\ wf.snap.gen \in Nat
        BY <1>1, <3>2, ReconcileTyped DEF SameGeneration
      <4>3. QED BY <1>3, <3>2, <4>1, <4>2
    <3>3. QED BY <1>4, <3>1, <3>2, ClaimsComeFrom
  <2>2. QED BY <2>1, CarriesGenerationStays
<1>5. ASSUME Active', Claims(wf'.status, wf'.snap.gen), NEW r, r = wf'.snap
      PROVE  CarriesGeneration(r)'
  <2>1. \/ Active /\ Claims(wf.status, wf.snap.gen) /\ r = wf.snap
        \/ rwCache # NoRW /\ Claims(rwCache.status, rwCache.gen) /\ r = rwCache
        \/ AllComponentsReady /\ r = wf.snap
    BY <1>5, ReconcileClaims
  <2>2. CarriesGeneration(r)
    BY <2>1, BarrierCarries DEF ClaimsHold
  <2>3. r.gen \in Nat /\ (Active /\ wf.snap.uid = r.uid => r.gen <= wf.snap.gen)
    <3>1. CASE r = wf.snap /\ (AllComponentsReady \/ Active)
      <4>1. r = wf.snap /\ r.gen \in Nat
        BY <1>1, <2>1, <3>1, ReconcileTyped DEF AllComponentsReady
      <4>2. QED BY <4>1
    <3>2. CASE rwCache # NoRW /\ Claims(rwCache.status, rwCache.gen) /\ r = rwCache
      BY <1>1, <1>2, <3>2
    <3>3. QED BY <2>1, <3>1, <3>2
  <2>4. QED BY <2>2, <2>3, CarriesGenerationStays
<1>6. QED BY <1>4, <1>5 DEF ClaimsHold

-----------------------------------------------------------------------------
(* The invariant.                                                          *)

(* A status that claims the latest generation is a claim, and no object    *)
(* carries a generation that is still to come.                             *)
LEMMA ClaimsAreSynced ==
    ASSUME TypeOK, ObjectsInOrder, ClaimsHold
    PROVE  CompleteMeansSynced
<1> SUFFICES ASSUME rw # NoRW, ReportsComplete, NEW o \in Objects,
                    WaitedFor(o), Wanted(o, rw.spec), Owned(o)
             PROVE  objs[o].gen = rw.gen
  BY DEF CompleteMeansSynced
<1>1. Claims(rw.status, rw.gen)
  BY DEF ReportsComplete, Claims, ConditionIs
<1>2. objs[o].gen >= rw.gen
  BY <1>1 DEF ClaimsHold, CarriesGeneration, Owned
<1>3. objs[o].gen <= rw.gen
  BY DEF ObjectsInOrder, ObjectInOrder, Owned
<1>4. objs[o].gen \in Int /\ rw.gen \in Int
  BY DEF TypeOK, ObjectValues, RisingWaveValues, NoSync
<1>5. QED BY <1>2, <1>3, <1>4

(* The state in which the operator first starts.                           *)
LEMMA InvInit == Init => WorkflowInv
<1> SUFFICES ASSUME Init PROVE WorkflowInv
  OBVIOUS
<1>1. PICK spec \in FirstSpecs : rw = NewRW(1, spec)
  BY DEF Init
<1>2. uids = 1 /\ version = 1 /\ ~Active /\ Snapshot = NoRW /\ rwCache = NoRW
  BY DEF Init, Active, Snapshot
<1>3. rw \in RisingWaveValues
  <2>1. spec \in Specs /\ NoStatus \in StatusValues
    BY <1>2, BoundsAssumption, NoneTyped
  <2>2. QED BY <1>1, <1>2, <2>1 DEF NewRW, RisingWaveValues
<1>4. TypeOK
  <2>1. Absent \in ObjectValues
    BY <1>2, NoneTyped
  <2>2. objs \in [Objects -> ObjectValues] /\ cache \in [Objects -> ObjectValues]
    BY <2>1 DEF Init
  <2>3. edits \in 0 .. MaxEdits /\ events \in 0 .. MaxEvents
    BY BoundsAssumption DEF Init
  <2>4. pending \subseteq Informers \cup {RisingWaveInformer}
    BY DEF Init
  <2>5. queue \in BOOLEAN /\ wf = Idle
    BY DEF Init
  <2>6. QED BY <1>2, <1>3, <2>2, <2>3, <2>4, <2>5 DEF TypeOK
<1>5. /\ rw.uid = 1 /\ rw.gen = 1 /\ rw.status.observed = 0
      /\ NoRW.gen = 0 /\ NoRW.status.observed = 0
  BY <1>1 DEF NewRW, NoStatus, NoRW
<1>6. CopiesInOrder
  BY <1>2, <1>5 DEF CopiesInOrder, InOrder
<1>7. \A o \in Objects : objs[o] = Absent /\ cache[o] = Absent
  BY DEF Init
<1>8. ObjectsInOrder /\ StatusFollows
  BY <1>2, <1>7 DEF ObjectsInOrder, ObjectInOrder, StatusFollows
<1>9. ClaimsHold
  BY <1>2, <1>7 DEF ClaimsHold, CarriesGeneration
<1>10. QED BY <1>4, <1>6, <1>8, <1>9, ClaimsAreSynced DEF WorkflowInv

(* WorkflowInv is inductive.                                               *)
LEMMA InvStep == WorkflowInv /\ [Next]_vars => WorkflowInv'
<1> SUFFICES ASSUME WorkflowInv, [Next]_vars PROVE WorkflowInv'
  OBVIOUS
<1> USE DEF WorkflowInv
<1>1. TypeOK'
  BY TypeOKStep
<1>2. StatusFollows' /\ CopiesInOrder'
  BY StatusFollowsStep, CopiesInOrderStep
<1>3. ObjectsInOrder'
  BY <1>1, ObjectsInOrderStep
<1>4. ClaimsHold'
  BY ClaimsHoldStep
<1>5. ASSUME TypeOK', ObjectsInOrder', ClaimsHold'
      PROVE  CompleteMeansSynced'
  BY <1>5, ClaimsAreSynced, PTL
<1>6. QED BY <1>1, <1>2, <1>3, <1>4, <1>5

(* For any components, specifications and bounds: the controller reads and *)
(* writes in order, and a status that reports the latest generation as     *)
(* running is true of every workload waited for, however far the caches    *)
(* lag behind and whatever fails, restarts or is deleted on the way.       *)
THEOREM WorkflowInvariant == Spec => []WorkflowInv
<1>1. QED BY InvInit, InvStep, PTL DEF Spec

-----------------------------------------------------------------------------
(* Action properties.                                                      *)

(* The only status write with an effect is over the snapshot itself.       *)
LEMMA StatusForwardStep ==
    ASSUME WorkflowInv, [Next]_vars, rw' # NoRW, rw'.uid = rw.uid
    PROVE  /\ rw'.status.observed >= rw.status.observed
           /\ ConditionIs(rw', "Initializing", "True") =>
                 rw.status.conds = NoConditions \/ ConditionIs(rw, "Initializing", "True")
<1> USE DEF WorkflowInv
<1>1. RisingWaveMoves
  BY CopiesMove
<1>2. /\ rw.uid \in 0 .. uids /\ uids \in Nat /\ rw.gen \in Nat /\ rw.status.observed \in Nat
      /\ rw.status.observed <= rw.gen
  BY DEF TypeOK, RisingWaveValues, StatusValues, NoRW, NoStatus, CopiesInOrder
<1>3. CASE rw'.status = rw.status
  BY <1>2, <1>3 DEF ConditionIs
<1>4. CASE Active /\ rw = wf.snap /\ rw'.status = wf.status
  <2>1. /\ wf.status.observed \in {rw.gen, rw.status.observed}
        /\ wf.status.conds["Initializing"] = "True" =>
              FirstTimeObserved(rw) \/ ConditionIs(rw, "Initializing", "True")
    BY <1>4 DEF StatusFollows
  <2>2. QED BY <1>2, <1>4, <2>1 DEF ConditionIs, FirstTimeObserved
<1>5. rw'.uid # uids + 1
  BY <1>2
<1>6. QED BY <1>1, <1>3, <1>4, <1>5 DEF RisingWaveMoves

(* For any components, specifications and bounds: of one RisingWave the    *)
(* observed generation never decreases and Initializing never comes back,  *)
(* because a status is stored only over the very object it was computed    *)
(* from.                                                                   *)
THEOREM StatusForward == Spec => StatusMovesForward
<1>1. WorkflowInv /\ [Next]_vars =>
         [rw' # NoRW /\ rw'.uid = rw.uid =>
             /\ rw'.status.observed >= rw.status.observed
             /\ ConditionIs(rw', "Initializing", "True") =>
                   rw.status.conds = NoConditions \/ ConditionIs(rw, "Initializing", "True")]_vars
  BY StatusForwardStep
<1>2. QED BY <1>1, WorkflowInvariant, PTL DEF Spec, StatusMovesForward

(* An object that a reconcile changes was built for the RisingWave of its  *)
(* snapshot.                                                               *)
LEMMA OwnObjectsStep ==
    ASSUME WorkflowInv, [Next]_vars, wf' # wf,
           NEW o \in Objects, objs'[o] # objs[o], objs[o] # Absent
    PROVE  objs[o].owner = wf.snap.uid
<1>1. CASE SyncConfigsFails \/ SyncAllComponents \/ SyncServiceMonitor
  BY <1>1, SyncMoves DEF WorkflowInv, Synced
<1>2. CASE \/ Skip \/ Start \/ AllComponentsReady \/ KeepWaiting
           \/ CollectRunningStatistics \/ UpdateStatus \/ Deliveries
           \/ Users \/ Converge \/ Disruption \/ Restart \/ UNCHANGED vars
  BY <1>2 DEF Skip, Start, AllComponentsReady, KeepWaiting, CollectRunningStatistics,
     UpdateStatus, Deliveries, DeliverRisingWave, DeliverObjects, Users, Create, EditSpec,
     TogglePause, Delete, Converge, FinishDelete, CollectGarbage, RollOut, Disruption,
     Disrupt, Restart, vars
<1>3. QED BY <1>1, <1>2 DEF Next, Worker

(* For any components, specifications and bounds: a reconcile changes or   *)
(* deletes only objects of the RisingWave it was started for, although     *)
(* workloads are deleted by name and the cache may show the objects of an  *)
(* earlier RisingWave of that name.                                        *)
THEOREM OwnObjects == Spec => TouchesOwnObjects
<1>1. WorkflowInv /\ [Next]_vars =>
         [\A o \in Objects :
             wf' # wf /\ objs'[o] # objs[o] /\ objs[o] # Absent =>
                objs[o].owner = wf.snap.uid]_vars
  BY OwnObjectsStep
<1>2. QED BY <1>1, WorkflowInvariant, PTL DEF Spec, TouchesOwnObjects

-----------------------------------------------------------------------------
(* Which objects there are.                                                *)

AllObjects ==
    Kinds \X (AllComponents \cup {"standalone", "config", "monitor"}) \X (Groups \cup {NoGroup})

(* The actions of a component with services and workloads.                 *)
LEMMA ActionsInRange ==
    ASSUME NEW X, NEW a \in X, NEW b \in X, NEW c \in X,
           NEW actions, actions = <<a, b>> \o IfOpenKruise(c)
    PROVE  \A i \in DOMAIN actions : actions[i] \in X
<1>1. <<a, b>> \in Seq(X) /\ <<>> \in Seq(X) /\ <<c>> \in Seq(X)
  OBVIOUS
<1>2. IfOpenKruise(c) \in Seq(X)
  BY <1>1 DEF IfOpenKruise
<1>3. actions \in Seq(X)
  BY <1>1, <1>2
<1>4. QED BY <1>3

(* Every object has a kind, a component and a group.                       *)
LEMMA ObjectsInRange == Objects \subseteq AllObjects
<1>1. ASSUME NEW c \in AllComponents \cup {"standalone"}
      PROVE  {Service(c)} \in SUBSET AllObjects
  BY DEF Service, AllObjects, Kinds
<1>2. ASSUME NEW k \in WorkloadKinds, NEW c \in AllComponents
      PROVE  Workloads(k, c) \in SUBSET AllObjects
  BY DEF Workloads, AllObjects, Kinds
<1>3. ASSUME NEW k \in WorkloadKinds
      PROVE  {Standalone(k)} \in SUBSET AllObjects
  BY DEF Standalone, AllObjects, Kinds
<1>4. {Config} \in SUBSET AllObjects /\ {Monitor} \in SUBSET AllObjects
  BY DEF Config, Monitor, AllObjects, Kinds
<1>5. /\ "meta" \in AllComponents /\ "frontend" \in AllComponents
      /\ "compute" \in AllComponents /\ "compactor" \in AllComponents
      /\ "StatefulSet" \in WorkloadKinds /\ "Deployment" \in WorkloadKinds
      /\ "AdvancedStatefulSet" \in WorkloadKinds /\ "CloneSet" \in WorkloadKinds
  BY DEF AllComponents, WorkloadKinds
<1>6. \A i \in DOMAIN MetaActions : MetaActions[i] \in SUBSET AllObjects
  <2> DEFINE a == {Service("meta")}
             b == Workloads("StatefulSet", "meta")
             c == Workloads("AdvancedStatefulSet", "meta")
             actions == MetaActions
  <2>1. a \in SUBSET AllObjects /\ b \in SUBSET AllObjects /\ c \in SUBSET AllObjects
    BY <1>1, <1>2, <1>5
  <2>2. actions = <<a, b>> \o IfOpenKruise(c)
    BY DEF MetaActions
  <2>3. QED BY <2>1, <2>2, ActionsInRange, Zenon
<1>7. \A i \in DOMAIN FrontendActions : FrontendActions[i] \in SUBSET AllObjects
  <2> DEFINE a == {Service("frontend")}
             b == Workloads("Deployment", "frontend")
             c == Workloads("CloneSet", "frontend")
             actions == FrontendActions
  <2>1. a \in SUBSET AllObjects /\ b \in SUBSET AllObjects /\ c \in SUBSET AllObjects
    BY <1>1, <1>2, <1>5
  <2>2. actions = <<a, b>> \o IfOpenKruise(c)
    BY DEF FrontendActions
  <2>3. QED BY <2>1, <2>2, ActionsInRange, Zenon
<1>8. \A i \in DOMAIN ComputeActions : ComputeActions[i] \in SUBSET AllObjects
  <2> DEFINE a == {Service("compute")}
             b == Workloads("StatefulSet", "compute")
             c == Workloads("AdvancedStatefulSet", "compute")
             actions == ComputeActions
  <2>1. a \in SUBSET AllObjects /\ b \in SUBSET AllObjects /\ c \in SUBSET AllObjects
    BY <1>1, <1>2, <1>5
  <2>2. actions = <<a, b>> \o IfOpenKruise(c)
    BY DEF ComputeActions
  <2>3. QED BY <2>1, <2>2, ActionsInRange, Zenon
<1>9. \A i \in DOMAIN CompactorActions : CompactorActions[i] \in SUBSET AllObjects
  <2> DEFINE a == {Service("compactor")}
             b == Workloads("Deployment", "compactor")
             c == Workloads("CloneSet", "compactor")
             actions == CompactorActions
  <2>1. a \in SUBSET AllObjects /\ b \in SUBSET AllObjects /\ c \in SUBSET AllObjects
    BY <1>1, <1>2, <1>5
  <2>2. actions = <<a, b>> \o IfOpenKruise(c)
    BY DEF CompactorActions
  <2>3. QED BY <2>1, <2>2, ActionsInRange, Zenon
<1>10. \A i \in DOMAIN StandaloneActions : StandaloneActions[i] \in SUBSET AllObjects
  <2> DEFINE a == {Service("standalone")}
             b == {Standalone("StatefulSet")}
             c == {Standalone("AdvancedStatefulSet")}
             actions == StandaloneActions
  <2>1. a \in SUBSET AllObjects /\ b \in SUBSET AllObjects /\ c \in SUBSET AllObjects
    BY <1>1, <1>3, <1>5
  <2>2. actions = <<a, b>> \o IfOpenKruise(c)
    BY DEF StandaloneActions
  <2>3. QED BY <2>1, <2>2, ActionsInRange, Zenon
<1>11. /\ \A i \in DOMAIN ConfigActions : ConfigActions[i] \in SUBSET AllObjects
       /\ \A i \in DOMAIN MonitorActions : MonitorActions[i] \in SUBSET AllObjects
  BY <1>4 DEF ConfigActions, MonitorActions
<1>12. ASSUME NEW u \in Units \cup {"monitor"}
       PROVE  UnitObjects(u) \subseteq AllObjects
  <2>1. u \in {"meta", "frontend", "compute", "compactor", "standalone", "config", "monitor"}
    BY ComponentsAssumption DEF Units, AllComponents
  <2>2. \A i \in DOMAIN ActionsOf(u) : ActionsOf(u)[i] \in SUBSET AllObjects
    BY <1>6, <1>7, <1>8, <1>9, <1>10, <1>11, <2>1 DEF ActionsOf
  <2>3. QED BY <2>2 DEF UnitObjects
<1>13. QED BY <1>12 DEF Objects

(* Every kind has an informer, and only the RisingWave itself one that     *)
(* shows no object.                                                        *)
LEMMA KindsAreWatched ==
    /\ \A o \in Objects : Kind(o) \in Kinds /\ \E kinds \in Informers : Kind(o) \in kinds
    /\ RisingWaveInformer \notin Informers
    /\ RisingWaveInformer # {"ServiceMonitor"}
<1>1. \A o \in AllObjects : Kind(o) \in Kinds
  BY DEF AllObjects, Kind
<1>2. "RisingWave" \notin Kinds /\ "RisingWave" \in RisingWaveInformer
  BY DEF Kinds, WorkloadKinds, RisingWaveInformer
<1>3. QED BY <1>1, <1>2, ObjectsInRange, BoundsAssumption

(* Every watched object is one that SyncAllComponents looks after.         *)
LEMMA WatchedAreSynced == Watched \subseteq UNION {UnitObjects(u) : u \in Units}
<1>1. UnitObjects("monitor") = {Monitor}
  <2>1. ActionsOf("monitor") = <<{Monitor}>>
    BY DEF ActionsOf, MonitorActions
  <2>2. QED BY <2>1 DEF UnitObjects
<1>2. Kind(Monitor) = "ServiceMonitor"
  BY DEF Kind, Monitor
<1>3. QED BY <1>1, <1>2 DEF Watched, Objects

-----------------------------------------------------------------------------
(* Every change is on its way to the controller.                           *)

(* What a step does to the stored state and to the informers.              *)
LEMMA InformerCases ==
    ASSUME [Next]_vars
    PROVE  \/ /\ UNCHANGED <<rw, rwCache, objs, cache, pending, version>>
              /\ \/ queue' = queue
                 \/ Skip
                 \/ Start
           \/ Notify /\ UNCHANGED <<rwCache, cache, version>> /\ (queue => queue')
           \/ DeliverRisingWave
           \/ \E kinds \in Informers : DeliverObjects(kinds)
           \/ Restart
<1>1. CASE Worker
  BY <1>1 DEF Worker, Skip, Start, SyncConfigsFails, SyncAllComponents, AllComponentsReady,
     KeepWaiting, CollectRunningStatistics, SyncServiceMonitor, UpdateStatus
<1>2. CASE Users \/ Converge \/ Disruption
  BY <1>2 DEF Users, Converge, Disruption, Create, EditSpec, TogglePause, Delete,
     FinishDelete, CollectGarbage, RollOut, Disrupt
<1>3. CASE UNCHANGED vars
  BY <1>3 DEF vars
<1>4. QED BY <1>1, <1>2, <1>3 DEF Next, Deliveries

(* What the informers have no event about is what they show.               *)
LEMMA InformersCatchUpStep ==
    ASSUME TypeOK, TypeOK', InformersCatchUp, [Next]_vars
    PROVE  InformersCatchUp'
<1>1. CASE UNCHANGED <<rw, rwCache, objs, cache, pending>>
  BY <1>1 DEF InformersCatchUp
<1>2. CASE Notify /\ UNCHANGED <<rwCache, cache>>
  <2>1. /\ pending \subseteq pending'
        /\ rw' # rw => RisingWaveInformer \in pending'
        /\ \A o \in Objects : \A kinds \in Informers :
              Kind(o) \in kinds /\ objs'[o] # objs[o] => kinds \in pending'
    BY <1>2 DEF Notify
  <2>2. QED BY <1>2, <2>1 DEF InformersCatchUp
<1>3. CASE DeliverRisingWave
  BY <1>3, KindsAreWatched DEF DeliverRisingWave, InformersCatchUp
<1>4. ASSUME NEW kinds \in Informers, DeliverObjects(kinds)
      PROVE  InformersCatchUp'
  <2>1. /\ kinds # RisingWaveInformer
        /\ pending' = pending \ {kinds} /\ UNCHANGED <<rw, rwCache, objs>>
        /\ \A o \in Objects : cache'[o] = IF Kind(o) \in kinds THEN objs[o] ELSE cache[o]
    BY <1>4, KindsAreWatched DEF DeliverObjects
  <2>2. QED BY <2>1 DEF InformersCatchUp
<1>5. CASE Restart
  BY <1>5 DEF Restart, InformersCatchUp
<1>6. QED BY <1>1, <1>2, <1>3, <1>4, <1>5, InformerCases

\* the controller sees what it saw before
SeesTheSame ==
    /\ UNCHANGED <<rw, rwCache, version>>
    /\ \A o \in Watched : objs'[o] = objs[o] /\ cache'[o] = cache[o]

(* When no change is on its way, none has happened in the step before, and *)
(* none was on its way then either, unless a reconcile began.              *)
LEMMA UnwokenStep ==
    ASSUME [Next]_vars, Unwoken'
    PROVE  /\ SeesTheSame
           /\ \/ Unwoken
              \/ Skip \/ Start
<1>1. CASE UNCHANGED <<rw, rwCache, objs, cache, pending, version>> /\ queue' = queue
  BY <1>1 DEF SeesTheSame, Unwoken
<1>2. CASE UNCHANGED <<rw, rwCache, objs, cache, pending, version>> /\ (Skip \/ Start)
  BY <1>2 DEF SeesTheSame
<1>3. CASE Notify /\ UNCHANGED <<rwCache, cache, version>> /\ (queue => queue')
  <2>1. /\ pending \subseteq pending'
        /\ rw' # rw => RisingWaveInformer \in pending'
        /\ \A o \in Objects : \A kinds \in Informers :
              Kind(o) \in kinds /\ objs'[o] # objs[o] => kinds \in pending'
    BY <1>3 DEF Notify
  <2>2. pending' \subseteq {{"ServiceMonitor"}} /\ ~queue'
    BY DEF Unwoken
  <2>3. rw' = rw
    BY <2>1, <2>2, KindsAreWatched
  <2>4. ASSUME NEW o \in Watched PROVE objs'[o] = objs[o]
    <3>1. PICK kinds \in Informers : Kind(o) \in kinds
      BY KindsAreWatched DEF Watched
    <3>2. kinds \notin pending'
      BY <2>2, <3>1 DEF Watched
    <3>3. QED BY <2>1, <3>1, <3>2 DEF Watched
  <2>5. QED BY <1>3, <2>1, <2>2, <2>3, <2>4 DEF SeesTheSame, Unwoken
<1>4. ASSUME NEW kinds \in Informers, DeliverObjects(kinds)
      PROVE  SeesTheSame /\ Unwoken
  <2>1. ~queue' /\ pending' \subseteq {{"ServiceMonitor"}}
    BY DEF Unwoken
  <2>2. kinds = {"ServiceMonitor"} /\ ~queue
    BY <1>4, <2>1 DEF DeliverObjects
  <2>3. /\ pending' = pending \ {kinds} /\ UNCHANGED <<rw, rwCache, objs, version>>
        /\ \A o \in Objects : cache'[o] = IF Kind(o) \in kinds THEN objs[o] ELSE cache[o]
    BY <1>4 DEF DeliverObjects
  <2>4. QED BY <2>1, <2>2, <2>3 DEF SeesTheSame, Unwoken, Watched
<1>5. CASE DeliverRisingWave \/ Restart
  BY <1>5 DEF DeliverRisingWave, Restart, Unwoken
<1>6. QED BY <1>1, <1>2, <1>3, <1>4, <1>5, InformerCases

-----------------------------------------------------------------------------
(* What a generation asks for.                                             *)

(* The values of the copies of the RisingWave.                             *)
LEMMA CopiesTyped ==
    ASSUME TypeOK, NEW q \in {Snapshot, rwCache, rw}
    PROVE  /\ q \in RisingWaveValues \cup {NoRW}
           /\ q.uid \in 0 .. uids /\ q.gen \in Nat /\ uids \in Nat
           /\ q # NoRW => q.uid # 0 /\ q.gen # 0
<1>1. q \in RisingWaveValues \cup {NoRW}
  BY DEF TypeOK, Snapshot, Active, ReconcileValues
<1>2. NoRW.uid = 0 /\ NoRW.gen = 0
  BY DEF NoRW
<1>3. uids \in Nat
  BY DEF TypeOK
<1>4. q \in RisingWaveValues => q.uid \in 1 .. uids /\ q.gen \in Nat \ {0}
  BY DEF RisingWaveValues
<1>5. QED BY <1>1, <1>2, <1>3, <1>4

(* A copy of the RisingWave after a step is of the generation of one from  *)
(* before it, or of a new one.                                             *)
LEMMA CopiesComeFrom ==
    ASSUME TypeOK, [Next]_vars, NEW r, r \in {Snapshot', rwCache', rw'}, r # NoRW
    PROVE  \/ \E q \in {Snapshot, rwCache, rw} : q # NoRW /\ SameGeneration(q, r)
           \/ r = rw' /\ rw # NoRW /\ r.uid = rw.uid /\ r.gen = rw.gen + 1
           \/ r = rw' /\ r.uid = uids + 1
<1>1. CacheMoves /\ SnapshotMoves /\ RisingWaveMoves
  BY CopiesMove
<1>2. CASE r \in {Snapshot, rwCache, rw}
  BY <1>2 DEF SameGeneration
<1>3. CASE r \notin {Snapshot, rwCache, rw}
  <2>1. r = rw' /\ rw' \notin {rw, NoRW}
    BY <1>1, <1>3 DEF CacheMoves, SnapshotMoves
  <2>2. \/ rw # NoRW /\ SameGeneration(rw, r)
        \/ rw # NoRW /\ r.uid = rw.uid /\ r.gen = rw.gen + 1
        \/ r.uid = uids + 1
        \/ Active /\ rw = wf.snap /\ SameGeneration(rw, r)
    BY <1>1, <2>1 DEF RisingWaveMoves, SameGeneration
  <2>3. Active /\ rw = wf.snap => rw # NoRW
    BY ReconcileTyped
  <2>4. QED BY <2>1, <2>2, <2>3
<1>4. QED BY <1>2, <1>3

(* Nothing is of a generation that is still to come.                       *)
LEMMA GenerationIsNew ==
    ASSUME TypeOK, CopiesInOrder, NEW q \in {Snapshot, rwCache, rw}, q # NoRW
    PROVE  /\ q.uid # uids + 1
           /\ rw # NoRW /\ q.uid = rw.uid => q.gen # rw.gen + 1
<1>1. q.uid \in 0 .. uids /\ q.gen \in Nat /\ uids \in Nat
  BY CopiesTyped
<1>2. rw.gen \in Nat
  BY CopiesTyped
<1>3. rw # NoRW /\ q.uid = rw.uid => q.gen <= rw.gen
  <2>1. InOrder(Snapshot, rw) /\ InOrder(rwCache, rw)
    BY DEF CopiesInOrder
  <2>2. CASE q = rw
    BY <1>2, <2>2
  <2>3. CASE q # rw
    BY <2>1, <2>3 DEF InOrder
  <2>4. QED BY <2>2, <2>3
<1>4. QED BY <1>1, <1>2, <1>3

(* A generation of a RisingWave has one specification.                     *)
LEMMA SpecsInOrderStep ==
    ASSUME TypeOK, TypeOK', CopiesInOrder, SpecsInOrder, [Next]_vars
    PROVE  SpecsInOrder'
<1> SUFFICES ASSUME NEW r, r \in {Snapshot', rwCache', rw'},
                    NEW s, s \in {Snapshot', rwCache', rw'},
                    r.uid = s.uid, r.gen = s.gen
             PROVE  r.spec = s.spec
  BY DEF SpecsInOrder
<1>1. (r = NoRW) = (s = NoRW)
  <2>1. /\ rwCache' # NoRW => rwCache'.uid # 0
        /\ rw' # NoRW => rw'.uid # 0
        /\ Snapshot' # NoRW => Snapshot'.uid # 0
    BY DEF TypeOK, RisingWaveValues, Snapshot, Active, ReconcileValues
  <2>2. NoRW.uid = 0
    BY DEF NoRW
  <2>3. QED BY <2>1, <2>2
<1>2. CASE r = NoRW
  BY <1>1, <1>2
<1>3. CASE r # NoRW
  <2>1. /\ \/ \E q \in {Snapshot, rwCache, rw} : q # NoRW /\ SameGeneration(q, r)
           \/ r = rw' /\ rw # NoRW /\ r.uid = rw.uid /\ r.gen = rw.gen + 1
           \/ r = rw' /\ r.uid = uids + 1
        /\ \/ \E q \in {Snapshot, rwCache, rw} : q # NoRW /\ SameGeneration(q, s)
           \/ s = rw' /\ rw # NoRW /\ s.uid = rw.uid /\ s.gen = rw.gen + 1
           \/ s = rw' /\ s.uid = uids + 1
    BY <1>1, <1>3, CopiesComeFrom
  <2>2. CASE r = rw' /\ s = rw'
    BY <2>2
  <2>3. ASSUME NEW p \in {Snapshot, rwCache, rw}, p # NoRW, SameGeneration(p, r)
        PROVE  r.spec = s.spec
    <3>1. /\ r.uid # uids + 1
          /\ rw # NoRW /\ r.uid = rw.uid => r.gen # rw.gen + 1
      BY <2>3, GenerationIsNew DEF SameGeneration
    <3>2. PICK q \in {Snapshot, rwCache, rw} : q # NoRW /\ SameGeneration(q, s)
      BY <2>1, <3>1
    <3>3. p.spec = q.spec
      BY <2>3, <3>2 DEF SpecsInOrder, SameGeneration
    <3>4. QED BY <2>3, <3>2, <3>3 DEF SameGeneration
  <2>4. ASSUME NEW p \in {Snapshot, rwCache, rw}, p # NoRW, SameGeneration(p, s), r = rw',
               \/ rw # NoRW /\ r.uid = rw.uid /\ r.gen = rw.gen + 1
               \/ r.uid = uids + 1
        PROVE  r.spec = s.spec
    BY <2>4, GenerationIsNew DEF SameGeneration
  <2>5. QED BY <2>1, <2>2, <2>3, <2>4
<1>4. QED BY <1>2, <1>3

(* A request leaves an object as it was, deletes it, or builds one that    *)
(* the specification asks for.                                             *)
LEMMA LeftIsWanted ==
    ASSUME NEW o, NEW x, NEW c, NEW r, NEW v, NEW y, Left(o, x, c, r, v, y)
    PROVE  y \in {x, Absent} \/ Wanted(o, r.spec)
<1> DEFINE request == Request(o, c, r)
           answered == AnswerTo(o, x, c, r, v).obj
<1>1. request \in {"none", "fail", "create", "update", "delete"}
  BY RequestCases
<1>2. request \in {"create", "update"} => Wanted(o, r.spec)
  BY DEF Request
<1>3. request \in {"none", "fail"} => answered = x
  BY DEF AnswerTo, Answer
<1>4. request = "delete" => answered \in {x, Absent}
  BY DEF AnswerTo, DeleteAnswer, Answer
<1>5. y \in {x, answered, Absent}
  BY DEF Left, FaultyAnswers, Answer
<1> HIDE DEF request, answered
<1>6. QED BY <1>1, <1>2, <1>3, <1>4, <1>5

(* The Sync actions build what the snapshot asks for.                      *)
LEMMA SyncBuildsWanted ==
    ASSUME TypeOK, NEW o \in Objects,
           SyncConfigsFails \/ SyncAllComponents \/ SyncServiceMonitor
    PROVE  objs'[o] \in {objs[o], Absent} \/ Wanted(o, wf.snap.spec)
<1>1. \A faulty \in Faults : faulty \in BOOLEAN
  BY DEF Faults
<1>2. ASSUME NEW units, NEW faulty \in BOOLEAN, NEW run \in RunsOf(units, faulty)
      PROVE  run.objs[o] \in {objs[o], Absent} \/ Wanted(o, wf.snap.spec)
  <2>1. \/ run.objs[o] = objs[o]
        \/ Left(o, objs[o], cache[o], wf.snap, version, run.objs[o])
    BY RunLeaves
  <2>2. QED BY <2>1, LeftIsWanted
<1>3. CASE SyncConfigsFails
  BY <1>1, <1>2, <1>3 DEF SyncConfigsFails
<1>4. CASE SyncAllComponents
  BY <1>1, <1>2, <1>4 DEF SyncAllComponents
<1>5. CASE SyncServiceMonitor
  BY <1>1, <1>2, <1>5 DEF SyncServiceMonitor
<1>6. QED BY <1>3, <1>4, <1>5

(* A step leaves an object alone, deletes it, keeps what it was built      *)
(* from, or builds it as the snapshot asks.                                *)
LEMMA ObjectsBuilt ==
    ASSUME TypeOK, ObjectsInOrder, [Next]_vars, NEW o \in Objects
    PROVE  \/ objs'[o] = Absent
           \/ /\ objs[o] # Absent
              /\ objs'[o].owner = objs[o].owner /\ objs'[o].gen = objs[o].gen
           \/ /\ Active /\ Snapshot' = Snapshot /\ UNCHANGED <<rw, rwCache>>
              /\ objs'[o] = New(o, wf.snap, version) /\ Wanted(o, wf.snap.spec)
<1>1. ObjectMoves(o)
  BY ObjectsMove
<1>2. CASE SyncConfigsFails \/ SyncAllComponents \/ SyncServiceMonitor
  <2>1. objs'[o] \in {objs[o], Absent} \/ Wanted(o, wf.snap.spec)
    BY <1>2, SyncBuildsWanted
  <2>2. QED BY <1>1, <2>1 DEF ObjectMoves
<1>3. CASE objs' = objs
  BY <1>3
<1>4. CASE \/ UNCHANGED vars \/ Skip \/ Start \/ AllComponentsReady \/ KeepWaiting
           \/ CollectRunningStatistics \/ UpdateStatus \/ Deliveries \/ Users
           \/ FinishDelete \/ Restart
  BY <1>3, <1>4 DEF vars, Skip, Start, AllComponentsReady, KeepWaiting, UpdateStatus,
     CollectRunningStatistics, Deliveries, DeliverRisingWave, DeliverObjects, Users, Create,
     EditSpec, TogglePause, Delete, FinishDelete, Restart
<1>5. ASSUME NEW kinds \in Informers, CollectGarbage(kinds)
      PROVE  objs'[o] \in {objs[o], Absent}
  BY <1>5 DEF CollectGarbage
<1>6. ASSUME NEW p \in Objects, RollOut(p) \/ Disrupt(p)
      PROVE  \/ objs'[o] \in {objs[o], Absent}
             \/ /\ objs[o] # Absent
                /\ objs'[o].owner = objs[o].owner /\ objs'[o].gen = objs[o].gen
  <2>1. objs[p] # Absent /\ objs[p] \in ObjectValues
    BY <1>6 DEF RollOut, Disrupt, TypeOK
  <2>2. CASE o # p
    BY <1>6, <2>1, <2>2 DEF RollOut, Disrupt, TypeOK
  <2>3. CASE o = p
    <3>1. CASE objs' = [objs EXCEPT ![o] = Absent]
      BY <2>1, <3>1 DEF TypeOK
    <3>2. ASSUME NEW ready, objs' = [objs EXCEPT ![o].ready = ready]
          PROVE  objs'[o].owner = objs[o].owner /\ objs'[o].gen = objs[o].gen
      BY <2>1, <2>3, <3>2 DEF TypeOK, ObjectValues
    <3>3. QED BY <1>6, <2>1, <2>3, <3>1, <3>2 DEF RollOut, Disrupt
  <2>4. QED BY <2>2, <2>3
<1>7. QED BY <1>2, <1>4, <1>5, <1>6 DEF Next, Worker, Converge, Disruption

(* An object that carries a generation goes on being one the generation    *)
(* asks for.                                                               *)
LEMMA ObjectsAskedForStep ==
    ASSUME TypeOK, TypeOK', CopiesInOrder, ObjectsInOrder, SpecsInOrder, SpecsInOrder',
           ObjectsAskedFor, [Next]_vars
    PROVE  ObjectsAskedFor'
<1> SUFFICES ASSUME NEW o \in Objects, NEW r, r \in {Snapshot', rwCache', rw'}, r # NoRW,
                    objs'[o] # Absent, objs'[o].owner = r.uid, objs'[o].gen = r.gen
             PROVE  Wanted(o, r.spec)
  BY DEF ObjectsAskedFor
<1>1. CASE /\ objs[o] # Absent
           /\ objs'[o].owner = objs[o].owner /\ objs'[o].gen = objs[o].gen
  <2>1. /\ objs[o].owner \in 0 .. uids /\ uids \in Nat
        /\ objs[o].gen \in Int /\ rw.gen \in Nat
    BY CopiesTyped DEF TypeOK, ObjectValues, NoSync
  <2>2. rw # NoRW /\ objs[o].owner = rw.uid => objs[o].gen <= rw.gen
    BY <1>1 DEF ObjectsInOrder, ObjectInOrder
  <2>3. /\ r.uid # uids + 1
        /\ rw # NoRW /\ r.uid = rw.uid => r.gen # rw.gen + 1
    BY <1>1, <2>1, <2>2
  <2>4. PICK q \in {Snapshot, rwCache, rw} : q # NoRW /\ SameGeneration(q, r)
    BY <2>3, CopiesComeFrom
  <2>5. Wanted(o, q.spec)
    BY <1>1, <2>4 DEF ObjectsAskedFor, SameGeneration
  <2>6. QED BY <2>4, <2>5 DEF SameGeneration
<1>2. CASE /\ Active /\ Snapshot' = Snapshot /\ UNCHANGED <<rw, rwCache>>
           /\ objs'[o] = New(o, wf.snap, version) /\ Wanted(o, wf.snap.spec)
  <2>1. Snapshot = wf.snap /\ wf.snap \in RisingWaveValues
    BY <1>2, ReconcileTyped
  <2>2. /\ objs'[o].owner = wf.snap.uid
        /\ o = Config => objs'[o].gen = NoSync
        /\ o # Config => objs'[o].gen = wf.snap.gen
    BY <1>2, <2>1, NewObject
  <2>3. r \in {Snapshot, rwCache, rw} /\ r.gen \in Nat
    BY <1>2, CopiesTyped
  <2>4. o # Config
    BY <2>2, <2>3 DEF NoSync
  <2>5. r.spec = wf.snap.spec
    BY <2>1, <2>2, <2>3, <2>4 DEF SpecsInOrder
  <2>6. QED BY <1>2, <2>5
<1>3. QED BY <1>1, <1>2, ObjectsBuilt

-----------------------------------------------------------------------------
(* What a reconcile makes of the status.                                   *)

\* what AllComponentsReady makes of the conditions for the snapshot r
Marked(r, collect, old, new) ==
    /\ IF ConditionIs(r, "Initializing", "True")
       THEN new["Initializing"] = "None"
       ELSE new["Initializing"] = old["Initializing"]
    /\ IF ConditionIs(r, "Running", "False")
       THEN \/ new["Running"] = "True"
            \/ collect = "broken" /\ new["Running"] = "False"
       ELSE new["Running"] = old["Running"]
    /\ IF ConditionIs(r, "Upgrading", "True")
       THEN \/ new["Upgrading"] = "False"
            \/ NeedsUpgrade(r) /\ new["Upgrading"] = "True"
       ELSE new["Upgrading"] = old["Upgrading"]

(* The conditions after the barrier.                                       *)
LEMMA MarksCases ==
    ASSUME NEW r, NEW collect,
           NEW conds0 \in [Conditions -> {"None", "True", "False"}],
           NEW conds \in RunningMarks(InitializingMark(conds0, r), r, collect = "broken"),
           NEW marked \in UpgradingMarks(conds, r)
    PROVE  Marked(r, collect, conds0, marked)
<1> USE DEF Conditions
<1> DEFINE first == InitializingMark(conds0, r)
<1>1. /\ first \in [Conditions -> {"None", "True", "False"}]
      /\ IF ConditionIs(r, "Initializing", "True")
         THEN first["Initializing"] = "None"
         ELSE first["Initializing"] = conds0["Initializing"]
      /\ first["Running"] = conds0["Running"] /\ first["Upgrading"] = conds0["Upgrading"]
  BY DEF InitializingMark, RemoveCondition
<1> HIDE DEF first
<1>2. conds \in RunningMarks(first, r, collect = "broken")
  BY DEF first
<1>3. /\ conds \in [Conditions -> {"None", "True", "False"}]
      /\ IF ConditionIs(r, "Running", "False")
         THEN \/ conds["Running"] = "True"
              \/ collect = "broken" /\ conds["Running"] = "False"
         ELSE conds["Running"] = first["Running"]
      /\ conds["Initializing"] = first["Initializing"]
      /\ conds["Upgrading"] = first["Upgrading"]
  BY <1>1, <1>2 DEF RunningMarks, UpdateCondition
<1>4. /\ IF ConditionIs(r, "Upgrading", "True")
         THEN \/ marked["Upgrading"] = "False"
              \/ NeedsUpgrade(r) /\ marked["Upgrading"] = "True"
         ELSE marked["Upgrading"] = conds["Upgrading"]
      /\ marked["Initializing"] = conds["Initializing"]
      /\ marked["Running"] = conds["Running"]
  BY <1>3 DEF UpgradingMarks, UpdateCondition
<1>5. QED BY <1>1, <1>3, <1>4 DEF Marked

(* What a reconcile starts with.                                           *)
LEMMA StartReconcile ==
    ASSUME TypeOK, Start
    PROVE  /\ wf'.stage = IF NeedsSync(rwCache) THEN "sync" ELSE "done"
           /\ wf'.collect = "todo" /\ ~wf'.failed
           /\ IF FirstTimeObserved(rwCache)
              THEN wf'.status.conds["Running"] = "False"
              ELSE wf'.status.conds["Running"] = rwCache.status.conds["Running"]
           /\ FirstTimeObserved(rwCache) =>
                 /\ ~NeedsSync(rwCache) /\ ~NeedsUpgrade(rwCache)
                 /\ wf'.status.conds["Upgrading"] = "None"
<1> DEFINE conds == rwCache.status.conds
           first == UpdateCondition(UpdateCondition(conds, "Initializing", "True"),
                                    "Running", "False")
<1>1. conds \in [Conditions -> {"None", "True", "False"}]
  BY StartMoves DEF RisingWaveValues, StatusValues
<1>2. /\ wf'.stage = IF NeedsSync(rwCache) THEN "sync" ELSE "done"
      /\ wf'.collect = "todo" /\ wf'.failed = FALSE
      /\ wf'.status.conds =
            IF FirstTimeObserved(rwCache) THEN first
            ELSE IF NeedsUpgrade(rwCache) THEN UpdateCondition(conds, "Upgrading", "True")
            ELSE conds
  BY DEF Start
<1>3. /\ first["Running"] = "False" /\ first["Upgrading"] = conds["Upgrading"]
      /\ UpdateCondition(conds, "Upgrading", "True")["Running"] = conds["Running"]
  BY <1>1 DEF UpdateCondition, Conditions
<1>4. FirstTimeObserved(rwCache) =>
         /\ ~NeedsSync(rwCache) /\ ~NeedsUpgrade(rwCache)
         /\ conds["Upgrading"] = "None"
  BY DEF FirstTimeObserved, NoConditions, NeedsSync, NeedsUpgrade, ConditionIs, Conditions
<1> HIDE DEF first, conds
<1>5. QED BY <1>2, <1>3, <1>4 DEF conds

(* What the steps of a reconcile do to it.                                 *)
LEMMA ReconcileSteps ==
    ASSUME TypeOK, \/ SyncConfigsFails \/ SyncAllComponents \/ AllComponentsReady
                   \/ KeepWaiting \/ CollectRunningStatistics \/ SyncServiceMonitor
    PROVE  /\ wf.failed => wf'.failed
           /\ SyncConfigsFails => wf'.stage = "done" /\ wf'.failed
           /\ SyncAllComponents => wf.stage = "sync" /\ wf'.stage \in {"barrier", "done"}
           /\ AllComponentsReady \/ KeepWaiting => wf.stage = "barrier" /\ wf'.stage = "done"
           /\ CollectRunningStatistics \/ SyncServiceMonitor => wf'.stage = wf.stage
           /\ ~CollectRunningStatistics => wf'.collect = wf.collect
           /\ ~CollectRunningStatistics /\ ~AllComponentsReady => wf'.status = wf.status
           /\ CollectRunningStatistics =>
                 /\ wf.collect = "todo"
                 /\ \/ wf'.collect = "complete" /\ wf'.status.conds = wf.status.conds
                    \/ /\ wf'.collect = "broken"
                       /\ wf'.status.conds = [wf.status.conds EXCEPT !["Running"] = "False"]
<1>1. Active /\ wf \in ReconcileValues /\ wf.status \in StatusValues
  BY ReconcileKeepsSnapshot, ReconcileTyped
<1>2. CASE SyncConfigsFails
  BY <1>1, <1>2 DEF SyncConfigsFails, SyncAllComponents, AllComponentsReady, KeepWaiting,
                    CollectRunningStatistics, SyncServiceMonitor, ReconcileValues, StatusValues
<1>3. CASE SyncAllComponents
  BY <1>1, <1>3 DEF SyncConfigsFails, SyncAllComponents, AllComponentsReady, KeepWaiting,
                    CollectRunningStatistics, SyncServiceMonitor, ReconcileValues, StatusValues
<1>4. CASE AllComponentsReady
  <2>1. PICK marked : wf' = [wf EXCEPT !.stage = "done", !.status.conds = marked]
    BY <1>4 DEF AllComponentsReady
  <2>2. wf'.stage = "done" /\ wf'.collect = wf.collect /\ wf'.failed = wf.failed
    BY <1>1, <2>1 DEF ReconcileValues, StatusValues
  <2>3. wf.stage = "barrier"
    BY <1>4 DEF AllComponentsReady
  <2>4. ~SyncConfigsFails /\ ~SyncAllComponents /\ ~SyncServiceMonitor
    BY <2>3 DEF SyncConfigsFails, SyncAllComponents, SyncServiceMonitor
  <2>5. ~CollectRunningStatistics
    <3>1. CollectRunningStatistics => wf.collect = "todo" /\ wf'.collect # "todo"
      BY <1>1 DEF CollectRunningStatistics, ReconcileValues
    <3>2. QED BY <2>2, <3>1
  <2>6. QED BY <1>4, <2>2, <2>3, <2>4, <2>5
<1>5. CASE KeepWaiting
  BY <1>1, <1>5 DEF SyncConfigsFails, SyncAllComponents, AllComponentsReady, KeepWaiting,
                    CollectRunningStatistics, SyncServiceMonitor, ReconcileValues, StatusValues
<1>6. CASE CollectRunningStatistics
  <2>1. /\ wf'.stage = wf.stage /\ wf.collect = "todo"
        /\ wf.failed => wf'.failed
        /\ \/ wf'.collect = "complete" /\ wf'.status.conds = wf.status.conds
           \/ /\ wf'.collect = "broken"
              /\ wf'.status.conds = [wf.status.conds EXCEPT !["Running"] = "False"]
    BY <1>1, <1>6 DEF CollectRunningStatistics, ReconcileValues, StatusValues, UpdateCondition
  <2>2. wf'.collect # wf.collect
    BY <2>1
  <2>3. /\ ~SyncConfigsFails /\ ~SyncAllComponents /\ ~KeepWaiting /\ ~SyncServiceMonitor
    BY <1>1, <2>2 DEF SyncConfigsFails, SyncAllComponents, KeepWaiting, SyncServiceMonitor,
                      ReconcileValues
  <2>4. ~AllComponentsReady
    <3>1. AllComponentsReady =>
             \E marked : wf' = [wf EXCEPT !.stage = "done", !.status.conds = marked]
      BY DEF AllComponentsReady
    <3>2. ASSUME NEW marked, wf' = [wf EXCEPT !.stage = "done", !.status.conds = marked]
          PROVE  wf'.collect = wf.collect
      BY <1>1, <3>2 DEF ReconcileValues, StatusValues
    <3>3. QED BY <2>2, <3>1, <3>2
  <2>5. QED BY <1>6, <2>1, <2>3, <2>4
<1>7. CASE SyncServiceMonitor
  BY <1>1, <1>7 DEF SyncConfigsFails, SyncAllComponents, AllComponentsReady, KeepWaiting,
                    CollectRunningStatistics, SyncServiceMonitor, ReconcileValues, StatusValues
<1>8. QED BY <1>2, <1>3, <1>4, <1>5, <1>6, <1>7

(* The conditions that the three branches mark, from what they were.       *)
LEMMA BarrierMarks ==
    ASSUME TypeOK, AllComponentsReady
    PROVE  Marked(wf.snap, wf.collect, wf.status.conds, wf'.status.conds)
<1>1. wf \in ReconcileValues /\ wf.status.conds \in [Conditions -> {"None", "True", "False"}]
  BY ReconcileTyped DEF AllComponentsReady, StatusValues
<1>2. PICK conds \in RunningMarks(InitializingMark(wf.status.conds, wf.snap),
                                  wf.snap, wf.collect = "broken") :
         \E marked \in UpgradingMarks(conds, wf.snap) :
            wf' = [wf EXCEPT !.stage = "done", !.status.conds = marked]
  BY DEF AllComponentsReady
<1>3. PICK marked \in UpgradingMarks(conds, wf.snap) :
         wf' = [wf EXCEPT !.stage = "done", !.status.conds = marked]
  BY <1>2
<1>4. wf'.status.conds = marked
  BY <1>1, <1>3 DEF ReconcileValues, StatusValues
<1>5. QED BY <1>1, <1>2, <1>3, <1>4, MarksCases

(* Running is set by the first reconcile and never removed.                *)
LEMMA RunningIsKeptStep ==
    ASSUME TypeOK, RunningIsKept, StatusSoFar, [Next]_vars
    PROVE  RunningIsKept'
<1> SUFFICES ASSUME NEW r, r \in {Snapshot', rwCache', rw'}
             PROVE  r.status.conds = NoConditions \/ r.status.conds["Running"] # "None"
  BY DEF RunningIsKept, FirstTimeObserved
<1>1. CacheMoves /\ SnapshotMoves /\ RisingWaveMoves
  BY CopiesMove
<1>2. CASE r \in {Snapshot, rwCache, rw}
  BY <1>2 DEF RunningIsKept, FirstTimeObserved
<1>3. CASE r.status = NoStatus
  BY <1>3 DEF NoStatus
<1>4. CASE r = NoRW
  BY <1>3, <1>4 DEF NoRW
<1>5. CASE r \notin {Snapshot, rwCache, rw, NoRW}
  <2>1. r = rw' /\ rw' \notin {rw, NoRW}
    BY <1>1, <1>5 DEF CacheMoves, SnapshotMoves
  <2>2. \/ r.status = rw.status
        \/ r.status = NoStatus
        \/ Active /\ r.status = wf.status
    BY <1>1, <2>1 DEF RisingWaveMoves
  <2>3. CASE r.status = rw.status
    BY <2>3 DEF RunningIsKept, FirstTimeObserved
  <2>4. CASE Active /\ r.status = wf.status
    BY <2>4 DEF StatusSoFar
  <2>5. QED BY <1>3, <2>2, <2>3, <2>4
<1>6. QED BY <1>2, <1>4, <1>5

(* The steps that are not those of a reconcile in flight.                  *)
LEMMA ReconcileStays ==
    ASSUME [Next]_vars, Active'
    PROVE  \/ wf' = wf
           \/ Start
           \/ SyncConfigsFails \/ SyncAllComponents \/ AllComponentsReady
           \/ KeepWaiting \/ CollectRunningStatistics \/ SyncServiceMonitor
<1>1. CASE Worker
  BY <1>1 DEF Worker, Skip, UpdateStatus, Active
<1>2. CASE Deliveries \/ Users \/ Converge \/ Disruption \/ UNCHANGED vars
  BY <1>2 DEF Deliveries, DeliverRisingWave, DeliverObjects, Users, Create,
     EditSpec, TogglePause, Delete, Converge, FinishDelete, CollectGarbage, RollOut,
     Disruption, Disrupt, vars
<1>3. CASE Restart
  BY <1>3 DEF Restart, Active
<1>4. QED BY <1>1, <1>2, <1>3 DEF Next

\* StatusSoFar, of a reconcile for the snapshot r
Keeps(r, stage, collect, observed, conds) ==
    /\ conds["Running"] # "None"
    /\ stage # "done" => NeedsSync(r)
    /\ NeedsSync(r) => observed = r.gen
    /\ NeedsUpgrade(r) /\ ~NeedsSync(r) => conds["Upgrading"] = "True"
    /\ conds["Upgrading"] = "True" => ConditionIs(r, "Upgrading", "True") \/ NeedsUpgrade(r)
    /\ collect = "broken" => conds["Running"] = "False" \/ ConditionIs(r, "Running", "False")

(* What a reconcile does to the status it read.                            *)
LEMMA StatusSoFarStep ==
    ASSUME TypeOK, RunningIsKept, StatusSoFar, [Next]_vars
    PROVE  StatusSoFar'
<1>1. SUFFICES ASSUME Active', NEW r, r = wf'.snap
               PROVE  Keeps(r, wf'.stage, wf'.collect, wf'.status.observed, wf'.status.conds)
  BY DEF StatusSoFar, Keeps, NeedsSync, NeedsUpgrade, IsObservedGenerationOutdated, ConditionIs
<1>2. Active => Keeps(wf.snap, wf.stage, wf.collect, wf.status.observed, wf.status.conds)
  BY DEF StatusSoFar, Keeps
<1>3. CASE wf' = wf
  BY <1>1, <1>2, <1>3 DEF Active
<1>4. CASE Start
  <2>1. r = rwCache
    BY <1>1, <1>4, StartMoves
  <2>2. /\ wf'.stage = IF NeedsSync(r) THEN "sync" ELSE "done"
        /\ wf'.collect = "todo"
        /\ IF FirstTimeObserved(r)
           THEN wf'.status.conds["Running"] = "False"
           ELSE wf'.status.conds["Running"] = r.status.conds["Running"]
        /\ FirstTimeObserved(r) =>
              /\ ~NeedsSync(r) /\ ~NeedsUpgrade(r)
              /\ wf'.status.conds["Upgrading"] = "None"
    BY <1>4, <2>1, StartReconcile
  <2>3. /\ wf'.status.observed = IF NeedsSync(r) THEN r.gen ELSE r.status.observed
        /\ ~FirstTimeObserved(r) /\ NeedsUpgrade(r) => wf'.status.conds["Upgrading"] = "True"
        /\ ~FirstTimeObserved(r) /\ ~NeedsUpgrade(r) => wf'.status.conds = r.status.conds
    BY <1>4, <2>1, StartStatus
  <2>4. FirstTimeObserved(r) \/ r.status.conds["Running"] # "None"
    BY <2>1 DEF RunningIsKept
  <2>5. QED BY <2>2, <2>3, <2>4 DEF Keeps, ConditionIs
<1>5. CASE \/ SyncConfigsFails \/ SyncAllComponents \/ AllComponentsReady
           \/ KeepWaiting \/ CollectRunningStatistics \/ SyncServiceMonitor
  <2>1. /\ Active /\ r = wf.snap /\ wf'.status.observed = wf.status.observed
    BY <1>1, <1>5, ReconcileKeepsSnapshot
  <2>2. Keeps(r, wf.stage, wf.collect, wf.status.observed, wf.status.conds)
    BY <1>2, <2>1
  <2>3. CASE AllComponentsReady
    <3>1. wf'.stage = "done" /\ wf'.collect = wf.collect /\ wf.stage = "barrier"
      BY <2>3, ReconcileSteps
    <3>2. Marked(r, wf.collect, wf.status.conds, wf'.status.conds)
      BY <2>1, <2>3, BarrierMarks
    <3>3. QED BY <2>1, <2>2, <3>1, <3>2 DEF Keeps, Marked
  <2>4. CASE CollectRunningStatistics
    <3>1. /\ wf'.stage = wf.stage
          /\ \/ wf'.collect = "complete" /\ wf'.status.conds = wf.status.conds
             \/ /\ wf'.collect = "broken"
                /\ wf'.status.conds = [wf.status.conds EXCEPT !["Running"] = "False"]
      BY <2>4, ReconcileSteps
    <3>2. wf.status.conds \in [Conditions -> {"None", "True", "False"}]
      BY <2>1, ReconcileTyped DEF StatusValues
    <3>3. /\ [wf.status.conds EXCEPT !["Running"] = "False"]["Running"] = "False"
          /\ [wf.status.conds EXCEPT !["Running"] = "False"]["Upgrading"]
                = wf.status.conds["Upgrading"]
      BY <3>2 DEF Conditions
    <3>4. QED BY <2>1, <2>2, <3>1, <3>3 DEF Keeps
  <2>5. CASE SyncConfigsFails \/ SyncAllComponents \/ KeepWaiting \/ SyncServiceMonitor
    <3>1. CASE AllComponentsReady \/ CollectRunningStatistics
      BY <2>3, <2>4, <3>1
    <3>2. CASE ~AllComponentsReady /\ ~CollectRunningStatistics
      <4>1. /\ wf'.collect = wf.collect /\ wf'.status = wf.status
            /\ \/ wf'.stage \in {wf.stage, "done"}
               \/ wf.stage = "sync"
        BY <1>5, <2>5, <3>2, ReconcileSteps
      <4>2. QED BY <2>1, <2>2, <4>1 DEF Keeps
    <3>3. QED BY <3>1, <3>2
  <2>6. QED BY <1>5, <2>3, <2>4, <2>5
<1>6. QED BY <1>1, <1>3, <1>4, <1>5, ReconcileStays

-----------------------------------------------------------------------------
(* What a reconcile finds.                                                 *)

(* A run that succeeds leaves what its requests leave, with no fault.      *)
LEMMA RunSucceeds ==
    ASSUME NEW units, NEW faulty \in BOOLEAN, NEW run \in RunsOf(units, faulty), run.ok,
           NEW o \in Objects, o \in UNION {UnitObjects(u) : u \in units}
    PROVE  /\ AnswerTo(o, objs[o], cache[o], wf.snap, version).ok
           /\ run.objs[o] = AnswerTo(o, objs[o], cache[o], wf.snap, version).obj
<1> DEFINE touched == UNION {UnitObjects(u) : u \in units}
           clean == [p \in touched |-> AnswerTo(p, objs[p], cache[p], wf.snap, version)]
           answers == IF faulty
                      THEN UNION {{[clean EXCEPT ![p] = a] :
                             a \in FaultyAnswers(p, objs[p], cache[p], wf.snap, version)} :
                                 p \in touched}
                      ELSE {clean}
           Failing(ans) == {p \in touched : ~ans[p].ok}
           Affected(ans) == UNION {UnitObjects(u) : u \in
                               {w \in units : UnitObjects(w) \cap Failing(ans) # {}}}
           Run(ans, skipped) ==
              [ok   |-> Failing(ans) = {},
               objs |-> [p \in Objects |->
                           IF p \in touched \ skipped THEN ans[p].obj ELSE objs[p]]]
           Skips(ans) == {k \in SUBSET Affected(ans) :
                            \A u \in units : UnitRan(u, touched \ k, Failing(ans))}
<1>1. run \in UNION {{Run(ans, skipped) : skipped \in Skips(ans)} : ans \in answers}
  BY Zenon DEF RunsOf
<1> HIDE DEF Run, Skips, answers
<1>2. PICK ans \in answers : \E skipped \in Skips(ans) : run = Run(ans, skipped)
  BY <1>1
<1>3. PICK skipped \in Skips(ans) : run = Run(ans, skipped)
  BY <1>2
<1>4. Failing(ans) = {}
  <2>1. run.ok = (Failing(ans) = {})
    BY <1>3 DEF Run
  <2>2. QED BY <2>1
<1>5. skipped \in SUBSET Affected(ans)
  BY <1>3 DEF Skips
<1>6. Affected(ans) = {}
  <2> HIDE DEF Failing
  <2>1. QED BY <1>4
<1>7. ans = clean
  <2>1. ASSUME NEW p \in touched,
               NEW a \in FaultyAnswers(p, objs[p], cache[p], wf.snap, version),
               ans = [clean EXCEPT ![p] = a]
        PROVE  FALSE
    <3>1. a.ok = FALSE
      BY DEF FaultyAnswers, Answer
    <3>2. ans[p] = a
      <4>1. p \in DOMAIN clean
        OBVIOUS
      <4> HIDE DEF clean
      <4>2. QED BY <2>1, <4>1
    <3>3. p \in Failing(ans)
      BY <3>1, <3>2
    <3>4. QED BY <1>4, <3>3
  <2>2. \/ ans = clean
        \/ \E p \in touched :
              \E a \in FaultyAnswers(p, objs[p], cache[p], wf.snap, version) :
                 ans = [clean EXCEPT ![p] = a]
    <3> HIDE DEF touched, clean
    <3>1. QED BY <1>2 DEF answers
  <2> HIDE DEF touched, clean, Failing
  <2>3. QED BY <2>1, <2>2
<1>8. o \in touched /\ clean[o] = AnswerTo(o, objs[o], cache[o], wf.snap, version)
  OBVIOUS
<1> HIDE DEF touched, clean, Affected
<1>9. run.objs[o] = IF o \in touched \ skipped THEN ans[o].obj ELSE objs[o]
  BY <1>3 DEF Run
<1>10. run.objs[o] = clean[o].obj
  BY <1>5, <1>6, <1>7, <1>8, <1>9
<1>11. clean[o].ok
  BY <1>4, <1>7, <1>8
<1>12. QED BY <1>8, <1>10, <1>11

(* The barriers and the statistics look at watched objects only.           *)
LEMMA LooksAtWatched ==
    /\ \A o \in Objects : \A c, r : ~Barrier(o, c, r) => o \in Watched
    /\ \A spec : CollectedFor(spec) \subseteq Watched
<1>1. ASSUME NEW o \in Objects, NEW c, NEW r, ~Barrier(o, c, r)
      PROVE  o \in Watched
  <2>1. IsWorkload(o) \/ o = Service("meta")
    BY <1>1 DEF Barrier
  <2>2. Kind(Service("meta")) = "Service"
    BY DEF Kind, Service
  <2>3. QED BY <2>1, <2>2 DEF IsWorkload, WorkloadKinds, Watched
<1>2. ASSUME NEW spec, NEW o \in CollectedFor(spec)
      PROVE  o \in Watched
  <2>1. Kind(Config) = "ConfigMap"
    BY DEF Kind, Config
  <2>2. Kind(o) \in {"ConfigMap", "Service"} \cup KindsInUse(spec)
    BY <2>1 DEF CollectedFor
  <2>3. KindsInUse(spec) \subseteq WorkloadKinds
    BY DEF KindsInUse, KruiseKinds, WorkloadKinds
  <2>4. QED BY <2>2, <2>3 DEF Watched, WorkloadKinds, CollectedFor
<1>3. QED BY <1>1, <1>2

(* While the controller sees the same, it finds the same.                  *)
LEMMA FindsTheSame ==
    ASSUME SeesTheSame, NEW r
    PROVE  /\ SyncIsIdle(r) => SyncIsIdle(r)'
           /\ IsWaiting(r) => IsWaiting(r)'
           /\ IsBroken(r)' <=> IsBroken(r)
<1>1. SyncIsIdle(r) => SyncIsIdle(r)'
  BY DEF SeesTheSame, SyncIsIdle
<1>2. IsWaiting(r) => IsWaiting(r)'
  BY DEF SeesTheSame, IsWaiting
<1>3. IsBroken(r)' <=> IsBroken(r)
  BY LooksAtWatched DEF SeesTheSame, IsBroken
<1>4. QED BY <1>1, <1>2, <1>3

(* What a reconcile has found stays true as long as nothing wakes the      *)
(* controller.                                                             *)
LEMMA FindingsHoldStep ==
    ASSUME TypeOK, StatusFollows, InformersCatchUp, StatusSoFar, FindingsHold, [Next]_vars
    PROVE  FindingsHold'
<1>1. SUFFICES ASSUME Active', Unwoken', NEW r, r = wf'.snap
               PROVE  /\ r = rw'
                      /\ NeedsSync(r) /\ wf'.stage # "sync" /\ ~wf'.failed => SyncIsIdle(r)'
                      /\ NeedsSync(r) /\ wf'.stage = "done" /\ ~wf'.failed =>
                            \/ IsWaiting(r)'
                            \/ /\ wf'.status.conds["Initializing"] # "True"
                               /\ wf'.status.conds["Upgrading"] = "True" => NeedsUpgrade(r)
                               /\ ConditionIs(r, "Running", "False") =>
                                     \/ wf'.status.conds["Running"] = "True"
                                     \/ wf'.collect = "broken"
                      /\ wf'.collect = "broken" => IsBroken(r)'
                      /\ wf'.collect = "complete" /\ ~wf'.failed => ~IsBroken(r)'
  <2>1. ASSUME Active', Unwoken' PROVE FindingsHold'
    <3> DEFINE r == wf'.snap
    <3>1. /\ r = rw'
          /\ NeedsSync(r) /\ wf'.stage # "sync" /\ ~wf'.failed => SyncIsIdle(wf.snap)'
          /\ NeedsSync(r) /\ wf'.stage = "done" /\ ~wf'.failed =>
                \/ IsWaiting(wf.snap)'
                \/ /\ wf'.status.conds["Initializing"] # "True"
                   /\ wf'.status.conds["Upgrading"] = "True" => NeedsUpgrade(r)
                   /\ ConditionIs(r, "Running", "False") =>
                         \/ wf'.status.conds["Running"] = "True"
                         \/ wf'.collect = "broken"
          /\ wf'.collect = "broken" => IsBroken(wf.snap)'
          /\ wf'.collect = "complete" /\ ~wf'.failed => ~IsBroken(wf.snap)'
      BY <1>1, <2>1 DEF SyncIsIdle, IsWaiting, IsBroken
    <3>2. QED BY <3>1 DEF FindingsHold, NeedsSync, NeedsUpgrade,
                          IsObservedGenerationOutdated, ConditionIs
  <2>2. QED BY <2>1 DEF FindingsHold
<1>2. SeesTheSame /\ (Unwoken \/ Skip \/ Start)
  BY <1>1, UnwokenStep
<1>3. /\ SyncIsIdle(r) => SyncIsIdle(r)'
      /\ IsWaiting(r) => IsWaiting(r)'
      /\ IsBroken(r)' <=> IsBroken(r)
  BY <1>2, FindsTheSame
<1>4. CASE Start
  <2>1. r = rwCache /\ pending' = pending
    BY <1>1, <1>4, StartMoves DEF Start
  <2>2. RisingWaveInformer \notin pending
    BY <1>1, <2>1, KindsAreWatched DEF Unwoken
  <2>3. r = rw'
    BY <1>2, <2>1, <2>2 DEF InformersCatchUp, SeesTheSame
  <2>4. /\ wf'.stage = IF NeedsSync(r) THEN "sync" ELSE "done"
        /\ wf'.collect = "todo"
    BY <1>4, <2>1, StartReconcile
  <2>5. QED BY <2>3, <2>4
<1>5. CASE ~Start
  <2>1. Active /\ Unwoken /\ r = wf.snap
    <3>1. Active /\ r = wf.snap
      <4>1. CASE wf' = wf
        BY <1>1, <4>1 DEF Active
      <4>2. CASE wf' # wf
        BY <1>1, <1>5, <4>2, ReconcileStays, ReconcileKeepsSnapshot
      <4>3. QED BY <4>1, <4>2
    <3>2. ~Skip
      BY <3>1 DEF Skip, NextWork
    <3>3. QED BY <1>2, <1>5, <3>1, <3>2
  <2>2. /\ r = rw
        /\ NeedsSync(r) /\ wf.stage # "sync" /\ ~wf.failed => SyncIsIdle(r)
        /\ NeedsSync(r) /\ wf.stage = "done" /\ ~wf.failed =>
              \/ IsWaiting(r)
              \/ /\ wf.status.conds["Initializing"] # "True"
                 /\ wf.status.conds["Upgrading"] = "True" => NeedsUpgrade(r)
                 /\ ConditionIs(r, "Running", "False") =>
                       \/ wf.status.conds["Running"] = "True"
                       \/ wf.collect = "broken"
        /\ wf.collect = "broken" => IsBroken(r)
        /\ wf.collect = "complete" /\ ~wf.failed => ~IsBroken(r)
    BY <2>1 DEF FindingsHold
  <2>3. r = rw'
    BY <1>2, <2>2 DEF SeesTheSame
  <2>4. CASE wf' = wf
    BY <1>3, <2>2, <2>3, <2>4
  <2>5. wf \in ReconcileValues
    BY <2>1, ReconcileTyped
  <2>6. CASE SyncConfigsFails
    <3>1. wf'.failed /\ wf'.collect = wf.collect
      BY <2>5, <2>6 DEF SyncConfigsFails, ReconcileValues
    <3>2. QED BY <1>3, <2>2, <2>3, <3>1
  <2>7. CASE SyncAllComponents
    <3>1. PICK faulty \in Faults : \E run \in RunsOf(Units, faulty) :
             /\ objs' = run.objs
             /\ wf' = [wf EXCEPT !.stage = IF run.ok THEN "barrier" ELSE "done",
                                 !.failed = @ \/ ~run.ok]
      BY <2>7 DEF SyncAllComponents
    <3>2. PICK run \in RunsOf(Units, faulty) :
             /\ objs' = run.objs
             /\ wf' = [wf EXCEPT !.stage = IF run.ok THEN "barrier" ELSE "done",
                                 !.failed = @ \/ ~run.ok]
      BY <3>1
    <3>3. /\ wf'.collect = wf.collect
          /\ wf'.stage = IF run.ok THEN "barrier" ELSE "done"
          /\ wf'.failed = (wf.failed \/ ~run.ok)
      BY <2>5, <3>2 DEF ReconcileValues
    <3>4. ASSUME run.ok PROVE SyncIsIdle(r)
      <4>1. faulty \in BOOLEAN
        BY DEF Faults
      <4>2. ASSUME NEW o \in Watched
            PROVE  /\ AnswerTo(o, objs[o], cache[o], r, version).ok
                   /\ AnswerTo(o, objs[o], cache[o], r, version).obj = objs[o]
        <5>1. o \in Objects /\ o \in UNION {UnitObjects(u) : u \in Units}
          BY WatchedAreSynced DEF Watched
        <5>2. /\ AnswerTo(o, objs[o], cache[o], wf.snap, version).ok
              /\ run.objs[o] = AnswerTo(o, objs[o], cache[o], wf.snap, version).obj
          BY <3>4, <4>1, <5>1, RunSucceeds
        <5>3. run.objs[o] = objs[o]
          BY <1>2, <3>2 DEF SeesTheSame
        <5>4. QED BY <2>1, <5>2, <5>3
      <4>3. QED BY <4>2 DEF SyncIsIdle
    <3>5. QED BY <1>3, <2>2, <2>3, <3>3, <3>4
  <2>8. CASE AllComponentsReady
    <3>1. /\ wf'.stage = "done" /\ wf'.collect = wf.collect /\ wf.stage = "barrier"
          /\ wf'.failed = wf.failed
      <4>1. PICK marked : wf' = [wf EXCEPT !.stage = "done", !.status.conds = marked]
        BY <2>8 DEF AllComponentsReady
      <4>2. wf.stage = "barrier"
        BY <2>8 DEF AllComponentsReady
      <4>3. QED BY <2>5, <4>1, <4>2 DEF ReconcileValues
    <3>2. Marked(r, wf.collect, wf.status.conds, wf'.status.conds)
      BY <2>1, <2>8, BarrierMarks
    <3>3. NeedsSync(r)
      BY <2>1, <3>1 DEF StatusSoFar
    <3>4. wf'.status.conds["Initializing"] # "True"
      <4>1. wf.status.conds["Initializing"] = "True" =>
               FirstTimeObserved(r) \/ ConditionIs(r, "Initializing", "True")
        BY <2>1 DEF StatusFollows
      <4>2. ~FirstTimeObserved(r)
        BY <3>3 DEF FirstTimeObserved, NoConditions, NeedsSync, ConditionIs, Conditions
      <4>3. QED BY <3>2, <4>1, <4>2 DEF Marked
    <3>5. wf'.status.conds["Upgrading"] = "True" => NeedsUpgrade(r)
      <4>1. wf.status.conds["Upgrading"] = "True" =>
               ConditionIs(r, "Upgrading", "True") \/ NeedsUpgrade(r)
        BY <2>1 DEF StatusSoFar
      <4>2. QED BY <3>2, <4>1 DEF Marked
    <3>6. ConditionIs(r, "Running", "False") =>
             wf'.status.conds["Running"] = "True" \/ wf'.collect = "broken"
      BY <3>1, <3>2 DEF Marked
    <3>7. QED BY <1>3, <2>2, <2>3, <3>1, <3>4, <3>5, <3>6
  <2>9. CASE KeepWaiting
    <3>1. /\ wf.stage = "barrier" /\ wf'.stage = "done" /\ wf'.collect = wf.collect
          /\ wf'.failed = (wf.failed \/ GetterFails)
      BY <2>5, <2>9 DEF KeepWaiting, ReconcileValues
    <3>2. ~GetterFails => IsWaiting(r)
      BY <2>1, <2>9, LooksAtWatched DEF KeepWaiting, IsWaiting
    <3>3. QED BY <1>3, <2>2, <2>3, <3>1, <3>2
  <2>10. CASE CollectRunningStatistics
    <3> DEFINE fails == \E o \in CollectedFor(wf.snap.spec) : GetFails(o, cache[o], wf.snap)
    <3>1. /\ wf.collect = "todo" /\ wf'.stage = wf.stage
          /\ wf'.collect = IF fails \/ ~IsBroken(wf.snap) THEN "complete" ELSE "broken"
          /\ wf'.failed = (wf.failed \/ fails)
      BY <2>5, <2>10 DEF CollectRunningStatistics, ReconcileValues, IsBroken
    <3>2. \/ wf'.collect = "complete" /\ wf'.status.conds = wf.status.conds
          \/ /\ wf'.collect = "broken"
             /\ wf'.status.conds = [wf.status.conds EXCEPT !["Running"] = "False"]
      BY <2>10, ReconcileSteps
    <3>3. wf.status.conds \in [Conditions -> {"None", "True", "False"}]
      BY <2>1, ReconcileTyped DEF StatusValues
    <3>4. /\ wf'.status.conds["Initializing"] = wf.status.conds["Initializing"]
          /\ wf'.status.conds["Upgrading"] = wf.status.conds["Upgrading"]
          /\ \/ wf'.status.conds["Running"] = wf.status.conds["Running"]
             \/ wf'.collect = "broken"
      BY <3>2, <3>3 DEF Conditions
    <3> HIDE DEF fails
    <3>5. QED BY <1>3, <2>1, <2>2, <2>3, <3>1, <3>4
  <2>11. CASE SyncServiceMonitor
    <3>1. /\ wf'.stage = wf.stage /\ wf'.collect = wf.collect /\ wf'.status = wf.status
          /\ wf.failed => wf'.failed
      BY <2>5, <2>11 DEF SyncServiceMonitor, ReconcileValues
    <3>2. QED BY <1>3, <2>2, <2>3, <3>1
  <2>12. QED BY <1>1, <1>5, <2>4, <2>6, <2>7, <2>8, <2>9, <2>10, <2>11, ReconcileStays
<1>6. QED BY <1>4, <1>5

(* A reconcile that ends and leaves nothing to come back for has stored    *)
(* nothing new, has not failed, and leaves its findings.                   *)
LEMMA EndOfReconcile ==
    ASSUME TypeOK, StatusSoFar, FindingsHold, UpdateStatus, Unwoken, Unwoken', rw' = rw
    PROVE  /\ rw.status.conds["Running"] # "None"
           /\ ~NeedsUpgrade(rw)
           /\ NeedsSync(rw) => SyncIsIdle(rw) /\ (IsWaiting(rw) \/ IsBroken(rw))
           /\ IsBroken(rw) => ConditionIs(rw, "Running", "False")
<1>1. Active /\ wf \in ReconcileValues /\ wf.snap \in RisingWaveValues /\ wf.snap # NoRW
  BY ReconcileTyped DEF UpdateStatus, BranchesDone
<1>2. /\ wf.snap = rw
      /\ NeedsSync(rw) /\ wf.stage # "sync" /\ ~wf.failed => SyncIsIdle(rw)
      /\ NeedsSync(rw) /\ wf.stage = "done" /\ ~wf.failed =>
            \/ IsWaiting(rw)
            \/ /\ wf.status.conds["Initializing"] # "True"
               /\ wf.status.conds["Upgrading"] = "True" => NeedsUpgrade(rw)
               /\ ConditionIs(rw, "Running", "False") =>
                     \/ wf.status.conds["Running"] = "True"
                     \/ wf.collect = "broken"
      /\ wf.collect = "broken" => IsBroken(rw)
      /\ wf.collect = "complete" /\ ~wf.failed => ~IsBroken(rw)
  BY <1>1 DEF FindingsHold
<1>3. wf.stage = "done" /\ wf.collect \in {"complete", "broken"}
  BY <1>1 DEF UpdateStatus, BranchesDone, ReconcileValues
<1>4. ~wf.failed /\ wf.status = rw.status
  <2>1. ~queue'
    BY DEF Unwoken
  <2>2. ~wf.failed
    BY <2>1 DEF UpdateStatus
  <2>3. ASSUME wf.status # rw.status PROVE FALSE
    <3>1. rw' = [rw EXCEPT !.status = wf.status]
      BY <1>1, <1>2, <2>1, <2>3 DEF UpdateStatus
    <3>2. rw'.status = wf.status
      BY <1>1, <1>2, <3>1 DEF RisingWaveValues
    <3>3. QED BY <2>3, <3>2
  <2>4. QED BY <2>2, <2>3
<1>5. /\ rw.status.conds["Running"] # "None"
      /\ NeedsSync(rw) => rw.status.observed = rw.gen
      /\ NeedsUpgrade(rw) /\ ~NeedsSync(rw) => ConditionIs(rw, "Upgrading", "True")
      /\ wf.collect = "broken" => ConditionIs(rw, "Running", "False")
  BY <1>1, <1>2, <1>4 DEF StatusSoFar, ConditionIs
<1>6. ~NeedsUpgrade(rw)
  <2>1. ConditionIs(rw, "Upgrading", "True") => NeedsSync(rw)
    BY DEF NeedsSync
  <2>2. rw.gen \in Nat /\ (NeedsUpgrade(rw) => rw.status.observed < rw.gen)
    BY <1>1, <1>2 DEF RisingWaveValues, NeedsUpgrade, IsObservedGenerationOutdated
  <2>3. QED BY <1>5, <2>1, <2>2
<1>7. NeedsSync(rw) => SyncIsIdle(rw) /\ (IsWaiting(rw) \/ IsBroken(rw))
  BY <1>2, <1>3, <1>4, <1>6 DEF NeedsSync, ConditionIs
<1>8. IsBroken(rw) => ConditionIs(rw, "Running", "False")
  BY <1>2, <1>3, <1>4, <1>5
<1>9. QED BY <1>5, <1>6, <1>7, <1>8

(* What the last reconcile has left stays true as long as nothing wakes    *)
(* the controller.                                                         *)
LEMMA LastReconcileHoldsStep ==
    ASSUME TypeOK, InformersCatchUp, StatusSoFar, FindingsHold, LastReconcileHolds, [Next]_vars
    PROVE  LastReconcileHolds'
<1>1. SUFFICES ASSUME ~Active', Unwoken', Live'
               PROVE  LastReconcileHolds'
  BY DEF LastReconcileHolds
<1>2. SeesTheSame /\ (Unwoken \/ Skip \/ Start)
  BY <1>1, UnwokenStep
<1>3. rw' = rw /\ Live
  BY <1>1, <1>2 DEF SeesTheSame, Live
<1>4. SUFFICES /\ rw.status.conds["Running"] # "None"
               /\ ~NeedsUpgrade(rw)
               /\ NeedsSync(rw) => SyncIsIdle(rw) /\ (IsWaiting(rw) \/ IsBroken(rw))
               /\ IsBroken(rw) => ConditionIs(rw, "Running", "False")
  <2>1. ASSUME NEW r, r = rw
        PROVE  /\ SyncIsIdle(r) => SyncIsIdle(r)'
               /\ IsWaiting(r) => IsWaiting(r)'
               /\ IsBroken(r)' <=> IsBroken(r)
    BY <1>2, FindsTheSame
  <2>2. /\ SyncIsIdle(rw) => SyncIsIdle(rw)'
        /\ IsWaiting(rw) => IsWaiting(rw)'
        /\ IsBroken(rw)' <=> IsBroken(rw)
    BY <1>3, <2>1 DEF SyncIsIdle, IsWaiting, IsBroken
  <2>3. (NeedsSync(rw)' <=> NeedsSync(rw)) /\ (NeedsUpgrade(rw)' <=> NeedsUpgrade(rw))
    BY <1>3 DEF NeedsSync, NeedsUpgrade, ConditionIs, IsObservedGenerationOutdated
  <2>4. QED BY <1>3, <1>4, <2>2, <2>3 DEF LastReconcileHolds, ConditionIs
<1>5. CASE Skip
  <2>1. RisingWaveInformer \notin pending
    BY <1>1, <1>5, KindsAreWatched DEF Skip, Unwoken
  <2>2. rwCache = rw
    BY <2>1 DEF InformersCatchUp
  <2>3. QED BY <1>3, <1>5, <2>2 DEF Skip, Live
<1>6. CASE Start
  BY <1>1, <1>6, StartMoves
<1>7. CASE Unwoken /\ ~Active
  BY <1>3, <1>7 DEF LastReconcileHolds
<1>8. CASE Unwoken /\ Active
  <2>1. UpdateStatus
    <3>1. wf' # wf
      BY <1>1, <1>8 DEF Active
    <3>2. ~Restart
      BY <1>1 DEF Restart, Unwoken
    <3>3. ~(\/ SyncConfigsFails \/ SyncAllComponents \/ AllComponentsReady
            \/ KeepWaiting \/ CollectRunningStatistics \/ SyncServiceMonitor)
      BY <1>1, ReconcileKeepsSnapshot
    <3>4. ~Skip /\ ~Start
      BY <1>8 DEF Skip, Start, NextWork
    <3>5. ~(Deliveries \/ Users \/ Converge \/ Disruption \/ UNCHANGED vars)
      BY <3>1 DEF Deliveries, DeliverRisingWave, DeliverObjects, Users, Create,
         EditSpec, TogglePause, Delete, Converge, FinishDelete, CollectGarbage, RollOut,
         Disruption, Disrupt, vars
    <3>6. QED BY <3>2, <3>3, <3>4, <3>5 DEF Next, Worker
  <2>2. QED BY <1>1, <1>3, <1>8, <2>1, EndOfReconcile
<1>9. QED BY <1>2, <1>5, <1>6, <1>7, <1>8

-----------------------------------------------------------------------------
(* QuietInv, and why it settles what it settles.                           *)

(* The state in which the operator first starts.                           *)
LEMMA QuietInit == Init => QuietInv
<1> SUFFICES ASSUME Init PROVE QuietInv
  OBVIOUS
<1>1. WorkflowInv
  BY InvInit
<1>2. PICK spec \in FirstSpecs : rw = NewRW(1, spec)
  BY DEF Init
<1>3. /\ rw.uid = 1 /\ rw.status = NoStatus /\ NoRW.uid = 0 /\ NoRW.status = NoStatus
  BY <1>2 DEF NewRW, NoRW
<1>4. /\ ~Active /\ Snapshot = NoRW /\ rwCache = NoRW /\ RisingWaveInformer \in pending
      /\ \A o \in Objects : objs[o] = Absent /\ cache[o] = objs[o]
  BY DEF Init, Active, Snapshot
<1>5. ~Unwoken
  BY <1>4, KindsAreWatched DEF Unwoken
<1>6. InformersCatchUp
  BY <1>4 DEF InformersCatchUp
<1>7. SpecsInOrder /\ ObjectsAskedFor
  BY <1>3, <1>4 DEF SpecsInOrder, ObjectsAskedFor
<1>8. RunningIsKept
  BY <1>3, <1>4 DEF RunningIsKept, FirstTimeObserved, NoStatus
<1>9. StatusSoFar /\ FindingsHold /\ LastReconcileHolds
  BY <1>4, <1>5 DEF StatusSoFar, FindingsHold, LastReconcileHolds
<1>10. QED BY <1>1, <1>6, <1>7, <1>8, <1>9 DEF QuietInv

(* QuietInv is inductive.                                                  *)
LEMMA QuietStep == QuietInv /\ [Next]_vars => QuietInv'
<1> SUFFICES ASSUME QuietInv, [Next]_vars PROVE QuietInv'
  OBVIOUS
<1> USE DEF QuietInv
<1>1. WorkflowInv /\ WorkflowInv'
  BY InvStep
<1>2. /\ TypeOK /\ CopiesInOrder /\ ObjectsInOrder /\ StatusFollows /\ TypeOK'
  BY <1>1 DEF WorkflowInv
<1>3. InformersCatchUp' /\ SpecsInOrder'
  BY <1>2, InformersCatchUpStep, SpecsInOrderStep
<1>4. ObjectsAskedFor'
  BY <1>2, <1>3, ObjectsAskedForStep
<1>5. RunningIsKept' /\ StatusSoFar'
  BY <1>2, RunningIsKeptStep, StatusSoFarStep
<1>6. FindingsHold' /\ LastReconcileHolds'
  BY <1>2, FindingsHoldStep, LastReconcileHoldsStep
<1>7. QED BY <1>1, <1>3, <1>4, <1>5, <1>6

(* When everything is quiet and a sync would change nothing, the objects   *)
(* are those that the specification asks for, in its generation.           *)
LEMMA QuietObject ==
    ASSUME TypeOK, ObjectsInOrder, ObjectsAskedFor, Live, SyncIsIdle(rw),
           NEW o \in Watched, cache[o] = objs[o], ~Orphaned(o)
    PROVE  /\ Wanted(o, rw.spec) => /\ Seen(o, cache[o], rw) = cache[o]
                                    /\ isObjectSynced(cache[o], rw.gen)
           /\ ~Wanted(o, rw.spec) => cache[o] = Absent
<1> DEFINE x == objs[o]
           answer == AnswerTo(o, x, x, rw, version)
<1>1. answer.ok /\ answer.obj = x
  BY DEF SyncIsIdle
<1>2. /\ rw \in RisingWaveValues /\ rw # NoRW /\ rw.gen \in Nat \ {0}
      /\ x \in ObjectValues /\ x.gen \in Int /\ o \in Objects
  BY DEF TypeOK, Live, RisingWaveValues, ObjectValues, Watched, NoSync
<1>3. x # Absent => x.owner = rw.uid
  BY DEF Orphaned
<1>4. ~Foreign(x, rw) /\ ~GetFails(o, x, rw) /\ Seen(o, x, rw) = x
  BY <1>3 DEF Foreign, GetFails, Seen
<1>5. /\ New(o, rw, version) # Absent
      /\ o # Config => New(o, rw, version).gen = rw.gen
  BY <1>2, NewObject
<1>6. ASSUME Wanted(o, rw.spec) PROVE isObjectSynced(x, rw.gen)
  <2>1. CASE x = Absent
    <3>1. Request(o, x, rw) = "create"
      BY <1>4, <1>6, <2>1 DEF Request
    <3>2. answer = CreateAnswer(o, x, rw, version)
      BY <3>1 DEF AnswerTo
    <3>3. answer.obj = New(o, rw, version)
      BY <2>1, <3>2 DEF CreateAnswer, Answer
    <3>4. QED BY <1>1, <1>5, <2>1, <3>3
  <2>2. CASE x # Absent /\ ~isObjectSynced(x, rw.gen)
    <3>1. Request(o, x, rw) = "update"
      BY <1>4, <1>6, <2>2 DEF Request
    <3>2. answer = UpdateAnswer(o, x, x, rw, version)
      BY <3>1 DEF AnswerTo
    <3>3. answer.obj = New(o, rw, version)
      <4>1. \/ answer = Answer(New(o, rw, version), TRUE)
            \/ answer = Answer(x, FALSE)
        BY <3>2 DEF UpdateAnswer
      <4> HIDE DEF answer
      <4>2. QED BY <1>1, <4>1 DEF Answer
    <3>4. x.gen # NoSync /\ ~(x.gen >= rw.gen)
      BY <2>2 DEF isObjectSynced
    <3>5. o # Config
      BY <1>2, <2>2, <3>4 DEF ObjectsInOrder, ObjectInOrder
    <3>6. x.gen = rw.gen
      BY <1>1, <1>5, <3>3, <3>5
    <3>7. QED BY <1>2, <3>4, <3>6
  <2>3. QED BY <2>1, <2>2
<1>7. ASSUME ~Wanted(o, rw.spec) PROVE x = Absent
  <2>1. SUFFICES ASSUME x # Absent PROVE FALSE
    OBVIOUS
  <2>2. CASE IsListed(o) /\ isObjectSynced(x, rw.gen)
    <3>1. o # Config
      BY <2>2 DEF IsListed, IsWorkload, WorkloadKinds, Kind, Config
    <3>2. x.gen # NoSync /\ x.gen <= rw.gen
      BY <1>2, <1>3, <2>1, <3>1 DEF ObjectsInOrder, ObjectInOrder
    <3>3. x.gen = rw.gen
      BY <1>2, <2>2, <3>2 DEF isObjectSynced
    <3>4. QED BY <1>2, <1>3, <1>7, <2>1, <3>3 DEF ObjectsAskedFor
  <2>3. CASE ~(IsListed(o) /\ isObjectSynced(x, rw.gen))
    <3>1. Request(o, x, rw) = "delete"
      BY <1>4, <1>7, <2>1, <2>3 DEF Request
    <3>2. answer = DeleteAnswer(o, x, x)
      BY <3>1 DEF AnswerTo
    <3>3. answer.obj = Absent
      BY <2>1, <3>2 DEF DeleteAnswer, Answer
    <3>4. QED BY <1>1, <2>1, <3>3
  <2>4. QED BY <2>2, <2>3
<1>8. QED BY <1>4, <1>6, <1>7

(* The barrier lets such objects pass once their rollouts are complete.    *)
LEMMA QuietBarrier ==
    ASSUME NEW o \in Objects,
           Wanted(o, rw.spec) => /\ Seen(o, cache[o], rw) = cache[o]
                                 /\ isObjectSynced(cache[o], rw.gen),
           ~Wanted(o, rw.spec) => cache[o] = Absent,
           IsWorkload(o) /\ cache[o] # Absent => cache[o].ready
    PROVE  Barrier(o, cache[o], rw)
<1>1. CASE IsWorkload(o)
  <2>1. WorkloadReady(o, cache[o], rw)
    BY <1>1 DEF WorkloadReady, isObjectSynced, Seen
  <2>2. o # Service("meta")
    BY <1>1 DEF IsWorkload, WorkloadKinds, Kind, Service
  <2>3. QED BY <1>1, <2>1, <2>2 DEF Barrier
<1>2. CASE ~IsWorkload(o) /\ o = Service("meta")
  <2>1. Kind(o) = "Service" /\ Component(o) = "meta" /\ ~IsListed(o)
    BY <1>2 DEF Service, Kind, Component, IsListed
  <2>2. /\ Component(Service("standalone")) = "standalone"
        /\ Component(Service("frontend")) = "frontend"
        /\ Kind(Monitor) = "ServiceMonitor" /\ Kind(Config) = "ConfigMap"
    BY DEF Service, Component, Kind, Monitor, Config
  <2>3. Wanted(o, rw.spec) <=> ~rw.spec.standalone
    BY <1>2, <2>1, <2>2 DEF Wanted
  <2>4. MetaServiceReady(cache[o], rw)
    BY <2>3 DEF MetaServiceReady
  <2>5. QED BY <1>2, <2>4 DEF Barrier
<1>3. CASE ~IsWorkload(o) /\ o # Service("meta")
  BY <1>3 DEF Barrier
<1>4. QED BY <1>1, <1>2, <1>3

(* A quiet state is settled: the last reconcile has seen what is stored    *)
(* now, and either was done with it or would still have had to wait, which *)
(* objects that are synced and rolled out leave no reason for.             *)
LEMMA QuietIsSettled ==
    ASSUME QuietInv
    PROVE  SettledWhenQuiet
<1> SUFFICES ASSUME Quiet, Live
             PROVE  /\ ReportsComplete
                    /\ \A o \in CollectedFor(rw.spec) : Wanted(o, rw.spec) => Owned(o)
  BY DEF SettledWhenQuiet
<1>1. /\ TypeOK /\ CopiesInOrder /\ ObjectsInOrder /\ InformersCatchUp /\ ObjectsAskedFor
      /\ LastReconcileHolds
  BY DEF QuietInv, WorkflowInv
<1>2. ~Active /\ Unwoken
  BY DEF Quiet, Unwoken
<1>3. /\ rw.status.conds["Running"] # "None"
      /\ ~NeedsUpgrade(rw)
      /\ NeedsSync(rw) => SyncIsIdle(rw) /\ (IsWaiting(rw) \/ IsBroken(rw))
      /\ IsBroken(rw) => ConditionIs(rw, "Running", "False")
  BY <1>1, <1>2 DEF LastReconcileHolds
<1>4. ASSUME NEW o \in Watched PROVE cache[o] = objs[o] /\ o \in Objects
  <2>1. o \in Objects /\ Kind(o) # "ServiceMonitor"
    BY DEF Watched
  <2>2. PICK kinds \in Informers : Kind(o) \in kinds
    BY <2>1, KindsAreWatched
  <2>3. kinds \notin pending
    BY <1>2, <2>1, <2>2 DEF Unwoken
  <2>4. QED BY <1>1, <2>1, <2>2, <2>3 DEF InformersCatchUp
<1>5. \A o \in Watched :
         /\ ~Orphaned(o)
         /\ IsWorkload(o) /\ cache[o] # Absent => cache[o].ready
  BY <1>4 DEF Quiet
<1>6. ~NeedsSync(rw)
  <2>1. SUFFICES ASSUME NeedsSync(rw) PROVE FALSE
    OBVIOUS
  <2>2. SyncIsIdle(rw) /\ (IsWaiting(rw) \/ IsBroken(rw))
    BY <1>3, <2>1
  <2>3. ASSUME NEW o \in Watched
        PROVE  /\ Wanted(o, rw.spec) => /\ Seen(o, cache[o], rw) = cache[o]
                                        /\ isObjectSynced(cache[o], rw.gen)
               /\ ~Wanted(o, rw.spec) => cache[o] = Absent
    BY <1>1, <1>4, <1>5, <2>2, QuietObject
  <2>4. ~IsWaiting(rw)
    <3>1. ASSUME NEW o \in Watched PROVE Barrier(o, cache[o], rw)
      BY <1>4, <1>5, <2>3, QuietBarrier
    <3>2. QED BY <3>1 DEF IsWaiting
  <2>5. ~IsBroken(rw)
    <3>1. ASSUME NEW o \in CollectedFor(rw.spec) PROVE ~Missing(o, cache[o], rw)
      <4>1. o \in Watched
        BY LooksAtWatched
      <4>2. QED BY <2>3, <4>1 DEF Missing, isObjectSynced
    <3>2. QED BY <3>1 DEF IsBroken
  <2>6. QED BY <2>2, <2>4, <2>5
<1>7. ReportsComplete
  <2>1. /\ rw \in RisingWaveValues /\ rw.status.conds["Running"] \in {"None", "True", "False"}
        /\ rw.gen \in Nat /\ rw.status.observed \in Nat
    BY <1>1 DEF TypeOK, Live, RisingWaveValues, StatusValues, Conditions
  <2>2. ConditionIs(rw, "Running", "True")
    BY <1>3, <1>6, <2>1 DEF NeedsSync, ConditionIs
  <2>3. rw.status.observed <= rw.gen
    BY <1>1 DEF CopiesInOrder
  <2>4. ~(rw.status.observed < rw.gen)
    BY <1>3, <2>2 DEF NeedsUpgrade, IsObservedGenerationOutdated
  <2>5. rw.status.observed = rw.gen
    BY <2>1, <2>3, <2>4
  <2>6. QED BY <1>6, <2>2, <2>5 DEF ReportsComplete, NeedsSync
<1>8. ASSUME NEW o \in CollectedFor(rw.spec), Wanted(o, rw.spec)
      PROVE  Owned(o)
  <2>1. ~IsBroken(rw)
    BY <1>3, <1>6 DEF NeedsSync
  <2>2. Seen(o, cache[o], rw) # Absent
    BY <1>8, <2>1 DEF IsBroken, Missing
  <2>3. objs[o] # Absent /\ ~Orphaned(o)
    <3>1. o \in Watched
      BY LooksAtWatched
    <3>2. cache[o] # Absent
      BY <2>2 DEF Seen
    <3>3. QED BY <1>4, <1>5, <3>1, <3>2
  <2>4. QED BY <2>3 DEF Orphaned, Owned
<1>9. QED BY <1>7, <1>8

(* For any components, specifications, informers and bounds: every change  *)
(* of the RisingWave or of a watched object leaves an event, a queued key  *)
(* or a reconcile that requeues, and what a reconcile has found stays true *)
(* until one of them arrives.                                              *)
THEOREM QuietInvariant == Spec => []QuietInv
<1>1. QED BY QuietInit, QuietStep, PTL DEF Spec

(* For any components, specifications, informers and bounds: when nothing  *)
(* is left to happen, the latest generation is observed and running and    *)
(* every object it asks for exists, whatever was edited, deleted, lost or  *)
(* interrupted on the way.                                                 *)
THEOREM QuietMeansSettled == Spec => []SettledWhenQuiet
<1>1. QED BY QuietInvariant, QuietIsSettled, PTL
=============================================================================
