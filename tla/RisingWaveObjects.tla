------------------------- MODULE RisingWaveObjects -------------------------
(***************************************************************************)
(* The Kubernetes objects that one RisingWave owns and what the controller *)
(* manager does with each of them: which objects a specification asks for, *)
(* which manager action looks after which objects, what that action asks   *)
(* of the API server given what the cache shows, and what the API server   *)
(* answers.  RisingWaveWorkflow runs these actions.                        *)
(***************************************************************************)
EXTENDS Integers, Sequences, FiniteSets, FiniteSetsExt

CONSTANTS
    Components,           \* the components of the distributed mode in use
    Groups,               \* names of node groups
    OpenKruiseAvailable,  \* operator flag: may OpenKruise kinds be used?
    ForceUpdate           \* operator flag: recreate on an Invalid update?

AllComponents == {"meta", "frontend", "compute", "compactor"}

ASSUME ComponentsAssumption == Components \subseteq AllComponents
ASSUME FlagsAssumption == OpenKruiseAvailable \in BOOLEAN /\ ForceUpdate \in BOOLEAN

-----------------------------------------------------------------------------
(* Objects are identified by kind, component and node group.               *)

NoGroup == ""

Service(c)      == <<"Service", c, NoGroup>>
Workloads(k, c) == {<<k, c, g>> : g \in Groups}
Standalone(k)   == <<k, "standalone", NoGroup>>
Config          == <<"ConfigMap", "config", NoGroup>>
Monitor         == <<"ServiceMonitor", "monitor", NoGroup>>

WorkloadKinds == {"StatefulSet", "Deployment", "AdvancedStatefulSet", "CloneSet"}
KruiseKinds   == {"AdvancedStatefulSet", "CloneSet"}
Kinds         == WorkloadKinds \cup {"Service", "ConfigMap", "ServiceMonitor"}

Kind(o)       == o[1]
Component(o)  == o[2]
Group(o)      == o[3]

IsWorkload(o) == Kind(o) \in WorkloadKinds
(* Workloads of node groups are listed; every other object is fetched by   *)
(* its name.                                                               *)
IsListed(o)   == IsWorkload(o) /\ Component(o) # "standalone"
IsStateful(o) == Kind(o) \in {"StatefulSet", "AdvancedStatefulSet"}

-----------------------------------------------------------------------------
(* The manager's actions, one sequence of object sets per component: each  *)
(* element is the set of objects one Sync action looks after.              *)

IfOpenKruise(objects) == IF OpenKruiseAvailable THEN <<objects>> ELSE <<>>

MetaActions ==
    <<{Service("meta")}, Workloads("StatefulSet", "meta")>>
        \o IfOpenKruise(Workloads("AdvancedStatefulSet", "meta"))
FrontendActions ==
    <<{Service("frontend")}, Workloads("Deployment", "frontend")>>
        \o IfOpenKruise(Workloads("CloneSet", "frontend"))
ComputeActions ==
    <<{Service("compute")}, Workloads("StatefulSet", "compute")>>
        \o IfOpenKruise(Workloads("AdvancedStatefulSet", "compute"))
CompactorActions ==
    <<{Service("compactor")}, Workloads("Deployment", "compactor")>>
        \o IfOpenKruise(Workloads("CloneSet", "compactor"))
StandaloneActions ==
    <<{Service("standalone")}, {Standalone("StatefulSet")}>>
        \o IfOpenKruise({Standalone("AdvancedStatefulSet")})
ConfigActions  == <<{Config}>>
MonitorActions == <<{Monitor}>>

Units == Components \cup {"standalone", "config"}

ActionsOf(u) ==
    CASE u = "meta"       -> MetaActions
      [] u = "frontend"   -> FrontendActions
      [] u = "compute"    -> ComputeActions
      [] u = "compactor"  -> CompactorActions
      [] u = "standalone" -> StandaloneActions
      [] u = "config"     -> ConfigActions
      [] u = "monitor"    -> MonitorActions

UnitObjects(u) == UNION {ActionsOf(u)[i] : i \in DOMAIN ActionsOf(u)}
Objects        == UNION {UnitObjects(u) : u \in Units \cup {"monitor"}}

(* Only the compute actions run one after another: the others join.        *)
RunsInOrder(u) == u = "compute"

-----------------------------------------------------------------------------
(* What a specification asks for.  A specification is a record with fields *)
(*   standalone, kruise, monitor : BOOLEAN                                 *)
(*   groups  : the node groups of each component                           *)
(*   volumes : the part of it that StatefulSets cannot change in place     *)

IsOpenKruiseEnabled(spec) == OpenKruiseAvailable /\ spec.kruise

KindsInUse(spec) ==
    IF IsOpenKruiseEnabled(spec) THEN KruiseKinds ELSE WorkloadKinds \ KruiseKinds

Wanted(o, spec) ==
    \/ /\ IsListed(o)
       /\ ~spec.standalone
       /\ Kind(o) \in KindsInUse(spec)
       /\ Group(o) \in spec.groups[Component(o)]
    \/ /\ IsWorkload(o) /\ ~IsListed(o)
       /\ spec.standalone
       /\ Kind(o) \in KindsInUse(spec)
    \/ o = Service("standalone") /\ spec.standalone
    \/ o = Service("frontend")
    \/ /\ Kind(o) = "Service" /\ Component(o) \notin {"standalone", "frontend"}
       /\ ~spec.standalone
    \/ o = Monitor /\ spec.monitor
    \/ o = Config

-----------------------------------------------------------------------------
(* A stored object: the uid of its owner, the generation in its label, the *)
(* immutable part of its specification, the version of the operator that   *)
(* built it, and whether its rollout is complete.                          *)

Absent == [owner |-> 0, gen |-> 0, volumes |-> 0, version |-> 0, ready |-> FALSE]
NoSync == -1       \* the label of objects that are never updated

(* The factory, for a RisingWave object r and the operator's version v.    *)
New(o, r, v) ==
    [owner   |-> r.uid,
     gen     |-> IF o = Config THEN NoSync ELSE r.gen,
     volumes |-> IF IsStateful(o) THEN r.spec.volumes ELSE 0,
     version |-> v,
     ready   |-> ~IsWorkload(o)]

isObjectSynced_Newer(c, gen) == c # Absent /\ (c.gen = NoSync \/ c.gen > gen)
isObjectSynced(c, gen) == c # Absent /\ (c.gen = NoSync \/ c.gen >= gen)

(* What the manager's getters answer for the cached object c: List drops   *)
(* objects of other owners, Get fails on them.                             *)
Foreign_Ignored(c, r) == FALSE
Foreign(c, r) == c # Absent /\ c.owner # r.uid
Seen(o, c, r)     == IF IsListed(o) /\ Foreign(c, r) THEN Absent ELSE c
GetFails(o, c, r) == ~IsListed(o) /\ Foreign(c, r)

(* What an action asks of the API server for one object.                   *)
Request(o, c, r) ==
    LET seen == Seen(o, c, r) IN
    CASE GetFails(o, c, r) -> "fail"
      [] ~GetFails(o, c, r) /\ Wanted(o, r.spec) /\ seen = Absent -> "create"
      [] ~GetFails(o, c, r) /\ Wanted(o, r.spec) /\ seen # Absent ->
            IF isObjectSynced(seen, r.gen) THEN "none" ELSE "update"
      [] ~GetFails(o, c, r) /\ ~Wanted(o, r.spec) ->
            IF seen = Absent \/ (IsListed(o) /\ isObjectSynced(seen, r.gen))
            THEN "none" ELSE "delete"

-----------------------------------------------------------------------------
(* The API server's answer: the object left behind and whether the request *)
(* succeeds.  x is the stored object, c the cached one; an object that     *)
(* differs from the cached one has another resourceVersion.                *)

Answer(obj, ok) == [obj |-> obj, ok |-> ok]

(* Create: AlreadyExists is ignored.                                       *)
CreateAnswer(o, x, r, v) == Answer(IF x = Absent THEN New(o, r, v) ELSE x, TRUE)

(* Update carries the cached resourceVersion.  A changed immutable field   *)
(* is Invalid: the object is deleted and created again when the operator   *)
(* has another version or force update is on, otherwise the error stands.  *)
Recreates(c, v) == ForceUpdate \/ c.version # v

UpdateAnswer(o, x, c, r, v) ==
    LET new == New(o, r, v) IN
    IF x = c /\ (x.volumes = new.volumes \/ Recreates(c, v))
    THEN Answer(new, TRUE)
    ELSE Answer(x, FALSE)

(* Delete: listed workloads are deleted by name and NotFound is ignored;   *)
(* the others carry the cached uid and every error counts.                 *)
DeleteAnswer(o, x, c) ==
    IF IsListed(o) \/ (x # Absent /\ x.owner = c.owner)
    THEN Answer(Absent, TRUE)
    ELSE Answer(x, FALSE)

AnswerTo(o, x, c, r, v) ==
    LET request == Request(o, c, r) IN
    CASE request = "none"   -> Answer(x, TRUE)
      [] request = "fail"   -> Answer(x, FALSE)
      [] request = "create" -> CreateAnswer(o, x, r, v)
      [] request = "update" -> UpdateAnswer(o, x, c, r, v)
      [] request = "delete" -> DeleteAnswer(o, x, c)

(* A request that is lost, or whose answer is; deleting and creating again *)
(* may also stop half-way.                                                 *)
FaultyAnswers(o, x, c, r, v) ==
    IF Request(o, c, r) \in {"none", "fail"} THEN {}
    ELSE {Answer(x, FALSE), Answer(AnswerTo(o, x, c, r, v).obj, FALSE)}
         \cup {Answer(Absent, FALSE) :
                  y \in {z \in {x} : /\ Request(o, c, r) = "update" /\ z = c
                                    /\ z.volumes # New(o, r, v).volumes
                                    /\ Recreates(c, v)}}

-----------------------------------------------------------------------------
(* The barriers read the cache.                                            *)

WorkloadReady_AnyGeneration(o, c, r) ==
    IF Wanted(o, r.spec) THEN Seen(o, c, r) # Absent /\ c.ready ELSE Seen(o, c, r) = Absent

WorkloadReady(o, c, r) ==
    IF Wanted(o, r.spec)
    THEN isObjectSynced(Seen(o, c, r), r.gen) /\ c.ready
    ELSE Seen(o, c, r) = Absent

(* WaitBeforeMetaServiceIsAvailable is the only barrier on a Service.      *)
MetaServiceReady(c, r) ==
    IF r.spec.standalone THEN c = Absent ELSE isObjectSynced(c, r.gen)

Barrier(o, c, r) ==
    CASE IsWorkload(o) -> WorkloadReady(o, c, r)
      [] o = Service("meta") -> MetaServiceReady(c, r)
      [] OTHER -> TRUE

WaitedFor(o) == IsWorkload(o) \/ o = Service("meta")

(* CollectRunningStatisticsAndSyncStatus and its three siblings look at    *)
(* the objects of the mode in use, and turn Running off when a service,    *)
(* the config or the workload of a node group is missing.                  *)
CollectedFor(spec) ==
    {o \in Objects :
        \/ o = Config
        \/ /\ Kind(o) \in {"Service"} \cup KindsInUse(spec)
           /\ Component(o) = "standalone" <=> spec.standalone}

Missing_OnlyServices(o, c, r) ==
    Wanted(o, r.spec) /\ ~IsWorkload(o) /\ Seen(o, c, r) = Absent
Missing(o, c, r) == Wanted(o, r.spec) /\ Seen(o, c, r) = Absent

=============================================================================
