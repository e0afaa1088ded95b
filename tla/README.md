# A TLA+ specification of the RisingWave operator

The operator runs RisingWave clusters on Kubernetes. Nearly everything that is
hard about it comes from one fact: its controllers read objects through
informer caches that lag behind, write them back with optimistic locking (or,
in places, without it), and share objects with each other, with webhooks and
with users. The modules here model the parts where that matters, for TLC to
check on small instances and for TLAPS to prove theorems about.

`src/` below is the root of the repository.

## 1. The system

| Component | State it keeps | Operations | Talks to |
|---|---|---|---|
| RisingWaveScaleView controller (`pkg/controller/risingwave_scale_view_controller.go`, `pkg/manager/risingwave_scale_view_controller_manager_impl.go`) | none of its own; the view's `.status`, and the lock in the RisingWave's `.status.scaleViews` | grab or update the lock (with retries), patch replicas into the RisingWave, copy status back | the RisingWave object, the lock manager, both webhooks |
| Scale view lock manager (`pkg/object/scale_view_lock_manager.go`) | the list of locks in a RisingWave in memory | get, grab, update, release | called by both controllers and the webhook |
| SplitReplicas (`pkg/object/scaleview/split.go`) | – | split a view's replicas over its groups by priority and limit | lock manager |
| Scale view webhooks (`pkg/webhook/risingwave_scale_view_*_webhook.go`) | – | default and bind a new view to its RisingWave; pin the groups of a view on update | reads the RisingWave |
| RisingWave validating webhook (`pkg/webhook/risingwave_validating_webhook.go`) | – | refuse changes of locked node groups; stateless checks of the spec | reads the locks |
| RisingWave controller (`pkg/controller/risingwave_controller.go`, `pkg/object/risingwave_manager.go`) | conditions, observed generation, status of the components | workflow of condition barriers and actions; release of dead locks; one status write at the end | all owned objects, views |
| RisingWave mutating webhook (`pkg/webhook/risingwave_mutating_webhook.go`) | – | trim the data directory, generate a private key | – |
| RisingWave controller manager (`pkg/manager/risingwave_controller_manager_impl.go`) | the owned Services, ConfigMaps, Deployments, StatefulSets, ... | create, update, recreate, delete, observe readiness | API server |
| Object factory (`pkg/factory`) | – | build manifests from a spec | controller manager |
| RisingWaveUser controller (`pkg/controller/risingwave_user_controller.go`) | finalizer, annotation and status of the RisingWaveUser, a Secret, the database user | create, alter, grant, rotate, drop | the RisingWave object, the SQL client, its webhook |
| SQL client (`pkg/rwclient`) | a pool of connections, kept by a health checker | get, ping, clean up; privilege snapshot and diff | RisingWave |
| Meta Pod role labeler (`pkg/controller/meta_pod_role_labeler.go`) | the role labels of meta Pods | poll roles over gRPC, patch labels | Pods |
| Compute StatefulSet update strategy (`pkg/controller/risingwave_compute_sts_update_strategy.go`) | – | delete Pods of an outdated revision | StatefulSets, Pods |
| Others: utilities, feature gates, events, metrics, entry point | – | stateless, or observability | – |

Where it is hard, and what makes each component correct:

* **Scale views.** Several views race for the node groups of one RisingWave.
  A group has at most one owner; the lock of a living view is never lost and
  never goes back; a view that exists gets its replicas; a dead view gives its
  groups back; a RisingWave that is created again owes nothing to the views of
  the old one. The lock is a list inside an object that two controllers write
  with `Status().Update` and that one of them also patches without a version.
* **SplitReplicas.** Integer shares with limits and priorities: nothing lost,
  nothing invented, limits kept, higher priorities first, equal groups equal up
  to one, and independent of the order of a Go map.
* **RisingWaveUsers.** A reconcile is a chain of cached reads, SQL statements
  and object writes that may stop after any of them. The finalizer must precede
  the database user, only the user of a deleted object is dropped, Secret and
  database agree, rotation ends in agreement, everything is retried.
* **RisingWave workflow.** Conditions are read from a snapshot and written to a
  copy by branches that run in parallel. The status must not claim a generation
  before its workloads carry it and must not move back; nothing may be
  forgotten, since the barriers wait for events and ask for no requeue; in the
  end the latest generation runs.
* **Workloads of node groups.** Created, updated, recreated and deleted against
  lagging lists, in four families (native or OpenKruise, distributed or
  standalone); what belongs to another RisingWave of the same name is left
  alone.
* **Webhooks and factory.** Several switches over the stores, each in its own
  order, must agree on the backend of whatever the webhook admits; environment
  variables are merged from three sources and sorted by dependency; data
  directory, private key and root path must survive edits and stale copies.
* **Privileges over a pool.** Grants are computed and executed database by
  database in a session that `SET DATABASE` moves, on a connection that a health
  checker may borrow, close or replace.
* **Labels and updates of Pods.** Polled roles are old when they are written;
  Pods are deleted on the word of an old StatefulSet.

`PROJECT.json` lists the main ones as `hazards`, each at the line where it
bites.

## 2. Modules

| Module | What it models |
|---|---|
| `SplitReplicas` | the splitting algorithm, as operators; the groups in the order of their ranks, served one after another by a recursive function |
| `MCSplitReplicas` | enumerates policies and totals, states the reference properties |
| `SplitReplicas_proofs` | the reference properties for every policy and total |
| `GroupLockService` | abstract specification: groups owned by incarnations of views, taken all at once when free, given back when the view is dead |
| `ScaleView` | views, the RisingWave, both controllers, caches, webhooks, users, restarts |
| `MCScaleView` | instances of `ScaleView` with the real `SplitReplicas` |
| `ScaleView_proofs` | types and the inductive invariant of exclusion |
| `ScaleViewLocks_proofs` | order of versions, what it makes of the locks, the refinement |
| `RisingWaveUser` | one RisingWaveUser, its Secret, the database user, the RisingWave, caches, failures, restarts |
| `MCRisingWaveUser` | instances of `RisingWaveUser` |
| `RisingWaveUser_proofs` | its inductive invariant and three theorems from it |
| `RisingWaveObjects` | the objects a RisingWave owns; what each manager action asks of the API server, the answers, the barriers |
| `RisingWaveWorkflow` | the RisingWave controller's workflow over these actions, its conditions and status, caches, users, rollouts, garbage collection, restarts |
| `MCRisingWave` | instances of `RisingWaveWorkflow` |
| `RisingWaveWorkflow_proofs` | its inductive invariant and two action properties |
| `EnvVars` | lists of environment variables: merging and topological sorting |
| `RisingWaveFactory` | both RisingWave webhooks, the backend and environment the factory builds, the recorded root path |
| `MCRisingWaveFactory` | the specifications and edits to check it with |
| `RisingWaveFactory_proofs` | one backend, the recorded root path, the kept identity; what merging and sorting do to any list; the environments of the five containers |
| `ConnectionPool` | the pool of database handles and its health checker, over `database/sql` |
| `PrivilegeSync` | `applyPrivileges` over that pool |
| `MCPrivilegeSync` | an instance with two databases |
| `PrivilegeSync_proofs` | handles that leak are paid for, statements are right, success means granted |
| `MetaPodRoleLabeler` | the labeler of meta Pods |
| `ComputeUpdateStrategy` | the update strategy of compute StatefulSets |
| `MCPods` | the last two, with their fairness |
| `Pods_proofs` | polled labels stay right; nothing outdated is left, nothing up to date is deleted |

`ScaleView` composes the scale view controller, the RisingWave controller's
part in the protocol and the three webhooks over one API server;
`SplitReplicas` enters it as the constant operator `Split`, which the proofs
leave open (they assume only that it returns a share for every group, which
`SharesFit` in `SplitReplicas_proofs` proves of the real one) and `MCScaleView`
instantiates. `GroupLockService` is instantiated in `ScaleView`
by a refinement mapping. `RisingWaveWorkflow` extends `RisingWaveObjects`,
`RisingWaveFactory` extends `EnvVars`, and `PrivilegeSync` extends
`ConnectionPool`, whose handles its statements use. No module declares a
RECURSIVE operator: recursion is written as folds and recursive functions.

### 2.1 Conventions of the models

* *Objects and versions.* A stored object is a record with a `rv`
  (resourceVersion) that grows with every write and a `uid` that is the `rv` of
  its creation, so that two incarnations never share one; `uid` 0 is an object
  that does not exist. Writes that leave the object as it is make no version.
* *Informers.* A write adds the version to the undelivered events of its kind;
  `Deliver...` moves the oldest to the cache and wakes the controllers that
  watch the kind. Kinds are independent of each other. Every `Get` of the code
  reads the cache.
* *Requests.* `Update` and `Status().Update` succeed if the stored `rv` is the
  one in hand, and fail otherwise (Conflict, NotFound). `Patch(MergeFrom)`
  carries no version and is applied to what is stored.
* *Reconciles* are records with a program counter: one step per read of shared
  state, per request and per SQL statement; local computation belongs to the
  step before it. At most one reconcile per key runs, as the work queue
  guarantees. A returned error, `Requeue` and `RequeueAfter` put the key back;
  delays are not modelled.
* *Restart* forgets queues, caches and reconciles; the informers list again.
* *Admission* is part of the request it guards.
* Definitions named `X_Something` next to `X` are variants with a plausible
  mistake in them; each of them violates a property of a run.

### 2.2 ScaleView

| Variable | Code |
|---|---|
| `rw`, `rwCache`, `rwEvents` | the RisingWave: node groups' replicas, `.status.scaleViews` |
| `sv`, `svCache`, `svEvents` | the views: generation, replicas, policy, target uid, `.status.locked` |
| `svQueue`, `rwQueue` | the two work queues |
| `worker[v]` | the reconcile of view `v`: `grab`, `grabWrite`, `sync`, `patch`, `joined` |
| `ctrl` | the reconcile of the RisingWave, as far as it deals with locks |
| `budget` | the bounds on requests, restarts and status writes |

| Action | Code |
|---|---|
| `ReconcileView` | `Reconcile` of the view controller up to the workflow |
| `GrabOrUpdateScaleViewLock`, `UpdateLock` | the action of that name, its request and `RetryInterval` around both |
| `SyncGroupReplicasToRisingWave`, `PatchReplicas` | the action of that name and its merge patch; `Merged` says what a JSON merge patch of a list does |
| `SyncGroupReplicasStatus` | the action of that name; `Join` runs it beside the other two, in either order |
| `UpdateScaleViewStatus` | the deferred status write |
| `ReconcileRisingWave`, `ReleaseScaleViewLock`, `UpdateRisingWaveStatus` | the RisingWave controller's reconcile, one lock per step, and its status write |
| `CreateView`, `ScaleTo`, `EditPolicy`, `DeleteView`, `EditRisingWave`, `DeleteRisingWave`, `CreateRisingWave` | requests of users, with the webhooks' verdicts |

`validateUpdate` is the webhook's loop over a lock's groups with its two
counters; `GroupLockAdmits` says when one iteration lets the request pass.

Abstracted: the running replicas in the statuses (a write that happens or not,
`other`), labels and annotations, the bypass annotation of the webhook and the
pause annotation of the RisingWave (a paused controller is one that takes its key
late), the read errors of the client. `CreateView` reads the RisingWave and stores the
view in one step. `ReleaseLockFor` and `IsScaleViewLocked` have no caller.

### 2.3 RisingWaveUser

| Variable | Code |
|---|---|
| `user`, `userCache`, `userEvents` | the RisingWaveUser: deletion timestamp, finalizer, rotate annotation, whether `spec.password.secretRef` is used, `status.userCreated`, `status.phase` |
| `secret`, `secretCache`, `secretEvents` | the Secret the controller writes |
| `refSecret` | the Secret named by `secretRef` |
| `cluster` | the RisingWave: absent, starting or running |
| `db` | the database user: its password, and the incarnation it was last reconciled for |
| `queue`, `worker`, `budget` | work queue, reconcile in flight, bounds |

| Action | Code |
|---|---|
| `Begin` | `Reconcile` up to the first request |
| `AddFinalizer`, `ReadinessGate`, `EstablishConnection`, `EnsureUserExists`, `ApplyPrivileges`, `GetSecret`, `CreateOrUpdateSecret`, `UpdateStatus` | the stages of `reconcileNormal`; `GetPassword` is `getPassword` |
| `RotatePassword`, `RemoveAnnotation` | the rotation branch |
| `DropUser`, `RemoveFinalizer` | `reconcileDelete` |
| `CreateUser`, `DeleteUser`, `AnnotateRotate`, `EditRefSecret` | requests of users, admitted by the webhook (`ValidateUpdate`) |
| `Cluster`, `ClusterRuns` | the RisingWave stops, goes, comes back, runs; its watch wakes the users |
| `CollectGarbage` | the Secret of a user that is gone |

Abstracted: a generated password is the smallest number nobody uses; a
failing connection or statement is a choice while `MaxFaults` lasts; the grants
are one statement that works or not; phases that are never stored (`Creating`,
`Updating`, `Deleting`) are left out; `lastConnectedTime` and messages, which
make an otherwise unchanged status a new version, are the argument `tick` of
`UpdateStatus`. The RisingWave is read directly, not through a cache. OAuth and
LDAP users, the pause annotation and edits of `spec.password` are left out.
`Direct` chooses between `connectionRef` and `risingWaveRef`.

`UserProvisioned` asks for a Ready user with a database user and a Secret. For
generated passwords it also asks that no rotation is left, and, as long as
nothing has failed and no cache lagged (`Undisturbed`), that database user and
Secret have one password. A password that has been saved (`Saved`) stays right, or
becomes right again, through failures and restarts, but not through reads of a
cache that lags. What happens otherwise is under "Seen while
modelling" below. A rotation asked for before the database user exists
(`RotateWithoutUser`) is exempted: `ALTER USER` comes before `CREATE USER` in the
reconcile and fails for good. For users with `secretRef` the documentation
promises no rotation, and none is asked for.

### 2.4 RisingWaveObjects and RisingWaveWorkflow

An object is a tuple of kind, component and node group. `MetaActions`,
`FrontendActions`, ... are the manager's Sync actions, each a set of objects;
`Wanted` says which objects a specification asks for, `Request` what an action
asks of the API server given the cached object, `AnswerTo` what the server
leaves behind, `FaultyAnswers` what a lost request or answer does. `Barrier` is
what the Wait actions look at, `CollectedFor` and `Missing` what
`syncRunningStatus` does.

| Variable | Code |
|---|---|
| `rw`, `rwCache` | the RisingWave: uid, generation, pause annotation, deletion, spec, observed generation and conditions |
| `objs`, `cache`, `pending` | the owned objects, the informers' view, informers with undelivered events |
| `queue`, `wf` | the work queue; the reconcile: its snapshot, the mutable status, the stage of the shared `SyncAllAndWait`, what `syncRunningStatus` found |
| `version` | the operator's version, which decides whether an Invalid update recreates |

| Action | Code |
|---|---|
| `Skip`, `Start` | `Reconcile` up to the workflow; the branches that only set conditions |
| `SyncConfigsFails`, `SyncAllComponents` | `syncConfigs` and `syncAllComponents` in `syncAllAndWait` |
| `AllComponentsReady`, `KeepWaiting` | `allComponentsReadyBarrier` and the marks of the three branches behind it |
| `CollectRunningStatistics` | `syncRunningStatus`, at any time beside the others |
| `SyncServiceMonitor` | `syncServiceMonitorIfPossible`, with the CRD installed |
| `UpdateStatus` | `UpdateRemoteRisingWaveStatus` |
| `Create`, `EditSpec`, `TogglePause`, `Delete` | users |
| `RollOut`, `Disrupt`, `CollectGarbage`, `FinishDelete`, `Restart` | Kubernetes and restarts, also with another version of the operator |

A run of the Sync actions is one step: each request is about an object of its
own and depends on the cache alone, so the interleavings of `ParallelJoin`
differ only in which requests are left out when one fails, and that choice is
part of the step (`RunsOf`). The last write of two parallel branches to one
condition wins (`RunningMarks`, `UpgradingMarks`). A specification is reduced to
mode, OpenKruise, monitor, node groups and the volumes that StatefulSets cannot
change in place. An informer delivers the latest state of its kinds at once.
The release of locks is in `ScaleView`, `syncInternalStatus` in
`RisingWaveFactory`; counts of replicas and transition times are left out.

### 2.5 EnvVars and RisingWaveFactory

An environment variable is its name, who set it and the references in its
value; values themselves are left out. `MergeOne` replaces the first variable of
a name or appends it, `MergeAll` does so for a list, one variable after another;
`TopologicalSort` is the in-place sort with the queue of sources. `EnvNames` is
the alphabet: it gives names their order, and contains those that the operator
sets (`OperatorNames`). The functions
`envsFor...`, `setup...Container` and `args...` keep their names in the code.
`hummockConnectionStr`, `StateStoreOfEnvs`, `buildStateStoreType`,
`MetaStoreOfEnvs`, `MetaStoreOfCoreEnvs` and `buildMetaStoreType` are the
switches over the stores, each with the order of its cases. `Default`,
`validateCreate` and `ValidateUpdate` are the webhooks, the first of them
registered for CREATE only; a request with the bypass annotation skips the
checks. Only specifications of the CRD's schema
(`Specs`) reach them (`Admitted`).

Some properties are about orderly templates (`OrderlyTemplate`): names are
listed once, RW_SSL_* and RW_WEBHOOK_LISTEN_ADDR are left to the operator where
it appends them unseen, and a variable does not refer to a name both escaped and
unescaped. What the code does to others is under "Seen while modelling" below.
`TemplateScope` says which variables of a container the template replaces and
which the operator merges over it (`Protected`).

The state machine is small: `Update` and `Recreate` are admitted requests,
`Deliver` the informer, `Reconcile` builds the Pods (`built`) from the cached
object, `UpdateStatus` stores the root path with optimistic locking, `Restart`
drops the reconcile. Compute node groups have a name. Ports, volumes, probes,
affinity and labels are left out, and so are images, resources and group names
in the webhook.

### 2.6 ConnectionPool and PrivilegeSync

`pool` is the entry for one cluster, `handles` all `sql.DB` opened so far with
their idle connections, each a session in a database; `get` and `checker` are
the two goroutines. `Taken` and `GivenBack` are how `database/sql` hands
connections out (external). The controller has a single worker.

`PrivilegeSync` has one action per statement that `applyPrivileges` executes
(`SwitchForSchemas`, `SwitchForExecution`, `ExecuteStatement`, `SwitchBack`), and
one per question it asks: `FetchSnapshot` is two queries (the privileges on
databases, the names of the databases, which do not change), `getCurrentDatabase`
one, `FetchSchemas` the 1 + 4n queries of `FetchSchemaPrivileges` for the n schemas
of a database. What comes between the queries of one question is thus taken to
come before or after all of them; a connection that comes or goes there makes a
reconcile that counts as `lost` anyway, an outside change one that is `touched`.
`acl` maps databases,
schemas and objects to the user's privileges, `spec` is `spec.grants`, and a
statement acts in the database the session really is in, while `worker.current`
is where the controller believes it to be. Privileges are sets, not characters
of an ACL; what ALL means is up to the database (`Expand`). The order of
databases is any (a Go map), when schemas are read as well as when statements are
executed. `worker.lost`, `skipped` and `touched` are history for the properties.

After `End` the next reconcile begins when the pool is asked again. What wakes the
controller is the event of its status write when `lastConnectedTime`, which has
seconds, has changed with it, and the resync of the informer in any case: that
reconciles recur rests on the resync. With ALL or `*` in the grants each of them
takes and gives the same privileges again, so `Converges` is `[]<>`.

The assumptions on the constants are what code and database guarantee: entries
are databases, schemas or objects (`Entry`), a grant on an object stands below a
grant on its schema because `spec.grants` nests them, privileges are those the
kind has because RisingWave refuses others, and `*` and `ALL` are words of the
specification only. A handle keeps at least one idle connection
(`database/sql` keeps two unless told otherwise, and nothing tells it).
`Unambiguous` is not among them: statements name objects without their schema,
and it says that no object or grant outside the search path has a namesake in it.

### 2.7 MetaPodRoleLabeler and ComputeUpdateStrategy

`MetaPodRoleLabeler`: `Reconcile` takes a Pod from the cache, `getMetaRole` asks
its node (or fails, which is the role `unknown`), `Patch` writes the label, and
`Continue` goes on to the Pods labelled leader when a new leader was found. A
patch carries no uid and lands on whatever Pod has the name. `Elect`, `Learn`,
`StartPod` and `RemovePod` are external; `settled` is history. Finding the
endpoint from arguments and variables, and the checks that the Pod has a meta
container with a service port, are left out.

`ComputeUpdateStrategy`: `Read` is the reconcile up to the list of Pods to
delete, `Delete` one deletion with its uid precondition. `StsObserves`,
`StsCreates`, `StsRolls` and `PodEnds` are the StatefulSet controller and the
kubelets (external); `Edit` and `Recreate` change the StatefulSet. Readiness
is left out. `cleared` is history.

## 3. Runs

| Run | Question | Result |
|---|---|---|
| `split_replicas` | Does the split keep its promises on every policy of up to 3 groups with priorities {0, 1} and limits {none, 0, 1, 2}, totals up to 6? (all replicas handed out within the limits, higher priorities first, evenly among equals; stable; a scale-out grows one group) | holds |
| `sv_contend` | Two views race for overlapping or disjoint groups, with deletion and policy edits: inductive invariant, exclusion, refinement of `GroupLockService` | holds |
| `sv_view` | One view is created, scaled, re-prioritised and deleted while users edit the groups: locks agree with views, locked groups move together; the view gets its replicas, a dead lock is released (liveness) | holds |
| `sv_restart` | View and RisingWave are deleted and recreated, the operator restarts, other status writes interfere: inductive invariant of the order of versions, binding, settling, living locks kept | holds |
| `sv_deadlock` | Do several views? (liveness) | violated |
| `user_lifecycle` | A user's whole life with a cluster that comes and goes, faults, lag and a restart: inductive invariant, finalizer first, drop only deleted, rotation complete; a user becomes Ready, with rotations of generated passwords done and, if nothing failed, the right password in its Secret, which then survives failures and restarts, a deleted one goes away (liveness) | holds |
| `user_orphan` | Is the database user of a deleted RisingWaveUser gone? | violated |
| `rw_lifecycle` | A RisingWave is edited across modes, OpenKruise and volumes, paused, deleted and recreated, with one disturbance, failing request or restart: the status claims no more than the workloads carry and never moves back, foreign objects stay untouched, nothing is forgotten (with the inductive invariant behind all of it), the latest generation runs in the end (liveness) | holds |
| `rw_orphan` | Does only what the specification asks for run? | violated |
| `factory` | All pairs of meta and of state stores, credentials, images, modes and template variables through webhooks and factory: one backend, every variable once and before its use, the template replaces what it may and nothing else; across edits and restarts data directory, key and root path stay | holds |
| `privileges` | Grants reconciled over the pool with two incidents (failures, lost connections, checker rounds, edits): right place, reported success is one, bounded leaks; the privileges converge (liveness) | holds |
| `pods` | Labeler with two troubles, update strategy with two changes: polled labels stay right, outdated Pods are deleted at once and others spared, rolled out means updated; labels and rollout settle (liveness) | holds |

The violated runs are disagreements of the code with its documentation,
described in `PROJECT.json` under `findings`:

* `sv_deadlock`: `validateUpdate` counts a group that already has the lock's
  replicas as updated and then refuses the *unchanged* groups after it, also in
  requests that are about other groups. Two views that are partly in sync
  refuse each other's patches forever.
* `user_orphan`: `status.userCreated` is stored by the last write of the first
  reconcile; when the object is deleted before, the write conflicts, and the
  deletion skips `DROP USER`.
* `rw_orphan`: switched to standalone mode before the informer shows the
  Deployment just created, the controller neither deletes it nor waits for it,
  since sync and barrier read the same cache. Once Running with the new
  generation observed, no branch syncs again: the Deployment stays until the
  next edit.

Names ending in `Inv` are a module's type invariant, its core safety invariant
and what makes the two inductive, so that the runs check on small instances what
the proofs rest on. `SyncInv` needs `Unambiguous`, which `MCPrivilegeSync`
evaluates; with a namesake in a second schema TLC finds it violated.

Seen while modelling, without a run of their own:

* The merge patch of a scale view carries the component's whole list of node
  groups from the cache and reverts a concurrent change of a group outside the
  view.
* `config/webhook/manifests.yaml` registers the scale view webhook for the
  resource `risingwavescaleview`, which does not exist. With
  `ValidateScaleViews = FALSE` TLC finds two locks on one group.
* The password of a database user is lost when a statement fails, or the operator
  stops, between `CREATE USER` and the write of the Secret: the retry finds no
  Secret, generates another password, finds the database user there already, and
  stores a password that the database user does not have; the user is Ready and
  nothing repairs it, although `docs/general/user-management.md:459` tells users to
  connect with it. One read of a cache that does not show the Secret yet does the
  same. After a rotation it is the requeued reconcile that may read the old
  password from the cache and, the cache having caught up before
  `createOrUpdateSecret` reads it again, put it back into the Secret: without the
  exemption of stale reads TLC finds `UserProvisioned` violated by one create and one
  rotation.
* The rotate annotation is honoured for users with `secretRef` too, against
  `docs/general/user-management.md:234`: the database user gets a random password,
  and the reconcile that follows puts that of the referenced Secret into the
  operator's Secret, so that nobody has the new one. A change of the referenced
  Secret does not reach the database user.
* In standalone mode a deleted frontend Service is not recovered; Services other
  than meta's are not waited for; an operator restarted without OpenKruise
  leaves OpenKruise workloads alone; `Running` may flap while the Service
  informer lags; a condition updated with its own status loses its transition
  time.
* `TopologicalSort` loses variables when one refers to itself or three refer in
  a circle; `DependsOn` looks at the first occurrence only, so that an escaped
  reference hides a later one; a user's `RW_SSL_KEY` or
  `RW_WEBHOOK_LISTEN_ADDR` and the appended one are both kept in standalone mode,
  in any order; `RUST_LOG` of a template is overridden silently, and so is
  `RW_SQL_USERNAME` and whatever else meta needs for its store.
* A template with `RW_STATE_STORE`, `RW_DATA_DIRECTORY`, `RW_BACKEND` or
  `RW_SQL_ENDPOINT` points a meta node to other stores than those whose
  credentials it is given, and than those of compute and compactor; a standalone
  ignores the same variables. In a frontend with embedded serving the template
  replaces the credentials of the state store as well.
* `env` of a template is no map in the CRD (`risingwave_node_group.go:47`): a
  name listed twice is admitted, a merge replaces the first only, and the second
  hides a setting of the store. `TemplateScope` therefore asks for templates
  that list a name once.
* `memory: true` beside an etcd with a blank endpoint is admitted. The switches
  pick the memory store, but `argsForStandaloneMetaStore` looks at etcd alone and
  puts `$(RW_ETCD_ENDPOINTS)` on the command line, which nothing defines.
  `ReferencesResolve` makes an exception for it; without the exception TLC finds
  the state, and the proof fails there.
* Neither the schema of a scale view nor its webhook refuses a negative
  `maxReplicas`; the split then gives that group a negative share. `PolicyAssumption`
  excludes it.
* The webhook passes `etcd: {endpoint: ""}` beside another meta store, and
  dereferences `stateStore.S3` in the message about azureBlob credentials. A
  recorded root path of `""` counts as unset, so a bypassed edit may still move
  the data directory. An update that comes without a stored private key, also one
  that was generated, is refused. The standalone template is not validated.
* A failed `SET DATABASE` skips a database and the privileges are still reported
  as synced; an unknown current database is taken for `dev`; object names are
  not qualified with their schema; schemas without any privilege are not read;
  grants on sinks, connections, secrets and functions, wildcards for schemas
  and `withGrantOption` have no effect. `Get` forgets a dead handle unclosed.
* The update strategy dereferences the controller of a Pod that may have none,
  and a restart loses its trigger, so that the rest is rolled one by one.
  `IsStatefulSetRolledOut` takes ready Pods for available ones while none is
  available.

### 3.1 Bounds

Requests of users (`MaxEdits`) are the length of the stories: three or four are
enough for create–edit–delete–recreate of one object or for one request to
each of two, which is what it takes for a reconcile of one incarnation to meet
the next. One restart suffices for a restart between any two steps. Two views
and two groups are the smallest contention; six groups (two views on three
each) are the smallest partly synced pair for `sv_deadlock`. `RetryLimit` is 1
or 2: with 2, both the retry and the give-up branch are taken. `MaxStatusWrites`
and `MaxTicks` bound writes that are possible at any time, each of which can
only make other writers conflict. `MaxStaleReads` bounds the reads of the user
controller from a cache that lags: without a bound, stale reads of the Secret
can rewrite it forever. `MaxFaults` 1 lets each statement fail in turn. `MCPasswords` has more
values than are ever in use together. Views are symmetric in `sv_contend`,
which checks no liveness.

`rw_lifecycle` has the component meta with one node group, standalone, config
and monitor, in both families of kinds: all components have actions of the same
shape, and `rw_orphan` adds compute, whose actions run in order, and frontend,
whose Service stays. One edit or recreation and one disturbance (`MaxEvents`),
with every step of the reconcile and the informers in between, are what one
reconcile of an old snapshot and the next can meet. Kinds that matter apart are
in `Informers` of their own. `factory` enumerates specifications one question
at a time, all pairs of stores among them, and two edits; a state is interesting
only through its specification. `privileges` has two databases, schema and table
in each, an unmanaged sink, a wildcard and a table that does not exist; two
incidents let a failure meet a change, a lost connection or a checker round.
`pods` has two Pods of each kind, the smallest number for a wrong leader or a
half-done rollout; two troubles or changes let the second hit the handling of
the first.

### 3.2 Fairness and termination

Weak fairness is assumed of each informer's delivery, of the steps of a
reconcile together with taking a queued key (the work queue drops no key, and
there are workers for every key in use), and of the garbage collector. It is
not assumed of users, faults, restarts, nor of the RisingWave becoming ready.
The worker of `RisingWaveWorkflow`, spelled out as `WorkerIsFair` so that TLC
need not build its enabledness, is weakly fair in the same way; workload
controllers roll out, StatefulSet controller and kubelets make progress, meta
nodes elect a leader when there is none and learn of it: without those no
operator could promise anything. `Reconcile(p)` of the labeler is strongly fair:
the single worker disables it while it polls another Pod, and the queue gives
every Pod its turn. Weak fairness is otherwise enough since a key that is queued stays queued, and a
reconcile is never disabled by others except by waiting for a delivery.

Runs state `CHECK_DEADLOCK FALSE`: an operator with nothing to do stops, and so
do users when their budget is spent. That it does not stop with work left is
what `SettledWhenIdle`, `SettledWhenQuiet` and `UserProvisioned` say.

## 4. Proofs

All theorems hold for every value of the constants that satisfies the modules'
assumptions, which TLC evaluates in the runs. None assumes fairness. Each comes
from an inductive invariant that a run checks on a small instance, or from lemmas
about the operators.

### 4.1 Scale views

`ScaleView_proofs`, for any views, groups, policies, split and bounds:

* `TypeCorrect`: `Spec => []TypeOK`.
* `LockInvariant`: `ValidateScaleViews => (Spec => []LockInv)`, and from it
* `LockExclusion`: two locks never share a group. `LockExclusive` is not
  inductive: the write that appends a lock was computed from a cached
  RisingWave, and the update of a lock replaces its groups unchecked. `LockInv`
  adds what makes these safe: `VersionsAgree` (a copy with the stored version
  *is* the stored object, so a write that passes the version check was computed
  from the truth), `WorkerReads` and `ControllerReads` (what a reconcile has in
  hand justifies the write it is about to send), `GroupsPinned` (all copies of
  one incarnation of a view target the same groups, by the validating webhook)
  and `LocksPinned` (a lock covers exactly the groups of its incarnation). The
  assumption `ValidateScaleViews` is needed: without it a policy edit moves a
  view, and its lock, onto the groups of another.

`ScaleViewLocks_proofs`, where only `Refinement`, `ProgressInvariant` and
`IdleMeansSettled` need that assumption:

* `GroupsMoveTogether`: from the lemma `ValidateUpdateAllOrNone`, which says
  what the webhook's loop with its two counters lets pass: all groups of a lock
  at their old replicas, or all at the lock's.
* `HistoryInvariant`: `Spec => []HistoryInv`. `ViewsInOrder`: a reconcile's copy
  of a view is no newer than the cache, the cache no newer than the undelivered
  versions, and later versions of one incarnation have later generations.
  `LocksInOrder`: a lock, in any copy of the RisingWave, is behind every copy
  of its view that a reconcile may still write. `DroppedAreDead`: what
  `releaseScaleViewLock` has dropped so far is gone in truth, since the cache is
  past the creation of whatever took the lock.
* `LocksFollowViews`, `LocksAreBound` and `LiveLocksAreKept` follow from it.
* `Refinement`: with both invariants, every step is a step of `GroupLockService`
  or a stutter. `LocksWritten` reduces the steps to four: the locks stay, the
  RisingWave is replaced, the controller releases, a worker grabs or updates.
* `ProgressInvariant` (`Spec => []ProgressInv`) and `IdleMeansSettled`: no wakeup
  is lost, so the operator does not fall asleep on unfinished work. For each
  thing that `SettledWhenIdle` asks for, the invariant names who will see that it
  is missing: the lock of a deleted view is known to the delete event, to the
  queue or to a `releaseScaleViewLock` that will drop it (`DeadLocksNoticed`,
  with `DeletesAnnounced` for caches that still show the view); a reconcile that
  no other follows works on the stored view (`LastReadsCurrent`), ends with a
  lock at its generation (`BoundViewsHold`) and with the groups of the lock at
  their replicas (`LocksInStep`). `InformersCatchUp`, `RisingWavesInOrder` and
  `CurrentLocksKept` carry this over stale caches. `TargetsCached` is where the
  webhook counts: it admits a view only if the cache shows its RisingWave.
  Without it the view may be reconciled against a cache that does not match,
  and no later event would wake it.

`SplitReplicas_proofs`, for any number of groups, priorities, limits that are not
negative (`PolicyAssumption`) and totals: `SplitPromises` (all replicas are
handed out within the limits, higher priorities first, equals even),
`ScaleOutGrowsOne`, `SplitIsStable` and `SharesFit`. The split is recursive, and
the library's induction takes a predicate; `FromTo` is induction over an interval
with a set in its place, from the least element of a set of naturals, and
`Recursion` says that what is defined by recursion over an interval exists.
`OrderIsSorted` says that ranks put the groups in the serving order, for which
`Places` counts them. Along that order `SplitHands` says what each group takes;
`StaysTight` says that once a group gets less than its limit, so do those of its
priority that follow, and nothing is left for lower ones, which gives
`HigherFirst` and `AllHandedOut`; `KeepsAtLeast` and `KeepsBelow` that what is left
for each group of a priority neither falls nor, below the limits, grows while it
is served, which gives `EvenShares`; `SameFromThere` and `OneGetsIt` that a replica
more goes to one group, and that nothing differs after it.

### 4.2 RisingWaveUsers

`RisingWaveUser_proofs`, for any bounds and both kinds of connection:
`InductiveInvariant` (`Spec => []UserInv`), `FinalizerFirst`, `DropSafe` and
`RotationIsComplete`. `DROP USER` goes by name and acts on a cached copy. It is
safe because of `VersionsOrdered` (copies are old versions, caches move forward,
a reconcile starts from the cache), `SameIncarnation` (a copy at least as new as
the stored object's creation is of that incarnation, and its finalizer and
deletion timestamp are there to stay), `WorkerPinned` (which copies may
provision and which may drop) and `DatabasePinned` (once the database user has
been reconciled for this incarnation, the cache and the reconcile in flight have
reached it). The lemmas `UpdateKeeps`, `ReplaceKeeps` and `MoveKeeps` treat the
three ways in which actions touch these copies. `RotationPinned` is for the
rotation: from `ALTER USER` on, database user and Secret have the password that
the reconcile holds, or do not exist.

### 4.3 The RisingWave workflow

`RisingWaveWorkflow_proofs`, for any components, node groups, specifications,
informers, edits and disturbances: `WorkflowInvariant`, `StatusForward`,
`OwnObjects`. `CompleteMeansSynced` is not inductive: what the stored status
claims was concluded from a snapshot and from cached objects. `CopiesInOrder`
puts snapshot, cache and stored RisingWave in the order of time,
`ObjectsInOrder` does so for the objects and their cached copies and says that
no object is ahead of the RisingWave it was built for, `StatusFollows` says what
a reconcile may have made of the status it read, and `ClaimsHold` extends the
claim to every copy of the RisingWave and to the status about to be written: a
workload seen at the snapshot's generation in the cache has at least that
generation in truth. `SpecsAssumption` gives specifications their fields.

`QuietInvariant` (`Spec => []QuietInv`) and `QuietMeansSettled`: the controller
does not fall asleep on a RisingWave that is not settled. The argument goes
backwards in time. `UnwokenStep`: in a state with nothing queued and nothing
undelivered, no step since the last reconcile began has changed the RisingWave or
a watched object, for every change would have left an event (`InformersCatchUp`).
So that reconcile worked on the stored RisingWave and read caches that were right
(`FindingsHold`). It ended without a requeue and without a status write with an
effect, so that the status is what it computed (`StatusSoFar`,
`LastReconcileHolds`, the lemma `EndOfReconcile`): either there was nothing to
sync, or every request was a no-op (`SyncIsIdle`) and the barrier or the
statistics still found something missing. `QuietObject` excludes the latter
once workloads are rolled out and orphans collected. It needs one more fact: an
unwanted workload that carries the current generation is neither deleted nor let
past the barrier, and there is none, because what carries a generation was built
from that generation's specification (`SpecsInOrder`, `ObjectsAskedFor`).

### 4.4 Webhooks and factory

`RisingWaveFactory_proofs`, for any paths and specifications of the CRD's
schema, edits and restarts: `FactoryInvariant`, `RootIsRecordedOnce`,
`IdentityIsKept`. `Validated` says that whatever is stored or built without the
bypass annotation passed the webhook, which leaves one configured backend, so
that the switches agree whatever their order; `CopiesInOrder` that reconciles
work on older versions; `IdentityInOrder` that versions of one incarnation keep
state store and private key. The status write compares versions, so a root path
computed from an old copy is never stored over another.

The second half is about lists. `SortIsTopological`: the sort of any list whose
dependencies have no cycle, once one of two edges between the same two is dropped
(`Sortable`), is a permutation in which a variable is behind those it refers to
unless they refer back. `TakesASource` is one step of the queue, `SomeSource`
finds one while any variable is left (the variable of least depth), and
`StaysOrdered` is the invariant of the loop. With a cycle, `SortFrom` still says
that nothing is invented. `LaterWins`: what is merged last has the last word, and
no name is doubled. A `Piece` is a list of the operator with its names and the
names it refers to; a lemma each says so of the lists that the `envsFor...`
functions return, and `Behind`, `PieceBehind` and `GivenMerged` put them together
to the five containers (`MetaContainer`, `FrontendContainer`, `NodeContainer` for
compute and compactor, `StandaloneContainer`). From `ContainersComplete` (all that
is referred to is there) and `ContainersKeepSettings` follow

* `TemplateIsBounded` (`Spec => []TemplateScope`): `OperatorWins` for what is
  merged over the template, `UserWins` for what the template replaces, and
* `EnvironmentIsSound` (`Spec => [](NoLongCycle => EnvironmentSound)`).
  `NoLongCycle` is needed, since variables on a cycle of three are lost; the
  templates of `MCRisingWaveFactory` satisfy it. `TemplatesSort` says when it
  holds: the operator's variables refer from a few names (`Referring`) to a few
  others (`Referred`), so a template whose references can be layered with these is
  never on a cycle; `PlainTemplatesSort` is the case of a template without
  references.

Both use `Validated`: the lists are built for what the webhook has let through,
and the state store that the connection string names is the one whose
credentials are there.

### 4.5 Pool, labels and Pods

* `PrivilegeSync_proofs`, for any databases, grants and incidents:
  `PoolInvariant` and `LeaksAreBounded`. Counting leaked handles is not
  inductive, because the checker still holds the handle it is going to lose.
  `DropsPaid` counts the handles that neither pool nor checker knows, and one
  more from the moment on at which the checker is bound to drop an open handle;
  a failed ping pays for each. `SessionsAssumption` says that sessions are in
  existing databases.

  `SyncInvariant` and `PrivilegesInPlace` are about the reconcile, for any
  catalogue and grants that are `Unambiguous`. `ReconcileInv` is why success
  means granted: the session is in the database the reconcile believes it to be
  in unless a connection was lost (`PlaceInv`, which needs that a request finds
  the connection the one before gave back); a statement that waits for a database
  is about entries of that database only and is right there: it gives what is
  asked for and takes nothing that is asked for by name (`StatementsInv`); and
  every privilege that is asked for will be granted by a statement still to come,
  or is there and no statement still to come takes it (`ProvidedInv`), which is
  inductive because revokes come before grants. When nothing is left to do
  (`TodoInv`), it is there.
* `Pods_proofs`, for any non-empty set of meta Pods: `LabelsStayRight`, with invariants on the poll in flight (`PollsCatchUp`,
  `PatchesRight`, `PollCounts`).
* `Pods_proofs`, for any finite set of compute Pods: `StrategyInvariant`,
  `RolledOutIsUpdated`, `PodsSpared`. `StatusesTell` says what a status that has
  observed the generation tells of the Pods, `SamePod` that equal uids are equal
  Pods, `TargetsOutdated` that the list of a reconcile has outdated Pods only.

The last two are about `LabelerSpec` and `StrategySpec`, the two controllers by
themselves; `MCPods` runs one or the other.

### 4.6 Only model-checked

* What needs fairness: `ViewsServed`, `DeadLockReleased`, `UserProvisioned`,
  `DeletionCompletes`, `Settles`, `Converges`, `LabelsSettle`, `RolloutSettles`.

Every invariant and every safety action property of a passing run is stated by a
theorem.

## 5. Not modelled

What the factory builds besides environment, arguments, owner and generation
(ports, volumes, probes, affinity, update strategies, inherited labels), and the
field checks of the webhooks on images, resources, labels and names, are
functions of single fields without order or state. The characters of an ACL and
the text of SQL are string handling. `Remove`, `Close` and `Size` of the pool and
the grant and revoke builders of `sql_builder.go` have no caller. Feature gates,
events, metrics and the entry point carry no state that others depend on.
Generated deep copies are left out. Client-go internals (relists, resyncs, rate
limits) are summarised by the conventions above. Panics of a reconcile are
modelled only in the factory (`Panics`).

## 6. Plan

The components that carry state are modelled, and the safety invariants and
action properties of the passing runs are proved. What is left to TLC (section
4.6) needs fairness. A change of the code that touches a mapped definition means:
change the definition, run its configuration, then `tlapm` on the proof module,
whose failing leaves say which argument the change breaks.
