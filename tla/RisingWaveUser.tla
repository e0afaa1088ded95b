--------------------------- MODULE RisingWaveUser ---------------------------
(***************************************************************************)
(* RisingWaveUserController: one RisingWaveUser object, the database user  *)
(* it manages in RisingWave and the Secret that carries the password.      *)
(*                                                                         *)
(* Objects are read through informer caches (users and Secrets on separate *)
(* streams) and written with their resourceVersion; SQL statements go to   *)
(* the database directly.  A reconcile is a chain of such steps; between   *)
(* any two of them caches may move, users may act, a statement may fail    *)
(* and the operator may be restarted.                                      *)
(***************************************************************************)
EXTENDS Integers, FiniteSets

CONSTANTS
    Direct,        \* spec.connectionRef: no RisingWave object, no readiness gate
    Passwords,     \* bound: passwords, a set of positive numbers
    UserRequests,  \* bound: the kinds of requests users make
    MaxEdits,      \* bound: their number
    MaxCrashes,    \* bound: restarts of the operator
    MaxFaults,     \* bound: connections and statements that fail
    MaxTicks,      \* bound: status writes that only move lastConnectedTime
    MaxStaleReads  \* bound: reads of a cache that lags behind

VARIABLES
    user,          \* the stored RisingWaveUser
    userCache,     \* the version the informer shows
    userEvents,    \* versions not delivered yet
    secret,        \* the stored Secret of the user
    secretCache,
    secretEvents,
    refSecret,     \* the password in the Secret that spec.password.secretRef names
    cluster,       \* the RisingWave: "absent", "starting" or "running"
    db,            \* the database user
    queue,         \* is the user in the work queue?
    worker,        \* the reconcile in flight
    budget

vars == <<user, userCache, userEvents, secret, secretCache, secretEvents,
          refSecret, cluster, db, queue, worker, budget>>

store == <<user, userEvents, secret, secretEvents>>
cache == <<userCache, secretCache>>
world == <<refSecret, cluster>>

ASSUME ConstantsAssumption ==
    /\ Direct \in BOOLEAN
    /\ Passwords \subseteq Nat \ {0}
    /\ MaxEdits \in Nat
    /\ MaxCrashes \in Nat
    /\ MaxFaults \in Nat
    /\ MaxTicks \in Nat
    /\ MaxStaleReads \in Nat

(***************************************************************************)
(* Objects.  uid (of a user) and owner (of a Secret) are 0 when the object *)
(* does not exist; password 0 is no password, and in db no database user.  *)
(***************************************************************************)
NoUser(rv) ==
    [uid |-> 0, rv |-> rv, deleting |-> FALSE, finalizer |-> FALSE,
     rotate |-> FALSE, ref |-> FALSE, created |-> FALSE, phase |-> "None"]

NoSecret(rv) == [owner |-> 0, rv |-> rv, password |-> 0]

\* by: the incarnation of the RisingWaveUser that created or adopted it
NoDatabaseUser == [password |-> 0, by |-> 0]

IdleWorker ==
    [pc |-> "idle", copy |-> NoUser(0), password |-> 0, found |-> 0,
     retry |-> FALSE]

StoreUser(obj) ==
    /\ user' = obj
    /\ userEvents' = userEvents \cup {obj}

StoreSecret(obj) ==
    /\ secret' = obj
    /\ secretEvents' = secretEvents \cup {obj}

PasswordsInUse ==
    {db.password, refSecret, secret.password, secretCache.password, worker.password}
        \cup {e.password : e \in secretEvents}

\* GenerateRandomPassword: one that nobody has
Fresh(p) ==
    /\ p \in Passwords \ PasswordsInUse
    /\ \A q \in Passwords \ PasswordsInUse : p <= q

Init ==
    /\ user = NoUser(0)
    /\ userCache = NoUser(0)
    /\ userEvents = {}
    /\ secret = NoSecret(0)
    /\ secretCache = NoSecret(0)
    /\ secretEvents = {}
    /\ refSecret = 0
    /\ cluster = "starting"
    /\ db = NoDatabaseUser
    /\ queue = FALSE
    /\ worker = IdleWorker
    /\ budget = [edits |-> MaxEdits, crashes |-> MaxCrashes,
                 faults |-> MaxFaults, ticks |-> MaxTicks,
                 stale |-> MaxStaleReads]

-----------------------------------------------------------------------------
(* Informers, each kind in order.                                          *)

DeliverUser ==
    \E e \in userEvents :
        /\ \A x \in userEvents : e.rv <= x.rv
        /\ userCache' = e
        /\ userEvents' = userEvents \ {e}
        /\ queue' = TRUE
        /\ UNCHANGED <<user, secret, secretCache, secretEvents, world, db, worker, budget>>

\* Owns(&corev1.Secret{}): the owner is known by its name
DeliverSecret ==
    \E e \in secretEvents :
        /\ \A x \in secretEvents : e.rv <= x.rv
        /\ secretCache' = e
        /\ secretEvents' = secretEvents \ {e}
        /\ queue' = TRUE
        /\ UNCHANGED <<user, userCache, userEvents, secret, world, db, worker, budget>>

-----------------------------------------------------------------------------
(* Reconcile.                                                              *)

Goto(pc) == worker' = [worker EXCEPT !.pc = pc]

\* the reconcile is over; an error or Requeue puts the key back
Done(requeue) ==
    /\ worker' = IdleWorker
    /\ queue' = (queue \/ requeue)

\* set the phase and go on to updateStatus; retry: what to return after it
ToStatus(phase, retry) ==
    worker' = [worker EXCEPT !.pc = "status", !.copy.phase = phase, !.retry = retry]

\* mutants: the phase is left as it is; the error is not returned
Fails_Updating == ToStatus("Updating", TRUE)
Fails_Swallowed == ToStatus("Failed", FALSE)

Fails == ToStatus("Failed", TRUE)

\* a RisingWave that is not Running may still answer; a deleted one does not
Reachable == Direct \/ cluster # "absent"

\* a connection or a statement fails, or it does not
SQLFails ==
    \/ /\ ~Reachable
       /\ UNCHANGED budget
    \/ /\ Reachable
       /\ budget.faults > 0
       /\ budget' = [budget EXCEPT !.faults = @ - 1]

SQLWorks == Reachable /\ UNCHANGED budget

\* a read through a cache
Read(cached, stored) ==
    \/ /\ cached = stored
       /\ UNCHANGED budget
    \/ /\ cached # stored
       /\ budget.stale > 0
       /\ budget' = [budget EXCEPT !.stale = @ - 1]

\* the webhook on updates: the RisingWave referred to must exist
ValidateUpdate == Direct \/ cluster # "absent"

Begin ==
    /\ queue
    /\ worker.pc = "idle"
    /\ queue' = FALSE
    /\ worker' = IF userCache.uid = 0
                 THEN IdleWorker
                 ELSE [IdleWorker EXCEPT
                         !.copy = userCache,
                         !.pc = CASE userCache.deleting /\ userCache.created -> "drop"
                                  [] userCache.deleting /\ ~userCache.created -> "release"
                                  [] ~userCache.deleting /\ ~userCache.finalizer -> "finalizer"
                                  [] OTHER -> "gate"]
    /\ Read(userCache, user)
    /\ UNCHANGED <<store, cache, world, db>>

\* mutant: goes on although the finalizer is not stored
AddFinalizer_Unchecked ==
    /\ worker.pc = "finalizer"
    /\ worker' = [worker EXCEPT !.pc = "gate", !.copy.finalizer = TRUE]
    /\ UNCHANGED <<store, queue, cache, world, db, budget>>

\* Update(rwUser) with the finalizer, then Requeue
AddFinalizer ==
    /\ worker.pc = "finalizer"
    /\ Done(TRUE)
    /\ \/ /\ user.rv = worker.copy.rv
          /\ ValidateUpdate
          /\ StoreUser([user EXCEPT !.rv = @ + 1, !.finalizer = TRUE])
       \/ /\ user.rv # worker.copy.rv \/ ~ValidateUpdate
          /\ UNCHANGED <<user, userEvents>>
    /\ UNCHANGED <<secret, secretEvents, cache, world, db, budget>>

\* fetchRisingWave and isRisingWaveReady
ReadinessGate ==
    /\ worker.pc = "gate"
    /\ \/ /\ Direct \/ cluster = "running"
          /\ Goto("connect")
       \/ /\ ~Direct /\ cluster = "starting"
          /\ ToStatus("Pending", TRUE)                    \* RequeueAfter
       \/ /\ ~Direct /\ cluster = "absent"
          /\ Fails
    /\ UNCHANGED <<store, cache, world, db, queue, budget>>

Password(p) == worker' = [worker EXCEPT !.pc = "create", !.password = p]

\* getPassword: the referenced Secret, or the user's own one, or a new one
GetPassword ==
    \/ /\ worker.copy.ref
       /\ IF refSecret # 0 THEN Password(refSecret) ELSE Fails
       /\ UNCHANGED budget
    \/ /\ ~worker.copy.ref
       /\ Read(secretCache, secret)
       /\ IF secretCache.owner # 0
          THEN Password(secretCache.password)
          ELSE \E p \in Passwords : Fresh(p) /\ Password(p)

\* establishConnection, and what needs no further request
EstablishConnection ==
    /\ worker.pc = "connect"
    /\ \/ SQLFails /\ Fails
       \/ SQLWorks /\ worker.copy.rotate /\ Goto("rotate")
       \/ Reachable /\ ~worker.copy.rotate /\ GetPassword
    /\ UNCHANGED <<store, cache, world, db, queue>>

\* ensureUserExists: CREATE USER; an existing user is taken over as it is
EnsureUserExists ==
    /\ worker.pc = "create"
    /\ \/ /\ SQLFails
          /\ Fails
          /\ UNCHANGED db
       \/ /\ SQLWorks
          /\ db' = [password |-> IF db.password = 0 THEN worker.password ELSE db.password,
                    by |-> worker.copy.uid]
          /\ worker' = [worker EXCEPT !.pc = "grant", !.copy.created = TRUE]
    /\ UNCHANGED <<store, cache, world, queue>>

\* reconcilePermissions and applyPrivileges
ApplyPrivileges ==
    /\ worker.pc = "grant"
    /\ \/ /\ SQLFails
          /\ Fails
       \/ /\ SQLWorks
          /\ db.password = 0                              \* a new database
          /\ Fails
       \/ /\ SQLWorks
          /\ db.password # 0
          /\ Goto("secret")
    /\ UNCHANGED <<store, cache, world, db, queue>>

\* mutant: the user is dropped and created again
RotatePassword_Recreate ==
    /\ worker.pc = "rotate"
    /\ SQLWorks
    /\ db' = NoDatabaseUser
    /\ \E p \in Passwords :
          Fresh(p) /\ worker' = [worker EXCEPT !.pc = "create", !.password = p]
    /\ UNCHANGED <<store, cache, world, queue>>

\* mutant: the new password is not put into the Secret
RotatePassword_NotSaved ==
    /\ worker.pc = "rotate"
    /\ SQLWorks
    /\ db.password # 0
    /\ \E p \in Passwords :
          /\ Fresh(p)
          /\ db' = [db EXCEPT !.password = p]
          /\ worker' = [worker EXCEPT !.pc = "rotated", !.password = p]
    /\ UNCHANGED <<store, cache, world, queue>>

\* rotatePassword: ALTER USER ... WITH PASSWORD
RotatePassword ==
    /\ worker.pc = "rotate"
    /\ \/ /\ SQLFails
          /\ Fails
          /\ UNCHANGED db
       \/ /\ SQLWorks
          /\ db.password = 0                              \* no such user
          /\ Fails
          /\ UNCHANGED db
       \/ /\ SQLWorks
          /\ db.password # 0
          /\ \E p \in Passwords :
                /\ Fresh(p)
                /\ db' = [db EXCEPT !.password = p]
                /\ worker' = [worker EXCEPT !.pc = "secret", !.password = p]
    /\ UNCHANGED <<store, cache, world, queue>>

\* createOrUpdateSecret: Get
GetSecret ==
    /\ worker.pc = "secret"
    /\ worker' = [worker EXCEPT !.pc = "secretWrite",
                                !.found = IF secretCache.owner = 0 THEN 0 ELSE secretCache.rv]
    /\ Read(secretCache, secret)
    /\ UNCHANGED <<store, cache, world, db, queue>>

\* an update that keeps the stored object is not a new version
SetPassword(p) ==
    IF secret.password = p
    THEN UNCHANGED <<secret, secretEvents>>
    ELSE StoreSecret([secret EXCEPT !.rv = @ + 1, !.password = p])

\* mutant: the error of the write is dropped
CreateOrUpdateSecret_Unchecked ==
    /\ worker.pc = "secretWrite"
    /\ IF secret.owner = 0
       THEN StoreSecret([owner |-> worker.copy.uid, rv |-> secret.rv + 1,
                         password |-> worker.password])
       ELSE IF secret.rv = worker.found
       THEN SetPassword(worker.password)
       ELSE UNCHANGED <<secret, secretEvents>>
    /\ IF worker.copy.rotate THEN Goto("rotated") ELSE ToStatus("Ready", FALSE)
    /\ UNCHANGED <<user, userEvents, cache, world, db, queue, budget>>

\* createOrUpdateSecret: Create, or Update of what Get returned; the owner of
\* an existing Secret stays
CreateOrUpdateSecret ==
    LET created == worker.found = 0 /\ secret.owner = 0
        updated == worker.found # 0 /\ secret.owner # 0 /\ secret.rv = worker.found
    IN
    /\ worker.pc = "secretWrite"
    /\ \/ /\ created
          /\ StoreSecret([owner |-> worker.copy.uid, rv |-> secret.rv + 1,
                          password |-> worker.password])
       \/ /\ updated
          /\ SetPassword(worker.password)
       \/ /\ ~created /\ ~updated                         \* AlreadyExists, Conflict
          /\ UNCHANGED <<secret, secretEvents>>
    /\ \/ ~created /\ ~updated /\ Fails
       \/ (created \/ updated) /\ worker.copy.rotate /\ Goto("rotated")
       \/ (created \/ updated) /\ ~worker.copy.rotate /\ ToStatus("Ready", FALSE)
    /\ UNCHANGED <<user, userEvents, cache, world, db, queue, budget>>

\* Update(rwUser) without the annotation, then Requeue
RemoveAnnotation ==
    /\ worker.pc = "rotated"
    /\ Done(TRUE)
    /\ \/ /\ user.rv = worker.copy.rv
          /\ ValidateUpdate
          /\ StoreUser([user EXCEPT !.rv = @ + 1, !.rotate = FALSE])
       \/ /\ user.rv # worker.copy.rv \/ ~ValidateUpdate
          /\ UNCHANGED <<user, userEvents>>
    /\ UNCHANGED <<secret, secretEvents, cache, world, db, budget>>

\* updateStatus: Status().Update(rwUser), which is a new version if the status
\* changed, in what is modelled or (tick) in lastConnectedTime or a message
UpdateStatus(tick) ==
    LET status == [user EXCEPT !.created = worker.copy.created,
                               !.phase = worker.copy.phase]
    IN
    /\ worker.pc = "status"
    /\ tick => budget.ticks > 0
    /\ \/ /\ user.rv # worker.copy.rv                     \* Conflict, NotFound
          /\ Done(TRUE)
          /\ UNCHANGED <<user, userEvents, budget>>
       \/ /\ user.rv = worker.copy.rv
          /\ Done(worker.retry)
          /\ IF tick \/ status # user
             THEN StoreUser([status EXCEPT !.rv = @ + 1])
             ELSE UNCHANGED <<user, userEvents>>
          /\ budget' = IF tick THEN [budget EXCEPT !.ticks = @ - 1] ELSE budget
    /\ UNCHANGED <<secret, secretEvents, cache, world, db>>

\* mutant: a failed statement is only logged
DropUser_NoRetry ==
    /\ worker.pc = "drop"
    /\ SQLFails
    /\ Done(FALSE)
    /\ UNCHANGED <<store, cache, world, db>>

\* reconcileDelete: DROP USER IF EXISTS, or nothing if RisingWave is not
\* running or the connection fails; an error only for a missing RisingWave or
\* a failed statement
DropUser ==
    /\ worker.pc = "drop"
    /\ \/ /\ ~Direct /\ cluster = "absent"
          /\ Done(TRUE)
          /\ UNCHANGED <<db, budget>>
       \/ /\ ~Direct /\ cluster = "starting"
          /\ Goto("release")
          /\ UNCHANGED <<db, queue, budget>>
       \/ /\ Direct \/ cluster = "running"
          /\ SQLFails
          /\ \/ Goto("release") /\ UNCHANGED queue        \* no connection
             \/ Done(TRUE)                                \* the statement
          /\ UNCHANGED db
       \/ /\ Direct \/ cluster = "running"
          /\ SQLWorks
          /\ db' = NoDatabaseUser
          /\ Goto("release")
          /\ UNCHANGED queue
    /\ UNCHANGED <<store, cache, world>>

\* Update(rwUser) without the finalizer: the object is gone
RemoveFinalizer ==
    /\ worker.pc = "release"
    /\ \/ /\ user.rv = worker.copy.rv
          /\ ValidateUpdate
          /\ StoreUser(NoUser(user.rv + 1))
          /\ Done(FALSE)
       \/ /\ user.rv # worker.copy.rv \/ ~ValidateUpdate
          /\ Done(TRUE)
          /\ UNCHANGED <<user, userEvents>>
    /\ UNCHANGED <<secret, secretEvents, cache, world, db, budget>>

WorkerStep ==
    \/ Begin
    \/ AddFinalizer
    \/ ReadinessGate
    \/ EstablishConnection
    \/ EnsureUserExists
    \/ ApplyPrivileges
    \/ RotatePassword
    \/ GetSecret
    \/ CreateOrUpdateSecret
    \/ RemoveAnnotation
    \/ \E tick \in BOOLEAN : UpdateStatus(tick)
    \/ DropUser
    \/ RemoveFinalizer

-----------------------------------------------------------------------------
(* Users, the RisingWave and Kubernetes.                                   *)

UserRequest(kind) ==
    /\ kind \in UserRequests
    /\ budget.edits > 0
    /\ budget' = [budget EXCEPT !.edits = @ - 1]
    /\ UNCHANGED <<secret, secretEvents, cache, db, worker>>

\* rotate: the annotation may be there from the start
CreateUser(ref, rotate) ==
    /\ UserRequest("create")
    /\ ref => "ref" \in UserRequests
    /\ rotate => "rotate" \in UserRequests
    /\ user.uid = 0
    /\ ValidateUpdate
    /\ StoreUser([NoUser(user.rv + 1) EXCEPT !.uid = user.rv + 1, !.ref = ref,
                                             !.rotate = rotate])
    /\ UNCHANGED <<world, queue>>

\* with a finalizer only the deletion timestamp is set
DeleteUser ==
    /\ UserRequest("delete")
    /\ user.uid # 0
    /\ ~user.deleting
    /\ StoreUser(IF user.finalizer THEN [user EXCEPT !.rv = @ + 1, !.deleting = TRUE]
                                   ELSE NoUser(user.rv + 1))
    /\ UNCHANGED <<world, queue>>

AnnotateRotate ==
    /\ UserRequest("rotate")
    /\ user.uid # 0
    /\ ~user.rotate
    /\ ValidateUpdate
    /\ StoreUser([user EXCEPT !.rv = @ + 1, !.rotate = TRUE])
    /\ UNCHANGED <<world, queue>>

\* a password is put into the referenced Secret, which nobody watches
EditRefSecret ==
    /\ UserRequest("ref")
    /\ \E p \in Passwords : Fresh(p) /\ refSecret' = p
    /\ UNCHANGED <<user, userEvents, cluster, queue>>

\* the RisingWave changes, and wakes the users that the cache lists
Cluster(kind, from, to) ==
    /\ kind \in UserRequests
    /\ budget.edits > 0
    /\ budget' = [budget EXCEPT !.edits = @ - 1]
    /\ ~Direct
    /\ cluster = from
    /\ cluster' = to
    /\ db' = IF to = "absent" THEN NoDatabaseUser ELSE db
    /\ queue' = (queue \/ userCache.uid # 0)
    /\ UNCHANGED <<store, cache, refSecret, worker>>

\* the Running condition turns true; not a request of a user
ClusterRuns ==
    /\ ~Direct
    /\ cluster = "starting"
    /\ cluster' = "running"
    /\ queue' = (queue \/ userCache.uid # 0)
    /\ UNCHANGED <<store, cache, refSecret, db, worker, budget>>

\* a Secret whose owner is gone is deleted
CollectGarbage ==
    /\ secret.owner # 0
    /\ secret.owner # user.uid
    /\ StoreSecret(NoSecret(secret.rv + 1))
    /\ UNCHANGED <<user, userEvents, cache, world, db, queue, worker, budget>>

Environment ==
    \/ \E ref, rotate \in BOOLEAN : CreateUser(ref, rotate)
    \/ DeleteUser
    \/ AnnotateRotate
    \/ EditRefSecret
    \/ Cluster("stop", "running", "starting")
    \/ \E from \in {"starting", "running"} : Cluster("recreate", from, "absent")
    \/ Cluster("recreate", "absent", "starting")
    \/ ClusterRuns
    \/ CollectGarbage

\* what the operator held in memory is lost; the informers list again
Restart ==
    /\ budget.crashes > 0
    /\ budget' = [budget EXCEPT !.crashes = @ - 1]
    /\ userCache' = user
    /\ userEvents' = {}
    /\ secretCache' = secret
    /\ secretEvents' = {}
    /\ queue' = (user.uid # 0 \/ secret.owner # 0)
    /\ worker' = IdleWorker
    /\ UNCHANGED <<user, secret, world, db>>

Next ==
    \/ DeliverUser
    \/ DeliverSecret
    \/ WorkerStep
    \/ Environment
    \/ Restart

Spec == Init /\ [][Next]_vars

(* Informers deliver, the queue is served, a started reconcile goes on,    *)
(* and the garbage collector runs; nobody owes requests, faults, crashes.  *)
Fairness ==
    /\ WF_vars(DeliverUser)
    /\ WF_vars(DeliverSecret)
    /\ WF_vars(WorkerStep)
    /\ WF_vars(CollectGarbage)

FairSpec == Spec /\ Fairness

-----------------------------------------------------------------------------
(* Properties.                                                             *)

UserType ==
    [uid: Nat, rv: Nat, deleting: BOOLEAN, finalizer: BOOLEAN, rotate: BOOLEAN,
     ref: BOOLEAN, created: BOOLEAN, phase: {"None", "Pending", "Failed", "Ready"}]

SecretType == [owner: Nat, rv: Nat, password: Passwords \cup {0}]

PCs == {"idle", "finalizer", "gate", "connect", "create", "grant", "rotate",
        "secret", "secretWrite", "rotated", "status", "drop", "release"}

(* Every variable holds objects of its kind.                               *)
TypeOK ==
    /\ user \in UserType
    /\ userCache \in UserType
    /\ userEvents \in SUBSET UserType
    /\ secret \in SecretType
    /\ secretCache \in SecretType
    /\ secretEvents \in SUBSET SecretType
    /\ refSecret \in Passwords \cup {0}
    /\ cluster \in {"absent", "starting", "running"}
    /\ db \in [password: Passwords \cup {0}, by: Nat]
    /\ queue \in BOOLEAN
    /\ worker \in [pc: PCs, copy: UserType, password: Passwords \cup {0},
                   found: Nat, retry: BOOLEAN]
    /\ budget \in [edits: Nat, crashes: Nat, faults: Nat, ticks: Nat,
                   stale: Nat]

(* The finalizer is stored before the database user is created, so that    *)
(* the deletion of the RisingWaveUser cannot pass the controller by.       *)
FinalizerBeforeUser ==
    db.password # 0 /\ db.by = user.uid => user.finalizer

(* A database user is dropped only when the RisingWaveUser it was last     *)
(* reconciled for is being deleted or gone (or with its database): a stale *)
(* copy of an earlier incarnation never drops the user of the next one.    *)
DropOnlyDeleted ==
    [][db.password # 0 /\ db'.password = 0 =>
          \/ user.deleting
          \/ db.by # user.uid
          \/ cluster' = "absent"]_vars

(* The rotation annotation goes away only when database and Secret carry   *)
(* the same, new password, whatever failed and was retried before; the     *)
(* code does the same for a user with spec.password.secretRef.             *)
RotationComplete ==
    [][user.rotate /\ ~user'.rotate /\ user'.uid = user.uid
          /\ db.password # 0 /\ secret.password # 0
             => secret.password = db.password]_vars

Quiescent ==
    userEvents = {} /\ secretEvents = {} /\ ~queue /\ worker.pc = "idle"

\* the first RisingWaveUser of its name, and nothing has failed so far: no
\* statement, no restart, no read of a cache that lagged behind
Undisturbed ==
    /\ user.uid = 1
    /\ budget.faults = MaxFaults
    /\ budget.crashes = MaxCrashes
    /\ budget.stale = MaxStaleReads

\* the annotation is documented for generated passwords only
Provisioned ==
    /\ user.phase = "Ready"
    /\ db.password # 0
    /\ secret.owner # 0
    /\ ~user.ref => ~user.rotate
    /\ ~user.ref /\ Undisturbed => secret.password = db.password

\* ALTER USER fails for a database user that does not exist, and CREATE USER
\* comes after it: a user annotated from the start stays Failed
RotateWithoutUser == user.rotate /\ db.password = 0

\* a generated password is in the Secret, and the informer shows it
Saved ==
    /\ user.uid = 1 /\ ~user.ref
    /\ db.password # 0 /\ secret.password = db.password
    /\ secretCache = secret /\ worker.pc = "idle"

\* with its RisingWave down, or before there is a user to rotate, nothing is due
Excused ==
    \/ user.uid = 0 \/ user.deleting
    \/ cluster # "running" /\ ~Direct
    \/ RotateWithoutUser

(* A RisingWaveUser whose RisingWave runs becomes Ready, with a database   *)
(* user and a Secret, after any faults, crashes and restarts: the          *)
(* controller never goes to sleep on unfinished work.  A user with a       *)
(* generated password has no rotation left to carry out, and, if nothing   *)
(* failed since it was created, the password of the database user in its   *)
(* Secret; a failure between CREATE USER and the write of the Secret loses *)
(* the password, after which the two may differ.                           *)
(*                                                                         *)
(* Once saved, a password stays right or becomes right again, whatever     *)
(* rotations, failing statements, stops of the RisingWave and restarts     *)
(* follow, between whichever steps of a rotation they come, unless a       *)
(* reconcile reads a cache that lags ("Get password and connect",          *)
(* docs/general/user-management.md:459).                                   *)
UserProvisioned ==
    /\ []<>(Excused \/ (user.ref /\ refSecret = 0) \/ Provisioned)
    /\ [](Saved => []<>(\/ Excused \/ user.uid # 1
                        \/ budget.stale < MaxStaleReads
                        \/ secret.password = db.password))

(* A deleted RisingWaveUser goes away while its RisingWave exists.         *)
DeletionCompletes ==
    user.deleting ~> (~user.deleting \/ ~Reachable)

(* "The operator will: 1. Execute DROP USER in RisingWave"                 *)
(* (docs/general/user-management.md): no database user is left when the    *)
(* RisingWaveUser is gone and RisingWave was running throughout.           *)
NoOrphan ==
    Quiescent /\ user.uid = 0 => db.password = 0

-----------------------------------------------------------------------------
(* Why FinalizerBeforeUser, DropOnlyDeleted and RotationComplete hold.     *)

UserCopies == {userCache, worker.copy} \cup userEvents

(* Copies are older versions, and the informer delivers them in order.     *)
VersionsOrdered ==
    /\ user.uid <= user.rv
    /\ \A x \in UserCopies : x.uid <= x.rv /\ x.rv <= user.rv
    /\ \A e \in userEvents : userCache.rv < e.rv
    /\ \A d, e \in userEvents : d.rv = e.rv => d = e
    /\ worker.copy.rv <= userCache.rv

(* Copies made since the user was created are of this incarnation, and its *)
(* finalizer and deletion timestamp stay once they are set.                *)
SameIncarnation ==
    \A x \in UserCopies :
        user.uid # 0 /\ x.rv >= user.uid =>
            /\ x.uid = user.uid
            /\ x.finalizer => user.finalizer
            /\ x.deleting => user.deleting

\* the steps of reconcileNormal after the finalizer
Provisioning == {"gate", "connect", "create", "grant", "rotate", "secret",
                 "secretWrite", "rotated"}

WorkerPinned ==
    /\ worker.pc \in Provisioning => worker.copy.uid # 0 /\ worker.copy.finalizer
    /\ worker.pc = "drop" => worker.copy.deleting

(* Once the database user belongs to this incarnation, no reconcile works  *)
(* on an earlier one.                                                      *)
DatabasePinned ==
    /\ db.by <= user.rv
    /\ db.password # 0 => db.by # 0
    /\ db.by # 0 /\ db.by = user.uid =>
          /\ userCache.rv >= db.by
          /\ worker.pc # "idle" => worker.copy.rv >= db.by

(* A rotation in flight: from ALTER USER to the removal of the annotation  *)
(* nobody but this reconcile gives the database user or the Secret another *)
(* password, though both may go away.                                      *)
RotationPinned ==
    /\ user.uid = 0 => ~user.rotate
    /\ worker.pc \in {"create", "grant"} => ~worker.copy.rotate
    /\ worker.pc \in {"secret", "secretWrite"} /\ worker.copy.rotate =>
          db.password \in {0, worker.password}
    /\ worker.pc = "rotated" =>
          /\ db.password \in {0, worker.password}
          /\ secret.password \in {0, worker.password}

UserInv ==
    /\ TypeOK
    /\ VersionsOrdered
    /\ SameIncarnation
    /\ WorkerPinned
    /\ DatabasePinned
    /\ FinalizerBeforeUser
    /\ RotationPinned
=============================================================================
