----------------------- MODULE RisingWaveUser_proofs -----------------------
(***************************************************************************)
(* Proofs about RisingWaveUser, for any bounds and either kind of          *)
(* connection.                                                             *)
(***************************************************************************)
EXTENDS RisingWaveUser, TLAPS

WorkerType == [pc: PCs, copy: UserType, password: Passwords \cup {0},
               found: Nat, retry: BOOLEAN]

BudgetType == [edits: Nat, crashes: Nat, faults: Nat, ticks: Nat, stale: Nat]

(* Objects that do not exist are objects of the right shape.               *)
LEMMA EmptyTypes ==
    /\ \A n \in Nat : NoUser(n) \in UserType /\ NoSecret(n) \in SecretType
    /\ IdleWorker \in WorkerType
<1>1. \A n \in Nat : NoUser(n) \in UserType /\ NoSecret(n) \in SecretType
  BY DEF NoUser, NoSecret, UserType, SecretType
<1>2. IdleWorker \in WorkerType
  BY <1>1 DEF IdleWorker, WorkerType, PCs
<1>3. QED BY <1>1, <1>2

(* The next version of a RisingWaveUser is a RisingWaveUser.               *)
LEMMA NextVersionType ==
    ASSUME NEW obj \in UserType, NEW b \in BOOLEAN
    PROVE  /\ [obj EXCEPT !.rv = @ + 1] \in UserType
           /\ [obj EXCEPT !.rv = @ + 1, !.finalizer = b] \in UserType
           /\ [obj EXCEPT !.rv = @ + 1, !.rotate = b] \in UserType
           /\ [obj EXCEPT !.rv = @ + 1, !.deleting = b] \in UserType
<1>1. obj.rv + 1 \in Nat
  BY DEF UserType
<1>2. ASSUME NEW n \in Nat
      PROVE  /\ [obj EXCEPT !.rv = n] \in UserType
             /\ [obj EXCEPT !.rv = n, !.finalizer = b] \in UserType
             /\ [obj EXCEPT !.rv = n, !.rotate = b] \in UserType
             /\ [obj EXCEPT !.rv = n, !.deleting = b] \in UserType
  BY DEF UserType
<1>3. QED BY <1>1, <1>2

(* A write of a RisingWaveUser or of a Secret keeps the store well formed. *)
LEMMA StoreTypes ==
    ASSUME TypeOK
    PROVE  /\ \A obj \in UserType :
                StoreUser(obj) => user' \in UserType /\ userEvents' \in SUBSET UserType
           /\ \A obj \in SecretType :
                StoreSecret(obj) => /\ secret' \in SecretType
                                    /\ secretEvents' \in SUBSET SecretType
           /\ \A p \in Passwords \cup {0} :
                SetPassword(p) => /\ secret' \in SecretType
                                  /\ secretEvents' \in SUBSET SecretType
<1>1. \A obj \in UserType :
         StoreUser(obj) => user' \in UserType /\ userEvents' \in SUBSET UserType
  BY DEF StoreUser, TypeOK
<1>2. \A obj \in SecretType :
         StoreSecret(obj) => secret' \in SecretType /\ secretEvents' \in SUBSET SecretType
  BY DEF StoreSecret, TypeOK
<1>3. ASSUME NEW p \in Passwords \cup {0}, SetPassword(p)
      PROVE  secret' \in SecretType /\ secretEvents' \in SUBSET SecretType
  <2>1. secret \in SecretType /\ secretEvents \in SUBSET SecretType
    BY DEF TypeOK
  <2>2. secret.rv + 1 \in Nat
    BY <2>1 DEF SecretType
  <2>3. \A n \in Nat : [secret EXCEPT !.rv = n, !.password = p] \in SecretType
    BY <2>1 DEF SecretType
  <2>4. [secret EXCEPT !.rv = @ + 1, !.password = p] \in SecretType
    BY <2>2, <2>3
  <2>5. QED BY <1>3, <1>2, <2>1, <2>4 DEF SetPassword
<1>4. QED BY <1>1, <1>2, <1>3

(* Moving a reconcile on, ending it and failing it keep it well formed.    *)
LEMMA WorkerTypes ==
    ASSUME TypeOK
    PROVE  /\ \A pc \in PCs : Goto(pc) => worker' \in WorkerType
           /\ \A b \in BOOLEAN : Done(b) => worker' \in WorkerType /\ queue' \in BOOLEAN
           /\ \A phase \in {"Pending", "Failed", "Ready"}, b \in BOOLEAN :
                ToStatus(phase, b) => worker' \in WorkerType
           /\ Fails => worker' \in WorkerType
           /\ \A p \in Passwords \cup {0} : Password(p) => worker' \in WorkerType
<1>1. worker \in WorkerType
  BY DEF TypeOK, WorkerType, BudgetType
<1>2. ASSUME NEW phase \in {"Pending", "Failed", "Ready"}, NEW b \in BOOLEAN,
             ToStatus(phase, b)
      PROVE  worker' \in WorkerType
  <2>1. [worker.copy EXCEPT !.phase = phase] \in UserType
    BY <1>1 DEF WorkerType, UserType
  <2>2. \A c \in UserType :
           [worker EXCEPT !.pc = "status", !.copy = c, !.retry = b] \in WorkerType
    BY <1>1 DEF WorkerType, PCs
  <2>3. worker' = [worker EXCEPT !.pc = "status", !.retry = b,
                                 !.copy = [worker.copy EXCEPT !.phase = phase]]
    BY <1>1, <1>2 DEF ToStatus, WorkerType
  <2>4. QED BY <2>1, <2>2, <2>3
<1>3. \A pc \in PCs : Goto(pc) => worker' \in WorkerType
  BY <1>1 DEF Goto, WorkerType
<1>4. \A b \in BOOLEAN : Done(b) => worker' \in WorkerType /\ queue' \in BOOLEAN
  BY EmptyTypes DEF Done
<1>5. \A p \in Passwords \cup {0} : Password(p) => worker' \in WorkerType
  BY <1>1 DEF Password, WorkerType, PCs
<1>6. QED BY <1>2, <1>3, <1>4, <1>5 DEF Fails

(* The choices of the environment take from the budget what is there.      *)
LEMMA BudgetTypes ==
    ASSUME TypeOK
    PROVE  /\ SQLFails \/ SQLWorks => budget' \in BudgetType
           /\ \A x, y : Read(x, y) => budget' \in BudgetType
           /\ \A k : UserRequest(k) => budget' \in BudgetType
BY DEF TypeOK, BudgetType, SQLFails, SQLWorks, Read, UserRequest

(* The state in which the operator first starts.                           *)
LEMMA InitInv == Init => UserInv
<1> SUFFICES ASSUME Init PROVE UserInv
  OBVIOUS
<1>1. TypeOK
  BY EmptyTypes, ConstantsAssumption DEF Init, TypeOK, NoDatabaseUser, WorkerType
<1>2. QED
  BY <1>1 DEF Init, UserInv, VersionsOrdered, SameIncarnation, WorkerPinned,
              DatabasePinned, FinalizerBeforeUser, RotationPinned, UserCopies, NoUser,
              IdleWorker, NoDatabaseUser, Provisioning

(* Every step of a reconcile keeps the state well formed.                  *)
LEMMA WorkerStepType ==
    ASSUME TypeOK, WorkerStep
    PROVE  TypeOK'
<1> USE DEF store, cache, world
<1>w. worker \in WorkerType /\ user \in UserType /\ secret \in SecretType
  BY DEF TypeOK, WorkerType, BudgetType
<1>1. CASE Begin
  <2>1. worker' \in WorkerType
    BY <1>1, EmptyTypes DEF Begin, TypeOK, WorkerType, PCs
  <2>2. QED BY <1>1, <2>1, BudgetTypes DEF Begin, TypeOK, WorkerType, BudgetType
<1>2. CASE AddFinalizer
  <2>1. [user EXCEPT !.rv = @ + 1, !.finalizer = TRUE] \in UserType
    BY <1>w, NextVersionType
  <2>2. QED BY <1>2, <2>1, StoreTypes, WorkerTypes DEF AddFinalizer, TypeOK, WorkerType, BudgetType
<1>3. CASE ReadinessGate
  <2>1. worker' \in WorkerType
    BY <1>3, WorkerTypes DEF ReadinessGate, PCs
  <2>2. QED BY <1>3, <2>1 DEF ReadinessGate, TypeOK, WorkerType, BudgetType
<1>4. CASE EstablishConnection
  <2>1. worker' \in WorkerType
    <3>1. CASE Fails
      BY <3>1, WorkerTypes
    <3>2. CASE Goto("rotate")
      BY <3>2, WorkerTypes DEF PCs
    <3>3. CASE GetPassword
      BY <3>3, WorkerTypes DEF GetPassword, TypeOK, SecretType
    <3>4. QED BY <1>4, <3>1, <3>2, <3>3 DEF EstablishConnection
  <2>2. budget' \in BudgetType
    BY <1>4, BudgetTypes DEF EstablishConnection, GetPassword, TypeOK, BudgetType
  <2>3. QED BY <1>4, <2>1, <2>2 DEF EstablishConnection, TypeOK, WorkerType, BudgetType
<1>5. CASE EnsureUserExists
  <2>1. worker' \in WorkerType
    <3>1. CASE Fails
      BY <3>1, WorkerTypes
    <3>2. CASE worker' = [worker EXCEPT !.pc = "grant", !.copy.created = TRUE]
      BY <3>2, <1>w DEF WorkerType, PCs, UserType
    <3>3. QED BY <1>5, <3>1, <3>2 DEF EnsureUserExists
  <2>2. db' \in [password: Passwords \cup {0}, by: Nat]
    BY <1>5, <1>w DEF EnsureUserExists, TypeOK, WorkerType, UserType
  <2>3. QED BY <1>5, <2>1, <2>2, BudgetTypes DEF EnsureUserExists, TypeOK, WorkerType, BudgetType
<1>6. CASE ApplyPrivileges
  <2>1. worker' \in WorkerType
    BY <1>6, WorkerTypes DEF ApplyPrivileges, PCs
  <2>2. QED BY <1>6, <2>1, BudgetTypes DEF ApplyPrivileges, TypeOK, WorkerType, BudgetType
<1>7. CASE RotatePassword
  <2>1. worker' \in WorkerType
    BY <1>7, <1>w, WorkerTypes DEF RotatePassword, WorkerType, PCs
  <2>2. db' \in [password: Passwords \cup {0}, by: Nat]
    BY <1>7 DEF RotatePassword, TypeOK
  <2>3. QED BY <1>7, <2>1, <2>2, BudgetTypes DEF RotatePassword, TypeOK, WorkerType, BudgetType
<1>8. CASE GetSecret
  <2>1. worker' \in WorkerType
    BY <1>8, <1>w DEF GetSecret, WorkerType, PCs, TypeOK, SecretType
  <2>2. QED BY <1>8, <2>1, BudgetTypes DEF GetSecret, TypeOK, WorkerType, BudgetType
<1>9. CASE CreateOrUpdateSecret
  <2>1. worker' \in WorkerType
    BY <1>9, WorkerTypes DEF CreateOrUpdateSecret, PCs
  <2>2. [owner |-> worker.copy.uid, rv |-> secret.rv + 1, password |-> worker.password]
           \in SecretType
    BY <1>w DEF WorkerType, UserType, SecretType
  <2>3. worker.password \in Passwords \cup {0}
    BY <1>w DEF WorkerType
  <2>4. secret' \in SecretType /\ secretEvents' \in SUBSET SecretType
    BY <1>9, <2>2, <2>3, StoreTypes DEF CreateOrUpdateSecret, TypeOK
  <2>5. QED BY <1>9, <2>1, <2>4 DEF CreateOrUpdateSecret, TypeOK, WorkerType, BudgetType
<1>10. CASE RemoveAnnotation
  <2>1. [user EXCEPT !.rv = @ + 1, !.rotate = FALSE] \in UserType
    BY <1>w, NextVersionType
  <2>2. QED BY <1>10, <2>1, StoreTypes, WorkerTypes DEF RemoveAnnotation, TypeOK, WorkerType, BudgetType
<1>11. ASSUME NEW tick \in BOOLEAN, UpdateStatus(tick) PROVE TypeOK'
  <2> DEFINE status == [user EXCEPT !.created = worker.copy.created,
                                    !.phase = worker.copy.phase]
  <2>1. status \in UserType
    BY <1>w DEF WorkerType, UserType
  <2>2. [status EXCEPT !.rv = @ + 1] \in UserType
    BY <2>1, NextVersionType
  <2>3. user' \in UserType /\ userEvents' \in SUBSET UserType
    BY <1>11, <2>2, StoreTypes DEF UpdateStatus, TypeOK
  <2>4. worker' \in WorkerType /\ queue' \in BOOLEAN
    BY <1>11, <1>w, WorkerTypes DEF UpdateStatus, WorkerType
  <2>5. budget' \in BudgetType
    <3>1. budget.ticks > 0 => budget.ticks - 1 \in Nat
      BY DEF TypeOK
    <3>2. \A n \in Nat : [budget EXCEPT !.ticks = n] \in BudgetType
      BY DEF TypeOK, BudgetType
    <3>3. budget \in BudgetType
      BY DEF TypeOK, BudgetType
    <3>4. QED BY <1>11, <3>1, <3>2, <3>3 DEF UpdateStatus
  <2>6. QED BY <1>11, <2>3, <2>4, <2>5 DEF UpdateStatus, TypeOK, WorkerType, BudgetType
<1>12. CASE DropUser
  <2>1. worker' \in WorkerType /\ queue' \in BOOLEAN
    <3>1. queue \in BOOLEAN
      BY DEF TypeOK
    <3>2. QED BY <1>12, <3>1, WorkerTypes DEF DropUser, PCs
  <2>2. db' \in [password: Passwords \cup {0}, by: Nat]
    <3>1. db \in [password: Passwords \cup {0}, by: Nat]
      BY DEF TypeOK
    <3>2. NoDatabaseUser \in [password: Passwords \cup {0}, by: Nat]
      BY DEF NoDatabaseUser
    <3>3. QED BY <1>12, <3>1, <3>2 DEF DropUser
  <2>3. budget' \in BudgetType
    BY <1>12, BudgetTypes DEF DropUser, TypeOK, BudgetType
  <2>4. QED BY <1>12, <2>1, <2>2, <2>3 DEF DropUser, TypeOK, WorkerType, BudgetType
<1>13. CASE RemoveFinalizer
  <2>1. NoUser(user.rv + 1) \in UserType
    BY <1>w, EmptyTypes DEF UserType
  <2>2. QED BY <1>13, <2>1, StoreTypes, WorkerTypes DEF RemoveFinalizer, TypeOK, WorkerType, BudgetType
<1>14. QED
  BY <1>1, <1>2, <1>3, <1>4, <1>5, <1>6, <1>7, <1>8, <1>9, <1>10, <1>11, <1>12, <1>13
  DEF WorkerStep

(* Requests of users, the RisingWave, the garbage collector, deliveries    *)
(* and restarts keep the state well formed.                                *)
LEMMA OtherStepType ==
    ASSUME TypeOK, Environment \/ DeliverUser \/ DeliverSecret \/ Restart
    PROVE  TypeOK'
<1> USE DEF store, cache, world
<1>w. worker \in WorkerType /\ user \in UserType /\ secret \in SecretType
  BY DEF TypeOK, WorkerType
<1>n. user.rv + 1 \in Nat /\ secret.rv + 1 \in Nat
  BY <1>w DEF UserType, SecretType
<1>1. ASSUME NEW ref \in BOOLEAN, NEW rotate \in BOOLEAN, CreateUser(ref, rotate)
      PROVE  TypeOK'
  <2>1. \A n \in Nat : [NoUser(n) EXCEPT !.uid = n, !.ref = ref, !.rotate = rotate] \in UserType
    BY DEF NoUser, UserType
  <2>2. user' \in UserType /\ userEvents' \in SUBSET UserType
    BY <1>1, <1>n, <2>1, StoreTypes DEF CreateUser
  <2>3. budget' \in BudgetType
    BY <1>1, BudgetTypes DEF CreateUser
  <2>4. QED BY <1>1, <2>2, <2>3 DEF CreateUser, UserRequest, TypeOK, BudgetType
<1>2. CASE DeleteUser
  <2>1. user' \in UserType /\ userEvents' \in SUBSET UserType
    BY <1>2, <1>w, <1>n, NextVersionType, EmptyTypes, StoreTypes DEF DeleteUser
  <2>2. budget' \in BudgetType
    BY <1>2, BudgetTypes DEF DeleteUser
  <2>3. QED BY <1>2, <2>1, <2>2 DEF DeleteUser, UserRequest, TypeOK, BudgetType
<1>3. CASE AnnotateRotate
  <2>1. user' \in UserType /\ userEvents' \in SUBSET UserType
    BY <1>3, <1>w, NextVersionType, StoreTypes DEF AnnotateRotate
  <2>2. budget' \in BudgetType
    BY <1>3, BudgetTypes DEF AnnotateRotate
  <2>3. QED BY <1>3, <2>1, <2>2 DEF AnnotateRotate, UserRequest, TypeOK, BudgetType
<1>4. CASE EditRefSecret
  <2>1. budget' \in BudgetType
    BY <1>4, BudgetTypes DEF EditRefSecret
  <2>2. QED BY <1>4, <2>1 DEF EditRefSecret, UserRequest, TypeOK, BudgetType
<1>5. ASSUME NEW kind, NEW from, NEW to \in {"absent", "starting", "running"},
             Cluster(kind, from, to)
      PROVE  TypeOK'
  <2>1. db' \in [password: Passwords \cup {0}, by: Nat]
    <3>1. db \in [password: Passwords \cup {0}, by: Nat]
      BY DEF TypeOK
    <3>2. NoDatabaseUser \in [password: Passwords \cup {0}, by: Nat]
      BY DEF NoDatabaseUser
    <3>3. QED BY <1>5, <3>1, <3>2 DEF Cluster
  <2>2. budget' \in BudgetType
    BY <1>5 DEF Cluster, TypeOK, BudgetType
  <2>3. queue' \in BOOLEAN
    BY <1>5 DEF Cluster
  <2>4. QED BY <1>5, <2>1, <2>2, <2>3 DEF Cluster, TypeOK, BudgetType
<1>6. CASE ClusterRuns
  BY <1>6 DEF ClusterRuns, TypeOK
<1>7. CASE CollectGarbage
  <2>1. secret' \in SecretType /\ secretEvents' \in SUBSET SecretType
    BY <1>7, <1>n, EmptyTypes, StoreTypes DEF CollectGarbage
  <2>2. QED BY <1>7, <2>1 DEF CollectGarbage, TypeOK
<1>8. CASE DeliverUser
  BY <1>8 DEF DeliverUser, TypeOK
<1>9. CASE DeliverSecret
  BY <1>9 DEF DeliverSecret, TypeOK
<1>10. CASE Restart
  <2>1. worker' \in WorkerType
    BY <1>10, EmptyTypes DEF Restart
  <2>2. budget' \in BudgetType
    BY <1>10 DEF Restart, TypeOK, BudgetType
  <2>3. QED BY <1>10, <2>1, <2>2 DEF Restart, TypeOK, WorkerType, BudgetType
<1>11. QED
  BY <1>1, <1>2, <1>3, <1>4, <1>5, <1>6, <1>7, <1>8, <1>9, <1>10 DEF Environment

(* Every step keeps the state well formed.                                 *)
LEMMA StepType ==
    ASSUME TypeOK, [Next]_vars
    PROVE  TypeOK'
<1>1. CASE Next
  BY <1>1, WorkerStepType, OtherStepType DEF Next
<1>2. CASE UNCHANGED vars
  BY <1>2 DEF vars, TypeOK
<1>3. QED BY <1>1, <1>2

-----------------------------------------------------------------------------
(* What the steps do to the copies of the user and to the database user.   *)

CoreInv ==
    /\ VersionsOrdered
    /\ SameIncarnation
    /\ WorkerPinned
    /\ DatabasePinned
    /\ FinalizerBeforeUser

(* A write that keeps the incarnation, its finalizer and its deletion      *)
(* timestamp preserves the invariant.                                      *)
LEMMA UpdateKeeps ==
    ASSUME TypeOK, CoreInv, TypeOK',
           NEW obj \in UserType, StoreUser(obj),
           obj.rv = user.rv + 1, obj.uid = user.uid,
           user.finalizer => obj.finalizer,
           user.deleting => obj.deleting,
           worker' \in {worker, IdleWorker},
           UNCHANGED <<userCache, db>>
    PROVE  CoreInv'
<1> USE DEF StoreUser
<1>t. /\ user \in UserType /\ userCache \in UserType /\ userEvents \in SUBSET UserType
      /\ worker.copy \in UserType /\ worker'.copy \in UserType
      /\ db.by \in Nat
  BY DEF TypeOK
<1>i. IdleWorker.copy.rv = 0 /\ IdleWorker.copy.uid = 0 /\ IdleWorker.pc = "idle"
  BY DEF IdleWorker, NoUser
<1>1. VersionsOrdered'
  BY <1>t, <1>i DEF CoreInv, VersionsOrdered, UserCopies, UserType
<1>2. SameIncarnation'
  BY <1>t, <1>i DEF CoreInv, VersionsOrdered, SameIncarnation, UserCopies, UserType
<1>3. WorkerPinned'
  BY <1>i DEF CoreInv, WorkerPinned, Provisioning
<1>4. DatabasePinned'
  BY <1>t, <1>i DEF CoreInv, DatabasePinned, VersionsOrdered, UserCopies, UserType
<1>5. FinalizerBeforeUser'
  BY <1>t DEF CoreInv, FinalizerBeforeUser, UserType
<1>6. QED BY <1>1, <1>2, <1>3, <1>4, <1>5 DEF CoreInv

(* The end of an incarnation and the start of the next preserve it: a new  *)
(* uid is larger than every version seen before.                           *)
LEMMA ReplaceKeeps ==
    ASSUME TypeOK, CoreInv, TypeOK',
           NEW obj \in UserType, StoreUser(obj),
           obj.rv = user.rv + 1, obj.uid \in {0, user.rv + 1},
           worker' \in {worker, IdleWorker},
           UNCHANGED <<userCache, db>>
    PROVE  CoreInv'
<1> USE DEF StoreUser
<1>t. /\ user \in UserType /\ userCache \in UserType /\ userEvents \in SUBSET UserType
      /\ worker.copy \in UserType /\ worker'.copy \in UserType
      /\ db.by \in Nat
  BY DEF TypeOK
<1>i. IdleWorker.copy.rv = 0 /\ IdleWorker.copy.uid = 0 /\ IdleWorker.pc = "idle"
  BY DEF IdleWorker, NoUser
<1>1. VersionsOrdered'
  BY <1>t, <1>i DEF CoreInv, VersionsOrdered, UserCopies, UserType
<1>2. SameIncarnation'
  BY <1>t, <1>i DEF CoreInv, VersionsOrdered, SameIncarnation, UserCopies, UserType
<1>3. WorkerPinned'
  BY <1>i DEF CoreInv, WorkerPinned, Provisioning
<1>4. DatabasePinned'
  BY <1>t, <1>i DEF CoreInv, DatabasePinned, VersionsOrdered, UserCopies, UserType
<1>5. FinalizerBeforeUser'
  BY <1>t DEF CoreInv, DatabasePinned, FinalizerBeforeUser, UserType
<1>6. QED BY <1>1, <1>2, <1>3, <1>4, <1>5 DEF CoreInv

(* A step that moves only the reconcile on, and drops or keeps the         *)
(* database user, preserves it.                                            *)
LEMMA MoveKeeps ==
    ASSUME TypeOK, CoreInv, TypeOK',
           UNCHANGED <<user, userCache, userEvents>>,
           \/ worker' \in {worker, IdleWorker}
           \/ /\ worker.pc # "idle"
              /\ worker'.copy.uid = worker.copy.uid
              /\ worker'.copy.rv = worker.copy.rv
              /\ worker'.copy.finalizer = worker.copy.finalizer
              /\ worker'.copy.deleting = worker.copy.deleting
              /\ worker'.pc \in Provisioning => worker.pc \in Provisioning
              /\ worker'.pc # "drop",
           \/ db' = NoDatabaseUser
           \/ db'.by = db.by /\ db.password # 0
           \/ db' = db
    PROVE  CoreInv'
<1>t. /\ user \in UserType /\ userCache \in UserType /\ userEvents \in SUBSET UserType
      /\ worker.copy \in UserType /\ worker'.copy \in UserType
      /\ db.by \in Nat /\ db'.by \in Nat
  BY DEF TypeOK
<1>i. IdleWorker.copy.rv = 0 /\ IdleWorker.copy.uid = 0 /\ IdleWorker.pc = "idle"
  BY DEF IdleWorker, NoUser
<1>d. NoDatabaseUser.by = 0 /\ NoDatabaseUser.password = 0
  BY DEF NoDatabaseUser
<1>1. VersionsOrdered'
  BY <1>t, <1>i DEF CoreInv, VersionsOrdered, UserCopies, UserType
<1>2. SameIncarnation'
  BY <1>t, <1>i DEF CoreInv, VersionsOrdered, SameIncarnation, UserCopies, UserType
<1>3. WorkerPinned'
  BY <1>i DEF CoreInv, WorkerPinned, Provisioning
<1>4. DatabasePinned'
  BY <1>t, <1>i, <1>d DEF CoreInv, DatabasePinned, VersionsOrdered, UserCopies, UserType
<1>5. FinalizerBeforeUser'
  BY <1>t, <1>d DEF CoreInv, FinalizerBeforeUser, UserType
<1>6. QED BY <1>1, <1>2, <1>3, <1>4, <1>5 DEF CoreInv

(* The steps of a reconcile before anything is created or deleted, and the *)
(* ones that end it, only move it on.                                      *)
LEMMA ReconcileKeeps ==
    ASSUME TypeOK, CoreInv, TypeOK',
           \/ ReadinessGate \/ EstablishConnection \/ ApplyPrivileges
           \/ RotatePassword \/ GetSecret \/ CreateOrUpdateSecret \/ DropUser
    PROVE  CoreInv'
<1> USE DEF store, cache, world, Provisioning
<1>w. worker \in WorkerType
  BY DEF TypeOK, WorkerType
<1> DEFINE Moved == /\ worker'.copy.uid = worker.copy.uid
                    /\ worker'.copy.rv = worker.copy.rv
                    /\ worker'.copy.finalizer = worker.copy.finalizer
                    /\ worker'.copy.deleting = worker.copy.deleting
<1>g. ASSUME NEW pc, Goto(pc) PROVE Moved /\ worker'.pc = pc
  BY <1>w, <1>g DEF Goto, WorkerType
<1>s. ASSUME NEW phase, NEW b, ToStatus(phase, b) PROVE Moved /\ worker'.pc = "status"
  BY <1>w, <1>s DEF ToStatus, WorkerType, UserType
<1>f. Fails => Moved /\ worker'.pc = "status"
  BY <1>s DEF Fails
<1>p. ASSUME NEW p, Password(p) PROVE Moved /\ worker'.pc = "create"
  BY <1>w, <1>p DEF Password, WorkerType
<1>1. CASE ReadinessGate
  <2>1. Moved /\ worker'.pc \in {"connect", "status"} /\ worker.pc = "gate"
    BY <1>1, <1>g, <1>s, <1>f DEF ReadinessGate
  <2>2. QED BY <1>1, <2>1, MoveKeeps DEF ReadinessGate
<1>2. CASE EstablishConnection
  <2>1. Moved /\ worker'.pc \in {"rotate", "create", "status"} /\ worker.pc = "connect"
    <3>1. CASE Fails
      BY <1>2, <3>1, <1>f DEF EstablishConnection
    <3>2. CASE Goto("rotate")
      BY <1>2, <3>2, <1>g DEF EstablishConnection
    <3>3. CASE GetPassword
      BY <1>2, <3>3, <1>f, <1>p DEF EstablishConnection, GetPassword
    <3>4. QED BY <1>2, <3>1, <3>2, <3>3 DEF EstablishConnection
  <2>2. QED BY <1>2, <2>1, MoveKeeps DEF EstablishConnection
<1>3. CASE ApplyPrivileges
  <2>1. Moved /\ worker'.pc \in {"secret", "status"} /\ worker.pc = "grant"
    BY <1>3, <1>g, <1>f DEF ApplyPrivileges
  <2>2. QED BY <1>3, <2>1, MoveKeeps DEF ApplyPrivileges
<1>4. CASE RotatePassword
  <2>1. Moved /\ worker'.pc \in {"secret", "status"} /\ worker.pc = "rotate"
    BY <1>4, <1>w, <1>f DEF RotatePassword, WorkerType
  <2>2. db' = db \/ (db'.by = db.by /\ db.password # 0)
    BY <1>4 DEF RotatePassword, TypeOK
  <2>3. QED BY <1>4, <2>1, <2>2, MoveKeeps DEF RotatePassword
<1>5. CASE GetSecret
  <2>1. Moved /\ worker'.pc = "secretWrite" /\ worker.pc = "secret"
    BY <1>5, <1>w DEF GetSecret, WorkerType
  <2>2. QED BY <1>5, <2>1, MoveKeeps DEF GetSecret
<1>6. CASE CreateOrUpdateSecret
  <2>1. Moved /\ worker'.pc \in {"rotated", "status"} /\ worker.pc = "secretWrite"
    BY <1>6, <1>g, <1>s, <1>f DEF CreateOrUpdateSecret
  <2>2. QED BY <1>6, <2>1, MoveKeeps DEF CreateOrUpdateSecret
<1>7. CASE DropUser
  <2>1. \/ worker' = IdleWorker
        \/ Moved /\ worker'.pc = "release" /\ worker.pc = "drop"
    BY <1>7, <1>g DEF DropUser, Done
  <2>2. db' = NoDatabaseUser \/ db' = db
    BY <1>7 DEF DropUser
  <2>3. QED BY <1>7, <2>1, <2>2, MoveKeeps DEF DropUser
<1>8. QED BY <1>1, <1>2, <1>3, <1>4, <1>5, <1>6, <1>7

(* CREATE USER is issued with a copy that has the finalizer, and if the    *)
(* user is still of that incarnation the stored object has it too.         *)
LEMMA EnsureUserExistsKeeps ==
    ASSUME TypeOK, CoreInv, TypeOK', EnsureUserExists
    PROVE  CoreInv'
<1> USE DEF store, cache, world, Provisioning
<1>t. /\ user \in UserType /\ userCache \in UserType /\ userEvents \in SUBSET UserType
      /\ worker \in WorkerType /\ worker.copy \in UserType
  BY DEF TypeOK, WorkerType
<1>1. CASE Fails /\ UNCHANGED db
  <2>1. /\ worker'.copy.uid = worker.copy.uid
        /\ worker'.copy.rv = worker.copy.rv
        /\ worker'.copy.finalizer = worker.copy.finalizer
        /\ worker'.copy.deleting = worker.copy.deleting
        /\ worker'.pc = "status"
    BY <1>t, <1>1 DEF Fails, ToStatus, WorkerType, UserType
  <2>2. QED BY <1>1, <2>1, MoveKeeps DEF EnsureUserExists
<1>2. CASE /\ db'.by = worker.copy.uid
           /\ worker' = [worker EXCEPT !.pc = "grant", !.copy.created = TRUE]
  <2>1. /\ worker'.copy.uid = worker.copy.uid
        /\ worker'.copy.rv = worker.copy.rv
        /\ worker'.copy.finalizer = worker.copy.finalizer
        /\ worker'.copy.deleting = worker.copy.deleting
        /\ worker'.pc = "grant" /\ worker.pc = "create"
        /\ UNCHANGED <<user, userCache, userEvents>>
    BY <1>t, <1>2 DEF EnsureUserExists, WorkerType, UserType
  <2>2. worker.copy.uid # 0 /\ worker.copy.finalizer
    BY <2>1 DEF CoreInv, WorkerPinned
  <2>3. worker.copy.uid <= worker.copy.rv /\ worker.copy.rv <= userCache.rv
           /\ userCache.rv <= user.rv
    BY DEF CoreInv, VersionsOrdered, UserCopies
  <2>4. worker.copy.uid = user.uid => user.finalizer
    BY <1>t, <2>2, <2>3 DEF CoreInv, SameIncarnation, UserCopies, UserType
  <2>5. VersionsOrdered'
    BY <1>t, <2>1 DEF CoreInv, VersionsOrdered, UserCopies, UserType
  <2>6. SameIncarnation'
    BY <1>t, <2>1 DEF CoreInv, SameIncarnation, UserCopies, UserType
  <2>7. WorkerPinned'
    BY <2>1, <2>2 DEF WorkerPinned
  <2>8. DatabasePinned'
    BY <1>t, <1>2, <2>1, <2>2, <2>3 DEF DatabasePinned, UserType
  <2>9. FinalizerBeforeUser'
    BY <1>2, <2>1, <2>4 DEF FinalizerBeforeUser
  <2>10. QED BY <2>5, <2>6, <2>7, <2>8, <2>9 DEF CoreInv
<1>3. QED BY <1>1, <1>2 DEF EnsureUserExists

(* A reconcile starts from the cache, which is ahead of any earlier        *)
(* reconcile and, if the database user is of this incarnation, of it too.  *)
LEMMA BeginKeeps ==
    ASSUME TypeOK, CoreInv, TypeOK', Begin
    PROVE  CoreInv'
<1> USE DEF store, cache, world, Provisioning
<1>t. /\ user \in UserType /\ userCache \in UserType /\ userEvents \in SUBSET UserType
  BY DEF TypeOK
<1>u. UNCHANGED <<user, userCache, userEvents, db>>
  BY DEF Begin
<1>1. CASE worker' = IdleWorker
  BY <1>1, <1>u, MoveKeeps
<1>2. CASE worker' # IdleWorker
  <2>1. /\ worker'.copy = userCache
        /\ userCache.uid # 0
        /\ worker'.pc \in Provisioning => userCache.finalizer
        /\ worker'.pc = "drop" => userCache.deleting
    BY <1>t, <1>2 DEF Begin, IdleWorker, UserType
  <2>2. VersionsOrdered'
    BY <1>t, <1>u, <2>1 DEF CoreInv, VersionsOrdered, UserCopies, UserType
  <2>3. SameIncarnation'
    BY <1>u, <2>1 DEF CoreInv, SameIncarnation, UserCopies
  <2>4. WorkerPinned'
    BY <2>1 DEF WorkerPinned
  <2>5. DatabasePinned'
    BY <1>u, <2>1 DEF CoreInv, DatabasePinned
  <2>6. FinalizerBeforeUser'
    BY <1>u DEF CoreInv, FinalizerBeforeUser
  <2>7. QED BY <2>2, <2>3, <2>4, <2>5, <2>6 DEF CoreInv
<1>3. QED BY <1>1, <1>2

(* Writes of the controller carry the version they were made from: they    *)
(* keep the incarnation, or end it.                                        *)
LEMMA ControllerWriteKeeps ==
    ASSUME TypeOK, CoreInv, TypeOK',
           \/ AddFinalizer \/ RemoveAnnotation \/ RemoveFinalizer
           \/ \E tick \in BOOLEAN : UpdateStatus(tick)
    PROVE  CoreInv'
<1> USE DEF store, cache, world
<1>t. user \in UserType /\ worker \in WorkerType
  BY DEF TypeOK, WorkerType
<1>n. user.rv + 1 \in Nat
  BY <1>t DEF UserType
<1>1. CASE UNCHANGED <<user, userEvents>>
  BY <1>1, MoveKeeps DEF AddFinalizer, RemoveAnnotation, RemoveFinalizer, UpdateStatus, Done
<1>2. CASE AddFinalizer /\ StoreUser([user EXCEPT !.rv = @ + 1, !.finalizer = TRUE])
  <2> DEFINE obj == [user EXCEPT !.rv = @ + 1, !.finalizer = TRUE]
  <2>1. obj \in UserType
    BY <1>t, NextVersionType
  <2>2. obj.rv = user.rv + 1 /\ obj.uid = user.uid /\ obj.finalizer /\ obj.deleting = user.deleting
    BY <1>t DEF UserType
  <2>3. QED BY <1>2, <2>1, <2>2, UpdateKeeps DEF AddFinalizer, Done
<1>3. CASE RemoveAnnotation /\ StoreUser([user EXCEPT !.rv = @ + 1, !.rotate = FALSE])
  <2> DEFINE obj == [user EXCEPT !.rv = @ + 1, !.rotate = FALSE]
  <2>1. obj \in UserType
    BY <1>t, NextVersionType
  <2>2. obj.rv = user.rv + 1 /\ obj.uid = user.uid
           /\ obj.finalizer = user.finalizer /\ obj.deleting = user.deleting
    BY <1>t DEF UserType
  <2>3. QED BY <1>3, <2>1, <2>2, UpdateKeeps DEF RemoveAnnotation, Done
<1>4. CASE RemoveFinalizer /\ StoreUser(NoUser(user.rv + 1))
  <2>1. NoUser(user.rv + 1) \in UserType
    BY <1>n, EmptyTypes
  <2>2. NoUser(user.rv + 1).rv = user.rv + 1 /\ NoUser(user.rv + 1).uid = 0
    BY DEF NoUser
  <2>3. QED BY <1>4, <2>1, <2>2, ReplaceKeeps DEF RemoveFinalizer, Done
<1>5. ASSUME NEW tick \in BOOLEAN, UpdateStatus(tick), ~UNCHANGED <<user, userEvents>>
      PROVE  CoreInv'
  <2> DEFINE status == [user EXCEPT !.created = worker.copy.created,
                                    !.phase = worker.copy.phase]
             obj == [status EXCEPT !.rv = @ + 1]
  <2>1. status \in UserType
    BY <1>t DEF WorkerType, UserType
  <2>2. obj \in UserType
    BY <2>1, NextVersionType
  <2>3. obj.rv = user.rv + 1 /\ obj.uid = user.uid
           /\ obj.finalizer = user.finalizer /\ obj.deleting = user.deleting
    BY <1>t DEF UserType
  <2>4. StoreUser(obj) /\ worker' = IdleWorker /\ UNCHANGED <<userCache, db>>
    BY <1>5 DEF UpdateStatus, Done
  <2> HIDE DEF obj
  <2>5. QED BY <2>2, <2>3, <2>4, UpdateKeeps
<1>6. QED BY <1>1, <1>2, <1>3, <1>4, <1>5 DEF AddFinalizer, RemoveAnnotation, RemoveFinalizer

(* Requests of users keep the incarnation, end it or start a new one; the  *)
(* RisingWave and the garbage collector leave the RisingWaveUser alone.    *)
LEMMA EnvironmentKeeps ==
    ASSUME TypeOK, CoreInv, TypeOK', Environment
    PROVE  CoreInv'
<1> USE DEF store, cache, world
<1>t. user \in UserType
  BY DEF TypeOK
<1>n. user.rv + 1 \in Nat
  BY <1>t DEF UserType
<1>1. ASSUME NEW ref \in BOOLEAN, NEW rotate \in BOOLEAN, CreateUser(ref, rotate)
      PROVE  CoreInv'
  <2> DEFINE obj(n) == [NoUser(n) EXCEPT !.uid = n, !.ref = ref, !.rotate = rotate]
  <2>1. \A n \in Nat : obj(n) \in UserType /\ obj(n).rv = n /\ obj(n).uid = n
    BY DEF NoUser, UserType
  <2>2. StoreUser(obj(user.rv + 1)) /\ UNCHANGED <<userCache, db, worker>>
    BY <1>1 DEF CreateUser, UserRequest
  <2> HIDE DEF obj
  <2>3. QED BY <1>n, <2>1, <2>2, ReplaceKeeps
<1>2. CASE DeleteUser /\ user.finalizer
  <2> DEFINE obj == [user EXCEPT !.rv = @ + 1, !.deleting = TRUE]
  <2>1. obj \in UserType
    BY <1>t, NextVersionType
  <2>2. obj.rv = user.rv + 1 /\ obj.uid = user.uid /\ obj.deleting /\ obj.finalizer = user.finalizer
    BY <1>t DEF UserType
  <2>3. QED BY <1>2, <2>1, <2>2, UpdateKeeps DEF DeleteUser, UserRequest
<1>3. CASE DeleteUser /\ ~user.finalizer
  <2>1. NoUser(user.rv + 1) \in UserType
    BY <1>n, EmptyTypes
  <2>2. NoUser(user.rv + 1).rv = user.rv + 1 /\ NoUser(user.rv + 1).uid = 0
    BY DEF NoUser
  <2>3. QED BY <1>3, <2>1, <2>2, ReplaceKeeps DEF DeleteUser, UserRequest
<1>4. CASE AnnotateRotate
  <2> DEFINE obj == [user EXCEPT !.rv = @ + 1, !.rotate = TRUE]
  <2>1. obj \in UserType
    BY <1>t, NextVersionType
  <2>2. obj.rv = user.rv + 1 /\ obj.uid = user.uid
           /\ obj.finalizer = user.finalizer /\ obj.deleting = user.deleting
    BY <1>t DEF UserType
  <2>3. QED BY <1>4, <2>1, <2>2, UpdateKeeps DEF AnnotateRotate, UserRequest
<1>5. CASE EditRefSecret \/ ClusterRuns \/ CollectGarbage
  BY <1>5, MoveKeeps DEF EditRefSecret, UserRequest, ClusterRuns, CollectGarbage
<1>6. ASSUME NEW kind, NEW from, NEW to, Cluster(kind, from, to)
      PROVE  CoreInv'
  BY <1>6, MoveKeeps DEF Cluster
<1>7. QED BY <1>1, <1>2, <1>3, <1>4, <1>5, <1>6 DEF Environment

(* The informers move their caches forward, a restart moves them to the    *)
(* stored versions and forgets the reconcile in flight.                    *)
LEMMA InformerKeeps ==
    ASSUME TypeOK, CoreInv, TypeOK', DeliverUser \/ DeliverSecret \/ Restart
    PROVE  CoreInv'
<1> USE DEF store, cache, world
<1>t. /\ user \in UserType /\ userCache \in UserType /\ userEvents \in SUBSET UserType
      /\ worker.copy \in UserType /\ db.by \in Nat
  BY DEF TypeOK
<1>1. CASE DeliverUser
  <2>1. PICK e \in userEvents :
           /\ \A x \in userEvents : e.rv <= x.rv
           /\ userCache' = e
           /\ userEvents' = userEvents \ {e}
           /\ UNCHANGED <<user, db, worker>>
    BY <1>1 DEF DeliverUser
  <2>2. e \in UserType /\ e.rv > userCache.rv
    BY <1>t, <2>1 DEF CoreInv, VersionsOrdered, UserType
  <2>3. VersionsOrdered'
    <3>1. \A x \in userEvents' : e.rv < x.rv
      BY <1>t, <2>1 DEF CoreInv, VersionsOrdered, UserType
    <3>2. QED BY <1>t, <2>1, <2>2, <3>1 DEF CoreInv, VersionsOrdered, UserCopies, UserType
  <2>4. SameIncarnation'
    BY <2>1 DEF CoreInv, SameIncarnation, UserCopies
  <2>5. WorkerPinned'
    BY <2>1 DEF CoreInv, WorkerPinned
  <2>6. DatabasePinned'
    BY <1>t, <2>1, <2>2 DEF CoreInv, DatabasePinned, UserType
  <2>7. FinalizerBeforeUser'
    BY <2>1 DEF CoreInv, FinalizerBeforeUser
  <2>8. QED BY <2>3, <2>4, <2>5, <2>6, <2>7 DEF CoreInv
<1>2. CASE DeliverSecret
  BY <1>2, MoveKeeps DEF DeliverSecret
<1>3. CASE Restart
  <2>1. /\ userCache' = user /\ userEvents' = {} /\ worker' = IdleWorker
        /\ UNCHANGED <<user, db>>
    BY <1>3 DEF Restart
  <2>2. IdleWorker.copy.rv = 0 /\ IdleWorker.copy.uid = 0 /\ IdleWorker.pc = "idle"
    BY DEF IdleWorker, NoUser
  <2>3. VersionsOrdered'
    BY <1>t, <2>1, <2>2 DEF CoreInv, VersionsOrdered, UserCopies, UserType
  <2>4. SameIncarnation'
    BY <1>t, <2>1, <2>2 DEF SameIncarnation, UserCopies, UserType
  <2>5. WorkerPinned'
    BY <2>1, <2>2 DEF WorkerPinned, Provisioning
  <2>6. DatabasePinned'
    BY <1>t, <2>1, <2>2 DEF CoreInv, DatabasePinned, VersionsOrdered, UserType
  <2>7. FinalizerBeforeUser'
    BY <2>1 DEF CoreInv, FinalizerBeforeUser
  <2>8. QED BY <2>3, <2>4, <2>5, <2>6, <2>7 DEF CoreInv
<1>4. QED BY <1>1, <1>2, <1>3

(* ALTER USER and the write of the Secret bring both to the password the   *)
(* reconcile holds; every other step leaves them alone, deletes one, or    *)
(* ends the reconcile.                                                     *)
LEMMA RotationStep ==
    ASSUME TypeOK, RotationPinned, [Next]_vars
    PROVE  RotationPinned'
<1> USE DEF store, cache, world
<1>t. /\ user \in UserType /\ worker \in WorkerType /\ worker.copy \in UserType
      /\ secret \in SecretType /\ db \in [password: Passwords \cup {0}, by: Nat]
  BY DEF TypeOK, WorkerType
<1>d. NoDatabaseUser.password = 0 /\ \A n : NoSecret(n).password = 0
  BY DEF NoDatabaseUser, NoSecret
<1>u. \A n : NoUser(n).uid = 0 /\ ~NoUser(n).rotate
  BY DEF NoUser
<1>i. IdleWorker.pc = "idle"
  BY DEF IdleWorker
<1>g. ASSUME NEW pc, Goto(pc)
      PROVE  worker'.pc = pc /\ worker'.copy = worker.copy /\ worker'.password = worker.password
  BY <1>t, <1>g DEF Goto, WorkerType
<1>s. ASSUME NEW phase, NEW retry, ToStatus(phase, retry)
      PROVE  worker'.pc = "status"
  BY <1>t, <1>s DEF ToStatus, WorkerType
<1>f. Fails => worker'.pc = "status"
  BY <1>s DEF Fails
<1>1. CASE Begin
  <2>1. worker'.pc \in {"idle", "drop", "release", "finalizer", "gate"} /\ user' = user
    BY <1>1, <1>i DEF Begin, IdleWorker
  <2>2. QED BY <2>1 DEF RotationPinned
<1>2. CASE AddFinalizer \/ RemoveAnnotation \/ RemoveFinalizer
              \/ \E tick \in BOOLEAN : UpdateStatus(tick)
  <2>1. worker'.pc = "idle"
    BY <1>2, <1>i DEF AddFinalizer, RemoveAnnotation, RemoveFinalizer, UpdateStatus, Done
  <2>2. user'.uid = 0 => ~user'.rotate
    <3>1. /\ [user EXCEPT !.rv = @ + 1, !.finalizer = TRUE].uid = user.uid
          /\ [user EXCEPT !.rv = @ + 1, !.finalizer = TRUE].rotate = user.rotate
          /\ [user EXCEPT !.rv = @ + 1, !.rotate = FALSE].rotate = FALSE
      BY <1>t DEF UserType
    <3>3. user.uid = 0 => ~user.rotate
      BY DEF RotationPinned
    <3>4. CASE AddFinalizer
      BY <3>4, <3>1, <3>3 DEF AddFinalizer, StoreUser
    <3>5. CASE RemoveAnnotation
      BY <3>5, <3>1, <3>3 DEF RemoveAnnotation, StoreUser
    <3>6. CASE RemoveFinalizer
      BY <3>6, <1>u, <3>3 DEF RemoveFinalizer, StoreUser
    <3>7. CASE \E tick \in BOOLEAN : UpdateStatus(tick)
      <4>1. PICK tick \in BOOLEAN : UpdateStatus(tick)
        BY <3>7
      <4>2. \/ user' = user
            \/ user' = [[user EXCEPT !.created = worker.copy.created,
                                     !.phase = worker.copy.phase] EXCEPT !.rv = @ + 1]
        BY <4>1 DEF UpdateStatus, StoreUser
      <4>3. CASE user' = user
        BY <4>3, <3>3
      <4>4. CASE user' # user
        <5>1. user'.uid = user.uid /\ user'.rotate = user.rotate
          BY <1>t, <4>2, <4>4 DEF UserType
        <5>2. QED BY <5>1, <3>3
      <4>5. QED BY <4>3, <4>4
    <3>8. QED BY <1>2, <3>4, <3>5, <3>6, <3>7
  <2>3. QED BY <2>1, <2>2 DEF RotationPinned
<1>3. CASE ReadinessGate \/ EstablishConnection
  <2>1. /\ worker'.pc \in {"connect", "status", "rotate", "create"} /\ user' = user
        /\ worker'.pc = "create" => ~worker'.copy.rotate
    <3>1. ASSUME NEW p, Password(p), ~worker.copy.rotate
          PROVE  worker'.pc = "create" /\ ~worker'.copy.rotate
      BY <1>t, <3>1 DEF Password, WorkerType
    <3>2. CASE ReadinessGate
      <4>1. user' = user
        BY <3>2 DEF ReadinessGate
      <4>2. Goto("connect") \/ ToStatus("Pending", TRUE) \/ Fails
        BY <3>2 DEF ReadinessGate
      <4>3. Goto("connect") => worker'.pc = "connect"
        BY <1>g
      <4>4. ToStatus("Pending", TRUE) => worker'.pc = "status"
        BY <1>s
      <4>5. QED BY <4>1, <4>2, <4>3, <4>4, <1>f
    <3>3. CASE EstablishConnection
      BY <3>3, <3>1, <1>g, <1>s, <1>f DEF EstablishConnection, GetPassword
    <3>4. QED BY <1>3, <3>2, <3>3
  <2>2. QED BY <2>1 DEF RotationPinned
<1>4. CASE EnsureUserExists
  <2>1. /\ worker'.pc \in {"status", "grant"} /\ user' = user
        /\ worker'.pc = "grant" => ~worker'.copy.rotate
    <3>1. CASE Fails
      BY <1>4, <3>1, <1>f DEF EnsureUserExists
    <3>2. CASE worker' = [worker EXCEPT !.pc = "grant", !.copy.created = TRUE]
      <4>1. worker'.pc = "grant" /\ worker'.copy.rotate = worker.copy.rotate
        BY <1>t, <3>2 DEF WorkerType, UserType
      <4>2. QED BY <1>4, <4>1 DEF EnsureUserExists, RotationPinned
    <3>3. QED BY <1>4, <3>1, <3>2 DEF EnsureUserExists
  <2>2. QED BY <2>1 DEF RotationPinned
<1>5. CASE ApplyPrivileges
  <2>1. /\ worker'.pc \in {"status", "secret"} /\ user' = user
        /\ worker'.pc = "secret" => ~worker'.copy.rotate
    BY <1>5, <1>g, <1>f DEF ApplyPrivileges, RotationPinned
  <2>2. QED BY <2>1 DEF RotationPinned
<1>6. CASE RotatePassword
  <2>1. /\ worker'.pc \in {"status", "secret"} /\ user' = user
        /\ worker'.pc = "secret" => db'.password = worker'.password
    <3>1. CASE Fails
      BY <1>6, <3>1, <1>f DEF RotatePassword
    <3>2. ASSUME NEW p \in Passwords, db' = [db EXCEPT !.password = p],
                 worker' = [worker EXCEPT !.pc = "secret", !.password = p]
          PROVE  worker'.pc = "secret" /\ db'.password = worker'.password
      BY <1>t, <3>2 DEF WorkerType
    <3>3. QED BY <1>6, <3>1, <3>2 DEF RotatePassword
  <2>2. QED BY <2>1 DEF RotationPinned
<1>7. CASE GetSecret
  <2>1. /\ worker'.pc = "secretWrite" /\ worker'.copy = worker.copy
        /\ worker'.password = worker.password /\ worker.pc = "secret"
        /\ UNCHANGED <<user, db, secret>>
    BY <1>7, <1>t DEF GetSecret, WorkerType
  <2>2. QED BY <2>1 DEF RotationPinned
<1>8. CASE CreateOrUpdateSecret
  <2>1. worker'.pc \in {"status", "rotated"} /\ UNCHANGED <<user, db>> /\ worker.pc = "secretWrite"
    BY <1>8, <1>g, <1>s, <1>f DEF CreateOrUpdateSecret
  <2>2. ASSUME worker'.pc = "rotated"
        PROVE  /\ worker.copy.rotate /\ worker'.password = worker.password
               /\ secret'.password = worker.password
    <3>1. worker.copy.rotate /\ Goto("rotated")
             /\ (\/ worker.found = 0 /\ secret.owner = 0
                 \/ worker.found # 0 /\ secret.owner # 0 /\ secret.rv = worker.found)
      BY <1>8, <2>2, <1>s, <1>f DEF CreateOrUpdateSecret
    <3>2. \/ StoreSecret([owner |-> worker.copy.uid, rv |-> secret.rv + 1,
                          password |-> worker.password])
          \/ SetPassword(worker.password)
      BY <1>8, <3>1 DEF CreateOrUpdateSecret
    <3>3. [secret EXCEPT !.rv = @ + 1, !.password = worker.password].password = worker.password
      BY <1>t DEF SecretType
    <3>4. secret'.password = worker.password
      <4>1. SetPassword(worker.password) => secret'.password = worker.password
        <5>1. CASE secret.password = worker.password
          BY <5>1 DEF SetPassword
        <5>2. CASE secret.password # worker.password
          BY <5>2, <3>3 DEF SetPassword, StoreSecret
        <5>3. QED BY <5>1, <5>2
      <4>2. QED BY <3>2, <4>1 DEF StoreSecret
    <3>5. QED BY <3>1, <3>4, <1>g
  <2>3. QED BY <2>1, <2>2 DEF RotationPinned
<1>9. CASE DropUser
  <2>1. worker'.pc \in {"idle", "release"} /\ user' = user
    BY <1>9, <1>g, <1>i DEF DropUser, Done
  <2>2. QED BY <2>1 DEF RotationPinned
<1>10. CASE Environment
  <2>1. user'.uid = 0 => ~user'.rotate
    <3>1. ASSUME NEW ref \in BOOLEAN, NEW rotate \in BOOLEAN, CreateUser(ref, rotate)
          PROVE  user'.uid # 0
      <4>1. \A n : [NoUser(n) EXCEPT !.uid = n, !.ref = ref, !.rotate = rotate].uid = n
        BY DEF NoUser
      <4>2. user'.uid = user.rv + 1
        BY <3>1, <4>1 DEF CreateUser, StoreUser
      <4>3. QED BY <1>t, <4>2 DEF UserType
    <3>2. CASE DeleteUser
      <4>1. [user EXCEPT !.rv = @ + 1, !.deleting = TRUE].uid = user.uid
        BY <1>t DEF UserType
      <4>2. QED BY <3>2, <4>1, <1>u DEF DeleteUser, StoreUser
    <3>3. CASE AnnotateRotate
      <4>1. [user EXCEPT !.rv = @ + 1, !.rotate = TRUE].uid = user.uid
        BY <1>t DEF UserType
      <4>2. QED BY <3>3, <4>1 DEF AnnotateRotate, StoreUser
    <3>4. CASE user' = user
      BY <3>4 DEF RotationPinned
    <3>5. QED BY <1>10, <3>1, <3>2, <3>3, <3>4
      DEF Environment, EditRefSecret, Cluster, ClusterRuns, CollectGarbage
  <2>2. worker' = worker /\ (secret' = secret \/ secret'.password = 0)
           /\ (db' = db \/ db'.password = 0)
    BY <1>10, <1>d DEF Environment, CreateUser, DeleteUser, AnnotateRotate, EditRefSecret,
       UserRequest, Cluster, ClusterRuns, CollectGarbage, StoreSecret
  <2>3. QED BY <2>1, <2>2 DEF RotationPinned
<1>11. CASE DeliverUser \/ DeliverSecret \/ UNCHANGED vars
  BY <1>11 DEF DeliverUser, DeliverSecret, vars, RotationPinned
<1>12. CASE Restart
  BY <1>12, <1>i DEF Restart, RotationPinned
<1>13. QED
  BY <1>1, <1>2, <1>3, <1>4, <1>5, <1>6, <1>7, <1>8, <1>9, <1>10, <1>11, <1>12
  DEF Next, WorkerStep

(* UserInv is inductive.                                                   *)
LEMMA StepInv ==
    ASSUME UserInv, [Next]_vars
    PROVE  UserInv'
<1>1. TypeOK /\ CoreInv
  BY DEF UserInv, CoreInv
<1>2. TypeOK'
  BY <1>1, StepType
<1>3. CoreInv'
  <2>1. CASE WorkerStep
    BY <1>1, <1>2, <2>1, BeginKeeps, ReconcileKeeps, EnsureUserExistsKeeps,
       ControllerWriteKeeps DEF WorkerStep
  <2>2. CASE Environment
    BY <1>1, <1>2, <2>2, EnvironmentKeeps
  <2>3. CASE DeliverUser \/ DeliverSecret \/ Restart
    BY <1>1, <1>2, <2>3, InformerKeeps
  <2>4. CASE UNCHANGED vars
    BY <1>1, <1>2, <2>4, MoveKeeps DEF vars
  <2>5. QED BY <2>1, <2>2, <2>3, <2>4 DEF Next
<1>4. RotationPinned'
  BY RotationStep DEF UserInv
<1>5. QED BY <1>2, <1>3, <1>4 DEF UserInv, CoreInv

(* The controller's inductive invariant holds in every reachable state.    *)
THEOREM InductiveInvariant == Spec => []UserInv
<1>1. Init => UserInv
  BY InitInv
<1>2. UserInv /\ [Next]_vars => UserInv'
  BY StepInv
<1>3. QED BY <1>1, <1>2, PTL DEF Spec

(* CREATE USER never precedes the stored finalizer: whenever a database    *)
(* user was last reconciled for the RisingWaveUser that exists now, that   *)
(* object carries the finalizer.                                           *)
THEOREM FinalizerFirst == Spec => []FinalizerBeforeUser
<1>1. UserInv => FinalizerBeforeUser
  BY DEF UserInv
<1>2. QED BY <1>1, InductiveInvariant, PTL

(* DROP USER acts only for a RisingWaveUser that is being deleted or gone: *)
(* the copy a late reconcile drops with is of the incarnation that owns    *)
(* the database user, or the database user is of none that still exists.   *)
THEOREM DropSafe == Spec => DropOnlyDeleted
<1> DEFINE Safe == db.password # 0 /\ db'.password = 0 =>
                      \/ user.deleting
                      \/ db.by # user.uid
                      \/ cluster' = "absent"
<1>1. ASSUME UserInv, [Next]_vars PROVE [Safe]_vars
  <2> USE DEF store, cache, world
  <2>t. db \in [password: Passwords \cup {0}, by: Nat]
    BY <1>1 DEF UserInv, TypeOK
  <2>a. ASSUME db.password # 0, db'.password = 0
        PROVE  DropUser \/ cluster' = "absent"
    <3>1. db # db'
      BY <2>a
    <3>2. ~EnsureUserExists
      BY <2>a DEF EnsureUserExists
    <3>3. ~RotatePassword
      <4>1. \A p \in Passwords : p # 0
        BY ConstantsAssumption
      <4>2. \A p \in Passwords : [db EXCEPT !.password = p].password = p
        BY <2>t
      <4>3. QED BY <2>a, <4>1, <4>2 DEF RotatePassword
    <3>4. QED
      BY <1>1, <3>1, <3>2, <3>3
      DEF Next, vars, WorkerStep, Environment, Begin, AddFinalizer, ReadinessGate,
          EstablishConnection, ApplyPrivileges, GetSecret, CreateOrUpdateSecret,
          RemoveAnnotation, UpdateStatus, RemoveFinalizer, CreateUser, DeleteUser,
          AnnotateRotate, EditRefSecret, UserRequest, Cluster, ClusterRuns,
          CollectGarbage, DeliverUser, DeliverSecret, Restart
  <2>b. ASSUME DropUser, db.password # 0, db.by = user.uid
        PROVE  user.deleting
    <3>1. worker.pc = "drop" /\ worker.copy.deleting
      BY <1>1, <2>b DEF DropUser, UserInv, WorkerPinned
    <3>2. db.by # 0 /\ worker.copy.rv >= user.uid
      BY <1>1, <2>b, <3>1 DEF UserInv, DatabasePinned
    <3>3. QED BY <1>1, <2>b, <3>1, <3>2 DEF UserInv, SameIncarnation, UserCopies
  <2>1. QED BY <2>a, <2>b
<1>2. QED BY <1>1, InductiveInvariant, PTL DEF Spec, DropOnlyDeleted

(* The rotation annotation is removed by the reconcile that altered the    *)
(* password, and only while that password is still the one of the database *)
(* user and of the Secret, as far as they exist.                           *)
THEOREM RotationIsComplete == Spec => RotationComplete
<1> DEFINE Agree == user.rotate /\ ~user'.rotate /\ user'.uid = user.uid
                      /\ db.password # 0 /\ secret.password # 0
                         => secret.password = db.password
<1>1. ASSUME UserInv, [Next]_vars PROVE [Agree]_vars
  <2> USE DEF store, cache, world
  <2>t. user \in UserType
    BY <1>1 DEF UserInv, TypeOK
  <2>u. \A n : NoUser(n).uid = 0
    BY DEF NoUser
  <2>a. ASSUME user.rotate, ~user'.rotate, user'.uid = user.uid
        PROVE  RemoveAnnotation
    <3>0. user.uid # 0 /\ user' # user
      BY <1>1, <2>a DEF UserInv, RotationPinned
    <3>1. ~AddFinalizer
      <4>1. [user EXCEPT !.rv = @ + 1, !.finalizer = TRUE].rotate = user.rotate
        BY <2>t DEF UserType
      <4>2. QED BY <2>a, <3>0, <4>1 DEF AddFinalizer, StoreUser
    <3>2. ~\E tick \in BOOLEAN : UpdateStatus(tick)
      <4>1. ASSUME user' = [[user EXCEPT !.created = worker.copy.created,
                                         !.phase = worker.copy.phase] EXCEPT !.rv = @ + 1]
            PROVE  user'.rotate = user.rotate
        BY <2>t, <4>1 DEF UserType
      <4>2. ASSUME NEW tick \in BOOLEAN, UpdateStatus(tick)
            PROVE  \/ user' = user
                   \/ user' = [[user EXCEPT !.created = worker.copy.created,
                                            !.phase = worker.copy.phase] EXCEPT !.rv = @ + 1]
        BY <4>2 DEF UpdateStatus, StoreUser
      <4>3. QED BY <2>a, <3>0, <4>1, <4>2
    <3>3. ~RemoveFinalizer
      BY <2>a, <2>u, <3>0 DEF RemoveFinalizer, StoreUser
    <3>4. ~\E ref, rotate \in BOOLEAN : CreateUser(ref, rotate)
      BY <3>0 DEF CreateUser
    <3>5. ~DeleteUser
      <4>1. [user EXCEPT !.rv = @ + 1, !.deleting = TRUE].rotate = user.rotate
        BY <2>t DEF UserType
      <4>2. QED BY <2>a, <2>u, <3>0, <4>1 DEF DeleteUser, StoreUser
    <3>6. ~AnnotateRotate
      BY <2>a DEF AnnotateRotate
    <3>7. QED
      BY <1>1, <3>0, <3>1, <3>2, <3>3, <3>4, <3>5, <3>6
      DEF Next, vars, WorkerStep, Environment, Begin, ReadinessGate, EstablishConnection,
          EnsureUserExists, ApplyPrivileges, RotatePassword, GetSecret,
          CreateOrUpdateSecret, DropUser, EditRefSecret, Cluster, ClusterRuns,
          CollectGarbage, DeliverUser, DeliverSecret, Restart
  <2>b. RemoveAnnotation /\ db.password # 0 /\ secret.password # 0
          => secret.password = db.password
    BY <1>1 DEF RemoveAnnotation, UserInv, RotationPinned
  <2>1. QED BY <2>a, <2>b
<1>2. QED BY <1>1, InductiveInvariant, PTL DEF Spec, RotationComplete
=============================================================================
