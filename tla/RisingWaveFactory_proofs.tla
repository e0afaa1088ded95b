---------------------- MODULE RisingWaveFactory_proofs ----------------------
(***************************************************************************)
(* Proofs about RisingWaveFactory, for any specifications and edits that   *)
(* the schema of the CRD admits and any number of edits and restarts.      *)
(* First the state machine; then what sorting and merging do to any list;  *)
(* then the lists of the operator, the five containers and their           *)
(* environments.                                                           *)
(***************************************************************************)
EXTENDS RisingWaveFactory, FiniteSetTheorems, TLAPS

(* A RisingWave that exists is not the one that does not.                  *)
LEMMA NoneIsNone == NoRW.uid = 0 /\ \A r \in RisingWaves : r # NoRW
<1>1. NoRW.uid = 0
  BY DEF NoRW
<1>2. QED BY <1>1 DEF RisingWaves

(* The mutating webhook keeps the schema.                                  *)
LEMMA DefaultTypes ==
    ASSUME NEW spec \in Specs, NEW rv \in Nat
    PROVE  Default(spec, rv) \in Specs
<1>1. spec.state \in StateSpecs /\ spec.state.dir \in Paths /\ spec.key \in Nat \cup {BothKeys}
  BY DEF Specs, StateSpecs
<1>2. Trim(spec.state.dir) \in Paths
  BY <1>1, FactoryAssumption DEF Trim
<1> DEFINE state == [spec.state EXCEPT !.dir = Trim(spec.state.dir)]
           key == IF random /\ spec.key = NoKey THEN UserKey + rv ELSE spec.key
<1>3. state \in StateSpecs
  BY <1>1, <1>2 DEF StateSpecs
<1>4. key \in Nat \cup {BothKeys}
  BY <1>1 DEF UserKey
<1>5. Default(spec, rv) = [spec EXCEPT !.state = state, !.key = key]
  BY DEF Default
<1> HIDE DEF state, key
<1>6. QED BY <1>3, <1>4, <1>5 DEF Specs

-----------------------------------------------------------------------------
(* The switches over stores.                                               *)

(* Where one store is configured, a switch that knows it picks it.         *)
LEMMA PicksTheOne ==
    ASSUME NEW order, NEW x, NEW i \in DOMAIN order, order[i] = x,
           \A j \in DOMAIN order : order[j] = x => j = i,
           DOMAIN order \subseteq Nat
    PROVE  Picks(order, {x}) = x
<1> DEFINE hits == {j \in DOMAIN order : order[j] \in {x}}
<1>1. hits = {i}
  OBVIOUS
<1>2. i \in Nat
  OBVIOUS
<1>3. Min({i}) = i
  BY <1>2 DEF Min
<1>4. QED BY <1>1, <1>3 DEF Picks

(* All switches over the state stores pick the one that is configured;     *)
(* only that over the environment knows nothing of the memory.             *)
LEMMA OneStateStore ==
    ASSUME NEW state \in StateSpecs, OneStore(state.configured)
    PROVE  \E x \in StateStores :
              /\ state.configured = {x}
              /\ hummockConnectionStr(state) = x /\ buildStateStoreType(state) = x
              /\ x # "memory" => StateStoreOfEnvs(state) = x
<1>1. PICK x : state.configured = {x}
  <2>1. IsFiniteSet(state.configured)
    <3>1. IsFiniteSet(StateStores)
      <4>1. \A S, y : IsFiniteSet(S) => IsFiniteSet(S \cup {y})
        BY FS_AddElement
      <4> DEFINE some == (((({"memory"} \cup {"s3"}) \cup {"minio"}) \cup {"gcs"}) \cup {"oss"})
                 rest == (((({"azure"} \cup {"hdfs"}) \cup {"webhdfs"}) \cup {"local"}) \cup {"obs"})
      <4>2. IsFiniteSet({"memory"}) /\ IsFiniteSet({"azure"})
        BY FS_Singleton
      <4>3. IsFiniteSet(some) /\ IsFiniteSet(rest)
        BY <4>1, <4>2, Zenon
      <4>4. StateStores = some \cup rest
        BY DEF StateStores
      <4> HIDE DEF some, rest
      <4>5. QED BY <4>3, <4>4, FS_Union
    <3>2. state.configured \subseteq StateStores
      BY DEF StateSpecs
    <3>3. QED BY <3>1, <3>2, FS_Subset
  <2>2. QED BY <2>1, FS_Singleton DEF OneStore
<1>2. x \in StateStores
  BY <1>1 DEF StateSpecs
<1> DEFINE o1 == <<"memory", "s3", "minio", "gcs", "oss", "azure", "hdfs", "webhdfs", "local", "obs">>
           o2 == <<"memory", "minio", "s3", "gcs", "oss", "azure", "hdfs", "webhdfs", "local", "obs">>
           o3 == <<"minio", "s3", "gcs", "oss", "azure", "hdfs", "webhdfs", "local", "obs">>
<1>a. DOMAIN o1 = 1 .. 10 /\ DOMAIN o2 = 1 .. 10 /\ DOMAIN o3 = 1 .. 9
  OBVIOUS
<1>b. \E i \in 1 .. 10 : o1[i] = x /\ \A j \in 1 .. 10 : o1[j] = x => j = i
  BY <1>2 DEF StateStores
<1>c. \E i \in 1 .. 10 : o2[i] = x /\ \A j \in 1 .. 10 : o2[j] = x => j = i
  BY <1>2 DEF StateStores
<1>d. x # "memory" => \E i \in 1 .. 9 : o3[i] = x /\ \A j \in 1 .. 9 : o3[j] = x => j = i
  BY <1>2 DEF StateStores
<1>e. /\ hummockConnectionStr(state) = Picks(o1, {x}) /\ buildStateStoreType(state) = Picks(o2, {x})
      /\ StateStoreOfEnvs(state) = Picks(o3, {x})
  <2>1. hummockConnectionStr(state) = Picks(o1, state.configured)
    BY Zenon DEF hummockConnectionStr
  <2>2. buildStateStoreType(state) = Picks(o2, state.configured)
    BY Zenon DEF buildStateStoreType
  <2>3. StateStoreOfEnvs(state) = Picks(o3, state.configured)
    BY Zenon DEF StateStoreOfEnvs
  <2> HIDE DEF o1, o2, o3
  <2>4. QED BY <1>1, <2>1, <2>2, <2>3
<1> HIDE DEF o1, o2, o3
<1>3. hummockConnectionStr(state) = x
  BY <1>a, <1>b, <1>e, PicksTheOne
<1>4. buildStateStoreType(state) = x
  <2>1. PICK i \in 1 .. 10 : o2[i] = x /\ \A j \in 1 .. 10 : o2[j] = x => j = i
    BY <1>c
  <2>2. Picks(o2, {x}) = x
    <3>1. /\ i \in DOMAIN o2 /\ DOMAIN o2 \subseteq Nat
          /\ \A j \in DOMAIN o2 : o2[j] = x => j = i
      BY <1>a, <2>1
    <3>2. QED BY <2>1, <3>1, PicksTheOne, Zenon
  <2>3. QED BY <1>e, <2>2
<1>5. x # "memory" => StateStoreOfEnvs(state) = x
  BY <1>a, <1>d, <1>e, PicksTheOne
<1>6. QED BY <1>1, <1>2, <1>3, <1>4, <1>5

(* The three switches over the meta stores are the same; one that knows    *)
(* all stores picks some store where one is configured.                    *)
LEMMA SomeMetaStore ==
    ASSUME NEW meta \in MetaSpecs, meta.configured # {}
    PROVE  /\ MetaStoreOfEnvs(meta) \in MetaStores
           /\ MetaStoreOfCoreEnvs(meta) = MetaStoreOfEnvs(meta)
           /\ buildMetaStoreType(meta) = MetaStoreOfEnvs(meta)
<1> DEFINE order == <<"memory", "etcd", "sqlite", "mysql", "postgresql">>
           hits == {i \in 1 .. 5 : order[i] \in meta.configured}
<1>1. /\ MetaStoreOfEnvs(meta) = Picks(order, meta.configured)
      /\ MetaStoreOfCoreEnvs(meta) = Picks(order, meta.configured)
      /\ buildMetaStoreType(meta) = Picks(order, meta.configured)
  BY Zenon DEF MetaStoreOfEnvs, MetaStoreOfCoreEnvs, buildMetaStoreType
<1>2. DOMAIN order = 1 .. 5
  OBVIOUS
<1>3. \E i \in 1 .. 5 : order[i] \in meta.configured
  BY DEF MetaSpecs, MetaStores
<1>4. \A i \in 1 .. 5 : order[i] \in MetaStores
  BY DEF MetaStores
<1> HIDE DEF order
<1>5. hits # {} /\ hits \subseteq 1 .. 5
  BY <1>3
<1>6. Picks(order, meta.configured) = order[Min(hits)]
  BY <1>2, <1>5 DEF Picks
<1> HIDE DEF hits
<1>7. \E m \in hits : \A y \in hits : m <= y
  <2>1. \/ 1 \in hits
        \/ 1 \notin hits /\ 2 \in hits
        \/ {1, 2} \cap hits = {} /\ 3 \in hits
        \/ {1, 2, 3} \cap hits = {} /\ 4 \in hits
        \/ {1, 2, 3, 4} \cap hits = {} /\ 5 \in hits
    <3>1. \A y \in hits : y = 1 \/ y = 2 \/ y = 3 \/ y = 4 \/ y = 5
      BY <1>5
    <3>2. \E y : y \in hits
      BY <1>5
    <3>3. QED BY <3>1, <3>2
  <2>2. QED BY <1>5, <2>1
<1>8. Min(hits) \in hits
  BY <1>7 DEF Min
<1>9. QED BY <1>1, <1>4, <1>5, <1>6, <1>8

(* Whatever the webhook lets through has one backend.                      *)
LEMMA ValidatedHasOneBackend ==
    ASSUME NEW spec \in Specs, validateCreate(spec)
    PROVE  /\ ~Panics(spec)
           /\ hummockConnectionStr(spec.state) = buildStateStoreType(spec.state)
           /\ \/ hummockConnectionStr(spec.state) = "memory"
              \/ hummockConnectionStr(spec.state) = StateStoreOfEnvs(spec.state)
           /\ MetaStoreOfEnvs(spec.meta) = MetaStoreOfCoreEnvs(spec.meta)
           /\ buildMetaStoreType(spec.meta) = MetaStoreOfEnvs(spec.meta)
<1>1. /\ spec.meta \in MetaSpecs /\ spec.state \in StateSpecs
      /\ OneStore(spec.meta.configured \ spec.meta.blank) /\ OneStore(spec.state.configured)
  BY DEF Specs, validateCreate, validateMetaStoreAndStateStore
<1>2. spec.meta.configured # {}
  <2>1. Cardinality({}) = 0
    BY FS_EmptySet
  <2>2. spec.meta.configured \ spec.meta.blank # {}
    BY <1>1, <2>1 DEF OneStore
  <2>3. QED BY <2>2
<1>3. PICK x \in StateStores :
         /\ hummockConnectionStr(spec.state) = x /\ buildStateStoreType(spec.state) = x
         /\ x # "memory" => StateStoreOfEnvs(spec.state) = x
  BY <1>1, OneStateStore
<1>4. /\ MetaStoreOfEnvs(spec.meta) \in MetaStores
      /\ MetaStoreOfCoreEnvs(spec.meta) = MetaStoreOfEnvs(spec.meta)
      /\ buildMetaStoreType(spec.meta) = MetaStoreOfEnvs(spec.meta)
  BY <1>1, <1>2, SomeMetaStore
<1>5. "unknown" \notin StateStores /\ "unknown" \notin MetaStores
  BY DEF StateStores, MetaStores
<1>6. ~Panics(spec)
  BY <1>3, <1>4, <1>5 DEF Panics
<1>7. QED BY <1>3, <1>4, <1>6

-----------------------------------------------------------------------------
Core == TypeOK /\ Validated /\ CopiesInOrder /\ IdentityInOrder

(* What has been validated has one backend in all the switches.            *)
LEMMA CoreBackend == Core => OneBackend
<1> SUFFICES ASSUME Core, Fresh PROVE OneBackend
  BY DEF OneBackend
<1>1. built # NoRW /\ built \in RisingWaves /\ ~built.spec.bypass
  BY DEF Core, TypeOK, Fresh
<1>2. built.spec \in Specs /\ validateCreate(built.spec)
  BY <1>1 DEF Core, Validated, RisingWaves
<1>3. QED BY <1>2, ValidatedHasOneBackend DEF OneBackend

(* Cached, reconciled and built copies are earlier versions, of this or of *)
(* an earlier incarnation.                                                 *)
LEMMA Copies ==
    ASSUME Core
    PROVE  /\ rw # NoRW /\ rw.uid \in Nat \ {0} /\ rw.rv \in Nat \ {0}
           /\ \A r \in {cache, wf, built} :
                 /\ r.uid \in 0 .. rw.uid
                 /\ r # NoRW => r \in RisingWaves /\ r.uid \in Nat \ {0} /\ r.rv \in 1 .. rw.rv
<1>1. /\ rw \in RisingWaves /\ rw # NoRW /\ rw.uid \in Nat \ {0} /\ rw.rv \in Nat \ {0}
  BY NoneIsNone DEF Core, TypeOK, RisingWaves
<1>2. ASSUME NEW r \in {cache, wf, built}
      PROVE  /\ r.uid \in 0 .. rw.uid
             /\ r # NoRW => r \in RisingWaves /\ r.uid \in Nat \ {0} /\ r.rv \in 1 .. rw.rv
  <2>1. CASE r = NoRW
    BY <1>1, <2>1, NoneIsNone
  <2>2. CASE r # NoRW
    <3>1. r \in RisingWaves /\ r.rv <= rw.rv /\ r.uid <= rw.uid
      BY <1>2, <2>2 DEF Core, TypeOK, CopiesInOrder
    <3>2. r.uid \in Nat \ {0} /\ r.rv \in Nat \ {0}
      BY <3>1 DEF RisingWaves
    <3>3. QED BY <1>1, <3>1, <3>2
  <2>3. QED BY <2>1, <2>2
<1>3. QED BY <1>1, <1>2

(* The stored RisingWave has a uid.                                        *)
LEMMA RwUid == Core => rw.uid \in Nat
BY Copies

(* A recreated RisingWave has a new uid.                                   *)
LEMMA NextUid == Recreate => rw'.uid = rw.uid + 1
<1> SUFFICES ASSUME Recreate PROVE rw'.uid = rw.uid + 1
  OBVIOUS
<1>1. PICK edit \in Edits(rw.spec) :
         rw' = [uid |-> rw.uid + 1, rv |-> rw.rv + 1, spec |-> Default(edit, rw.rv + 1),
                root |-> ""]
  BY DEF Recreate, Admitted
<1>2. QED BY <1>1, Zenon

(* No number is its own successor.                                         *)
LEMMA NotNext == ASSUME NEW n \in Nat PROVE n # n + 1
OBVIOUS

(* A number up to n is not the next one.                                   *)
LEMMA Older ==
    ASSUME NEW n \in Nat, NEW m \in 0 .. n
    PROVE  m <= n /\ m <= n + 1 /\ m # n + 1
OBVIOUS

(* From one on is from zero on.                                            *)
LEMMA FromZero ==
    ASSUME NEW n \in Nat, NEW m \in 1 .. n
    PROVE  m \in 0 .. n
OBVIOUS

(* A version that is stored: of the same RisingWave, with the same         *)
(* identity unless the webhook was bypassed, or of another RisingWave.     *)
LEMMA NewVersion ==
    ASSUME Core, UNCHANGED <<cache, built>>, wf' \in {wf, NoRW},
           rw' \in RisingWaves, rw'.rv = rw.rv + 1,
           rw'.spec.bypass \/ validateCreate(rw'.spec),
           \/ rw'.uid = rw.uid + 1 /\ rw'.root = ""
           \/ /\ rw'.uid = rw.uid
              /\ ~bypassed' =>
                    /\ ~bypassed /\ rw'.spec.state = rw.spec.state
                    /\ rw.spec.key # NoKey => rw'.spec.key = rw.spec.key
                    /\ rw'.root \in {"", StateStoreRootPath(rw.spec.state)}
    PROVE  Validated' /\ CopiesInOrder' /\ IdentityInOrder'
<1>0. /\ rw.uid \in Nat \ {0} /\ rw.rv \in Nat \ {0}
      /\ \A r \in {cache, wf, built} :
            r.uid \in 0 .. rw.uid /\ (r # NoRW => r.rv \in 1 .. rw.rv)
  BY Copies
<1>1. Validated'
  BY DEF Core, Validated
<1>2. rw'.uid = rw.uid \/ rw'.uid = rw.uid + 1
  OBVIOUS
<1>3. CopiesInOrder'
  <2>1. ASSUME NEW r \in {cache, wf, built}, r # NoRW
        PROVE  r.rv <= rw'.rv /\ r.uid <= rw'.uid /\ r.rv # rw'.rv
    <3>1. r.uid \in 0 .. rw.uid /\ r.rv \in 1 .. rw.rv
      BY <1>0, <2>1
    <3>2. rw.uid \in Nat /\ rw.rv \in Nat /\ r.rv \in 0 .. rw.rv
      <4>1. rw.uid \in Nat /\ rw.rv \in Nat
        BY <1>0
      <4>2. QED BY <3>1, <4>1, FromZero
    <3>3. r.uid <= rw.uid /\ r.uid <= rw.uid + 1 /\ r.rv <= rw.rv + 1 /\ r.rv # rw.rv + 1
      BY <3>1, <3>2, Older
    <3>4. QED BY <1>2, <3>3, Zenon
  <2>2. QED BY <2>1 DEF Core, CopiesInOrder
<1>4. CASE rw'.uid = rw.uid + 1 /\ rw'.root = ""
  <2>1. \A r \in {cache, wf, built} : r.uid # rw'.uid
    <3>1. rw.uid \in Nat
      BY <1>0
    <3>2. QED BY <1>0, <1>4, <3>1, Older
  <2>2. QED BY <1>1, <1>3, <1>4, <2>1 DEF IdentityInOrder, Keeps
<1>5. CASE /\ rw'.uid = rw.uid
           /\ ~bypassed' =>
                    /\ ~bypassed /\ rw'.spec.state = rw.spec.state
                    /\ rw.spec.key # NoKey => rw'.spec.key = rw.spec.key
                    /\ rw'.root \in {"", StateStoreRootPath(rw.spec.state)}
  <2>1. ASSUME NEW r \in {cache, wf, built}, Keeps(r, rw),
               r # NoRW, r.uid = rw'.uid, ~bypassed'
        PROVE  /\ rw'.spec.state = r.spec.state
               /\ r.spec.key # NoKey => rw'.spec.key = r.spec.key
    BY <1>5, <2>1 DEF Keeps
  <2>2. Keeps(cache, rw)' /\ Keeps(wf, rw)' /\ Keeps(built, rw)'
    BY <2>1 DEF Core, IdentityInOrder, Keeps
  <2>3. Keeps(built, cache)'
    BY <1>5 DEF Core, IdentityInOrder, Keeps
  <2>4. \A r \in {rw', cache, wf, built} :
           r # NoRW /\ r.uid = rw'.uid /\ ~bypassed' =>
              r.root \in {"", StateStoreRootPath(r.spec.state)}
    <3>1. ~bypassed' => rw'.root \in {"", StateStoreRootPath(rw'.spec.state)}
      BY <1>5
    <3>2. ASSUME NEW r \in {cache, wf, built}, r # NoRW, r.uid = rw'.uid, ~bypassed'
          PROVE  r.root \in {"", StateStoreRootPath(r.spec.state)}
      <4>1. r.uid = rw.uid /\ ~bypassed
        BY <1>5, <3>2, Zenon
      <4>2. r \in {rw, cache, wf, built}
        BY <3>2, Zenon
      <4>3. QED BY <3>2, <4>1, <4>2, Zenon DEF Core, IdentityInOrder
    <3>3. ASSUME NEW r \in {rw', cache, wf, built}, r # NoRW, r.uid = rw'.uid, ~bypassed'
          PROVE  r.root \in {"", StateStoreRootPath(r.spec.state)}
      <4>1. CASE r = rw'
        BY <3>1, <3>3, <4>1
      <4>2. CASE r \in {cache, wf, built}
        BY <3>2, <3>3, <4>2
      <4>3. QED BY <3>3, <4>1, <4>2
    <3>4. QED BY <3>3
  <2>5. QED BY <1>1, <1>3, <2>2, <2>3, <2>4 DEF IdentityInOrder
<1>6. QED BY <1>4, <1>5

(* One edit or restart less.                                               *)
LEMMA Spend ==
    ASSUME NEW n, NEW max \in Nat, n \in 0 .. max, n > 0
    PROVE  n - 1 \in 0 .. max
OBVIOUS

(* An update that the webhook admits keeps data directory and private key, *)
(* or has the annotation.                                                  *)
LEMMA UpdateStep ==
    ASSUME Core, Update
    PROVE  Core'
<1> USE Copies
<1>1. PICK new \in Edits(rw.spec) :
         /\ new \in Specs /\ ValidateUpdate(rw.spec, new)
         /\ rw' = [rw EXCEPT !.spec = new, !.rv = @ + 1]
         /\ bypassed' = (bypassed \/ new.bypass)
  BY DEF Update, Admitted
<1>2. rw.rv + 1 \in Nat /\ rw.rv + 1 \in Nat \ {0}
  OBVIOUS
<1>3. new \in Specs
  BY <1>1
<1>4. new.bypass \in BOOLEAN
  BY <1>3 DEF Specs
<1>5. rw' = [rw EXCEPT !.spec = new, !.rv = rw.rv + 1] /\ rw \in RisingWaves
  BY <1>1 DEF Core, TypeOK
<1>6. /\ rw' \in RisingWaves /\ rw'.uid = rw.uid /\ rw'.rv = rw.rv + 1 /\ rw'.spec = new
      /\ rw'.root = rw.root
  BY <1>2, <1>3, <1>5 DEF RisingWaves
<1>7. UNCHANGED <<cache, wf, built, random, restarts>> /\ edits > 0 /\ edits' = edits - 1
  BY DEF Update
<1>8. bypassed' = (bypassed \/ new.bypass) /\ ValidateUpdate(rw.spec, new)
  BY <1>1
<1>9. rw'.spec.bypass \/ validateCreate(rw'.spec)
  BY <1>6, <1>8 DEF ValidateUpdate
<1>10. ~bypassed' =>
          /\ ~bypassed /\ rw'.spec.state = rw.spec.state
          /\ rw.spec.key # NoKey => rw'.spec.key = rw.spec.key
          /\ rw'.root \in {"", StateStoreRootPath(rw.spec.state)}
  <2>1. SUFFICES ASSUME ~bypassed' PROVE
          /\ ~bypassed /\ rw'.spec.state = rw.spec.state
          /\ rw.spec.key # NoKey => rw'.spec.key = rw.spec.key
          /\ rw'.root \in {"", StateStoreRootPath(rw.spec.state)}
    OBVIOUS
  <2>2. ~bypassed /\ ~new.bypass
    BY <1>8, <2>1
  <2>3. isStateStoresTheSame(rw.spec, new) /\ isSecretStoreChangeAllowed(rw.spec, new)
    BY <1>8, <2>2 DEF ValidateUpdate
  <2>4. rw.root \in {"", StateStoreRootPath(rw.spec.state)}
    BY <2>2 DEF Core, IdentityInOrder
  <2>5. QED BY <1>6, <2>2, <2>3, <2>4 DEF isStateStoresTheSame, isSecretStoreChangeAllowed
<1>11. Validated' /\ CopiesInOrder' /\ IdentityInOrder'
  BY <1>6, <1>7, <1>9, <1>10, NewVersion
<1>12. TypeOK'
  <2>1. edits' \in 0 .. MaxEdits
    BY <1>7, Spend, FactoryAssumption DEF Core, TypeOK
  <2>2. bypassed' \in BOOLEAN
    BY <1>8
  <2>3. QED BY <1>6, <1>7, <2>1, <2>2 DEF Core, TypeOK
<1>13. QED BY <1>11, <1>12 DEF Core

(* A new incarnation is newer than every copy.                             *)
LEMMA RecreateStep ==
    ASSUME Core, Recreate
    PROVE  Core'
<1> USE Copies
<1>1. PICK edit \in Edits(rw.spec) :
         /\ edit \in Specs
         /\ Default(edit, rw.rv + 1).bypass \/ validateCreate(Default(edit, rw.rv + 1))
         /\ rw' = [uid |-> rw.uid + 1, rv |-> rw.rv + 1, spec |-> Default(edit, rw.rv + 1),
                   root |-> ""]
         /\ bypassed' = Default(edit, rw.rv + 1).bypass
  BY DEF Recreate, Admitted
<1> DEFINE new == Default(edit, rw.rv + 1)
<1>2. rw.rv + 1 \in Nat /\ rw.rv + 1 \in Nat \ {0} /\ rw.uid + 1 \in Nat \ {0}
  OBVIOUS
<1>3. new \in Specs
  BY <1>1, <1>2, DefaultTypes
<1>4. new.bypass \in BOOLEAN
  BY <1>3 DEF Specs
<1>5. /\ rw' = [uid |-> rw.uid + 1, rv |-> rw.rv + 1, spec |-> new, root |-> ""]
      /\ bypassed' = new.bypass /\ (new.bypass \/ validateCreate(new))
  BY <1>1
<1> HIDE DEF new
<1>6. /\ rw' \in RisingWaves /\ rw'.uid = rw.uid + 1 /\ rw'.rv = rw.rv + 1 /\ rw'.spec = new
      /\ rw'.root = ""
  BY <1>2, <1>3, <1>5, FactoryAssumption DEF RisingWaves
<1>7. UNCHANGED <<cache, wf, built, random, restarts>> /\ edits > 0 /\ edits' = edits - 1
  BY DEF Recreate
<1>8. Validated' /\ CopiesInOrder' /\ IdentityInOrder'
  BY <1>5, <1>6, <1>7, NewVersion
<1>9. TypeOK'
  <2>1. edits' \in 0 .. MaxEdits
    BY <1>7, Spend, FactoryAssumption DEF Core, TypeOK
  <2>2. QED BY <1>4, <1>5, <1>6, <1>7, <2>1 DEF Core, TypeOK
<1>10. QED BY <1>8, <1>9 DEF Core
(* The status write: what was read is what is stored, so no root path has  *)
(* been recorded yet.                                                      *)
LEMMA UpdateStatusStep ==
    ASSUME Core, UpdateStatus
    PROVE  Core' /\ (rw.root # "" => rw'.root = rw.root) /\ rw'.uid = rw.uid
<1>1. /\ wf # NoRW /\ rw' = syncInternalStatus(wf) /\ wf' = NoRW
      /\ UNCHANGED <<cache, built, random, bypassed, edits, restarts>>
  BY DEF UpdateStatus
<1>2. rw \in RisingWaves /\ rw # NoRW /\ rw.rv \in Nat
  BY Copies DEF Core, TypeOK
<1> DEFINE path == StateStoreRootPath(wf.spec.state)
<1>3. CASE wf.root = "" /\ path # "" /\ rw.rv = wf.rv
  <2>1. wf = rw
    BY <1>1, <1>3 DEF Core, CopiesInOrder
  <2>2. rw' = [rw EXCEPT !.root = path, !.rv = rw.rv + 1] /\ rw.root = ""
    BY <1>1, <1>3, <2>1 DEF syncInternalStatus
  <2>3. path \in Paths
    <3>1. rw.spec.state \in StateSpecs
      BY <1>2 DEF RisingWaves, Specs
    <3>2. QED BY <2>1, <3>1, FactoryAssumption DEF StateStoreRootPath, StateSpecs
  <2>4. rw.rv + 1 \in Nat \ {0}
    BY <1>2
  <2>5. path = StateStoreRootPath(rw.spec.state)
    BY <2>1
  <2> HIDE DEF path
  <2>6. /\ rw' \in RisingWaves /\ rw'.uid = rw.uid /\ rw'.rv = rw.rv + 1
        /\ rw'.spec = rw.spec /\ rw'.root = path
    BY <1>2, <2>2, <2>3, <2>4 DEF RisingWaves
  <2>7. rw'.spec.bypass \/ validateCreate(rw'.spec)
    BY <1>2, <2>6 DEF Core, Validated
  <2>8. /\ Validated' /\ CopiesInOrder' /\ IdentityInOrder'
    <3>1. ~bypassed' =>
             /\ ~bypassed /\ rw'.spec.state = rw.spec.state
             /\ rw.spec.key # NoKey => rw'.spec.key = rw.spec.key
             /\ rw'.root \in {"", StateStoreRootPath(rw.spec.state)}
      BY <1>1, <2>5, <2>6
    <3>2. QED BY <1>1, <2>6, <2>7, <3>1, NewVersion
  <2>9. TypeOK'
    BY <1>1, <2>6 DEF Core, TypeOK
  <2>10. QED BY <2>2, <2>6, <2>8, <2>9 DEF Core
<1>4. CASE ~(wf.root = "" /\ path # "" /\ rw.rv = wf.rv)
  <2>1. rw' = rw
    BY <1>1, <1>4 DEF syncInternalStatus
  <2>2. Validated' /\ CopiesInOrder' /\ IdentityInOrder' /\ TypeOK'
    BY <1>1, <2>1 DEF Core, TypeOK, Validated, CopiesInOrder, IdentityInOrder, Keeps
  <2>3. QED BY <2>1, <2>2 DEF Core
<1>5. QED BY <1>3, <1>4
(* The caches and the reconcile get copies of what is stored.              *)
LEMMA CopyStep ==
    ASSUME Core, rw' = rw, bypassed' = bypassed,
           \/ cache' = rw /\ UNCHANGED built /\ wf' \in {wf, NoRW}
           \/ UNCHANGED cache /\ cache # NoRW /\ built' = cache /\ wf' = cache
    PROVE  Validated' /\ CopiesInOrder' /\ IdentityInOrder'
<1>1. /\ rw # NoRW /\ rw.uid \in Nat \ {0} /\ rw.rv \in Nat \ {0}
      /\ \A r \in {cache, wf, built} : r.uid \in 0 .. rw.uid
      /\ rw.rv <= rw.rv /\ rw.uid <= rw.uid
  BY Copies
<1>2. CASE cache' = rw /\ UNCHANGED built /\ wf' \in {wf, NoRW}
  <2>1. built.uid <= rw.uid
    BY <1>1
  <2>2. Validated' /\ CopiesInOrder'
    BY <1>1, <1>2, <2>1 DEF Core, Validated, CopiesInOrder
  <2>3. Keeps(rw, rw)
    BY DEF Keeps
  <2>4. IdentityInOrder'
    BY <1>2, <2>3 DEF Core, IdentityInOrder, Keeps
  <2>5. QED BY <2>2, <2>4
<1>3. CASE UNCHANGED cache /\ cache # NoRW /\ built' = cache /\ wf' = cache
  <2>1. cache.uid <= cache.uid
    BY <1>1
  <2>2. Validated' /\ CopiesInOrder'
    BY <1>1, <1>3, <2>1 DEF Core, Validated, CopiesInOrder
  <2>3. Keeps(cache, cache)
    BY DEF Keeps
  <2>4. IdentityInOrder'
    BY <1>3, <2>3 DEF Core, IdentityInOrder, Keeps
  <2>5. QED BY <2>2, <2>4
<1>4. QED BY <1>2, <1>3

(* Deliveries, reconciles and restarts only copy the RisingWave.           *)
LEMMA ControllerStep ==
    ASSUME Core, Deliver \/ Reconcile \/ Restart
    PROVE  Core' /\ UNCHANGED rw
<1>1. CASE Deliver
  <2>1. cache' = rw /\ UNCHANGED <<rw, wf, built, random, bypassed, edits, restarts>>
    BY <1>1 DEF Deliver
  <2>2. Validated' /\ CopiesInOrder' /\ IdentityInOrder'
    BY <2>1, CopyStep
  <2>3. TypeOK'
    BY <2>1 DEF Core, TypeOK
  <2>4. QED BY <2>1, <2>2, <2>3 DEF Core
<1>2. CASE Reconcile
  <2>1. /\ cache # NoRW /\ wf' = cache /\ built' = cache
        /\ UNCHANGED <<rw, cache, random, bypassed, edits, restarts>>
    BY <1>2 DEF Reconcile
  <2>2. Validated' /\ CopiesInOrder' /\ IdentityInOrder'
    BY <2>1, CopyStep
  <2>3. TypeOK'
    BY <2>1 DEF Core, TypeOK
  <2>4. QED BY <2>1, <2>2, <2>3 DEF Core
<1>3. CASE Restart
  <2>1. /\ cache' = rw /\ wf' = NoRW /\ UNCHANGED <<rw, built, bypassed, edits>>
        /\ random' = ~random /\ restarts > 0 /\ restarts' = restarts - 1
    BY <1>3 DEF Restart
  <2>2. Validated' /\ CopiesInOrder' /\ IdentityInOrder'
    BY <2>1, CopyStep
  <2>3. restarts' \in 0 .. MaxRestarts
    BY <2>1, Spend, FactoryAssumption DEF Core, TypeOK
  <2>4. random' \in BOOLEAN
    BY <2>1
  <2>5. TypeOK'
    BY <2>1, <2>3, <2>4 DEF Core, TypeOK
  <2>6. QED BY <2>1, <2>2, <2>5 DEF Core
<1>4. QED BY <1>1, <1>2, <1>3

(* A RisingWave that has just been created.                                *)
LEMMA CoreInit == Init => Core
<1> SUFFICES ASSUME Init PROVE Core
  OBVIOUS
<1>1. PICK first \in FirstSpecs :
         /\ Default(first, 1).bypass \/ validateCreate(Default(first, 1))
         /\ rw = [uid |-> 1, rv |-> 1, spec |-> Default(first, 1), root |-> ""]
         /\ bypassed = Default(first, 1).bypass
  BY DEF Init
<1> DEFINE new == Default(first, 1)
<1>2. new \in Specs
  <2>1. first \in Specs /\ 1 \in Nat
    BY FactoryAssumption
  <2>2. QED BY <2>1, DefaultTypes
<1>3. new.bypass \in BOOLEAN
  BY <1>2 DEF Specs
<1>4. /\ rw = [uid |-> 1, rv |-> 1, spec |-> new, root |-> ""]
      /\ bypassed = new.bypass /\ (new.bypass \/ validateCreate(new))
  BY <1>1
<1> HIDE DEF new
<1>5. /\ rw \in RisingWaves /\ rw.spec = new /\ rw.root = "" /\ rw.uid = 1
  <2>1. 1 \in Nat \ {0}
    OBVIOUS
  <2>2. "" \in Paths
    BY FactoryAssumption
  <2>3. QED BY <1>2, <1>4, <2>1, <2>2 DEF RisingWaves
<1>6. /\ cache = NoRW /\ wf = NoRW /\ built = NoRW /\ random \in BOOLEAN
      /\ edits = MaxEdits /\ restarts = MaxRestarts
  BY DEF Init
<1>7. MaxEdits \in 0 .. MaxEdits /\ MaxRestarts \in 0 .. MaxRestarts
  <2>1. MaxEdits \in Nat /\ MaxRestarts \in Nat
    BY FactoryAssumption
  <2>2. QED BY <2>1
<1>8. TypeOK
  BY <1>3, <1>4, <1>5, <1>6, <1>7 DEF TypeOK
<1>9. Validated
  BY <1>4, <1>5, <1>6 DEF Validated
<1>10. CopiesInOrder
  BY <1>6, NoneIsNone DEF CopiesInOrder
<1>11. IdentityInOrder
  BY <1>5, <1>6 DEF IdentityInOrder, Keeps
<1>12. QED BY <1>8, <1>9, <1>10, <1>11 DEF Core

(* Core is inductive.                                                      *)
LEMMA CoreStep == Core /\ [Next]_vars => Core'
<1> SUFFICES ASSUME Core, [Next]_vars PROVE Core'
  OBVIOUS
<1>1. CASE UNCHANGED vars
  BY <1>1 DEF vars, Core, TypeOK, Validated, CopiesInOrder, IdentityInOrder, Keeps
<1>2. QED BY <1>1, UpdateStep, RecreateStep, UpdateStatusStep, ControllerStep DEF Next

-----------------------------------------------------------------------------
(* For any specifications, edits and restarts: whatever is built without   *)
(* the annotation has been validated and has one backend, and copies of a  *)
(* RisingWave keep its state store and its private key.                    *)
THEOREM FactoryInvariant == Spec => []FactoryInv
<1>1. Core => FactoryInv
  BY CoreBackend DEF Core, FactoryInv
<1>2. QED BY <1>1, CoreInit, CoreStep, PTL DEF Spec

(* For any specifications, edits and restarts: a root path that is in the  *)
(* status stays.                                                           *)
THEOREM RootIsRecordedOnce == Spec => RootRecordedOnce
<1>1. Core /\ [Next]_vars => [rw'.uid = rw.uid /\ rw.root # "" => rw'.root = rw.root]_vars
  <2> SUFFICES ASSUME Core, [Next]_vars, rw'.uid = rw.uid, rw.root # ""
               PROVE  rw'.root = rw.root
    OBVIOUS
  <2>1. CASE UNCHANGED vars
    BY <2>1 DEF vars
  <2>2. CASE Update
    BY <2>2 DEF Update, Core, TypeOK, RisingWaves
  <2>3. CASE Recreate
    <3>1. rw'.uid = rw.uid + 1
      BY <2>3, NextUid
    <3>2. rw.uid \in Nat
      BY RwUid
    <3>3. rw.uid # rw.uid + 1
      BY <3>2, NotNext
    <3>4. QED BY <3>1, <3>3
  <2>4. QED BY <2>1, <2>2, <2>3, UpdateStatusStep, ControllerStep DEF Next
<1>2. QED BY <1>1, CoreInit, CoreStep, PTL DEF Spec, RootRecordedOnce

(* For any specifications, edits and restarts: while no request bypasses   *)
(* the webhook, Pods keep the data directory and the private key that they *)
(* were built with.                                                        *)
THEOREM IdentityIsKept == Spec => IdentityKept
<1>1. Core /\ [Next]_vars =>
         [built # NoRW /\ built'.uid = built.uid /\ built'.uid = rw.uid /\ ~bypassed
          => /\ getDataDirectory(built') = getDataDirectory(built)
             /\ built.spec.key # NoKey => built'.spec.key = built.spec.key]_vars
  <2> SUFFICES ASSUME Core, [Next]_vars, built # NoRW, built'.uid = built.uid,
                      built'.uid = rw.uid, ~bypassed
               PROVE  /\ getDataDirectory(built') = getDataDirectory(built)
                      /\ built.spec.key # NoKey => built'.spec.key = built.spec.key
    OBVIOUS
  <2>1. CASE built' = built
    BY <2>1
  <2>2. CASE cache # NoRW /\ built' = cache
    <3>1. /\ cache.spec.state = built.spec.state
          /\ built.spec.key # NoKey => cache.spec.key = built.spec.key
      BY <2>2 DEF Core, IdentityInOrder, Keeps
    <3>2. \A r \in {built, cache} : r.root \in {"", StateStoreRootPath(r.spec.state)}
      BY <2>2 DEF Core, IdentityInOrder
    <3>3. getDataDirectory(cache) = getDataDirectory(built)
      BY <3>1, <3>2 DEF getDataDirectory
    <3>4. QED BY <2>2, <3>1, <3>3
  <2>3. QED BY <2>1, <2>2 DEF Next, vars, Update, Recreate, Deliver, Reconcile, UpdateStatus, Restart
<1>2. QED BY <1>1, CoreInit, CoreStep, PTL DEF Spec, IdentityKept

-----------------------------------------------------------------------------
(* Induction and recursion over an interval, as in SplitReplicas_proofs.   *)

(* A set of natural numbers that is not empty has a least one.             *)
LEMMA LeastNatural ==
    ASSUME NEW T \in SUBSET Nat, T # {}
    PROVE  \E x \in T : \A y \in T : x <= y
<1> DEFINE R == OpToRel(<, Nat)
<1>1. IsWellFoundedOn(R, Nat)
  BY NatLessThanWellFounded
<1>2. R = {ss \in Nat \X Nat : ss[1] < ss[2]}
  BY DEF OpToRel
<1> HIDE DEF R
<1>3. \E x \in T : \A y \in T : ~ (<<y, x>> \in R)
  BY <1>1, WFMin
<1>4. PICK x \in T : \A y \in T : <<y, x>> \notin R
  BY <1>3
<1>5. ASSUME NEW y \in T PROVE x <= y
  <2>1. <<y, x>> \notin {ss \in Nat \X Nat : ss[1] < ss[2]}
    BY <1>2, <1>4, <1>5
  <2>2. QED BY <2>1, <1>5
<1>6. QED BY <1>4, <1>5

(* Induction from a to b.                                                  *)
LEMMA FromTo ==
    ASSUME NEW a \in Nat, NEW b \in Nat, NEW T, a \in T,
           \A i \in a .. b - 1 : i \in T => i + 1 \in T
    PROVE  \A i \in a .. b : i \in T
<1> SUFFICES ASSUME NEW z \in a .. b, z \notin T PROVE FALSE
  OBVIOUS
<1> DEFINE S == {i \in a .. b : i \notin T}
<1>1. S \in SUBSET Nat /\ S # {}
  OBVIOUS
<1> HIDE DEF S
<1>2. PICK x \in S : \A y \in S : x <= y
  BY <1>1, LeastNatural
<1>3. x \in a .. b /\ x \notin T /\ x # a
  BY <1>2 DEF S
<1>4. x - 1 \in a .. b - 1 /\ x - 1 \notin S
  BY <1>2, <1>3
<1>5. x - 1 \in T
  BY <1>4 DEF S
<1>6. (x - 1) + 1 \in T /\ (x - 1) + 1 = x
  BY <1>3, <1>4, <1>5
<1>7. QED BY <1>3, <1>6

IsRecursion(f, N, S, c, step) ==
    /\ f \in [0 .. N -> S] /\ f[0] = c
    /\ \A i \in 1 .. N : f[i] = step[<<i, f[i - 1]>>]

(* What is defined by recursion over an interval exists.                   *)
LEMMA Recursion ==
    ASSUME NEW N \in Nat, NEW S, NEW c \in S, NEW step \in [(1 .. N) \X S -> S]
    PROVE  \E f : IsRecursion(f, N, S, c, step)
<1> DEFINE Upto(n, f) == /\ f \in [0 .. n -> S] /\ f[0] = c
                         /\ \A i \in 1 .. n : f[i] = step[<<i, f[i - 1]>>]
           T == {n \in 0 .. N : \E f : Upto(n, f)}
<1>1. 0 \in T
  <2>1. Upto(0, [i \in 0 .. 0 |-> c])
    OBVIOUS
  <2> HIDE DEF Upto
  <2>2. QED BY <2>1
<1>2. ASSUME NEW n \in 0 .. N - 1, n \in T PROVE n + 1 \in T
  <2>1. PICK f : Upto(n, f)
    BY <1>2
  <2> DEFINE v == step[<<n + 1, f[n]>>]
             g == [i \in 0 .. n + 1 |-> IF i = n + 1 THEN v ELSE f[i]]
  <2>2. v \in S
    <3>1. f[n] \in S /\ n + 1 \in 1 .. N
      BY <2>1
    <3>2. QED BY <3>1
  <2>3. g \in [0 .. n + 1 -> S] /\ g[0] = c
    <3> HIDE DEF v
    <3>1. QED BY <2>1, <2>2
  <2>4. ASSUME NEW i \in 1 .. n + 1 PROVE g[i] = step[<<i, g[i - 1]>>]
    <3>1. g[i - 1] = f[i - 1]
      OBVIOUS
    <3>2. CASE i = n + 1
      <4>1. g[i] = v /\ i - 1 = n
        BY <3>2
      <4> HIDE DEF g
      <4>2. QED BY <3>1, <3>2, <4>1
    <3>3. CASE i # n + 1
      <4>1. g[i] = f[i] /\ i \in 1 .. n
        BY <3>3
      <4> HIDE DEF g
      <4>2. QED BY <2>1, <3>1, <4>1
    <3>4. QED BY <3>2, <3>3
  <2> HIDE DEF g
  <2>5. Upto(n + 1, g)
    BY <2>3, <2>4
  <2> HIDE DEF Upto
  <2>6. QED BY <2>5
<1> HIDE DEF T
<1>3. \A n \in 0 .. N : n \in T
  BY <1>1, <1>2, FromTo
<1>4. N \in T
  BY <1>3
<1>5. QED BY <1>4 DEF T, IsRecursion

-----------------------------------------------------------------------------
(* Sorting.                                                                *)

Variables == [name : STRING, by : {"operator", "user"},
              refs : Seq([name : STRING, escaped : BOOLEAN])]

\* lists whose names are in the alphabet
Listed == {env \in Seq(Variables) : Names(env) \subseteq DOMAIN Rank}

\* no cycle, once one of two edges between the same two variables is dropped
Sortable(env) ==
    \E depth \in [DOMAIN env -> Nat] : \A e \in Edges(env) : depth[e[1]] < depth[e[2]]

Blocked(edges, order) == {e[2] : e \in {d \in edges : d[1] \notin ToSet(order)}}

Sources(env, edges, order) == (DOMAIN env) \ (ToSet(order) \cup Blocked(edges, order))

TakeSource(env, edges, order) ==
    IF Sources(env, edges, order) = {} THEN order
    ELSE Append(order, CHOOSE i \in Sources(env, edges, order) :
                          \A j \in Sources(env, edges, order) :
                             Rank[env[i].name] <= Rank[env[j].name])

Drains(env, f) ==
    f = [n \in 0 .. Len(env) |->
            IF n = 0 THEN <<>> ELSE TakeSource(env, Edges(env), f[n - 1])]

(* Names have a place in the alphabet.                                     *)
LEMMA Ranked == \A name \in DOMAIN Rank : Rank[name] \in Nat
<1> SUFFICES ASSUME NEW name \in DOMAIN Rank PROVE Rank[name] \in Nat
  OBVIOUS
<1>1. name \in {EnvNames[i] : i \in DOMAIN EnvNames}
  BY DEF Rank, Alphabet
<1>2. Rank[name] = CHOOSE i \in DOMAIN EnvNames : EnvNames[i] = name
  BY <1>1 DEF Rank, Alphabet
<1>3. Rank[name] \in DOMAIN EnvNames
  BY <1>1, <1>2
<1>4. DOMAIN EnvNames \subseteq Nat
  BY EnvNamesAssumption
<1>5. QED BY <1>3, <1>4

(* Of several sources one has the smallest name.                           *)
LEMMA TakesASource ==
    ASSUME NEW env \in Listed, NEW edges, NEW order, Sources(env, edges, order) # {}
    PROVE  \E i \in Sources(env, edges, order) : TakeSource(env, edges, order) = Append(order, i)
<1> DEFINE S == Sources(env, edges, order)
           R == {Rank[env[i].name] : i \in S}
           P(i) == \A j \in S : Rank[env[i].name] <= Rank[env[j].name]
<1>1. \A i \in S : Rank[env[i].name] \in Nat
  <2>1. \A i \in S : i \in DOMAIN env
    BY DEF Sources
  <2>2. ASSUME NEW i \in DOMAIN env PROVE env[i].name \in DOMAIN Rank
    <3>1. env[i].name \in Names(env)
      BY DEF Names
    <3>2. QED BY <3>1 DEF Listed
  <2>3. QED BY <2>1, <2>2, Ranked
<1> HIDE DEF S
<1>2. R \in SUBSET Nat /\ R # {}
  BY <1>1 DEF S
<1>3. PICK x \in R : \A y \in R : x <= y
  <2> HIDE DEF R
  <2>1. QED BY <1>2, LeastNatural
<1>4. \E i \in S : P(i)
  BY <1>3
<1> DEFINE c == CHOOSE i \in S : P(i)
<1>5. c \in S
  <2> HIDE DEF P
  <2>1. QED BY <1>4
<1>6. TakeSource(env, edges, order) = Append(order, c)
  BY DEF TakeSource, S
<1> HIDE DEF c
<1>7. QED BY <1>5, <1>6 DEF S

(* SortedOrder is what its recursion says.                                 *)
LEMMA SortDrains ==
    ASSUME NEW env \in Listed
    PROVE  \E f \in [0 .. Len(env) -> Seq(DOMAIN env)] :
              Drains(env, f) /\ SortedOrder(env) = f[Len(env)]
<1> DEFINE N == Len(env)
           S == Seq(DOMAIN env)
           c == << >>
           step == [x \in (1 .. N) \X S |-> TakeSource(env, Edges(env), x[2])]
           f == CHOOSE g : Drains(env, g)
<1>1. N \in Nat /\ c \in S
  <2>1. env \in Seq(Variables)
    BY DEF Listed
  <2>2. QED BY <2>1
<1>2. ASSUME NEW o \in S PROVE TakeSource(env, Edges(env), o) \in S
  <2>1. CASE Sources(env, Edges(env), o) = {}
    BY <2>1 DEF TakeSource
  <2>2. CASE Sources(env, Edges(env), o) # {}
    <3>1. PICK i \in Sources(env, Edges(env), o) : TakeSource(env, Edges(env), o) = Append(o, i)
      BY <2>2, TakesASource
    <3>2. i \in DOMAIN env
      BY DEF Sources
    <3>3. QED BY <3>1, <3>2
  <2>3. QED BY <2>1, <2>2
<1>3. step \in [(1 .. N) \X S -> S]
  <2> HIDE DEF S
  <2>1. QED BY <1>2
<1> HIDE DEF step, c, S
<1>4. PICK g : IsRecursion(g, N, S, c, step)
  <2> HIDE DEF N, f
  <2>1. QED BY <1>1, <1>3, Recursion
<1>5. ASSUME NEW i \in 1 .. N PROVE g[i] = TakeSource(env, Edges(env), g[i - 1])
  <2>1. g[i - 1] \in S
    BY <1>1, <1>4 DEF IsRecursion
  <2>2. step[<<i, g[i - 1]>>] = TakeSource(env, Edges(env), g[i - 1])
    BY <2>1 DEF step
  <2>3. QED BY <1>4, <2>2 DEF IsRecursion
<1>6. Drains(env, g)
  <2>1. g = [i \in 0 .. N |-> IF i = 0 THEN c ELSE TakeSource(env, Edges(env), g[i - 1])]
    BY <1>1, <1>4, <1>5 DEF IsRecursion
  <2>2. QED BY <2>1 DEF Drains, c
<1>7. Drains(env, f)
  BY <1>6
<1>8. SortedOrder(env) = f[N]
  BY DEF SortedOrder, Drains, TakeSource, Sources, Blocked
<1> HIDE DEF f
<1>9. f = [i \in 0 .. N |-> IF i = 0 THEN c ELSE TakeSource(env, Edges(env), f[i - 1])]
  BY <1>7 DEF Drains, c
<1>10. f \in [0 .. N -> S]
  <2> DEFINE T == {i \in 0 .. N : f[i] \in S}
  <2>1. 0 \in T
    BY <1>1, <1>9
  <2>2. ASSUME NEW i \in 0 .. N - 1, i \in T PROVE i + 1 \in T
    <3>1. i + 1 \in 0 .. N /\ i + 1 # 0 /\ (i + 1) - 1 = i
      BY <1>1, <2>2
    <3>2. f[i + 1] = TakeSource(env, Edges(env), f[i])
      BY <1>9, <3>1
    <3>3. f[i] \in S
      BY <2>2
    <3>4. TakeSource(env, Edges(env), f[i]) \in S
      BY <1>2, <3>3
    <3>5. QED BY <3>1, <3>2, <3>4
  <2> HIDE DEF T, N
  <2>3. \A i \in 0 .. N : i \in T
    BY <1>1, <2>1, <2>2, FromTo
  <2>4. \A i \in 0 .. N : f[i] \in S
    BY <2>3 DEF T
  <2>5. QED BY <1>9, <2>4
<1>11. QED BY <1>7, <1>8, <1>10 DEF S

Ordered(env, order) ==
    /\ order \in Seq(DOMAIN env)
    /\ \A i, j \in 1 .. Len(order) : order[i] = order[j] => i = j
    /\ \A e \in Edges(env) : \A k \in 1 .. Len(order) :
          order[k] = e[2] => \E j \in 1 .. k - 1 : order[j] = e[1]

(* What is taken is not taken twice, nor before what it depends on.        *)
LEMMA StaysOrdered ==
    ASSUME NEW env \in Seq(Variables), NEW order, Ordered(env, order),
           NEW i \in Sources(env, Edges(env), order)
    PROVE  Ordered(env, Append(order, i)) /\ Len(Append(order, i)) = Len(order) + 1
<1> DEFINE n == Len(order)
           new == Append(order, i)
           D == DOMAIN env
<1>1. order \in Seq(D) /\ n \in Nat /\ i \in D
  BY DEF Ordered, Sources
<1>2. i \notin ToSet(order) /\ i \notin Blocked(Edges(env), order)
  BY DEF Sources
<1>3. \A k \in 1 .. n : order[k] \in ToSet(order)
  BY <1>1 DEF ToSet
<1>4. \A x \in ToSet(order) : \E k \in 1 .. n : order[k] = x
  BY <1>1 DEF ToSet
<1> HIDE DEF D
<1>5. new \in Seq(D) /\ Len(new) = n + 1 /\ new[n + 1] = i /\ \A k \in 1 .. n : new[k] = order[k]
  BY <1>1
<1> HIDE DEF new
<1>6. ASSUME NEW a \in 1 .. n + 1, NEW b \in 1 .. n + 1, new[a] = new[b] PROVE a = b
  <2>1. CASE a \in 1 .. n /\ b \in 1 .. n
    BY <1>5, <1>6, <2>1 DEF Ordered
  <2>2. CASE a = n + 1 /\ b \in 1 .. n
    BY <1>2, <1>3, <1>5, <1>6, <2>2
  <2>3. CASE b = n + 1 /\ a \in 1 .. n
    BY <1>2, <1>3, <1>5, <1>6, <2>3
  <2>4. QED BY <1>1, <2>1, <2>2, <2>3
<1>7. ASSUME NEW e \in Edges(env), NEW k \in 1 .. n + 1, new[k] = e[2]
      PROVE  \E j \in 1 .. k - 1 : new[j] = e[1]
  <2>1. CASE k \in 1 .. n
    <3>1. order[k] = e[2]
      BY <1>5, <1>7, <2>1
    <3>2. PICK j \in 1 .. k - 1 : order[j] = e[1]
      BY <2>1, <3>1 DEF Ordered
    <3>3. j \in 1 .. n
      BY <1>1, <2>1
    <3>4. QED BY <1>5, <3>2, <3>3
  <2>2. CASE k = n + 1
    <3>1. e[2] = i
      BY <1>5, <1>7, <2>2
    <3>2. e[1] \in ToSet(order)
      BY <1>2, <3>1 DEF Blocked
    <3>3. PICK j \in 1 .. n : order[j] = e[1]
      BY <1>4, <3>2
    <3>4. j \in 1 .. k - 1
      BY <1>1, <2>2
    <3>5. QED BY <1>5, <3>3, <3>4
  <2>3. QED BY <1>1, <2>1, <2>2
<1>8. Ordered(env, new)
  BY <1>5, <1>6, <1>7 DEF Ordered, D
<1>9. QED BY <1>5, <1>8 DEF new

(* As many numbers as one counts.                                          *)
LEMMA UpTo ==
    ASSUME NEW m \in Nat PROVE IsFiniteSet(1 .. m) /\ Cardinality(1 .. m) = m
<1>1. IsFiniteSet(1 .. m)
  BY FS_Interval
<1>2. Cardinality(1 .. m) = IF 1 > m THEN 0 ELSE m - 1 + 1
  BY FS_Interval
<1>3. QED BY <1>1, <1>2

(* While variables are missing and there is no cycle, there is a source.   *)
LEMMA SomeSource ==
    ASSUME NEW env \in Seq(Variables), Sortable(env), NEW order, Ordered(env, order),
           Len(order) < Len(env)
    PROVE  Sources(env, Edges(env), order) # {}
<1> DEFINE n == Len(order)
           N == Len(env)
           done == ToSet(order)
           rest == (1 .. N) \ done
<1>1. DOMAIN env = 1 .. N /\ N \in Nat /\ order \in Seq(1 .. N) /\ n \in Nat
  <2>1. DOMAIN env = 1 .. N /\ N \in Nat
    OBVIOUS
  <2>2. order \in Seq(1 .. N)
    BY <2>1 DEF Ordered
  <2>3. QED BY <2>1, <2>2
<1>2. rest # {}
  <2>1. order \in Surjection(1 .. n, done)
    BY <1>1 DEF Surjection, ToSet
  <2>2. IsFiniteSet(1 .. n) /\ Cardinality(1 .. n) = n /\ IsFiniteSet(1 .. N) /\ Cardinality(1 .. N) = N
    BY <1>1, UpTo
  <2> HIDE DEF done
  <2>3. IsFiniteSet(done) /\ Cardinality(done) <= n
    BY <2>1, <2>2, FS_Surjection
  <2>4. Cardinality(done) \in Nat
    BY <2>3, FS_CardinalityType
  <2>5. ASSUME (1 .. N) \subseteq done PROVE FALSE
    <3>1. N <= Cardinality(done)
      BY <2>2, <2>3, <2>5, FS_Subset
    <3>2. QED BY <1>1, <2>3, <2>4, <3>1
  <2>6. QED BY <2>5
<1>3. PICK depth \in [1 .. N -> Nat] : \A e \in Edges(env) : depth[e[1]] < depth[e[2]]
  BY <1>1 DEF Sortable
<1> HIDE DEF done
<1> DEFINE R == {depth[i] : i \in rest}
<1>4. R \in SUBSET Nat /\ R # {}
  BY <1>2
<1>5. PICK x \in R : \A y \in R : x <= y
  <2> HIDE DEF R
  <2>1. QED BY <1>4, LeastNatural
<1>6. PICK i \in rest : \A j \in rest : depth[i] <= depth[j]
  BY <1>5
<1>7. i \notin Blocked(Edges(env), order)
  <2> SUFFICES ASSUME NEW e \in Edges(env), e[1] \notin done, e[2] = i PROVE FALSE
    BY DEF Blocked, done
  <2>1. e[1] \in 1 .. N
    BY <1>1 DEF Edges, Edges_OneWay
  <2>2. e[1] \in rest
    BY <2>1
  <2>3. depth[i] <= depth[e[1]] /\ depth[e[1]] < depth[i]
    BY <1>3, <1>6, <2>2
  <2>4. depth[i] \in Nat /\ depth[e[1]] \in Nat
    BY <1>3, <2>1
  <2>5. QED BY <2>3, <2>4
<1>8. i \in Sources(env, Edges(env), order)
  BY <1>1, <1>7 DEF Sources, done
<1>9. QED BY <1>8

(* So the queue is emptied into an order of all variables.                 *)
LEMMA AllSorted ==
    ASSUME NEW env \in Listed, Sortable(env)
    PROVE  Ordered(env, SortedOrder(env)) /\ Len(SortedOrder(env)) = Len(env)
<1> DEFINE N == Len(env)
<1>1. PICK f \in [0 .. N -> Seq(DOMAIN env)] : Drains(env, f) /\ SortedOrder(env) = f[N]
  BY SortDrains
<1>2. N \in Nat /\ env \in Seq(Variables)
  BY DEF Listed
<1>3. f = [n \in 0 .. N |-> IF n = 0 THEN <<>> ELSE TakeSource(env, Edges(env), f[n - 1])]
  BY <1>1 DEF Drains
<1> DEFINE T == {n \in 0 .. N : Ordered(env, f[n]) /\ Len(f[n]) = n}
<1>4. 0 \in T
  <2>1. f[0] = << >>
    BY <1>2, <1>3
  <2>2. Ordered(env, << >>) /\ Len(<< >>) = 0
    BY DEF Ordered
  <2>3. QED BY <1>2, <2>1, <2>2
<1>5. ASSUME NEW n \in 0 .. N - 1, n \in T PROVE n + 1 \in T
  <2> DEFINE o == f[n]
             k == n + 1
  <2>1. k \in 0 .. N /\ k # 0 /\ k - 1 = n /\ Ordered(env, o) /\ Len(o) = n /\ n < N
    BY <1>2, <1>5
  <2>2. f[k] = TakeSource(env, Edges(env), o)
    BY <1>3, <2>1
  <2> HIDE DEF o
  <2>3. Sources(env, Edges(env), o) # {}
    BY <1>2, <2>1, SomeSource
  <2>4. PICK i \in Sources(env, Edges(env), o) : TakeSource(env, Edges(env), o) = Append(o, i)
    BY <2>3, TakesASource
  <2>5. Ordered(env, Append(o, i)) /\ Len(Append(o, i)) = Len(o) + 1
    BY <1>2, <2>1, StaysOrdered
  <2>6. Ordered(env, f[k]) /\ Len(f[k]) = k
    BY <2>1, <2>2, <2>4, <2>5
  <2> HIDE DEF k
  <2>7. QED BY <2>1, <2>6 DEF k
<1> HIDE DEF T, N
<1>6. \A n \in 0 .. N : n \in T
  BY <1>2, <1>4, <1>5, FromTo
<1>7. N \in T
  BY <1>2, <1>6
<1>8. QED BY <1>1, <1>7 DEF T, N

(* TopologicalSort neither loses nor duplicates a variable, and puts every *)
(* variable behind those it refers to, unless they refer back, whatever    *)
(* the variables are, as long as no cycle is left.                         *)
THEOREM SortIsTopological ==
    \A env \in Listed : Sortable(env) =>
        /\ Len(TopologicalSort(env)) = Len(env)
        /\ \E place \in Bijection(1 .. Len(env), 1 .. Len(env)) :
              \A i \in 1 .. Len(env) : TopologicalSort(env)[i] = env[place[i]]
        /\ \A i, j \in 1 .. Len(env) :
              DependsOn(TopologicalSort(env)[i], TopologicalSort(env)[j]) =>
                 j < i \/ DependsOn(TopologicalSort(env)[j], TopologicalSort(env)[i])
<1> SUFFICES ASSUME NEW env \in Listed, Sortable(env)
             PROVE  /\ Len(TopologicalSort(env)) = Len(env)
                    /\ \E place \in Bijection(1 .. Len(env), 1 .. Len(env)) :
                          \A i \in 1 .. Len(env) : TopologicalSort(env)[i] = env[place[i]]
                    /\ \A i, j \in 1 .. Len(env) :
                          DependsOn(TopologicalSort(env)[i], TopologicalSort(env)[j]) =>
                             j < i \/ DependsOn(TopologicalSort(env)[j], TopologicalSort(env)[i])
  OBVIOUS
<1> DEFINE N == Len(env)
           o == SortedOrder(env)
           s == TopologicalSort(env)
<1>1. N \in Nat /\ DOMAIN env = 1 .. N /\ env \in Seq(Variables)
  BY DEF Listed
<1>2. Ordered(env, o) /\ Len(o) = N
  BY AllSorted
<1>3. o \in Seq(1 .. N) /\ o \in [1 .. N -> 1 .. N]
  <2>1. o \in Seq(1 .. N)
    BY <1>1, <1>2 DEF Ordered
  <2> HIDE DEF o
  <2>2. QED BY <1>2, <2>1
<1>4. Len(s) = N /\ \A i \in 1 .. N : s[i] = env[o[i]]
  <2> DEFINE front == [i \in DOMAIN o |-> env[o[i]]]
             back == SubSeq(env, Len(o) + 1, Len(env))
  <2>1. s = front \o back
    BY DEF TopologicalSort
  <2> HIDE DEF o, s
  <2>2. front \in Seq(Variables) /\ Len(front) = N /\ \A i \in 1 .. N : front[i] = env[o[i]]
    <3>1. front \in [1 .. N -> Variables]
      BY <1>1, <1>3
    <3>2. DOMAIN o = 1 .. N
      BY <1>3
    <3> HIDE DEF N
    <3>3. QED BY <1>1, <3>1, <3>2
  <2>3. back \in Seq(Variables) /\ Len(back) = 0
    BY <1>1, <1>2
  <2> HIDE DEF front, back
  <2>4. QED BY <1>1, <2>1, <2>2, <2>3
<1> HIDE DEF o, s
<1>5. \A i, j \in 1 .. N : o[i] = o[j] => i = j
  BY <1>2 DEF Ordered
<1>6. o \in Bijection(1 .. N, 1 .. N)
  <2>1. o \in Injection(1 .. N, 1 .. N)
    BY <1>3, <1>5 DEF Injection, IsInjective
  <2>2. IsFiniteSet(1 .. N) /\ Cardinality(1 .. N) = N
    BY <1>1, FS_Interval
  <2>3. o \in Surjection(1 .. N, 1 .. N)
    BY <2>1, <2>2, FS_Injection
  <2>4. QED BY <2>1, <2>3 DEF Bijection
<1>7. ASSUME NEW i \in 1 .. N, NEW j \in 1 .. N, DependsOn(s[i], s[j]), ~DependsOn(s[j], s[i])
      PROVE  j < i
  <2> DEFINE a == o[i]
             b == o[j]
  <2>1. a \in 1 .. N /\ b \in 1 .. N /\ s[i] = env[a] /\ s[j] = env[b]
    BY <1>3, <1>4
  <2>2. DependsOn(env[a], env[b]) /\ ~DependsOn(env[b], env[a])
    BY <1>7, <2>1
  <2> HIDE DEF a, b
  <2>3. <<b, a>> \in Edges(env)
    <3>1. <<b, a>> \in (DOMAIN env) \X (DOMAIN env)
      BY <1>1, <2>1
    <3>2. CASE a <= b
      BY <2>2, <3>1, <3>2 DEF Edges, Edges_OneWay
    <3>3. CASE b <= a
      BY <2>2, <3>1, <3>3 DEF Edges
    <3>4. QED BY <2>1, <3>2, <3>3
  <2>4. PICK k \in 1 .. i - 1 : o[k] = b
    <3> DEFINE e == <<b, a>>
    <3>1. e \in Edges(env) /\ o[i] = e[2] /\ e[1] = b
      BY <2>3 DEF a
    <3> HIDE DEF e
    <3>2. \E k \in 1 .. i - 1 : o[k] = e[1]
      BY <1>2, <3>1 DEF Ordered
    <3>3. QED BY <3>1, <3>2
  <2>5. k \in 1 .. N
    BY <1>1
  <2>6. k = j
    BY <1>5, <2>4, <2>5 DEF b
  <2>7. QED BY <2>6
<1>8. QED BY <1>4, <1>6, <1>7 DEF s

(* And with a cycle it at least invents none.                              *)
LEMMA SortFrom ==
    ASSUME NEW env \in Listed
    PROVE  ToSet(TopologicalSort(env)) \subseteq ToSet(env)
<1> DEFINE N == Len(env)
           o == SortedOrder(env)
           s == TopologicalSort(env)
           front == [i \in DOMAIN o |-> env[o[i]]]
           back == SubSeq(env, Len(o) + 1, N)
           A == ToSet(env)
<1>1. N \in Nat /\ DOMAIN env = 1 .. N /\ env \in Seq(A)
  <2>1. env \in Seq(Variables)
    BY DEF Listed
  <2>2. N \in Nat /\ DOMAIN env = 1 .. N
    BY <2>1
  <2>3. \A i \in 1 .. N : env[i] \in A
    BY <2>2 DEF ToSet
  <2> HIDE DEF A
  <2>4. QED BY <2>1, <2>2, <2>3
<1> DEFINE D == 1 .. N
<1>2. o \in Seq(D)
  <2>1. PICK f \in [0 .. N -> Seq(DOMAIN env)] : o = f[N]
    BY SortDrains
  <2>2. QED BY <1>1, <2>1
<1>3. s = front \o back
  BY DEF TopologicalSort
<1> HIDE DEF o, s, A, N
<1>4. front \in Seq(A)
  <2> HIDE DEF D, front
  <2>1. Len(o) \in Nat /\ DOMAIN o = 1 .. Len(o)
    BY <1>2
  <2>8. \A i \in 1 .. Len(o) : o[i] \in D
    BY <1>2, <2>1
  <2> USE DEF front
  <2>2. \A i \in 1 .. Len(o) : o[i] \in 1 .. N
    BY <2>8 DEF D
  <2>3. \A i \in 1 .. N : env[i] \in A
    BY <1>1
  <2>4. front = [i \in 1 .. Len(o) |-> env[o[i]]]
    BY <2>1
  <2>5. \A i \in 1 .. Len(o) : env[o[i]] \in A
    BY <2>2, <2>3
  <2> HIDE DEF front
  <2>6. front \in [1 .. Len(o) -> A]
    BY <2>4, <2>5
  <2>7. QED BY <2>1, <2>6
<1>5. back \in Seq(A)
  <2> DEFINE m == Len(o) + 1
  <2>1. m \in Nat /\ m >= 1
    BY <1>2
  <2>2. \A i \in m .. N : env[i] \in A
    BY <1>1, <2>1
  <2> HIDE DEF m
  <2>3. SubSeq(env, m, N) \in Seq(A)
    BY <1>1, <2>1, <2>2
  <2>4. QED BY <2>3 DEF m
<1> HIDE DEF front, back
<1>6. s \in Seq(A)
  BY <1>3, <1>4, <1>5
<1>7. QED BY <1>6 DEF ToSet, s, A

-----------------------------------------------------------------------------
(* Merging.                                                                *)

Once(env, name) ==
    \A i, j \in 1 .. Len(env) : env[i].name = name /\ env[j].name = name => i = j

(* The least of some numbers is one of them.                               *)
LEMMA MinIsLeast ==
    ASSUME NEW S \in SUBSET Nat, S # {}
    PROVE  Min(S) \in S /\ \A y \in S : Min(S) <= y
<1>1. \E x \in S : \A y \in S : x <= y
  BY LeastNatural
<1>2. QED BY <1>1 DEF Min

(* Merging one variable.                                                   *)
LEMMA OneMerged ==
    ASSUME NEW env \in Seq(Variables), NEW v \in Variables, NEW m, m = MergeOne(env, v)
    PROVE  /\ m \in Seq(Variables) /\ Names(m) = Names(env) \cup {v.name}
           /\ \A x \in ToSet(m) : x = v \/ x \in ToSet(env)
           /\ \A name : Once(env, name) => Once(m, name)
           /\ Once(env, v.name) => \A x \in ToSet(m) : x.name = v.name => x = v
<1> DEFINE N == Len(env)
           hits == {i \in 1 .. N : env[i].name = v.name}
<1>1. N \in Nat /\ DOMAIN env = 1 .. N /\ \A i \in 1 .. N : env[i] \in Variables
  OBVIOUS
<1>2. Names(env) = {env[i].name : i \in 1 .. N} /\ ToSet(env) = {env[i] : i \in 1 .. N}
  BY <1>1 DEF Names, ToSet
<1>3. m = IF hits = {} THEN Append(env, v) ELSE [env EXCEPT ![Min(hits)] = v]
  BY <1>1 DEF MergeOne
<1>4. CASE hits = {}
  <2>1. \A i \in 1 .. N : env[i].name # v.name
    BY <1>4
  <2> HIDE DEF hits
  <2>2. m = Append(env, v)
    BY <1>3, <1>4
  <2>3. m \in Seq(Variables) /\ Len(m) = N + 1 /\ m[N + 1] = v /\ \A i \in 1 .. N : m[i] = env[i]
    BY <2>2
  <2>4. Names(m) = {m[i].name : i \in 1 .. N + 1} /\ ToSet(m) = {m[i] : i \in 1 .. N + 1}
    BY <2>3 DEF Names, ToSet
  <2>5. \A i \in 1 .. N + 1 : i = N + 1 \/ i \in 1 .. N
    BY <1>1
  <2>6. Names(m) = Names(env) \cup {v.name}
    <3>1. \A i \in 1 .. N + 1 : m[i].name \in Names(env) \cup {v.name}
      BY <1>2, <2>3, <2>5
    <3>2. N + 1 \in 1 .. N + 1 /\ \A i \in 1 .. N : i \in 1 .. N + 1
      BY <1>1
    <3>3. v.name \in Names(m) /\ \A i \in 1 .. N : env[i].name \in Names(m)
      BY <2>3, <2>4, <3>2
    <3>4. QED BY <1>2, <2>4, <3>1, <3>3
  <2>7. \A x \in ToSet(m) : x = v \/ x \in ToSet(env)
    BY <1>2, <2>3, <2>4, <2>5
  <2>8. ASSUME NEW name, Once(env, name) PROVE Once(m, name)
    <3> SUFFICES ASSUME NEW i \in 1 .. N + 1, NEW j \in 1 .. N + 1,
                        m[i].name = name, m[j].name = name
                 PROVE  i = j
      BY <2>3 DEF Once
    <3>1. CASE i \in 1 .. N /\ j \in 1 .. N
      BY <2>3, <2>8, <3>1 DEF Once
    <3>2. CASE ~(i \in 1 .. N /\ j \in 1 .. N)
      BY <2>1, <2>3, <2>5, <3>2
    <3>3. QED BY <3>1, <3>2
  <2>9. ASSUME NEW x \in ToSet(m), x.name = v.name PROVE x = v
    BY <2>1, <2>3, <2>4, <2>5, <2>9
  <2>10. QED BY <2>3, <2>6, <2>7, <2>8, <2>9
<1>5. CASE hits # {}
  <2> DEFINE h == Min(hits)
  <2>1. h \in 1 .. N /\ env[h].name = v.name
    <3>1. hits \in SUBSET Nat
      BY <1>1
    <3>2. h \in hits
      BY <1>5, <3>1, MinIsLeast
    <3>3. QED BY <3>2
  <2> HIDE DEF h, hits
  <2>2. m = [env EXCEPT ![h] = v]
    BY <1>3, <1>5 DEF h
  <2>3. m \in Seq(Variables) /\ Len(m) = N /\ m[h] = v /\ \A i \in 1 .. N : i # h => m[i] = env[i]
    BY <1>1, <2>1, <2>2
  <2>4. Names(m) = {m[i].name : i \in 1 .. N} /\ ToSet(m) = {m[i] : i \in 1 .. N}
    BY <2>3 DEF Names, ToSet
  <2>5. \A i \in 1 .. N : m[i].name = env[i].name
    BY <2>1, <2>3
  <2>6. Names(m) = Names(env) \cup {v.name}
    BY <1>2, <2>1, <2>4, <2>5
  <2>7. \A x \in ToSet(m) : x = v \/ x \in ToSet(env)
    BY <1>2, <2>3, <2>4
  <2>8. ASSUME NEW name, Once(env, name) PROVE Once(m, name)
    BY <2>3, <2>5, <2>8 DEF Once
  <2>9. ASSUME Once(env, v.name), NEW x \in ToSet(m), x.name = v.name PROVE x = v
    <3>1. PICK i \in 1 .. N : x = m[i]
      BY <2>4
    <3>2. env[i].name = v.name
      BY <2>5, <2>9, <3>1
    <3>3. i = h
      BY <2>1, <2>9, <3>2 DEF Once
    <3>4. QED BY <2>3, <3>1, <3>3
  <2>10. QED BY <2>3, <2>6, <2>7, <2>8, <2>9
<1>6. QED BY <1>4, <1>5

Merges(env, vs, f) ==
    f = [k \in 0 .. Len(vs) |-> IF k = 0 THEN env ELSE MergeOne(f[k - 1], vs[k])]

(* MergeAll is what its recursion says.                                    *)
LEMMA AllMerges ==
    ASSUME NEW env \in Seq(Variables), NEW vs \in Seq(Variables)
    PROVE  \E f : Merges(env, vs, f) /\ MergeAll(env, vs) = f[Len(vs)]
<1> DEFINE N == Len(vs)
           S == Seq(Variables)
           step == [x \in (1 .. N) \X S |-> MergeOne(x[2], vs[x[1]])]
           f == CHOOSE g : Merges(env, vs, g)
<1>1. N \in Nat /\ env \in S /\ \A k \in 1 .. N : vs[k] \in Variables
  OBVIOUS
<1>2. ASSUME NEW k \in 1 .. N, NEW o \in S PROVE MergeOne(o, vs[k]) \in S
  BY <1>1, OneMerged
<1>3. step \in [(1 .. N) \X S -> S]
  <2> HIDE DEF S
  <2>1. QED BY <1>2
<1> HIDE DEF step, S
<1>4. PICK g : IsRecursion(g, N, S, env, step)
  <2> HIDE DEF N, f
  <2>1. QED BY <1>1, <1>3, Recursion
<1>5. ASSUME NEW i \in 1 .. N PROVE g[i] = MergeOne(g[i - 1], vs[i])
  <2>1. g[i - 1] \in S
    BY <1>1, <1>4 DEF IsRecursion
  <2>2. step[<<i, g[i - 1]>>] = MergeOne(g[i - 1], vs[i])
    BY <2>1 DEF step
  <2>3. QED BY <1>4, <2>2 DEF IsRecursion
<1>6. Merges(env, vs, g)
  <2>1. g = [i \in 0 .. N |-> IF i = 0 THEN env ELSE MergeOne(g[i - 1], vs[i])]
    BY <1>1, <1>4, <1>5 DEF IsRecursion
  <2>2. QED BY <2>1 DEF Merges
<1>7. Merges(env, vs, f)
  BY <1>6
<1>8. MergeAll(env, vs) = f[N]
  BY DEF MergeAll, Merges
<1> HIDE DEF f
<1>9. QED BY <1>7, <1>8

(* What is merged later wins, and every other variable stays.              *)
LEMMA AllMerged ==
    ASSUME NEW env \in Seq(Variables), NEW vs \in Seq(Variables), NEW m, m = MergeAll(env, vs)
    PROVE  /\ m \in Seq(Variables) /\ Names(m) = Names(env) \cup Names(vs)
           /\ \A x \in ToSet(m) : x \in ToSet(env) \/ x \in ToSet(vs)
           /\ \A name : Once(env, name) =>
                 /\ Once(m, name)
                 /\ \A x \in ToSet(m) : x.name = name =>
                       IF name \in Names(vs) THEN x \in ToSet(vs) ELSE x \in ToSet(env)
<1> DEFINE N == Len(vs)
           Some(k) == {vs[i] : i \in 1 .. k}
           SomeNames(k) == {vs[i].name : i \in 1 .. k}
<1>1. N \in Nat /\ (\A k \in 1 .. N : vs[k] \in Variables)
      /\ ToSet(vs) = Some(N) /\ Names(vs) = SomeNames(N)
  <2>1. N \in Nat /\ DOMAIN vs = 1 .. N
    OBVIOUS
  <2>2. QED BY <2>1 DEF ToSet, Names
<1>2. PICK f : Merges(env, vs, f) /\ m = f[N]
  BY AllMerges
<1>3. f = [k \in 0 .. N |-> IF k = 0 THEN env ELSE MergeOne(f[k - 1], vs[k])]
  BY <1>2 DEF Merges
<1> DEFINE Done(k) ==
             /\ f[k] \in Seq(Variables) /\ Names(f[k]) = Names(env) \cup SomeNames(k)
             /\ \A x \in ToSet(f[k]) : x \in ToSet(env) \/ x \in Some(k)
             /\ \A name : Once(env, name) =>
                   /\ Once(f[k], name)
                   /\ \A x \in ToSet(f[k]) : x.name = name =>
                         IF name \in SomeNames(k) THEN x \in Some(k) ELSE x \in ToSet(env)
           T == {k \in 0 .. N : Done(k)}
<1>4. 0 \in T
  <2>1. f[0] = env
    BY <1>1, <1>3
  <2>2. Some(0) = {} /\ SomeNames(0) = {}
    OBVIOUS
  <2> HIDE DEF Some, SomeNames
  <2>3. Done(0)
    BY <2>1, <2>2
  <2> HIDE DEF Done
  <2>4. QED BY <1>1, <2>3
<1>5. ASSUME NEW k \in 0 .. N - 1, k \in T PROVE k + 1 \in T
  <2> DEFINE e == k + 1
             v == vs[e]
             o == f[k]
             n == f[e]
  <2>1. e \in 0 .. N /\ e \in 1 .. N /\ e # 0 /\ e - 1 = k
    BY <1>1, <1>5
  <2>2. n = MergeOne(o, v) /\ v \in Variables
    BY <1>1, <1>3, <2>1
  <2>3. Some(e) = Some(k) \cup {v} /\ SomeNames(e) = SomeNames(k) \cup {v.name}
    <3>1. \A i \in 1 .. e : i = e \/ i \in 1 .. k
      BY <1>1
    <3>2. e \in 1 .. e /\ \A i \in 1 .. k : i \in 1 .. e
      BY <1>1
    <3> HIDE DEF e
    <3>3. Some(e) = Some(k) \cup {v}
      BY <3>1, <3>2
    <3>4. SomeNames(e) = SomeNames(k) \cup {v.name}
      BY <3>1, <3>2
    <3>5. QED BY <3>3, <3>4
  <2>4. Done(k)
    BY <1>5
  <2> HIDE DEF Some, SomeNames, e, v, o, n
  <2>5. /\ o \in Seq(Variables) /\ Names(o) = Names(env) \cup SomeNames(k)
        /\ \A x \in ToSet(o) : x \in ToSet(env) \/ x \in Some(k)
        /\ \A name : Once(env, name) =>
              /\ Once(o, name)
              /\ \A x \in ToSet(o) : x.name = name =>
                    IF name \in SomeNames(k) THEN x \in Some(k) ELSE x \in ToSet(env)
    BY <2>4 DEF o
  <2> HIDE DEF Done
  <2>6. /\ n \in Seq(Variables) /\ Names(n) = Names(o) \cup {v.name}
        /\ \A x \in ToSet(n) : x = v \/ x \in ToSet(o)
        /\ \A name : Once(o, name) => Once(n, name)
        /\ Once(o, v.name) => \A x \in ToSet(n) : x.name = v.name => x = v
    BY <2>2, <2>5, OneMerged
  <2>7. Names(n) = Names(env) \cup SomeNames(e)
    BY <2>3, <2>5, <2>6
  <2>8. \A x \in ToSet(n) : x \in ToSet(env) \/ x \in Some(e)
    BY <2>3, <2>5, <2>6
  <2>9. ASSUME NEW name, Once(env, name)
        PROVE  /\ Once(n, name)
               /\ \A x \in ToSet(n) : x.name = name =>
                     IF name \in SomeNames(e) THEN x \in Some(e) ELSE x \in ToSet(env)
    <3>1. Once(o, name) /\ Once(n, name)
      BY <2>5, <2>6, <2>9
    <3>2. ASSUME NEW x \in ToSet(n), x.name = name
          PROVE  IF name \in SomeNames(e) THEN x \in Some(e) ELSE x \in ToSet(env)
      <4>1. CASE name = v.name
        <5>1. x = v
          BY <2>6, <3>1, <3>2, <4>1
        <5>2. QED BY <2>3, <4>1, <5>1
      <4>2. CASE name # v.name
        <5>1. x \in ToSet(o)
          BY <2>6, <3>2, <4>2
        <5>2. IF name \in SomeNames(k) THEN x \in Some(k) ELSE x \in ToSet(env)
          BY <2>5, <2>9, <3>2, <5>1
        <5>3. QED BY <2>3, <4>2, <5>2
      <4>3. QED BY <4>1, <4>2
    <3>3. QED BY <3>1, <3>2
  <2>10. Done(e)
    BY <2>6, <2>7, <2>8, <2>9 DEF Done, n
  <2>11. QED BY <2>1, <2>10 DEF e
<1> HIDE DEF T, N, Done
<1>6. \A k \in 0 .. N : k \in T
  BY <1>1, <1>4, <1>5, FromTo
<1>7. N \in T
  BY <1>1, <1>6
<1>8. Done(N)
  BY <1>7 DEF T
<1> HIDE DEF Some, SomeNames
<1>9. QED BY <1>1, <1>2, <1>8 DEF Done

-----------------------------------------------------------------------------
(* The lists that the operator generates.                                  *)

\* the variables of the operator that refer to others, and those they refer to
Referring == {"RW_ADVERTISE_ADDR", "RW_STATE_STORE", "RW_SQL_ENDPOINT", "RW_S3_ENDPOINT",
              "OSS_ENDPOINT", "OBS_ENDPOINT"}
Referred == {"POD_IP", "POD_NAME", "MINIO_USERNAME", "MINIO_PASSWORD",
             "RW_MYSQL_USERNAME", "RW_MYSQL_PASSWORD", "RW_POSTGRES_USERNAME",
             "RW_POSTGRES_PASSWORD", "AWS_REGION", "AWS_S3_BUCKET", "OSS_REGION", "OBS_REGION"}

\* every reference is to a name in R, and none is escaped
Leads(v, R) ==
    \A k \in DOMAIN v.refs :
       /\ v.refs[k].name \in R /\ ~v.refs[k].escaped
       /\ v.name \in Referring /\ v.refs[k].name \in Referred

\* every variable once, with a name in S, and references to R only
Piece(env, S, R) ==
    /\ env \in Seq(Variables) /\ EachOnce(env) /\ Names(env) \subseteq S
    /\ \A v \in ToSet(env) :
          v.by = "operator" /\ Leads(v, R)

LEMMA PieceOf ==
    ASSUME NEW S, NEW T, NEW R, NEW Q, NEW env, Piece(env, S, R), S \subseteq T, R \subseteq Q
    PROVE  Piece(env, T, Q)
BY DEF Piece, Leads

(* A variable of the operator.                                             *)
LEMMA OneVariable ==
    ASSUME NEW name \in STRING, NEW refs \in Seq([name : STRING, escaped : BOOLEAN]), NEW R,
           \A k \in DOMAIN refs : refs[k].name \in R \cap Referred /\ ~refs[k].escaped,
           name \in Referring
    PROVE  Piece(<<EnvVar(name, refs)>>, {name}, R) /\ Names(<<EnvVar(name, refs)>>) = {name}
<1> DEFINE v == EnvVar(name, refs)
<1>1. v \in Variables /\ v.name = name /\ v.by = "operator" /\ v.refs = refs
  BY DEF EnvVar, Variables
<1> HIDE DEF v
<1>2. <<v>> \in Seq(Variables) /\ EachOnce(<<v>>)
  BY <1>1 DEF EachOnce
<1>3. Names(<<v>>) = {name} /\ ToSet(<<v>>) = {v}
  BY <1>1 DEF Names, ToSet
<1>4. Leads(v, R)
  BY <1>1 DEF Leads
<1>5. QED BY <1>1, <1>2, <1>3, <1>4 DEF Piece, v

(* Variables without references.                                           *)
LEMMA PlainVariables ==
    ASSUME NEW names \in Seq(STRING),
           \A i, j \in DOMAIN names : names[i] = names[j] => i = j
    PROVE  (\A R : Piece(Plain(names), ToSet(names), R)) /\ Names(Plain(names)) = ToSet(names)
<1> DEFINE env == Plain(names)
           N == Len(names)
<1>1. N \in Nat /\ DOMAIN names = 1 .. N /\ \A i \in 1 .. N : names[i] \in STRING
  OBVIOUS
<1>2. \A i \in 1 .. N : EnvVar(names[i], <<>>) \in Variables
  BY <1>1 DEF EnvVar, Variables
<1>3. env = [i \in 1 .. N |-> EnvVar(names[i], <<>>)]
  BY <1>1 DEF Plain
<1>4. \A i \in 1 .. N : env[i].name = names[i] /\ env[i].by = "operator" /\ env[i].refs = <<>>
  BY <1>3 DEF EnvVar
<1> HIDE DEF env, N
<1>5. env \in [1 .. N -> Variables]
  BY <1>2, <1>3
<1>6. env \in Seq(Variables) /\ DOMAIN env = 1 .. N
  BY <1>1, <1>5
<1>7. EachOnce(env)
  BY <1>1, <1>4, <1>6 DEF EachOnce
<1>10. Names(env) = ToSet(names)
  BY <1>1, <1>4, <1>6 DEF Names, ToSet
<1>8. ASSUME NEW R, NEW v \in ToSet(env)
      PROVE  v.by = "operator" /\ Leads(v, R)
  <2>1. PICK i \in 1 .. N : v = env[i]
    BY <1>6 DEF ToSet
  <2>2. QED BY <1>4, <2>1 DEF Leads
<1>9. QED BY <1>6, <1>7, <1>8, <1>10 DEF Piece, env

LEMMA NoVariables == \A S, R : Piece(<<>>, S, R) /\ Names(<<>>) = {}
<1>1. <<>> \in Seq(Variables) /\ EachOnce(<<>>) /\ Names(<<>>) = {} /\ ToSet(<<>>) = {}
  BY DEF EachOnce, Names, ToSet
<1>2. QED BY <1>1 DEF Piece

(* One list behind another.                                                *)
LEMMA Behind ==
    ASSUME NEW a \in Seq(Variables), NEW b \in Seq(Variables)
    PROVE  /\ a \o b \in Seq(Variables)
           /\ Names(a \o b) = Names(a) \cup Names(b) /\ ToSet(a \o b) = ToSet(a) \cup ToSet(b)
           /\ \A name : Once(a, name) /\ name \notin Names(b) => Once(a \o b, name)
           /\ \A name : Once(b, name) /\ name \notin Names(a) => Once(a \o b, name)
<1> DEFINE M == Len(a)
           N == Len(b)
           c == a \o b
<1>1. /\ M \in Nat /\ N \in Nat /\ DOMAIN a = 1 .. M /\ DOMAIN b = 1 .. N
      /\ c \in Seq(Variables) /\ Len(c) = M + N /\ DOMAIN c = 1 .. M + N
  OBVIOUS
<1>2. /\ \A i \in 1 .. M : c[i] = a[i] /\ i \in 1 .. M + N
      /\ \A i \in 1 .. N : c[M + i] = b[i] /\ M + i \in 1 .. M + N
  BY <1>1
<1>3. \A i \in 1 .. M + N : i \in 1 .. M \/ \E j \in 1 .. N : i = M + j
  <2> SUFFICES ASSUME NEW i \in 1 .. M + N, i \notin 1 .. M PROVE \E j \in 1 .. N : i = M + j
    OBVIOUS
  <2>1. i - M \in 1 .. N /\ i = M + (i - M)
    BY <1>1
  <2>2. QED BY <2>1
<1> HIDE DEF c, M, N
<1>4. ToSet(c) = ToSet(a) \cup ToSet(b)
  <2>1. /\ ToSet(c) = {c[i] : i \in 1 .. M + N} /\ ToSet(a) = {a[i] : i \in 1 .. M}
        /\ ToSet(b) = {b[i] : i \in 1 .. N}
    BY <1>1 DEF ToSet
  <2>2. \A i \in 1 .. M + N : c[i] \in ToSet(a) \cup ToSet(b)
    BY <1>2, <1>3, <2>1
  <2>3. (\A i \in 1 .. M : a[i] \in ToSet(c)) /\ \A i \in 1 .. N : b[i] \in ToSet(c)
    BY <1>2, <2>1
  <2>4. QED BY <2>1, <2>2, <2>3
<1>5. Names(c) = Names(a) \cup Names(b)
  <2>1. /\ Names(c) = {c[i].name : i \in 1 .. M + N} /\ Names(a) = {a[i].name : i \in 1 .. M}
        /\ Names(b) = {b[i].name : i \in 1 .. N}
    BY <1>1 DEF Names
  <2>2. \A i \in 1 .. M + N : c[i].name \in Names(a) \cup Names(b)
    BY <1>2, <1>3, <2>1
  <2>3. (\A i \in 1 .. M : a[i].name \in Names(c)) /\ \A i \in 1 .. N : b[i].name \in Names(c)
    BY <1>2, <2>1
  <2>4. QED BY <2>1, <2>2, <2>3
<1>6. /\ \A i \in 1 .. M : c[i].name \in Names(a)
      /\ \A i \in 1 .. N : c[M + i].name \in Names(b)
  BY <1>1, <1>2 DEF Names
<1>7. ASSUME NEW name, Once(a, name), name \notin Names(b) PROVE Once(c, name)
  <2> SUFFICES ASSUME NEW i \in 1 .. M + N, NEW j \in 1 .. M + N, c[i].name = name, c[j].name = name
               PROVE  i = j
    BY <1>1 DEF Once
  <2>1. i \in 1 .. M /\ j \in 1 .. M
    BY <1>3, <1>6, <1>7
  <2>2. a[i].name = name /\ a[j].name = name
    BY <1>2, <2>1
  <2>3. QED BY <1>7, <2>1, <2>2 DEF Once, M
<1>8. ASSUME NEW name, Once(b, name), name \notin Names(a) PROVE Once(c, name)
  <2> SUFFICES ASSUME NEW i \in 1 .. M + N, NEW j \in 1 .. M + N, c[i].name = name, c[j].name = name
               PROVE  i = j
    BY <1>1 DEF Once
  <2>1. PICK x \in 1 .. N, y \in 1 .. N : i = M + x /\ j = M + y
    BY <1>3, <1>6, <1>8
  <2>2. b[x].name = name /\ b[y].name = name
    BY <1>2, <2>1
  <2>3. QED BY <1>8, <2>1, <2>2 DEF Once, N
<1>9. QED BY <1>1, <1>4, <1>5, <1>7, <1>8 DEF c

(* To name each variable once is to name every name once.                  *)
LEMMA OnceEach ==
    ASSUME NEW env \in Seq(Variables)
    PROVE  /\ EachOnce(env) <=> \A name : Once(env, name)
           /\ \A name : name \notin Names(env) => Once(env, name)
<1>1. DOMAIN env = 1 .. Len(env)
  OBVIOUS
<1>2. QED BY <1>1 DEF EachOnce, Once, Names

LEMMA PieceBehind ==
    ASSUME NEW S, NEW T, NEW R, NEW a, NEW b, Piece(a, S, R), Piece(b, T, R), S \cap T = {}
    PROVE  Piece(a \o b, S \cup T, R) /\ Names(a \o b) = Names(a) \cup Names(b)
<1>1. a \in Seq(Variables) /\ b \in Seq(Variables) /\ EachOnce(a) /\ EachOnce(b)
  BY DEF Piece
<1>2. /\ a \o b \in Seq(Variables)
      /\ Names(a \o b) = Names(a) \cup Names(b) /\ ToSet(a \o b) = ToSet(a) \cup ToSet(b)
      /\ \A name : Once(a, name) /\ name \notin Names(b) => Once(a \o b, name)
      /\ \A name : Once(b, name) /\ name \notin Names(a) => Once(a \o b, name)
  BY <1>1, Behind
<1>3. \A name : name \in Names(a) => name \notin Names(b)
  BY DEF Piece
<1>4. \A name : Once(a, name) /\ Once(b, name)
  BY <1>1, OnceEach
<1>5. \A name : Once(a \o b, name)
  BY <1>2, <1>3, <1>4
<1>6. EachOnce(a \o b)
  BY <1>2, <1>5, OnceEach
<1>7. QED BY <1>2, <1>6 DEF Piece

(* The names that the operator sets are strings.                           *)
LEMMA NamesAreStrings == OperatorNames \subseteq STRING
<1>1. OperatorNames \subseteq Alphabet
  BY FactoryAssumption
<1>2. Alphabet \subseteq STRING
  BY EnvNamesAssumption DEF Alphabet
<1>3. QED BY <1>1, <1>2

(* Short lists.                                                            *)
LEMMA Pairs ==
    ASSUME NEW S, NEW a \in S, NEW b \in S
    PROVE  <<a>> \in Seq(S) /\ <<a, b>> \in Seq(S)
OBVIOUS

LEMMA Plain1 ==
    ASSUME NEW a \in OperatorNames
    PROVE  (\A R : Piece(Plain(<<a>>), {a}, R)) /\ Names(Plain(<<a>>)) = {a}
<1> DEFINE s == <<a>>
<1>1. s \in Seq(STRING)
  BY NamesAreStrings, Pairs
<1>2. DOMAIN s = 1 .. 1 /\ s[1] = a
  OBVIOUS
<1> HIDE DEF s
<1>3. (\A i, j \in DOMAIN s : s[i] = s[j] => i = j) /\ ToSet(s) = {a}
  BY <1>2 DEF ToSet
<1>4. (\A R : Piece(Plain(s), ToSet(s), R)) /\ Names(Plain(s)) = ToSet(s)
  BY <1>1, <1>3, PlainVariables
<1>5. QED BY <1>3, <1>4 DEF s

LEMMA Plain2 ==
    ASSUME NEW a \in OperatorNames, NEW b \in OperatorNames, a # b
    PROVE  (\A R : Piece(Plain(<<a, b>>), {a, b}, R)) /\ Names(Plain(<<a, b>>)) = {a, b}
<1> DEFINE s == <<a, b>>
<1>1. s \in Seq(STRING)
  BY NamesAreStrings, Pairs
<1>2. DOMAIN s = 1 .. 2 /\ s[1] = a /\ s[2] = b
  OBVIOUS
<1> HIDE DEF s
<1>3. \A i, j \in DOMAIN s : s[i] = s[j] => i = j
  BY <1>2
<1>4. ToSet(s) = {a, b}
  BY <1>2 DEF ToSet
<1>5. (\A R : Piece(Plain(s), ToSet(s), R)) /\ Names(Plain(s)) = ToSet(s)
  BY <1>1, <1>3, PlainVariables
<1>6. QED BY <1>4, <1>5 DEF s

LEMMA Plain3 ==
    ASSUME NEW a \in OperatorNames, NEW b \in OperatorNames, NEW c \in OperatorNames,
           a # b, a # c, b # c
    PROVE  (\A R : Piece(Plain(<<a, b, c>>), {a, b, c}, R)) /\ Names(Plain(<<a, b, c>>)) = {a, b, c}
<1> DEFINE s == <<a, b, c>>
<1>1. ASSUME NEW S, a \in S, b \in S, c \in S PROVE s \in Seq(S)
  BY <1>1
<1>2. DOMAIN s = 1 .. 3 /\ s[1] = a /\ s[2] = b /\ s[3] = c
  OBVIOUS
<1> HIDE DEF s
<1>3. s \in Seq(STRING)
  BY <1>1, NamesAreStrings
<1>4. \A i, j \in DOMAIN s : s[i] = s[j] => i = j
  BY <1>2
<1>5. ToSet(s) = {a, b, c}
  BY <1>2 DEF ToSet
<1>6. (\A R : Piece(Plain(s), ToSet(s), R)) /\ Names(Plain(s)) = ToSet(s)
  BY <1>3, <1>4, PlainVariables
<1>7. QED BY <1>5, <1>6 DEF s

LEMMA Plain4 ==
    ASSUME NEW a \in OperatorNames, NEW b \in OperatorNames, NEW c \in OperatorNames,
           NEW d \in OperatorNames,
           a # b, a # c, a # d, b # c, b # d, c # d
    PROVE  /\ (\A R : Piece(Plain(<<a, b, c, d>>), {a, b, c, d}, R))
           /\ Names(Plain(<<a, b, c, d>>)) = {a, b, c, d}
<1> DEFINE s == <<a, b, c, d>>
<1>1. ASSUME NEW S, a \in S, b \in S, c \in S, d \in S PROVE s \in Seq(S)
  BY <1>1
<1>2. DOMAIN s = 1 .. 4 /\ s[1] = a /\ s[2] = b /\ s[3] = c /\ s[4] = d
  OBVIOUS
<1> HIDE DEF s
<1>3. s \in Seq(STRING)
  BY <1>1, NamesAreStrings
<1>4. \A i, j \in DOMAIN s : s[i] = s[j] => i = j
  BY <1>2
<1>5. ToSet(s) = {a, b, c, d}
  BY <1>2 DEF ToSet
<1>6. (\A R : Piece(Plain(s), ToSet(s), R)) /\ Names(Plain(s)) = ToSet(s)
  BY <1>3, <1>4, PlainVariables
<1>7. QED BY <1>5, <1>6 DEF s

\* variables with references that are not escaped
LEMMA Refers1 ==
    ASSUME NEW name \in OperatorNames, NEW a \in OperatorNames, NEW R, a \in R,
           name \in Referring, a \in Referred
    PROVE  /\ Piece(<<EnvVar(name, <<Ref(a)>>)>>, {name}, R)
           /\ Names(<<EnvVar(name, <<Ref(a)>>)>>) = {name}
<1> DEFINE refs == <<Ref(a)>>
<1>1. Ref(a) \in [name : STRING, escaped : BOOLEAN] /\ Ref(a).name = a /\ ~Ref(a).escaped
  BY NamesAreStrings DEF Ref
<1>2. refs \in Seq([name : STRING, escaped : BOOLEAN])
  BY <1>1, Pairs
<1>3. DOMAIN refs = 1 .. 1 /\ refs[1] = Ref(a)
  OBVIOUS
<1> HIDE DEF refs
<1>4. \A k \in DOMAIN refs : refs[k].name \in R \cap Referred /\ ~refs[k].escaped
  BY <1>1, <1>3
<1>5. Piece(<<EnvVar(name, refs)>>, {name}, R) /\ Names(<<EnvVar(name, refs)>>) = {name}
  BY <1>2, <1>4, NamesAreStrings, OneVariable
<1>6. QED BY <1>5 DEF refs

LEMMA Refers2 ==
    ASSUME NEW name \in OperatorNames, NEW a \in OperatorNames, NEW b \in OperatorNames, NEW R,
           a \in R, b \in R, name \in Referring, a \in Referred, b \in Referred
    PROVE  /\ Piece(<<EnvVar(name, <<Ref(a), Ref(b)>>)>>, {name}, R)
           /\ Names(<<EnvVar(name, <<Ref(a), Ref(b)>>)>>) = {name}
<1> DEFINE refs == <<Ref(a), Ref(b)>>
<1>1. /\ Ref(a) \in [name : STRING, escaped : BOOLEAN] /\ Ref(a).name = a /\ ~Ref(a).escaped
      /\ Ref(b) \in [name : STRING, escaped : BOOLEAN] /\ Ref(b).name = b /\ ~Ref(b).escaped
  BY NamesAreStrings DEF Ref
<1>2. refs \in Seq([name : STRING, escaped : BOOLEAN])
  BY <1>1, Pairs
<1>3. DOMAIN refs = 1 .. 2 /\ refs[1] = Ref(a) /\ refs[2] = Ref(b)
  OBVIOUS
<1> HIDE DEF refs
<1>4. \A k \in DOMAIN refs : refs[k].name \in R \cap Referred /\ ~refs[k].escaped
  BY <1>1, <1>3
<1>5. Piece(<<EnvVar(name, refs)>>, {name}, R) /\ Names(<<EnvVar(name, refs)>>) = {name}
  BY <1>2, <1>4, NamesAreStrings, OneVariable
<1>6. QED BY <1>5 DEF refs

-----------------------------------------------------------------------------
(* What reaches the stores.                                                *)

StoreNames ==
    {"MINIO_ENDPOINT", "MINIO_BUCKET", "MINIO_USERNAME", "MINIO_PASSWORD",
     "AWS_ACCESS_KEY_ID", "AWS_SECRET_ACCESS_KEY", "AWS_REGION", "AWS_S3_BUCKET",
     "AWS_EC2_METADATA_DISABLED", "RW_S3_ENDPOINT", "RW_IS_FORCE_PATH_STYLE", "GOOGLE_APPLICATION_CREDENTIALS",
     "OSS_REGION", "OSS_ACCESS_KEY_ID", "OSS_ACCESS_KEY_SECRET", "OSS_ENDPOINT",
     "AZBLOB_ENDPOINT", "AZBLOB_ACCOUNT_NAME", "AZBLOB_ACCOUNT_KEY",
     "OBS_REGION", "OBS_ENDPOINT", "OBS_ACCESS_KEY_ID", "OBS_SECRET_ACCESS_KEY"}

LEMMA StoreNamed == StoreNames \subseteq OperatorNames
BY DEF StoreNames, OperatorNames

LEMMA S3Piece ==
    ASSUME NEW state
    PROVE  Piece(envsForS3(state), StoreNames, Names(envsForS3(state)))
<1> DEFINE F == {"AWS_EC2_METADATA_DISABLED", "AWS_S3_BUCKET", "AWS_REGION"}
           R == {"AWS_REGION", "AWS_S3_BUCKET"}
           K == {"AWS_ACCESS_KEY_ID", "AWS_SECRET_ACCESS_KEY"}
           E == {"RW_S3_ENDPOINT"}
           P == {"RW_IS_FORCE_PATH_STYLE"}
           p == PathStyle(state)
<1>1. \A Q : Piece(S3Keys, K, Q) /\ Names(S3Keys) = K
  BY Plain2, StoreNamed DEF StoreNames, S3Keys
<1>a. \A Q : Piece(p, P, Q)
  <2> DEFINE on == Plain(<<"RW_IS_FORCE_PATH_STYLE">>)
  <2>1. P \subseteq OperatorNames
    BY DEF OperatorNames
  <2>2. \A Q : Piece(on, P, Q)
    BY <2>1, Plain1
  <2>3. \A Q : Piece(<<>>, P, Q)
    BY NoVariables
  <2>4. p = on \/ p = <<>>
    BY DEF PathStyle
  <2> HIDE DEF on, p, P
  <2>5. QED BY <2>2, <2>3, <2>4
<1>2. CASE state.endpoint
  <2> DEFINE a == Plain(<<"AWS_EC2_METADATA_DISABLED", "AWS_S3_BUCKET", "AWS_REGION">>)
             b == <<EnvVar("RW_S3_ENDPOINT", <<Ref("AWS_REGION"), Ref("AWS_S3_BUCKET")>>)>>
  <2>1. Piece(a, F, R) /\ Names(a) = F
    BY Plain3, StoreNamed DEF StoreNames
  <2>2. Piece(b, E, R)
    BY Refers2, StoreNamed DEF StoreNames, Referring, Referred
  <2>3. envsForS3(state) = ((a \o S3Keys) \o b) \o p
    BY <1>2 DEF envsForS3, envsForS3Compatible
  <2>4. /\ F \cap K = {} /\ (F \cup K) \cap E = {} /\ ((F \cup K) \cup E) \cap P = {}
        /\ ((F \cup K) \cup E) \cup P \subseteq StoreNames /\ R \subseteq F
    BY DEF StoreNames
  <2> HIDE DEF a, b, p, F, K, E, P, R
  <2>10. Piece(S3Keys, K, R)
    BY <1>1
  <2>5. Piece(a \o S3Keys, F \cup K, R)
    BY <2>1, <2>4, <2>10, PieceBehind
  <2>9. Names(a \o S3Keys) = Names(a) \cup Names(S3Keys)
    BY <2>1, <2>10, Behind DEF Piece
  <2> DEFINE ak == a \o S3Keys
             FK == F \cup K
  <2>15. Piece(ak, FK, R) /\ FK \cap E = {}
    BY <2>4, <2>5
  <2> HIDE DEF ak, FK
  <2>6. Piece(ak \o b, FK \cup E, R)
    BY <2>2, <2>15, PieceBehind
  <2>16. Names(ak \o b) = Names(ak) \cup Names(b)
    BY <2>2, <2>15, Behind DEF Piece
  <2>11. Piece(p, P, R)
    BY <1>a
  <2> DEFINE ab == ak \o b
             FKE == FK \cup E
  <2>12. Piece(ab, FKE, R) /\ Names(ab) = Names(a \o S3Keys) \cup Names(b)
    BY <2>6, <2>16 DEF ak
  <2>13. envsForS3(state) = ab \o p
    BY <2>3 DEF ak
  <2>17. FKE \cap P = {} /\ FKE \cup P \subseteq StoreNames
    BY <2>4 DEF FK
  <2> HIDE DEF ab, FKE
  <2>14. Piece(ab \o p, FKE \cup P, R)
    BY <2>11, <2>12, <2>17, PieceBehind
  <2>18. Names(ab \o p) = Names(ab) \cup Names(p)
    BY <2>11, <2>12, Behind DEF Piece
  <2>7. R \subseteq Names(envsForS3(state))
    BY <2>1, <2>4, <2>9, <2>12, <2>13, <2>18
  <2>8. QED BY <2>7, <2>13, <2>14, <2>17, PieceOf
<1>3. CASE ~state.endpoint
  <2> DEFINE a == Plain(<<"AWS_REGION", "AWS_S3_BUCKET">>)
             b == IF state.credentials = "identity" THEN <<>> ELSE S3Keys
  <2>1. Piece(a, R, {})
    BY Plain2, StoreNamed DEF StoreNames
  <2>2. Piece(b, K, {})
    BY <1>1, NoVariables
  <2>3. envsForS3(state) = (a \o b) \o p
    BY <1>3 DEF envsForS3, envsForAWSS3
  <2>4. R \cap K = {} /\ (R \cup K) \cap P = {} /\ (R \cup K) \cup P \subseteq StoreNames
    BY DEF StoreNames
  <2> HIDE DEF a, b, p, K, P, R
  <2>5. Piece(a \o b, R \cup K, {})
    BY <2>1, <2>2, <2>4, PieceBehind
  <2>6. Piece(p, P, {})
    BY <1>a
  <2> DEFINE ab == a \o b
  <2>7. Piece(ab, R \cup K, {}) /\ envsForS3(state) = ab \o p
    BY <2>3, <2>5
  <2> HIDE DEF ab
  <2>8. Piece(ab \o p, (R \cup K) \cup P, {})
    BY <2>4, <2>6, <2>7, PieceBehind
  <2>9. QED BY <2>4, <2>7, <2>8, PieceOf
<1>4. QED BY <1>2, <1>3

LEMMA OSSPiece == Piece(envsForAliyunOSS, StoreNames, Names(envsForAliyunOSS))
<1> DEFINE F == {"OSS_REGION", "OSS_ACCESS_KEY_ID", "OSS_ACCESS_KEY_SECRET"}
           R == {"OSS_REGION"}
           E == {"OSS_ENDPOINT"}
           a == Plain(<<"OSS_REGION", "OSS_ACCESS_KEY_ID", "OSS_ACCESS_KEY_SECRET">>)
           b == <<EnvVar("OSS_ENDPOINT", <<Ref("OSS_REGION")>>)>>
<1>1. Piece(a, F, R) /\ Names(a) = F
  BY Plain3, StoreNamed DEF StoreNames
<1>2. Piece(b, E, R)
  BY Refers1, StoreNamed DEF StoreNames, Referring, Referred
<1>3. envsForAliyunOSS = a \o b
  BY DEF envsForAliyunOSS
<1>4. F \cap E = {} /\ F \cup E \subseteq StoreNames /\ R \subseteq F
  BY DEF StoreNames
<1> HIDE DEF a, b, F, E, R
<1>5. Piece(a \o b, F \cup E, R)
  BY <1>1, <1>2, <1>4, PieceBehind
<1>8. Names(a \o b) = Names(a) \cup Names(b)
  BY <1>1, <1>2, Behind DEF Piece
<1>6. R \subseteq Names(envsForAliyunOSS)
  BY <1>1, <1>3, <1>4, <1>8
<1>7. QED BY <1>3, <1>4, <1>5, <1>6, PieceOf

LEMMA OBSPiece == Piece(envsForHuaweiCloudOBS, StoreNames, Names(envsForHuaweiCloudOBS))
<1> DEFINE R == {"OBS_REGION"}
           E == {"OBS_ENDPOINT"}
           K == {"OBS_ACCESS_KEY_ID", "OBS_SECRET_ACCESS_KEY"}
           a == Plain(<<"OBS_REGION">>)
           b == <<EnvVar("OBS_ENDPOINT", <<Ref("OBS_REGION")>>)>>
           c == Plain(<<"OBS_ACCESS_KEY_ID", "OBS_SECRET_ACCESS_KEY">>)
<1>1. Piece(a, R, R) /\ Names(a) = R
  BY Plain1, StoreNamed DEF StoreNames
<1>2. Piece(b, E, R)
  BY Refers1, StoreNamed DEF StoreNames, Referring, Referred
<1>3. Piece(c, K, R)
  BY Plain2, StoreNamed DEF StoreNames
<1>4. envsForHuaweiCloudOBS = (a \o b) \o c
  BY DEF envsForHuaweiCloudOBS
<1>5. R \cap E = {} /\ (R \cup E) \cap K = {} /\ (R \cup E) \cup K \subseteq StoreNames
  BY DEF StoreNames
<1> HIDE DEF a, b, c, E, K, R
<1>6. Piece(a \o b, R \cup E, R)
  BY <1>1, <1>2, <1>5, PieceBehind
<1>7. Piece((a \o b) \o c, (R \cup E) \cup K, R)
  BY <1>3, <1>5, <1>6, PieceBehind
<1>10. Names(a \o b) = Names(a) \cup Names(b)
  BY <1>1, <1>2, Behind DEF Piece
<1>11. Names((a \o b) \o c) = Names(a \o b) \cup Names(c)
  BY <1>3, <1>6, Behind DEF Piece
<1>8. R \subseteq Names(envsForHuaweiCloudOBS)
  BY <1>1, <1>4, <1>10, <1>11
<1>9. QED BY <1>4, <1>5, <1>7, <1>8, PieceOf

(* The variables of a state store refer to one another only.               *)
LEMMA StateStorePiece ==
    ASSUME NEW state
    PROVE  /\ Piece(envsForStateStore(state), StoreNames, Names(envsForStateStore(state)))
           /\ StateStoreOfEnvs(state) = "minio"
              => {"MINIO_USERNAME", "MINIO_PASSWORD"} \subseteq Names(envsForStateStore(state))
<1> DEFINE store == StateStoreOfEnvs(state)
           env == envsForStateStore(state)
<1>1. CASE store = "minio"
  <2> DEFINE S == {"MINIO_ENDPOINT", "MINIO_BUCKET", "MINIO_USERNAME", "MINIO_PASSWORD"}
  <2>1. env = Plain(<<"MINIO_ENDPOINT", "MINIO_BUCKET", "MINIO_USERNAME", "MINIO_PASSWORD">>)
    BY <1>1 DEF envsForStateStore, envsForMinIO
  <2> HIDE DEF env
  <2>2. Piece(env, S, {}) /\ Names(env) = S
    <3>1. Piece(env, S, {})
      BY <2>1, Plain4, StoreNamed DEF StoreNames
    <3>2. S \subseteq OperatorNames
      BY StoreNamed DEF StoreNames
    <3> DEFINE a == "MINIO_ENDPOINT"
               b == "MINIO_BUCKET"
               c == "MINIO_USERNAME"
               d == "MINIO_PASSWORD"
    <3>4. /\ a \in OperatorNames /\ b \in OperatorNames /\ c \in OperatorNames /\ d \in OperatorNames
          /\ a # b /\ a # c /\ a # d /\ b # c /\ b # d /\ c # d
      BY <3>2
    <3>5. env = Plain(<<a, b, c, d>>) /\ S = {a, b, c, d}
      BY <2>1
    <3> HIDE DEF S, a, b, c, d
    <3>6. Names(Plain(<<a, b, c, d>>)) = {a, b, c, d}
      BY <3>4, Plain4, ZenonT(30)
    <3>7. Names(env) = S
      BY <3>5, <3>6, Zenon
    <3>3. QED BY <3>1, <3>7
  <2>3. S \subseteq StoreNames /\ {"MINIO_USERNAME", "MINIO_PASSWORD"} \subseteq S
    BY DEF StoreNames
  <2> HIDE DEF S
  <2>4. Piece(env, StoreNames, Names(env))
    BY <2>2, <2>3, PieceOf
  <2>5. QED BY <2>2, <2>3, <2>4 DEF env
<1>2. CASE store = "s3"
  <2>1. env = envsForS3(state)
    BY <1>2 DEF envsForStateStore
  <2>2. QED BY <1>2, <2>1, S3Piece
<1>3. CASE store = "gcs"
  <2>1. env = IF state.credentials = "identity" THEN <<>>
              ELSE Plain(<<"GOOGLE_APPLICATION_CREDENTIALS">>)
    BY <1>3 DEF envsForStateStore, envsForGCS
  <2> HIDE DEF env
  <2>2. Piece(env, {"GOOGLE_APPLICATION_CREDENTIALS"}, {})
    BY <2>1, Plain1, NoVariables, StoreNamed DEF StoreNames
  <2>3. {"GOOGLE_APPLICATION_CREDENTIALS"} \subseteq StoreNames
    BY DEF StoreNames
  <2>4. Piece(env, StoreNames, Names(env))
    BY <2>2, <2>3, PieceOf
  <2>5. QED BY <1>3, <2>4 DEF env
<1>4. CASE store = "oss"
  <2>1. env = envsForAliyunOSS
    BY <1>4 DEF envsForStateStore
  <2>2. QED BY <1>4, <2>1, OSSPiece
<1>5. CASE store = "azure"
  <2> DEFINE E == {"AZBLOB_ENDPOINT"}
             K == {"AZBLOB_ACCOUNT_NAME", "AZBLOB_ACCOUNT_KEY"}
             a == Plain(<<"AZBLOB_ENDPOINT">>)
             b == IF state.credentials = "identity" THEN <<>>
                  ELSE Plain(<<"AZBLOB_ACCOUNT_NAME", "AZBLOB_ACCOUNT_KEY">>)
  <2>1. env = a \o b
    BY <1>5 DEF envsForStateStore, envsForAzureBlob
  <2>2. Piece(a, E, {})
    BY Plain1, StoreNamed DEF StoreNames
  <2>3. Piece(b, K, {})
    BY Plain2, NoVariables, StoreNamed DEF StoreNames
  <2>4. E \cap K = {} /\ E \cup K \subseteq StoreNames
    BY DEF StoreNames
  <2> HIDE DEF a, b, E, K
  <2>5. Piece(a \o b, E \cup K, {})
    BY <2>2, <2>3, <2>4, PieceBehind
  <2>6. QED BY <1>5, <2>1, <2>4, <2>5, PieceOf
<1>6. CASE store = "obs"
  <2>1. env = envsForHuaweiCloudOBS
    BY <1>6 DEF envsForStateStore
  <2>2. QED BY <1>6, <2>1, OBSPiece
<1>7. CASE store \notin {"minio", "s3", "gcs", "oss", "azure", "obs"}
  <2>1. env = <<>>
    BY <1>7 DEF envsForStateStore
  <2>2. QED BY <1>7, <2>1, NoVariables
<1>8. QED BY <1>1, <1>2, <1>3, <1>4, <1>5, <1>6, <1>7

(* What meta gets for its own store.                                       *)
MetaStoreNames ==
    {"ETCD_USERNAME", "ETCD_PASSWORD", "RW_ETCD_USERNAME", "RW_ETCD_PASSWORD",
     "RW_MYSQL_USERNAME", "RW_SQL_USERNAME", "RW_MYSQL_PASSWORD", "RW_SQL_PASSWORD",
     "RW_POSTGRES_USERNAME", "RW_POSTGRES_PASSWORD"}

LEMMA MetaStoreNamed == MetaStoreNames \subseteq OperatorNames
BY DEF MetaStoreNames, OperatorNames

LEMMA Four ==
    ASSUME NEW a \in OperatorNames, NEW b \in OperatorNames, NEW c \in OperatorNames,
           NEW d \in OperatorNames, NEW S, NEW env,
           a # b, a # c, a # d, b # c, b # d, c # d,
           env = Plain(<<a, b, c, d>>), {a, b, c, d} \subseteq S
    PROVE  Piece(env, S, {}) /\ {a, b, c, d} \subseteq Names(env)
<1> DEFINE T == {a, b, c, d}
<1>1. Names(env) = T
  <2>1. Names(Plain(<<a, b, c, d>>)) = {a, b, c, d}
    BY Plain4, ZenonT(30)
  <2>2. QED BY <2>1, Zenon
<1>2. Piece(env, T, {})
  BY Plain4
<1>3. T \subseteq S
  OBVIOUS
<1> HIDE DEF T
<1>4. Piece(env, S, {}) /\ T \subseteq Names(env)
  BY <1>1, <1>2, <1>3, PieceOf
<1>5. QED BY <1>4 DEF T

LEMMA MetaStorePiece ==
    ASSUME NEW meta
    PROVE  /\ Piece(envsForMetaStore(meta), MetaStoreNames, {})
           /\ MetaStoreOfEnvs(meta) = "mysql"
              => {"RW_MYSQL_USERNAME", "RW_MYSQL_PASSWORD"} \subseteq Names(envsForMetaStore(meta))
           /\ MetaStoreOfEnvs(meta) = "postgresql"
              => {"RW_POSTGRES_USERNAME", "RW_POSTGRES_PASSWORD"}
                    \subseteq Names(envsForMetaStore(meta))
           /\ MetaStoreOfEnvs(meta) = "etcd" /\ meta.auth
              => {"RW_ETCD_USERNAME", "RW_ETCD_PASSWORD"} \subseteq Names(envsForMetaStore(meta))
<1> DEFINE store == MetaStoreOfEnvs(meta)
           env == envsForMetaStore(meta)
<1>1. CASE store = "etcd" /\ meta.auth
  <2> DEFINE a == "ETCD_USERNAME"
             b == "ETCD_PASSWORD"
             c == "RW_ETCD_USERNAME"
             d == "RW_ETCD_PASSWORD"
  <2>1. env = Plain(<<a, b, c, d>>)
    BY <1>1 DEF envsForMetaStore, envsForEtcd
  <2>2. {a, b, c, d} \subseteq MetaStoreNames
    BY DEF MetaStoreNames
  <2>3. a # b /\ a # c /\ a # d /\ b # c /\ b # d /\ c # d
    OBVIOUS
  <2> HIDE DEF a, b, c, d, env
  <2>4. Piece(env, MetaStoreNames, {}) /\ {a, b, c, d} \subseteq Names(env)
    BY <2>1, <2>2, <2>3, MetaStoreNamed, Four
  <2>5. QED BY <1>1, <2>4 DEF c, d, env
<1>2. CASE store = "etcd" /\ ~meta.auth
  <2>1. env = <<>>
    BY <1>2 DEF envsForMetaStore, envsForEtcd
  <2>2. QED BY <1>2, <2>1, NoVariables
<1>3. CASE store = "mysql"
  <2> DEFINE a == "RW_MYSQL_USERNAME"
             b == "RW_SQL_USERNAME"
             c == "RW_MYSQL_PASSWORD"
             d == "RW_SQL_PASSWORD"
  <2>1. env = Plain(<<a, b, c, d>>)
    BY <1>3 DEF envsForMetaStore, envsForMySQL
  <2>2. {a, b, c, d} \subseteq MetaStoreNames
    BY DEF MetaStoreNames
  <2>3. a # b /\ a # c /\ a # d /\ b # c /\ b # d /\ c # d
    OBVIOUS
  <2> HIDE DEF a, b, c, d, env
  <2>4. Piece(env, MetaStoreNames, {}) /\ {a, b, c, d} \subseteq Names(env)
    BY <2>1, <2>2, <2>3, MetaStoreNamed, Four
  <2>5. QED BY <1>3, <2>4 DEF a, c, env
<1>4. CASE store = "postgresql"
  <2> DEFINE a == "RW_POSTGRES_USERNAME"
             b == "RW_POSTGRES_PASSWORD"
             c == "RW_SQL_USERNAME"
             d == "RW_SQL_PASSWORD"
  <2>1. env = Plain(<<a, b, c, d>>)
    BY <1>4 DEF envsForMetaStore, envsForPostgreSQL
  <2>2. {a, b, c, d} \subseteq MetaStoreNames
    BY DEF MetaStoreNames
  <2>3. a # b /\ a # c /\ a # d /\ b # c /\ b # d /\ c # d
    OBVIOUS
  <2> HIDE DEF a, b, c, d, env
  <2>4. Piece(env, MetaStoreNames, {}) /\ {a, b, c, d} \subseteq Names(env)
    BY <2>1, <2>2, <2>3, MetaStoreNamed, Four
  <2>5. QED BY <1>4, <2>4 DEF a, b, env
<1>5. CASE store \notin {"etcd", "mysql", "postgresql"}
  <2>1. env = <<>>
    BY <1>5 DEF envsForMetaStore
  <2>2. QED BY <1>5, <2>1, NoVariables
<1>6. QED BY <1>1, <1>2, <1>3, <1>4, <1>5

-----------------------------------------------------------------------------
(* What meta and the standalone get to start with.                         *)

BackendNames ==
    {"RW_BACKEND", "RW_ETCD_ENDPOINTS", "RW_ETCD_AUTH", "RW_SQL_ENDPOINT", "RW_SQL_DATABASE"}

LEMMA BackendNamed == BackendNames \subseteq OperatorNames
BY DEF BackendNames, OperatorNames

LEMMA OnePlusOne == ASSUME NEW v, NEW w PROVE <<v>> \o <<w>> = <<v, w>>
<1> DEFINE S == {v, w}
<1>1. v \in S /\ w \in S
  OBVIOUS
<1> HIDE DEF S
<1>2. <<v>> \in Seq(S)
  BY <1>1
<1>3. \A s \in Seq(S) : s \o <<w>> = Append(s, w)
  BY <1>1
<1>4. <<v, w>> = Append(<<v>>, w)
  OBVIOUS
<1>5. QED BY <1>2, <1>3, <1>4

LEMMA SQLPiece ==
    ASSUME NEW spec, NEW u \in OperatorNames, NEW p \in OperatorNames, NEW R, u \in R, p \in R,
           u \in Referred, p \in Referred
    PROVE  Piece(SQLEndpoint(spec, u, p), BackendNames, R) /\ "RW_BACKEND" \in Names(SQLEndpoint(spec, u, p))
<1> DEFINE env == SQLEndpoint(spec, u, p)
           x == "RW_BACKEND"
           y == "RW_SQL_ENDPOINT"
           z == "RW_SQL_DATABASE"
<1>1. {x, y, z} \subseteq BackendNames /\ x # y /\ x # z /\ y # z /\ y \in Referring
  BY DEF BackendNames, Referring
<1>2. CASE isSQLCredentialsViaEnvSupported(spec)
  <2>1. env = Plain(<<x, y, z>>)
    BY <1>2 DEF SQLEndpoint
  <2> HIDE DEF env, x, y, z
  <2>2. Piece(Plain(<<x, y, z>>), {x, y, z}, R)
    BY <1>1, BackendNamed, Plain3
  <2>3. Names(Plain(<<x, y, z>>)) = {x, y, z}
    BY <1>1, BackendNamed, Plain3
  <2>4. Piece(env, BackendNames, R)
    BY <1>1, <2>1, <2>2, PieceOf
  <2>5. x \in Names(env)
    BY <2>1, <2>3
  <2>6. QED BY <2>4, <2>5 DEF env, x
<1>3. CASE ~isSQLCredentialsViaEnvSupported(spec)
  <2> DEFINE v == EnvVar(x, <<>>)
             w == EnvVar(y, <<Ref(u), Ref(p)>>)
  <2>1. env = <<v, w>>
    BY <1>3 DEF SQLEndpoint
  <2> HIDE DEF env, x, y, z
  <2>2. Piece(Plain(<<x>>), {x}, R) /\ Names(Plain(<<x>>)) = {x}
    BY <1>1, BackendNamed, Plain1
  <2>3. Piece(<<w>>, {y}, R)
    BY <1>1, BackendNamed, Refers2
  <2>4. Plain(<<x>>) = <<v>>
    BY DEF Plain
  <2>5. env = Plain(<<x>>) \o <<w>>
    <3> HIDE DEF v, w
    <3>1. <<v>> \o <<w>> = <<v, w>>
      BY OnePlusOne
    <3>2. QED BY <2>1, <2>4, <3>1
  <2> HIDE DEF w
  <2>6. {x} \cap {y} = {}
    BY <1>1
  <2>7. Piece(Plain(<<x>>) \o <<w>>, {x} \cup {y}, R)
    BY <2>2, <2>3, <2>6, PieceBehind
  <2>8. Names(Plain(<<x>>) \o <<w>>) = Names(Plain(<<x>>)) \cup Names(<<w>>)
    BY <2>2, <2>3, Behind DEF Piece
  <2>9. {x} \cup {y} \subseteq BackendNames
    BY <1>1
  <2>10. Piece(env, BackendNames, R)
    BY <2>5, <2>7, <2>9, PieceOf
  <2>11. x \in Names(env)
    BY <2>2, <2>5, <2>8
  <2>12. QED BY <2>10, <2>11 DEF env, x
<1>4. QED BY <1>2, <1>3

LEMMA TwoPlus ==
    ASSUME NEW a, NEW b, NEW c
    PROVE  <<a, b>> \o <<c>> = <<a, b, c>> /\ <<a, b>> \o <<>> = <<a, b>>
<1> DEFINE S == {a, b, c}
<1>1. a \in S /\ b \in S /\ c \in S
  OBVIOUS
<1> HIDE DEF S
<1>2. <<a, b>> \in Seq(S)
  BY <1>1
<1>3. \A s \in Seq(S) : s \o <<c>> = Append(s, c) /\ s \o <<>> = s
  BY <1>1
<1>4. <<a, b, c>> = Append(<<a, b>>, c)
  OBVIOUS
<1>5. QED BY <1>2, <1>3, <1>4

(* What meta refers to is given to it with its store.                      *)
LEMMA BackendPiece ==
    ASSUME NEW spec
    PROVE  /\ Piece(BackendEnvs(spec), BackendNames, Names(envsForMetaStore(spec.meta)))
           /\ "RW_BACKEND" \in Names(BackendEnvs(spec))
           /\ MetaStoreOfCoreEnvs(spec.meta) = "etcd"
              => "RW_ETCD_ENDPOINTS" \in Names(BackendEnvs(spec))
<1> DEFINE store == MetaStoreOfCoreEnvs(spec.meta)
           env == BackendEnvs(spec)
           R == Names(envsForMetaStore(spec.meta))
           x == "RW_BACKEND"
<1>1. store = MetaStoreOfEnvs(spec.meta)
  BY DEF MetaStoreOfCoreEnvs, MetaStoreOfEnvs
<1>2. x \in BackendNames
  BY DEF BackendNames
<1>3. CASE store = "etcd"
  <2> DEFINE y == "RW_ETCD_ENDPOINTS"
             z == "RW_ETCD_AUTH"
             names == <<x, y>> \o IF spec.meta.auth THEN <<z>> ELSE <<>>
  <2>1. env = Plain(names)
    BY <1>3 DEF BackendEnvs
  <2>2. {x, y, z} \subseteq BackendNames /\ x # y /\ x # z /\ y # z
    BY DEF BackendNames
  <2>3. names = <<x, y, z>> \/ names = <<x, y>>
    BY TwoPlus
  <2> HIDE DEF x, y, z, names, env
  <2>4. Piece(env, BackendNames, R) /\ x \in Names(env) /\ y \in Names(env)
    <3>1. CASE names = <<x, y, z>>
      <4>1. Piece(Plain(<<x, y, z>>), {x, y, z}, R)
        BY <2>2, BackendNamed, Plain3
      <4>2. Names(Plain(<<x, y, z>>)) = {x, y, z}
        BY <2>2, BackendNamed, Plain3
      <4>3. Piece(env, BackendNames, R)
        BY <2>1, <2>2, <3>1, <4>1, PieceOf
      <4>4. QED BY <2>1, <3>1, <4>2, <4>3
    <3>2. CASE names = <<x, y>>
      <4>1. Piece(Plain(<<x, y>>), {x, y}, R)
        BY <2>2, BackendNamed, Plain2
      <4>2. Names(Plain(<<x, y>>)) = {x, y}
        BY <2>2, BackendNamed, Plain2
      <4>3. Piece(env, BackendNames, R)
        BY <2>1, <2>2, <3>2, <4>1, PieceOf
      <4>4. QED BY <2>1, <3>2, <4>2, <4>3
    <3>3. QED BY <2>3, <3>1, <3>2
  <2>5. QED BY <2>4 DEF env, x, y
<1>4. CASE store = "sqlite"
  <2> DEFINE y == "RW_SQL_ENDPOINT"
  <2>1. env = Plain(<<x, y>>)
    BY <1>4 DEF BackendEnvs
  <2>2. {x, y} \subseteq BackendNames /\ x # y
    BY DEF BackendNames
  <2> HIDE DEF x, y, env
  <2>3. Piece(Plain(<<x, y>>), {x, y}, R)
    BY <2>2, BackendNamed, Plain2
  <2>4. Names(Plain(<<x, y>>)) = {x, y}
    BY <2>2, BackendNamed, Plain2
  <2>5. Piece(env, BackendNames, R)
    BY <2>1, <2>2, <2>3, PieceOf
  <2>6. x \in Names(env)
    BY <2>1, <2>4
  <2>7. QED BY <1>4, <2>5, <2>6 DEF env, x
<1>5. CASE store = "mysql"
  <2> DEFINE u == "RW_MYSQL_USERNAME"
             p == "RW_MYSQL_PASSWORD"
  <2>1. env = SQLEndpoint(spec, u, p)
    BY <1>5 DEF BackendEnvs
  <2>2. u \in R /\ p \in R
    BY <1>1, <1>5, MetaStorePiece
  <2>3. u \in OperatorNames /\ p \in OperatorNames /\ u \in Referred /\ p \in Referred
    BY DEF OperatorNames, Referred
  <2> HIDE DEF env, u, p, R
  <2>4. Piece(env, BackendNames, R) /\ x \in Names(env)
    BY <2>1, <2>2, <2>3, SQLPiece
  <2>5. QED BY <1>5, <2>4 DEF env, R
<1>6. CASE store = "postgresql"
  <2> DEFINE u == "RW_POSTGRES_USERNAME"
             p == "RW_POSTGRES_PASSWORD"
  <2>1. env = SQLEndpoint(spec, u, p)
    BY <1>6 DEF BackendEnvs
  <2>2. u \in R /\ p \in R
    BY <1>1, <1>6, MetaStorePiece
  <2>3. u \in OperatorNames /\ p \in OperatorNames /\ u \in Referred /\ p \in Referred
    BY DEF OperatorNames, Referred
  <2> HIDE DEF env, u, p, R
  <2>4. Piece(env, BackendNames, R) /\ x \in Names(env)
    BY <2>1, <2>2, <2>3, SQLPiece
  <2>5. QED BY <1>6, <2>4 DEF env, R
<1>7. CASE store \notin {"etcd", "sqlite", "mysql", "postgresql"}
  <2>1. env = Plain(<<x>>)
    BY <1>7 DEF BackendEnvs
  <2> HIDE DEF x, env
  <2>2. Piece(Plain(<<x>>), {x}, R) /\ Names(Plain(<<x>>)) = {x}
    BY <1>2, BackendNamed, Plain1
  <2>3. {x} \subseteq BackendNames
    BY <1>2
  <2>4. Piece(env, BackendNames, R)
    BY <2>1, <2>2, <2>3, PieceOf
  <2>5. x \in Names(env)
    BY <2>1, <2>2
  <2>6. QED BY <1>7, <2>4, <2>5 DEF env, x
<1>8. QED BY <1>3, <1>4, <1>5, <1>6, <1>7

LicenseNames == {"RW_LICENSE_KEY_PATH", "RW_LICENSE_KEY"}

(* The path of the license is given where the license is mounted.          *)
LEMMA LicensePiece ==
    ASSUME NEW spec \in Specs
    PROVE  /\ \A R : Piece(envsForLicenseKey(spec), LicenseNames, R)
           /\ "RW_LICENSE_KEY_PATH" \in Names(envsForLicenseKey(spec)) => MountsLicense(spec)
<1> DEFINE env == envsForLicenseKey(spec)
           x == "RW_LICENSE_KEY_PATH"
           y == "RW_LICENSE_KEY"
<1>1. x \in OperatorNames /\ y \in OperatorNames /\ x # y /\ {x} \subseteq LicenseNames /\ {y} \subseteq LicenseNames
  BY DEF OperatorNames, LicenseNames
<1>2. CASE spec.license = "none"
  <2>1. env = <<>>
    BY <1>2 DEF envsForLicenseKey, useLicenseFile
  <2>2. QED BY <2>1, NoVariables
<1>3. CASE spec.license # "none" /\ useLicenseFile(spec)
  <2>1. env = Plain(<<x>>)
    BY <1>3 DEF envsForLicenseKey
  <2>2. MountsLicense(spec)
    BY <1>3 DEF MountsLicense
  <2> HIDE DEF x, y, env
  <2>3. ASSUME NEW R PROVE Piece(env, LicenseNames, R)
    <3>1. Piece(env, {x}, R)
      BY <1>1, <2>1, Plain1
    <3>2. QED BY <1>1, <3>1, PieceOf
  <2>4. QED BY <2>2, <2>3 DEF env
<1>4. CASE spec.license # "none" /\ ~useLicenseFile(spec)
  <2>1. env = Plain(<<y>>)
    BY <1>4 DEF envsForLicenseKey
  <2> HIDE DEF x, y, env
  <2>2. ASSUME NEW R PROVE Piece(env, LicenseNames, R)
    <3>1. Piece(env, {y}, R)
      BY <1>1, <2>1, Plain1
    <3>2. QED BY <1>1, <3>1, PieceOf
  <2>3. Names(env) = {y}
    BY <1>1, <2>1, Plain1
  <2>4. x \notin Names(env)
    BY <1>1, <2>3
  <2>5. QED BY <2>2, <2>4 DEF env, x
<1>5. QED BY <1>2, <1>3, <1>4

SecretNames == {"RW_SECRET_STORE_PRIVATE_KEY_HEX"}

LEMMA SecretPiece ==
    ASSUME NEW spec, NEW R PROVE Piece(envsForSecretStore(spec), SecretNames, R)
<1> DEFINE x == "RW_SECRET_STORE_PRIVATE_KEY_HEX"
<1>1. x \in OperatorNames
  BY DEF OperatorNames
<1>2. envsForSecretStore(spec) = <<>> \/ envsForSecretStore(spec) = Plain(<<x>>)
  BY DEF envsForSecretStore
<1>3. SecretNames = {x}
  BY DEF SecretNames
<1> HIDE DEF x
<1>4. Piece(Plain(<<x>>), {x}, R)
  BY <1>1, Plain1
<1>5. QED BY <1>2, <1>3, <1>4, NoVariables

CoreFront == {"RW_STATE_STORE", "RW_DATA_DIRECTORY", "RW_DASHBOARD_HOST"}
CoreNames == ((CoreFront \cup BackendNames) \cup LicenseNames) \cup SecretNames

\* what the variables of the stores define
Stores(spec) == Names(envsForStateStore(spec.state)) \cup Names(envsForMetaStore(spec.meta))

(* A connection string refers to the variables of its store only.          *)
LEMMA CoreFrontPiece ==
    ASSUME NEW spec, hummockConnectionStr(spec.state) = "minio" => StateStoreOfEnvs(spec.state) = "minio"
    PROVE  LET front == <<EnvVar("RW_STATE_STORE", StateStoreRefs(spec))>>
                           \o Plain(<<"RW_DATA_DIRECTORY", "RW_DASHBOARD_HOST">>)
           IN  /\ Piece(front, CoreFront, Stores(spec))
               /\ {"RW_STATE_STORE", "RW_DATA_DIRECTORY"} \subseteq Names(front)
<1> DEFINE x == "RW_STATE_STORE"
           y == "RW_DATA_DIRECTORY"
           z == "RW_DASHBOARD_HOST"
           a == <<EnvVar(x, StateStoreRefs(spec))>>
           b == Plain(<<y, z>>)
           R == Stores(spec)
<1>1. {x, y, z} \subseteq OperatorNames /\ x # y /\ x # z /\ y # z
  BY DEF OperatorNames
<1>2. CoreFront = {x, y, z}
  BY DEF CoreFront
<1>3. Piece(a, {x}, R) /\ x \in Names(a)
  <2>1. CASE hummockConnectionStr(spec.state) = "minio"
    <3> DEFINE u == "MINIO_USERNAME"
               p == "MINIO_PASSWORD"
    <3>1. u \in R /\ p \in R
      BY <2>1, StateStorePiece DEF Stores
    <3>2. /\ u \in OperatorNames /\ p \in OperatorNames
          /\ x \in Referring /\ u \in Referred /\ p \in Referred
      BY DEF OperatorNames, Referring, Referred
    <3>3. a = <<EnvVar(x, <<Ref(u), Ref(p)>>)>>
      BY <2>1 DEF StateStoreRefs
    <3> HIDE DEF u, p, a, x, y, z, R
    <3>4. Piece(a, {x}, R)
      BY <1>1, <3>1, <3>2, <3>3, Refers2
    <3>5. Names(<<EnvVar(x, <<Ref(u), Ref(p)>>)>>) = {x}
      BY <1>1, <3>1, <3>2, Refers2
    <3>6. QED BY <3>3, <3>4, <3>5
  <2>2. CASE hummockConnectionStr(spec.state) # "minio"
    <3>1. a = <<EnvVar(x, <<>>)>>
      BY <2>2 DEF StateStoreRefs
    <3> HIDE DEF a, x, y, z, R
    <3>2. <<EnvVar(x, <<>>)>> = Plain(<<x>>)
      BY DEF Plain
    <3>3. Piece(Plain(<<x>>), {x}, R) /\ Names(Plain(<<x>>)) = {x}
      BY <1>1, Plain1
    <3>4. QED BY <3>1, <3>2, <3>3
  <2>3. QED BY <2>1, <2>2
<1> HIDE DEF x, y, z, R
<1>4. Piece(b, {y, z}, R)
  BY <1>1, Plain2
<1>5. Names(b) = {y, z}
  BY <1>1, Plain2
<1>6. {x} \cap {y, z} = {} /\ {x} \cup {y, z} \subseteq CoreFront
  BY <1>1, <1>2
<1> HIDE DEF a, b
<1>7. Piece(a \o b, {x} \cup {y, z}, R)
  BY <1>3, <1>4, <1>6, PieceBehind
<1>8. Piece(a \o b, CoreFront, R)
  BY <1>6, <1>7, PieceOf
<1>9. Names(a \o b) = Names(a) \cup Names(b)
  BY <1>3, <1>4, Behind DEF Piece
<1>10. x \in Names(a \o b) /\ y \in Names(a \o b)
  BY <1>3, <1>5, <1>9
<1>11. QED BY <1>8, <1>10 DEF a, b, x, y, z, R

LEMMA CorePiece ==
    ASSUME NEW spec \in Specs,
           hummockConnectionStr(spec.state) = "minio" => StateStoreOfEnvs(spec.state) = "minio"
    PROVE  /\ Piece(coreEnvsForMeta(spec), CoreNames, Stores(spec))
           /\ {"RW_STATE_STORE", "RW_DATA_DIRECTORY", "RW_BACKEND"} \subseteq Names(coreEnvsForMeta(spec))
           /\ MetaStoreOfCoreEnvs(spec.meta) = "etcd"
              => "RW_ETCD_ENDPOINTS" \in Names(coreEnvsForMeta(spec))
           /\ "RW_LICENSE_KEY_PATH" \in Names(coreEnvsForMeta(spec)) => MountsLicense(spec)
<1> DEFINE a == <<EnvVar("RW_STATE_STORE", StateStoreRefs(spec))>>
                   \o Plain(<<"RW_DATA_DIRECTORY", "RW_DASHBOARD_HOST">>)
           b == BackendEnvs(spec)
           c == envsForLicenseKey(spec)
           d == envsForSecretStore(spec)
           R == Stores(spec)
<1>1. coreEnvsForMeta(spec) = ((a \o b) \o c) \o d
  BY DEF coreEnvsForMeta
<1>2. Piece(a, CoreFront, R) /\ {"RW_STATE_STORE", "RW_DATA_DIRECTORY"} \subseteq Names(a)
  BY CoreFrontPiece
<1>3. Piece(b, BackendNames, R)
  <2>1. Names(envsForMetaStore(spec.meta)) \subseteq R
    BY DEF Stores
  <2>2. Piece(b, BackendNames, Names(envsForMetaStore(spec.meta)))
    BY BackendPiece
  <2> HIDE DEF b, R
  <2>3. QED BY <2>1, <2>2, PieceOf
<1>4. Piece(c, LicenseNames, R) /\ ("RW_LICENSE_KEY_PATH" \in Names(c) => MountsLicense(spec))
  BY LicensePiece
<1>5. Piece(d, SecretNames, R)
  BY SecretPiece
<1>6. /\ "RW_BACKEND" \in Names(b)
      /\ MetaStoreOfCoreEnvs(spec.meta) = "etcd" => "RW_ETCD_ENDPOINTS" \in Names(b)
  BY BackendPiece
<1>7. /\ CoreFront \cap BackendNames = {} /\ (CoreFront \cup BackendNames) \cap LicenseNames = {}
      /\ ((CoreFront \cup BackendNames) \cup LicenseNames) \cap SecretNames = {}
  BY DEF CoreFront, BackendNames, LicenseNames, SecretNames
<1>8. "RW_LICENSE_KEY_PATH" \notin CoreFront \cup BackendNames \cup SecretNames
  BY DEF CoreFront, BackendNames, LicenseNames, SecretNames
<1> HIDE DEF a, b, c, d, R
<1>9. Piece(a \o b, CoreFront \cup BackendNames, R)
  BY <1>2, <1>3, <1>7, PieceBehind
<1>10. Piece((a \o b) \o c, (CoreFront \cup BackendNames) \cup LicenseNames, R)
  BY <1>4, <1>7, <1>9, PieceBehind
<1>11. Piece(((a \o b) \o c) \o d, CoreNames, R)
  BY <1>5, <1>7, <1>10, PieceBehind DEF CoreNames
<1>12. Names(((a \o b) \o c) \o d) = ((Names(a) \cup Names(b)) \cup Names(c)) \cup Names(d)
  <2>1. Names(a \o b) = Names(a) \cup Names(b)
    BY <1>2, <1>3, Behind DEF Piece
  <2>2. Names((a \o b) \o c) = Names(a \o b) \cup Names(c)
    BY <1>4, <1>9, Behind DEF Piece
  <2>3. Names(((a \o b) \o c) \o d) = Names((a \o b) \o c) \cup Names(d)
    BY <1>5, <1>10, Behind DEF Piece
  <2>4. QED BY <2>1, <2>2, <2>3
<1>13. "RW_LICENSE_KEY_PATH" \notin Names(a) \cup Names(b) \cup Names(d)
  BY <1>2, <1>3, <1>5, <1>8 DEF Piece
<1> DEFINE all == ((a \o b) \o c) \o d
<1>14. coreEnvsForMeta(spec) = all
  BY <1>1
<1>15. Piece(all, CoreNames, R)
  BY <1>11
<1>16. Names(all) = ((Names(a) \cup Names(b)) \cup Names(c)) \cup Names(d)
  BY <1>12
<1> HIDE DEF all
<1>17. {"RW_STATE_STORE", "RW_DATA_DIRECTORY", "RW_BACKEND"} \subseteq Names(all)
  BY <1>2, <1>6, <1>16
<1>18. MetaStoreOfCoreEnvs(spec.meta) = "etcd" => "RW_ETCD_ENDPOINTS" \in Names(all)
  BY <1>6, <1>16
<1>19. "RW_LICENSE_KEY_PATH" \in Names(all) => MountsLicense(spec)
  BY <1>4, <1>13, <1>16
<1>20. QED BY <1>14, <1>15, <1>17, <1>18, <1>19 DEF R

-----------------------------------------------------------------------------
(* What the containers get to start with.                                  *)

PodRefs == {"POD_IP", "POD_NAME"}
Advertised == {"RW_ADVERTISE_ADDR"}
NodeFront == {"RW_LISTEN_ADDR", "RW_CONFIG_PATH"}
NodeBack == {"RW_META_ADDR", "RW_META_ADDRESS", "RW_PROMETHEUS_LISTENER_ADDR"}
NodeNames == (NodeFront \cup Advertised) \cup NodeBack
MetaFront == {"RW_META_ADDR", "RW_CONFIG_PATH", "RW_LISTEN_ADDR"}
MetaBack == {"RW_PROMETHEUS_HOST"}
LimitNames == {"RW_PARALLELISM", "RW_TOTAL_MEMORY_BYTES"}
TLSNames == {"RW_SSL_KEY", "RW_SSL_CERT"}
ListenerNames == {"RW_WEBHOOK_LISTEN_ADDR"}

LEMMA AddressPiece ==
    ASSUME NEW spec
    PROVE  Piece(<<AdvertiseAddr(spec)>>, Advertised, PodRefs) /\ Piece(<<OnPodIP>>, Advertised, PodRefs)
<1> DEFINE x == "RW_ADVERTISE_ADDR"
           i == "POD_IP"
           n == "POD_NAME"
<1>1. /\ x \in OperatorNames /\ i \in OperatorNames /\ n \in OperatorNames
      /\ Advertised = {x} /\ i \in PodRefs /\ n \in PodRefs
      /\ x \in Referring /\ i \in Referred /\ n \in Referred
  BY DEF OperatorNames, Advertised, PodRefs, Referring, Referred
<1>2. OnPodIP = EnvVar(x, <<Ref(i)>>)
  BY DEF OnPodIP
<1>3. AdvertiseAddr(spec) = EnvVar(x, <<Ref(i)>>) \/ AdvertiseAddr(spec) = EnvVar(x, <<Ref(n)>>)
  BY DEF AdvertiseAddr
<1> HIDE DEF x, i, n
<1>4. Piece(<<EnvVar(x, <<Ref(i)>>)>>, {x}, PodRefs) /\ Piece(<<EnvVar(x, <<Ref(n)>>)>>, {x}, PodRefs)
  BY <1>1, Refers1
<1>5. QED BY <1>1, <1>2, <1>3, <1>4

LEMMA NodePiece ==
    ASSUME NEW addr, Piece(<<addr>>, Advertised, PodRefs)
    PROVE  Piece(NodeArgs(addr), NodeNames, PodRefs)
<1> DEFINE a == Plain(<<"RW_LISTEN_ADDR", "RW_CONFIG_PATH">>)
           b == <<addr>>
           c == Plain(<<"RW_META_ADDR", "RW_META_ADDRESS", "RW_PROMETHEUS_LISTENER_ADDR">>)
<1>1. NodeArgs(addr) = (a \o b) \o c
  BY DEF NodeArgs
<1>2. NodeFront \subseteq OperatorNames /\ NodeBack \subseteq OperatorNames
  BY DEF NodeFront, NodeBack, OperatorNames
<1>3. Piece(a, NodeFront, PodRefs)
  BY <1>2, Plain2 DEF NodeFront
<1>4. Piece(c, NodeBack, PodRefs)
  BY <1>2, Plain3 DEF NodeBack
<1>5. NodeFront \cap Advertised = {} /\ (NodeFront \cup Advertised) \cap NodeBack = {}
  BY DEF NodeFront, NodeBack, Advertised
<1> HIDE DEF a, b, c
<1>6. Piece(a \o b, NodeFront \cup Advertised, PodRefs)
  BY <1>3, <1>5, PieceBehind DEF b
<1>7. Piece((a \o b) \o c, (NodeFront \cup Advertised) \cup NodeBack, PodRefs)
  BY <1>4, <1>5, <1>6, PieceBehind
<1>8. QED BY <1>1, <1>7 DEF NodeNames

LEMMA LimitsPiece == ASSUME NEW spec, NEW R PROVE Piece(envsForResourceLimits(spec), LimitNames, R)
<1> DEFINE x == "RW_PARALLELISM"
           y == "RW_TOTAL_MEMORY_BYTES"
<1>1. {x, y} \subseteq OperatorNames /\ x # y /\ LimitNames = {x, y}
  BY DEF OperatorNames, LimitNames
<1>2. envsForResourceLimits(spec) = <<>> \/ envsForResourceLimits(spec) = Plain(<<x, y>>)
  BY DEF envsForResourceLimits
<1> HIDE DEF x, y
<1>3. Piece(Plain(<<x, y>>), {x, y}, R)
  BY <1>1, Plain2
<1>4. QED BY <1>1, <1>2, <1>3, NoVariables

LEMMA TLSPiece ==
    ASSUME NEW spec, NEW R
    PROVE  Piece(envsForTLS(spec), TLSNames, R) /\ (~spec.tls => envsForTLS(spec) = <<>>)
<1> DEFINE x == "RW_SSL_KEY"
           y == "RW_SSL_CERT"
<1>1. {x, y} \subseteq OperatorNames /\ x # y /\ TLSNames = {x, y}
  BY DEF OperatorNames, TLSNames
<1>2. /\ envsForTLS(spec) = <<>> \/ envsForTLS(spec) = Plain(<<x, y>>)
      /\ ~spec.tls => envsForTLS(spec) = <<>>
  BY DEF envsForTLS
<1> HIDE DEF x, y
<1>3. Piece(Plain(<<x, y>>), {x, y}, R)
  BY <1>1, Plain2
<1>4. QED BY <1>1, <1>2, <1>3, NoVariables

Listener(spec) == IF spec.listener THEN Plain(<<"RW_WEBHOOK_LISTEN_ADDR">>) ELSE <<>>

LEMMA ListenerPiece ==
    ASSUME NEW spec, NEW R
    PROVE  Piece(Listener(spec), ListenerNames, R) /\ (~spec.listener => Listener(spec) = <<>>)
<1> DEFINE x == "RW_WEBHOOK_LISTEN_ADDR"
<1>1. x \in OperatorNames /\ ListenerNames = {x}
  BY DEF OperatorNames, ListenerNames
<1>2. /\ Listener(spec) = <<>> \/ Listener(spec) = Plain(<<x>>)
      /\ ~spec.listener => Listener(spec) = <<>>
  BY DEF Listener
<1> HIDE DEF x
<1>3. Piece(Plain(<<x>>), {x}, R)
  BY <1>1, Plain1
<1>4. QED BY <1>1, <1>2, <1>3, NoVariables

MetaArgNames == ((MetaFront \cup Advertised) \cup MetaBack) \cup CoreNames

LEMMA MetaArgsPiece ==
    ASSUME NEW spec \in Specs,
           hummockConnectionStr(spec.state) = "minio" => StateStoreOfEnvs(spec.state) = "minio"
    PROVE  /\ Piece(envsForMetaArgs(spec), MetaArgNames, Stores(spec) \cup PodRefs)
           /\ "RW_LICENSE_KEY_PATH" \in Names(envsForMetaArgs(spec)) => MountsLicense(spec)
<1> DEFINE a == Plain(<<"RW_META_ADDR", "RW_CONFIG_PATH", "RW_LISTEN_ADDR">>)
           b == <<AdvertiseAddr(spec)>>
           c == Plain(<<"RW_PROMETHEUS_HOST">>)
           d == coreEnvsForMeta(spec)
           R == Stores(spec) \cup PodRefs
<1>1. envsForMetaArgs(spec) = ((a \o b) \o c) \o d
  BY DEF envsForMetaArgs
<1>2. MetaFront \subseteq OperatorNames /\ MetaBack \subseteq OperatorNames
  BY DEF MetaFront, MetaBack, OperatorNames
<1>3. Piece(a, MetaFront, R)
  BY <1>2, Plain3 DEF MetaFront
<1>4. Piece(c, MetaBack, R)
  BY <1>2, Plain1 DEF MetaBack
<1>5. Piece(b, Advertised, PodRefs) /\ Piece(d, CoreNames, Stores(spec))
      /\ ("RW_LICENSE_KEY_PATH" \in Names(d) => MountsLicense(spec))
  BY AddressPiece, CorePiece
<1>6. PodRefs \subseteq R /\ Stores(spec) \subseteq R
  OBVIOUS
<1>7. /\ MetaFront \cap Advertised = {} /\ (MetaFront \cup Advertised) \cap MetaBack = {}
      /\ ((MetaFront \cup Advertised) \cup MetaBack) \cap CoreNames = {}
      /\ "RW_LICENSE_KEY_PATH" \notin (MetaFront \cup Advertised) \cup MetaBack
  BY DEF MetaFront, MetaBack, Advertised, CoreNames, CoreFront, BackendNames, LicenseNames, SecretNames
<1> HIDE DEF a, b, c, d, R
<1>8. Piece(b, Advertised, R)
  BY <1>5, <1>6, PieceOf
<1>9. Piece(d, CoreNames, R)
  BY <1>5, <1>6, PieceOf
<1>10. Piece(a \o b, MetaFront \cup Advertised, R)
  BY <1>3, <1>7, <1>8, PieceBehind
<1>11. Piece((a \o b) \o c, (MetaFront \cup Advertised) \cup MetaBack, R)
  BY <1>4, <1>7, <1>10, PieceBehind
<1>12. Piece(((a \o b) \o c) \o d, MetaArgNames, R)
  BY <1>7, <1>9, <1>11, PieceBehind DEF MetaArgNames
<1>13. Names(((a \o b) \o c) \o d) = Names((a \o b) \o c) \cup Names(d)
  BY <1>9, <1>11, Behind DEF Piece
<1>14. "RW_LICENSE_KEY_PATH" \notin Names((a \o b) \o c)
  BY <1>7, <1>11 DEF Piece
<1>15. "RW_LICENSE_KEY_PATH" \in Names(((a \o b) \o c) \o d) => MountsLicense(spec)
  BY <1>5, <1>13, <1>14
<1>16. QED BY <1>1, <1>12, <1>15 DEF R

LEMMA ComputeArgsPiece ==
    ASSUME NEW spec
    PROVE  /\ Piece(envsForComputeArgs(spec), NodeNames \cup LimitNames, PodRefs)
           /\ Piece(envsForCompactorArgs(spec), NodeNames, PodRefs)
<1> DEFINE a == NodeArgs(AdvertiseAddr(spec))
           b == envsForResourceLimits(spec)
<1>1. Piece(a, NodeNames, PodRefs) /\ Piece(envsForCompactorArgs(spec), NodeNames, PodRefs)
  BY AddressPiece, NodePiece DEF envsForCompactorArgs
<1>2. Piece(b, LimitNames, PodRefs)
  BY LimitsPiece
<1>3. envsForComputeArgs(spec) = a \o b
  BY DEF envsForComputeArgs
<1>4. NodeNames \cap LimitNames = {}
  BY DEF NodeNames, NodeFront, NodeBack, Advertised, LimitNames
<1> HIDE DEF a, b
<1>5. Piece(a \o b, NodeNames \cup LimitNames, PodRefs)
  BY <1>1, <1>2, <1>4, PieceBehind
<1>6. QED BY <1>1, <1>3, <1>5

FrontendNames == ((NodeNames \cup ListenerNames) \cup TLSNames) \cup (LimitNames \cup StoreNames)

FrontendArgs(spec) ==
    envsForFrontendArgs(spec)
        \o (IF spec.embedded
            THEN envsForResourceLimits(spec) \o envsForStateStore(spec.state) ELSE <<>>)

LEMMA FrontendArgsPiece ==
    ASSUME NEW spec
    PROVE  /\ Piece(FrontendArgs(spec), FrontendNames, Names(FrontendArgs(spec)) \cup PodRefs)
<1> DEFINE a == NodeArgs(OnPodIP)
           b == Listener(spec)
           c == envsForTLS(spec)
           st == envsForStateStore(spec.state)
           l == envsForResourceLimits(spec)
           d == IF spec.embedded THEN l \o st ELSE <<>>
           R == Names(d) \cup PodRefs
<1>1. FrontendArgs(spec) = ((a \o b) \o c) \o d
  BY DEF FrontendArgs, envsForFrontendArgs, Listener
<1>2. Piece(a, NodeNames, PodRefs)
  BY AddressPiece, NodePiece
<1>3. Piece(b, ListenerNames, R) /\ Piece(c, TLSNames, R)
  BY ListenerPiece, TLSPiece
<1>4. Piece(st, StoreNames, Names(st)) /\ Piece(l, LimitNames, Names(st))
  BY StateStorePiece, LimitsPiece
<1>5. /\ NodeNames \cap ListenerNames = {} /\ (NodeNames \cup ListenerNames) \cap TLSNames = {}
      /\ ((NodeNames \cup ListenerNames) \cup TLSNames) \cap (LimitNames \cup StoreNames) = {}
      /\ LimitNames \cap StoreNames = {}
  BY DEF NodeNames, NodeFront, NodeBack, Advertised, LimitNames, TLSNames, ListenerNames, StoreNames
<1>6. Piece(d, LimitNames \cup StoreNames, R)
  <2>1. CASE spec.embedded
    <3> HIDE DEF st, l
    <3>1. Piece(l \o st, LimitNames \cup StoreNames, Names(st))
      BY <1>4, <1>5, PieceBehind
    <3>2. Names(l \o st) = Names(l) \cup Names(st)
      BY <1>4, Behind DEF Piece
    <3>3. d = l \o st
      BY <2>1
    <3> HIDE DEF d
    <3>4. Names(st) \subseteq R
      BY <3>2, <3>3
    <3> HIDE DEF R
    <3>5. QED BY <3>1, <3>3, <3>4, PieceOf
  <2>2. CASE ~spec.embedded
    <3>1. d = <<>>
      BY <2>2
    <3> HIDE DEF d
    <3>2. QED BY <3>1, NoVariables
  <2>3. QED BY <2>1, <2>2
<1>7. PodRefs \subseteq R
  OBVIOUS
<1> HIDE DEF a, b, c, d, R
<1>8. Piece(a, NodeNames, R)
  BY <1>2, <1>7, PieceOf
<1>9. Piece(a \o b, NodeNames \cup ListenerNames, R)
  BY <1>3, <1>5, <1>8, PieceBehind
<1>10. Piece((a \o b) \o c, (NodeNames \cup ListenerNames) \cup TLSNames, R)
  BY <1>3, <1>5, <1>9, PieceBehind
<1>11. Piece(((a \o b) \o c) \o d, FrontendNames, R)
  BY <1>5, <1>6, <1>10, PieceBehind DEF FrontendNames
<1>12. Names(((a \o b) \o c) \o d) = Names((a \o b) \o c) \cup Names(d)
  BY <1>6, <1>10, Behind DEF Piece
<1>13. R \subseteq Names(FrontendArgs(spec)) \cup PodRefs
  BY <1>1, <1>12 DEF R
<1>14. FrontendNames \subseteq FrontendNames
  OBVIOUS
<1>15. QED BY <1>1, <1>11, <1>13, <1>14, PieceOf

SystemNames == {"RUST_LOG", "POD_IP", "POD_NAME", "POD_NAMESPACE", "RUST_MIN_STACK",
                "RUST_BACKTRACE", "RW_WORKER_THREADS"}

LEMMA WiderSeq == ASSUME NEW S, NEW T, S \subseteq T PROVE Seq(S) \subseteq Seq(T)
OBVIOUS

(* A value put behind a sequence of length n.                              *)
LEMMA Appended ==
    ASSUME NEW S, NEW q \in Seq(S), NEW v \in S, NEW n \in Nat, Len(q) = n, NEW r, r = Append(q, v)
    PROVE  /\ r \in Seq(S) /\ Len(r) = n + 1 /\ DOMAIN r = 1 .. n + 1 /\ r[n + 1] = v
           /\ \A i \in 1 .. n : r[i] = q[i]
OBVIOUS

(* The system variables.                                                   *)
LEMMA BasicPiece ==
    ASSUME NEW spec
    PROVE  /\ \A R : Piece(Plain(BasicNames(spec)), ToSet(BasicNames(spec)), R)
           /\ Names(Plain(BasicNames(spec))) = ToSet(BasicNames(spec))
           /\ PodRefs \subseteq ToSet(BasicNames(spec)) /\ ToSet(BasicNames(spec)) \subseteq SystemNames
<1> DEFINE b == <<"RUST_LOG", "POD_IP", "POD_NAME", "POD_NAMESPACE", "RUST_MIN_STACK">>
           t == "RUST_BACKTRACE"
           x == "RW_WORKER_THREADS"
           s == BasicNames(spec)
           S == SystemNames
<1>1. /\ "RUST_LOG" \in S /\ "POD_IP" \in S /\ "POD_NAME" \in S /\ "POD_NAMESPACE" \in S
      /\ "RUST_MIN_STACK" \in S /\ t \in S /\ x \in S
  BY DEF SystemNames
<1>2. S \subseteq STRING
  <2>1. S \subseteq OperatorNames
    BY DEF SystemNames, OperatorNames
  <2> HIDE DEF S
  <2>2. QED BY <2>1, NamesAreStrings
<1>3. /\ DOMAIN b = 1 .. 5 /\ Len(b) = 5
      /\ b[1] = "RUST_LOG" /\ b[2] = "POD_IP" /\ b[3] = "POD_NAME" /\ b[4] = "POD_NAMESPACE"
      /\ b[5] = "RUST_MIN_STACK"
  OBVIOUS
<1> HIDE DEF S
<1>4. b \in Seq(S)
  BY <1>1
<1>5. s = (b \o (IF spec.traces THEN <<t>> ELSE <<>>)) \o (IF spec.limits THEN <<x>> ELSE <<>>)
  BY DEF BasicNames
<1>d. t # x /\ \A i \in 1 .. 5 : b[i] # t /\ b[i] # x
  BY <1>3
<1>e. PodRefs \subseteq {b[2], b[3]} /\ \A i, j \in 1 .. 5 : b[i] = b[j] => i = j
  BY <1>3 DEF PodRefs
<1> HIDE DEF b, s, x, t
<1>6. s = b \/ s = Append(b, x) \/ s = Append(b, t) \/ s = Append(Append(b, t), x)
  <2>1. b \o <<>> = b /\ b \o <<t>> = Append(b, t)
    BY <1>1, <1>4
  <2>2. \A q \in Seq(S) : q \o <<>> = q /\ q \o <<x>> = Append(q, x)
    BY <1>1
  <2>3. Append(b, t) \in Seq(S)
    BY <1>1, <1>4
  <2>4. /\ spec.traces  => b \o (IF spec.traces THEN <<t>> ELSE <<>>) = Append(b, t)
        /\ ~spec.traces => b \o (IF spec.traces THEN <<t>> ELSE <<>>) = b
    BY <2>1
  <2> DEFINE c == b \o (IF spec.traces THEN <<t>> ELSE <<>>)
  <2>5. c = b \/ c = Append(b, t)
    BY <2>4
  <2>6. s = c \o (IF spec.limits THEN <<x>> ELSE <<>>)
    BY <1>5
  <2> HIDE DEF c
  <2>7. c \in Seq(S)
    BY <1>4, <2>3, <2>5
  <2>8. s = c \/ s = Append(c, x)
    BY <2>2, <2>6, <2>7
  <2>9. QED BY <2>5, <2>8
<1>7. s \in Seq(S)
  BY <1>1, <1>4, <1>6
<1>8. s \in Seq(STRING)
  <2>1. Seq(S) \subseteq Seq(STRING)
    BY <1>2, WiderSeq
  <2>2. QED BY <1>7, <2>1
<1>9. ToSet(s) \subseteq S
  BY <1>7 DEF ToSet
<1>10. /\ \A i, j \in DOMAIN s : s[i] = s[j] => i = j
       /\ \A i \in 1 .. 5 : i \in DOMAIN s /\ s[i] = b[i]
  <2>1. CASE s = b
    BY <1>3, <1>e, <2>1
  <2>2. CASE s = Append(b, x)
    <3>3. DOMAIN s = 1 .. 5 + 1 /\ s[5 + 1] = x /\ \A i \in 1 .. 5 : s[i] = b[i]
      BY <1>1, <1>3, <1>4, <2>2, Appended
    <3>1. DOMAIN s = 1 .. 6 /\ s[6] = x /\ \A i \in 1 .. 5 : s[i] = b[i]
      BY <3>3
    <3>2. QED BY <1>d, <1>e, <3>1
  <2>3. CASE s = Append(b, t)
    <3>3. DOMAIN s = 1 .. 5 + 1 /\ s[5 + 1] = t /\ \A i \in 1 .. 5 : s[i] = b[i]
      BY <1>1, <1>3, <1>4, <2>3, Appended
    <3>1. DOMAIN s = 1 .. 6 /\ s[6] = t /\ \A i \in 1 .. 5 : s[i] = b[i]
      BY <3>3
    <3>2. QED BY <1>d, <1>e, <3>1
  <2>4. CASE s = Append(Append(b, t), x)
    <3> DEFINE c == Append(b, t)
    <3>5. c = Append(b, t)
      OBVIOUS
    <3>4. s = Append(c, x)
      BY <2>4
    <3> HIDE DEF c
    <3>3. c \in Seq(S) /\ Len(c) = 6 /\ c[6] = t /\ \A i \in 1 .. 5 : c[i] = b[i]
      <4>1. c \in Seq(S) /\ Len(c) = 5 + 1 /\ c[5 + 1] = t /\ \A i \in 1 .. 5 : c[i] = b[i]
        BY <1>1, <1>3, <1>4, <3>5, Appended
      <4>2. QED BY <4>1
    <3>1. DOMAIN s = 1 .. 7 /\ s[7] = x /\ s[6] = t /\ \A i \in 1 .. 5 : s[i] = b[i]
      <4>1. DOMAIN s = 1 .. 6 + 1 /\ s[6 + 1] = x /\ \A i \in 1 .. 6 : s[i] = c[i]
        BY <1>1, <3>3, <3>4, Appended
      <4>2. QED BY <3>3, <4>1
    <3>2. QED BY <1>d, <1>e, <3>1
  <2>5. QED BY <1>6, <2>1, <2>2, <2>3, <2>4
<1>11. PodRefs \subseteq ToSet(s)
  BY <1>e, <1>10 DEF ToSet
<1>12. (\A R : Piece(Plain(s), ToSet(s), R)) /\ Names(Plain(s)) = ToSet(s)
  BY <1>8, <1>10, PlainVariables
<1>13. QED BY <1>9, <1>11, <1>12 DEF s, S

-----------------------------------------------------------------------------
(* Merging what the user and the operator give.                            *)

(* A variable that is given twice has the value that is given later, every *)
(* other one the only value it is given, and no name occurs twice.         *)
THEOREM LaterWins ==
    \A env, vs \in Seq(Variables) : EachOnce(env) =>
        LET merged == MergeAll(env, vs) IN
        /\ merged \in Seq(Variables) /\ EachOnce(merged)
        /\ Names(merged) = Names(env) \cup Names(vs)
        /\ \A x \in ToSet(merged) : IF x.name \in Names(vs) THEN x \in ToSet(vs) ELSE x \in ToSet(env)
<1> SUFFICES ASSUME NEW env \in Seq(Variables), NEW vs \in Seq(Variables), EachOnce(env)
             PROVE  LET merged == MergeAll(env, vs) IN
                    /\ merged \in Seq(Variables) /\ EachOnce(merged)
                    /\ Names(merged) = Names(env) \cup Names(vs)
                    /\ \A x \in ToSet(merged) :
                          IF x.name \in Names(vs) THEN x \in ToSet(vs) ELSE x \in ToSet(env)
  OBVIOUS
<1> DEFINE m == MergeAll(env, vs)
<1>1. /\ m \in Seq(Variables) /\ Names(m) = Names(env) \cup Names(vs)
      /\ \A name : Once(env, name) =>
            /\ Once(m, name)
            /\ \A x \in ToSet(m) : x.name = name =>
                  IF name \in Names(vs) THEN x \in ToSet(vs) ELSE x \in ToSet(env)
  BY AllMerged
<1>2. \A name : Once(env, name)
  BY OnceEach
<1> HIDE DEF m
<1>3. EachOnce(m)
  BY <1>1, <1>2, OnceEach
<1>4. \A x \in ToSet(m) : IF x.name \in Names(vs) THEN x \in ToSet(vs) ELSE x \in ToSet(env)
  BY <1>1, <1>2
<1>5. QED BY <1>1, <1>3, <1>4 DEF m

\* variables of U, and variables of the operator that refer to R only
Given(env, U, R) ==
    \A v \in ToSet(env) :
       \/ v \in U
       \/ v.by = "operator" /\ Leads(v, R)

LEMMA PieceGiven ==
    ASSUME NEW env, NEW S, NEW R, NEW U, NEW Q, Piece(env, S, R), R \subseteq Q
    PROVE  Given(env, U, Q)
BY DEF Piece, Given, Leads

LEMMA GivenMerged ==
    ASSUME NEW env \in Seq(Variables), NEW vs \in Seq(Variables), NEW U, NEW R,
           Given(env, U, R), Given(vs, U, R)
    PROVE  Given(MergeAll(env, vs), U, R)
<1> DEFINE m == MergeAll(env, vs)
<1>1. \A x \in ToSet(m) : x \in ToSet(env) \/ x \in ToSet(vs)
  BY AllMerged
<1> HIDE DEF m
<1>2. Given(m, U, R)
  BY <1>1 DEF Given
<1>3. QED BY <1>2 DEF m

LEMMA GivenBehind ==
    ASSUME NEW a \in Seq(Variables), NEW b \in Seq(Variables), NEW U, NEW R,
           Given(a, U, R), Given(b, U, R)
    PROVE  Given(a \o b, U, R)
<1>1. ToSet(a \o b) = ToSet(a) \cup ToSet(b)
  BY Behind
<1>2. QED BY <1>1 DEF Given

LEMMA GivenOf ==
    ASSUME NEW env, NEW U, NEW R, NEW Q, Given(env, U, R), R \subseteq Q
    PROVE  Given(env, U, Q)
BY DEF Given, Leads

(* The system variables on top of the user's.                              *)
LEMMA BasicMerged ==
    ASSUME NEW spec, NEW U, NEW R, spec.env \in Seq(Variables), Given(spec.env, U, R)
    PROVE  LET env == BasicEnv(spec)
               system == ToSet(BasicNames(spec))
           IN  /\ env \in Seq(Variables) /\ Names(env) = Names(spec.env) \cup system
               /\ Given(env, U, R)
               /\ EachOnce(spec.env) =>
                     /\ EachOnce(env)
                     /\ \A x \in ToSet(env) : x.name \notin system => x \in ToSet(spec.env)
<1> DEFINE vs == Plain(BasicNames(spec))
           env == BasicEnv(spec)
           system == ToSet(BasicNames(spec))
           mine == spec.env
<1>1. env = MergeAll(mine, vs)
  BY DEF BasicEnv
<1>2. Piece(vs, system, R) /\ Names(vs) = system
  BY BasicPiece
<1> HIDE DEF vs, env, system, mine
<1>3. vs \in Seq(Variables) /\ Given(vs, U, R) /\ mine \in Seq(Variables) /\ Given(mine, U, R)
  BY <1>2, PieceGiven DEF Piece, mine
<1>4. env \in Seq(Variables) /\ Names(env) = Names(mine) \cup system
  <2>1. env \in Seq(Variables)
    BY <1>1, <1>3, AllMerged
  <2>2. Names(env) = Names(mine) \cup Names(vs)
    BY <1>1, <1>3, AllMerged
  <2>3. QED BY <1>2, <2>1, <2>2
<1>5. Given(env, U, R)
  BY <1>1, <1>3, GivenMerged
<1>6. ASSUME EachOnce(mine)
      PROVE  EachOnce(env) /\ \A x \in ToSet(env) : x.name \notin system => x \in ToSet(mine)
  <2>1. /\ EachOnce(env)
        /\ \A x \in ToSet(env) : IF x.name \in Names(vs) THEN x \in ToSet(vs) ELSE x \in ToSet(mine)
    BY <1>1, <1>3, <1>6, LaterWins
  <2>2. QED BY <1>2, <2>1
<1>7. QED BY <1>4, <1>5, <1>6 DEF env, system, mine

-----------------------------------------------------------------------------
(* The containers.                                                         *)

\* only variables of the alphabet, and no reference of the operator's to
\* one that is missing
Complete(env, spec) ==
    /\ env \in Listed /\ Given(env, ToSet(spec.env), Names(env))
    /\ "RW_LICENSE_KEY_PATH" \in Names(env) \ Names(spec.env) => MountsLicense(spec)

\* the variables of the names N are the operator's
OperatorWins(env, N) == \A v \in ToSet(env) : v.name \in N => v.by = "operator"

\* those of the template are the user's, except for the names N
UserWins(env, spec, N) ==
    \A v \in ToSet(env) :
       v.name \in Names(spec.env) /\ v.name \notin ToSet(BasicNames(spec)) /\ v.name \notin N
       => v.by = "user"

\* t is the specification spec, maybe with a resource group added
Template(t, spec) ==
    /\ t.env \in Seq(Variables) /\ Given(t.env, ToSet(spec.env), {})
    /\ Names(spec.env) \subseteq Names(t.env)
    /\ Names(t.env) \subseteq Names(spec.env) \cup {"RW_RESOURCE_GROUP"}
    /\ EachOnce(spec.env) =>
          /\ EachOnce(t.env)
          /\ \A x \in ToSet(t.env) : x.name \in Names(spec.env) => x \in ToSet(spec.env)
    /\ t.state = spec.state /\ t.limits = spec.limits /\ t.traces = spec.traces

(* The user's variables.                                                   *)
LEMMA UserTemplate ==
    ASSUME NEW spec \in Specs
    PROVE  /\ Template(spec, spec) /\ Names(spec.env) \subseteq Alphabet
           /\ \A v \in ToSet(spec.env) : v.by = "user"
<1> DEFINE env == spec.env
<1>1. env \in Seq(UserVars)
  BY DEF Specs
<1>2. Alphabet \subseteq STRING
  BY EnvNamesAssumption DEF Alphabet
<1>3. UserVars \subseteq Variables
  <2> SUFFICES ASSUME NEW v \in UserVars PROVE v \in Variables
    OBVIOUS
  <2>1. /\ v = [name |-> v.name, by |-> v.by, refs |-> v.refs] /\ v.name \in Alphabet
        /\ v.by = "user" /\ v.refs \in Seq([name : STRING, escaped : BOOLEAN])
    BY DEF UserVars
  <2>2. v.name \in STRING
    BY <1>2, <2>1
  <2>3. QED BY <2>1, <2>2 DEF Variables
<1>4. \A v \in UserVars : v.by = "user" /\ v.name \in Alphabet
  BY DEF UserVars
<1> HIDE DEF env
<1>5. env \in Seq(Variables)
  BY <1>1, <1>3, WiderSeq
<1>6. DOMAIN env = 1 .. Len(env) /\ \A i \in 1 .. Len(env) : env[i] \in UserVars
  BY <1>1
<1>7. Names(env) \subseteq Alphabet /\ \A v \in ToSet(env) : v.by = "user"
  BY <1>4, <1>6 DEF Names, ToSet
<1>8. Given(env, ToSet(env), {})
  BY DEF Given
<1>9. Names(env) \subseteq Names(env) \cup {"RW_RESOURCE_GROUP"}
  OBVIOUS
<1>10. Template(spec, spec)
  BY <1>5, <1>8, <1>9 DEF Template, env
<1>11. QED BY <1>7, <1>10 DEF env

(* A resource group is added behind the others where there is none.        *)
LEMMA GroupTemplate ==
    ASSUME NEW spec \in Specs PROVE Template(WithResourceGroup(spec), spec)
<1> DEFINE x == "RW_RESOURCE_GROUP"
           env == spec.env
           t == WithResourceGroup(spec)
<1>1. CASE x \in Names(env)
  <2>1. t = spec
    BY <1>1 DEF WithResourceGroup
  <2>2. QED BY <2>1, UserTemplate
<1>2. CASE x \notin Names(env)
  <2> DEFINE g == Plain(<<x>>)
  <2>1. t.env = env \o g /\ t.state = spec.state /\ t.limits = spec.limits /\ t.traces = spec.traces
    BY <1>2 DEF WithResourceGroup, Specs
  <2>2. x \in OperatorNames
    BY DEF OperatorNames
  <2>3. Template(spec, spec)
    BY UserTemplate
  <2>4. env \in Seq(Variables) /\ Given(env, ToSet(env), {})
    BY <2>3 DEF Template
  <2> HIDE DEF x, env, t
  <2>5. Piece(g, {x}, {}) /\ Names(g) = {x}
    BY <2>2, Plain1
  <2> HIDE DEF g
  <2>6. g \in Seq(Variables) /\ EachOnce(g) /\ Given(g, ToSet(env), {})
    BY <2>5, PieceGiven DEF Piece
  <2>7. /\ env \o g \in Seq(Variables) /\ Names(env \o g) = Names(env) \cup {x}
        /\ ToSet(env \o g) = ToSet(env) \cup ToSet(g)
    BY <2>4, <2>5, <2>6, Behind
  <2>8. Given(env \o g, ToSet(env), {})
    BY <2>4, <2>6, GivenBehind
  <2>9. ASSUME EachOnce(env)
        PROVE  EachOnce(env \o g) /\ \A v \in ToSet(env \o g) : v.name \in Names(env) => v \in ToSet(env)
    <3>1. \A name : Once(env, name) /\ Once(g, name)
      BY <2>4, <2>6, <2>9, OnceEach
    <3>2. \A name : name \in Names(env) => name \notin Names(g)
      BY <1>2, <2>5
    <3>3. \A name : Once(env \o g, name)
      BY <2>4, <2>6, <3>1, <3>2, Behind
    <3>4. EachOnce(env \o g)
      BY <2>7, <3>3, OnceEach
    <3>5. \A v \in ToSet(g) : v.name \in Names(g)
      BY DEF ToSet, Names
    <3>6. QED BY <2>7, <3>2, <3>4, <3>5
  <2>10. QED BY <2>1, <2>7, <2>8, <2>9 DEF Template, x, env, t
<1>3. QED BY <1>1, <1>2

LEMMA ThreeMerged ==
    ASSUME NEW a, NEW b, NEW c, NEW U, NEW R, a \in Seq(Variables), b \in Seq(Variables),
           c \in Seq(Variables), EachOnce(a), Given(a, U, R), Given(b, U, R), Given(c, U, R),
           NEW m, m = MergeAll(MergeAll(a, b), c)
    PROVE  /\ m \in Seq(Variables) /\ EachOnce(m) /\ Given(m, U, R)
           /\ Names(m) = (Names(a) \cup Names(b)) \cup Names(c)
           /\ \A x \in ToSet(m) :
                 IF x.name \in Names(c) THEN x \in ToSet(c)
                 ELSE IF x.name \in Names(b) THEN x \in ToSet(b) ELSE x \in ToSet(a)
<1> DEFINE n == MergeAll(a, b)
<1>1. /\ n \in Seq(Variables) /\ EachOnce(n) /\ Names(n) = Names(a) \cup Names(b)
      /\ \A x \in ToSet(n) : IF x.name \in Names(b) THEN x \in ToSet(b) ELSE x \in ToSet(a)
  BY LaterWins
<1>2. Given(n, U, R)
  BY GivenMerged
<1>3. m = MergeAll(n, c)
  OBVIOUS
<1> HIDE DEF n
<1>4. /\ m \in Seq(Variables) /\ EachOnce(m) /\ Names(m) = Names(n) \cup Names(c)
      /\ \A x \in ToSet(m) : IF x.name \in Names(c) THEN x \in ToSet(c) ELSE x \in ToSet(n)
  BY <1>1, <1>3, LaterWins
<1>5. Given(m, U, R)
  BY <1>1, <1>2, <1>3, GivenMerged
<1>6. Names(m) = (Names(a) \cup Names(b)) \cup Names(c)
  BY <1>1, <1>4
<1>7. QED BY <1>1, <1>4, <1>5, <1>6

(* The names of the operator's lists.                                      *)
LEMMA AllNamed ==
    /\ MetaArgNames \subseteq OperatorNames /\ NodeNames \subseteq OperatorNames
    /\ LimitNames \subseteq OperatorNames /\ FrontendNames \subseteq OperatorNames
    /\ TLSNames \subseteq OperatorNames /\ ListenerNames \subseteq OperatorNames
    /\ CoreNames \subseteq OperatorNames /\ SystemNames \subseteq OperatorNames
<1>1. /\ CoreNames \subseteq OperatorNames /\ MetaFront \subseteq OperatorNames
      /\ Advertised \subseteq OperatorNames /\ MetaBack \subseteq OperatorNames
  BY DEF CoreNames, CoreFront, BackendNames, LicenseNames, SecretNames, MetaFront, MetaBack,
         Advertised, OperatorNames
<1>2. NodeFront \subseteq OperatorNames /\ NodeBack \subseteq OperatorNames
      /\ LimitNames \subseteq OperatorNames /\ TLSNames \subseteq OperatorNames
      /\ ListenerNames \subseteq OperatorNames /\ SystemNames \subseteq OperatorNames
  BY DEF NodeFront, NodeBack, LimitNames, TLSNames, ListenerNames, SystemNames, OperatorNames
<1>3. MetaArgNames \subseteq OperatorNames /\ NodeNames \subseteq OperatorNames
  BY <1>1, <1>2 DEF MetaArgNames, NodeNames
<1>4. FrontendNames \subseteq OperatorNames
  BY <1>2, <1>3, StoreNamed DEF FrontendNames
<1>5. QED BY <1>1, <1>2, <1>3, <1>4

\* none of these lists has the path of the license
LEMMA NoLicensePath ==
    /\ "RW_LICENSE_KEY_PATH" \notin StoreNames /\ "RW_LICENSE_KEY_PATH" \notin MetaStoreNames
    /\ "RW_LICENSE_KEY_PATH" \notin SystemNames /\ "RW_LICENSE_KEY_PATH" \notin NodeNames
    /\ "RW_LICENSE_KEY_PATH" \notin LimitNames /\ "RW_LICENSE_KEY_PATH" \notin FrontendNames
    /\ "RW_LICENSE_KEY_PATH" \notin TLSNames /\ "RW_LICENSE_KEY_PATH" \notin ListenerNames
    /\ "RW_LICENSE_KEY_PATH" # "RW_RESOURCE_GROUP"
BY DEF StoreNames, MetaStoreNames, SystemNames, NodeNames, NodeFront, NodeBack, Advertised,
       LimitNames, FrontendNames, TLSNames, ListenerNames

(* The variables of a template, with the system variables on top.          *)
LEMMA TemplateMerged ==
    ASSUME NEW spec \in Specs, NEW t, Template(t, spec), NEW R
    PROVE  LET b == BasicEnv(t) IN
           /\ b \in Seq(Variables) /\ Given(b, ToSet(spec.env), R)
           /\ Names(spec.env) \subseteq Names(b) /\ PodRefs \subseteq Names(b)
           /\ Names(b) \subseteq Alphabet
           /\ \A name \in Names(b) :
                 name \in Names(spec.env) \/ name \in SystemNames \/ name = "RW_RESOURCE_GROUP"
           /\ EachOnce(spec.env) =>
                 /\ EachOnce(b)
                 /\ \A x \in ToSet(b) : x.name \in Names(spec.env) /\ x.name \notin ToSet(BasicNames(spec))
                                        => x.by = "user"
<1> DEFINE b == BasicEnv(t)
           U == ToSet(spec.env)
           system == ToSet(BasicNames(spec))
<1>1. BasicNames(t) = BasicNames(spec)
  BY DEF Template, BasicNames
<1>2. t.env \in Seq(Variables) /\ Given(t.env, U, R)
  BY DEF Template, Given, Leads
<1>3. /\ b \in Seq(Variables) /\ Names(b) = Names(t.env) \cup system
      /\ Given(b, U, R)
      /\ EachOnce(t.env) =>
            /\ EachOnce(b)
            /\ \A x \in ToSet(b) : x.name \notin system => x \in ToSet(t.env)
  BY <1>1, <1>2, BasicMerged
<1>4. PodRefs \subseteq system /\ system \subseteq SystemNames
  BY BasicPiece
<1>5. /\ Names(spec.env) \subseteq Names(t.env)
      /\ Names(t.env) \subseteq Names(spec.env) \cup {"RW_RESOURCE_GROUP"}
      /\ EachOnce(spec.env) =>
            /\ EachOnce(t.env)
            /\ \A x \in ToSet(t.env) : x.name \in Names(spec.env) => x \in U
  BY DEF Template
<1>6. Names(spec.env) \subseteq Alphabet /\ \A v \in U : v.by = "user"
  BY UserTemplate
<1> HIDE DEF b, U, system
<1>7. Names(spec.env) \subseteq Names(b) /\ PodRefs \subseteq Names(b)
  BY <1>3, <1>4, <1>5
<1>8. Names(b) \subseteq Alphabet
  <2>1. "RW_RESOURCE_GROUP" \in OperatorNames
    BY DEF OperatorNames
  <2>2. OperatorNames \subseteq Alphabet
    BY FactoryAssumption
  <2>3. SystemNames \subseteq Alphabet
    BY <2>2, AllNamed
  <2>4. QED BY <1>3, <1>4, <1>5, <1>6, <2>1, <2>2, <2>3
<1>9. \A name \in Names(b) :
         name \in Names(spec.env) \/ name \in SystemNames \/ name = "RW_RESOURCE_GROUP"
  BY <1>3, <1>4, <1>5
<1>10. ASSUME EachOnce(spec.env)
       PROVE  /\ EachOnce(b)
              /\ \A x \in ToSet(b) : x.name \in Names(spec.env) /\ x.name \notin system => x.by = "user"
  BY <1>3, <1>5, <1>6, <1>10
<1>11. QED BY <1>3, <1>7, <1>8, <1>9, <1>10 DEF b, U, system

(* A compute or compactor node.                                            *)
LEMMA NodeContainer ==
    ASSUME NEW spec \in Specs, NEW t, Template(t, spec), NEW a, NEW S, Piece(a, S, PodRefs),
           S \subseteq OperatorNames, "RW_LICENSE_KEY_PATH" \notin S,
           NEW m, m = MergeAll(MergeAll(a, BasicEnv(t)), envsForStateStore(t.state))
    PROVE  /\ Complete(m, spec) /\ EachOnce(m)
           /\ OperatorWins(m, Names(envsForStateStore(spec.state)))
           /\ EachOnce(spec.env) => UserWins(m, spec, Names(envsForStateStore(spec.state)))
<1> DEFINE b == BasicEnv(t)
           c == envsForStateStore(spec.state)
           U == ToSet(spec.env)
           R == Names(m)
           system == ToSet(BasicNames(spec))
<1>1. m = MergeAll(MergeAll(a, b), c)
  BY DEF Template
<1>2. /\ b \in Seq(Variables) /\ \A Q : Given(b, U, Q)
      /\ Names(spec.env) \subseteq Names(b) /\ PodRefs \subseteq Names(b)
      /\ Names(b) \subseteq Alphabet
      /\ \A name \in Names(b) :
            name \in Names(spec.env) \/ name \in SystemNames \/ name = "RW_RESOURCE_GROUP"
      /\ EachOnce(spec.env) =>
            \A x \in ToSet(b) : x.name \in Names(spec.env) /\ x.name \notin system => x.by = "user"
  BY TemplateMerged
<1>3. Piece(c, StoreNames, Names(c))
  BY StateStorePiece
<1> HIDE DEF b, c, U, system
<1>4. a \in Seq(Variables) /\ EachOnce(a) /\ c \in Seq(Variables)
  BY <1>3 DEF Piece
<1> DEFINE Q == (Names(a) \cup Names(b)) \cup Names(c)
<1>5. PodRefs \subseteq Q /\ Names(c) \subseteq Q
  BY <1>2
<1> HIDE DEF Q, R
<1>6. Given(a, U, Q) /\ Given(c, U, Q) /\ Given(b, U, Q)
  <2>1. Given(a, U, Q)
    BY <1>5, PieceGiven
  <2>2. Given(c, U, Q)
    BY <1>3, <1>5, PieceGiven
  <2>3. QED BY <1>2, <2>1, <2>2
<1>7. /\ m \in Seq(Variables) /\ EachOnce(m) /\ Given(m, U, Q) /\ R = Q
      /\ \A x \in ToSet(m) : IF x.name \in Names(c) THEN x \in ToSet(c)
                             ELSE IF x.name \in Names(b) THEN x \in ToSet(b) ELSE x \in ToSet(a)
  BY <1>1, <1>2, <1>4, <1>6, ThreeMerged DEF Q, R
<1>8. Names(a) \subseteq OperatorNames /\ Names(c) \subseteq OperatorNames
  BY <1>3, StoreNamed DEF Piece
<1>9. R \subseteq Alphabet
  <2>1. OperatorNames \subseteq Alphabet
    BY FactoryAssumption
  <2>2. QED BY <1>2, <1>7, <1>8, <2>1 DEF Q
<1>10. "RW_LICENSE_KEY_PATH" \notin R \ Names(spec.env)
  <2>1. "RW_LICENSE_KEY_PATH" \notin Names(a) \cup Names(c)
    BY <1>3, NoLicensePath DEF Piece
  <2>2. QED BY <1>2, <1>7, <2>1, NoLicensePath DEF Q
<1>11. m \in Listed
  BY <1>7, <1>9 DEF Listed, Rank, R
<1>12. Complete(m, spec)
  BY <1>7, <1>10, <1>11 DEF Complete, R, U
<1>13. OperatorWins(m, Names(c))
  BY <1>3, <1>7 DEF OperatorWins, Piece
<1>14. ASSUME EachOnce(spec.env) PROVE UserWins(m, spec, Names(c))
  BY <1>2, <1>7, <1>14 DEF UserWins, system
<1>15. QED BY <1>7, <1>12, <1>13, <1>14 DEF c

(* A meta node.                                                            *)
LEMMA MetaContainer ==
    ASSUME NEW spec \in Specs,
           hummockConnectionStr(spec.state) = "minio" => StateStoreOfEnvs(spec.state) = "minio",
           NEW m, m = setupMetaContainer(spec)
    PROVE  /\ Complete(m, spec) /\ EachOnce(m) /\ OperatorWins(m, Stores(spec))
           /\ EachOnce(spec.env) => UserWins(m, spec, Stores(spec))
<1> DEFINE a == envsForMetaArgs(spec)
           b == BasicEnv(spec)
           c == envsForStateStore(spec.state)
           d == envsForMetaStore(spec.meta)
           n == MergeAll(MergeAll(a, b), c)
           U == ToSet(spec.env)
           system == ToSet(BasicNames(spec))
           Q == ((Names(a) \cup Names(b)) \cup Names(c)) \cup Names(d)
<1>1. m = MergeAll(n, d)
  BY DEF setupMetaContainer
<1>2. /\ b \in Seq(Variables) /\ Given(b, U, Q)
      /\ Names(spec.env) \subseteq Names(b) /\ PodRefs \subseteq Names(b)
      /\ Names(b) \subseteq Alphabet
      /\ \A name \in Names(b) :
            name \in Names(spec.env) \/ name \in SystemNames \/ name = "RW_RESOURCE_GROUP"
      /\ EachOnce(spec.env) =>
            \A x \in ToSet(b) : x.name \in Names(spec.env) /\ x.name \notin system => x.by = "user"
  <2>1. Template(spec, spec)
    BY UserTemplate
  <2> HIDE DEF Q
  <2>2. QED BY <2>1, TemplateMerged
<1>3. Piece(c, StoreNames, Names(c)) /\ Piece(d, MetaStoreNames, {})
  BY StateStorePiece, MetaStorePiece
<1>4. /\ Piece(a, MetaArgNames, Stores(spec) \cup PodRefs)
      /\ "RW_LICENSE_KEY_PATH" \in Names(a) => MountsLicense(spec)
  BY MetaArgsPiece
<1>5. Stores(spec) = Names(c) \cup Names(d)
  BY DEF Stores
<1> HIDE DEF a, b, c, d, n, U, system
<1>6. Stores(spec) \cup PodRefs \subseteq Q /\ Names(c) \subseteq Q /\ {} \subseteq Q
  BY <1>2, <1>5
<1> HIDE DEF Q
<1>7. a \in Seq(Variables) /\ EachOnce(a) /\ c \in Seq(Variables) /\ d \in Seq(Variables)
  BY <1>3, <1>4 DEF Piece
<1>8. Given(a, U, Q) /\ Given(c, U, Q) /\ Given(d, U, Q)
  <2>1. Given(a, U, Q)
    BY <1>4, <1>6, PieceGiven
  <2>2. Given(c, U, Q)
    BY <1>3, <1>6, PieceGiven
  <2>3. Given(d, U, Q)
    BY <1>3, <1>6, PieceGiven
  <2>4. QED BY <2>1, <2>2, <2>3
<1>9. /\ n \in Seq(Variables) /\ EachOnce(n) /\ Given(n, U, Q)
      /\ Names(n) = (Names(a) \cup Names(b)) \cup Names(c)
      /\ \A x \in ToSet(n) : IF x.name \in Names(c) THEN x \in ToSet(c)
                             ELSE IF x.name \in Names(b) THEN x \in ToSet(b) ELSE x \in ToSet(a)
  <2>1. n = MergeAll(MergeAll(a, b), c)
    BY DEF n
  <2>2. QED BY <1>2, <1>7, <1>8, <2>1, ThreeMerged
<1>10. /\ m \in Seq(Variables) /\ EachOnce(m) /\ Names(m) = Names(n) \cup Names(d)
       /\ \A x \in ToSet(m) : IF x.name \in Names(d) THEN x \in ToSet(d) ELSE x \in ToSet(n)
  BY <1>1, <1>7, <1>9, LaterWins
<1>11. Given(m, U, Q)
  BY <1>1, <1>7, <1>8, <1>9, GivenMerged
<1>12. Names(m) = Q
  BY <1>9, <1>10 DEF Q
<1>13. Q \subseteq Alphabet
  <2>1. OperatorNames \subseteq Alphabet
    BY FactoryAssumption
  <2>2. /\ Names(a) \subseteq OperatorNames /\ Names(c) \subseteq OperatorNames
        /\ Names(d) \subseteq OperatorNames
    BY <1>3, <1>4, AllNamed, StoreNamed, MetaStoreNamed DEF Piece
  <2>3. QED BY <1>2, <2>1, <2>2 DEF Q
<1>14. "RW_LICENSE_KEY_PATH" \in Q \ Names(spec.env) => MountsLicense(spec)
  <2>1. "RW_LICENSE_KEY_PATH" \notin Names(c) \cup Names(d)
    BY <1>3, NoLicensePath DEF Piece
  <2>2. QED BY <1>2, <1>4, <2>1, NoLicensePath DEF Q
<1>15. Complete(m, spec)
  <2>1. m \in Listed
    BY <1>10, <1>12, <1>13 DEF Listed, Rank
  <2>2. QED BY <1>11, <1>12, <1>14, <2>1 DEF Complete, U
<1>16. (\A x \in ToSet(c) : x.by = "operator") /\ (\A x \in ToSet(d) : x.by = "operator")
  BY <1>3 DEF Piece
<1>17. OperatorWins(m, Stores(spec))
  BY <1>5, <1>9, <1>10, <1>16 DEF OperatorWins
<1>18. ASSUME EachOnce(spec.env) PROVE UserWins(m, spec, Stores(spec))
  BY <1>2, <1>5, <1>9, <1>10, <1>18 DEF UserWins, system
<1>19. QED BY <1>10, <1>15, <1>17, <1>18

(* A frontend.                                                             *)
LEMMA FrontendContainer ==
    ASSUME NEW spec \in Specs, NEW m, m = setupFrontendContainer(spec)
    PROVE  /\ Complete(m, spec) /\ EachOnce(m) /\ "POD_IP" \in Names(m)
           /\ EachOnce(spec.env) => UserWins(m, spec, {})
<1> DEFINE a == FrontendArgs(spec)
           b == BasicEnv(spec)
           U == ToSet(spec.env)
           system == ToSet(BasicNames(spec))
           Q == Names(a) \cup Names(b)
<1>1. m = MergeAll(a, b)
  BY DEF setupFrontendContainer, FrontendArgs
<1>2. /\ b \in Seq(Variables) /\ Given(b, U, Q)
      /\ Names(spec.env) \subseteq Names(b) /\ PodRefs \subseteq Names(b)
      /\ Names(b) \subseteq Alphabet
      /\ \A name \in Names(b) :
            name \in Names(spec.env) \/ name \in SystemNames \/ name = "RW_RESOURCE_GROUP"
      /\ EachOnce(spec.env) =>
            \A x \in ToSet(b) : x.name \in Names(spec.env) /\ x.name \notin system => x.by = "user"
  <2>1. Template(spec, spec)
    BY UserTemplate
  <2> HIDE DEF Q
  <2>2. QED BY <2>1, TemplateMerged
<1>3. Piece(a, FrontendNames, Names(a) \cup PodRefs)
  BY FrontendArgsPiece
<1> HIDE DEF a, b, U, system
<1>4. Names(a) \cup PodRefs \subseteq Q /\ "POD_IP" \in Q
  BY <1>2 DEF PodRefs
<1> HIDE DEF Q
<1>5. a \in Seq(Variables) /\ EachOnce(a)
  BY <1>3 DEF Piece
<1>6. Given(a, U, Q)
  BY <1>3, <1>4, PieceGiven
<1>7. /\ m \in Seq(Variables) /\ EachOnce(m) /\ Names(m) = Names(a) \cup Names(b)
      /\ \A x \in ToSet(m) : IF x.name \in Names(b) THEN x \in ToSet(b) ELSE x \in ToSet(a)
  BY <1>1, <1>2, <1>5, LaterWins
<1>8. Given(m, U, Q)
  BY <1>1, <1>2, <1>5, <1>6, GivenMerged
<1>9. Names(m) = Q
  BY <1>7 DEF Q
<1>10. Q \subseteq Alphabet
  <2>1. OperatorNames \subseteq Alphabet
    BY FactoryAssumption
  <2>2. Names(a) \subseteq OperatorNames
    BY <1>3, AllNamed DEF Piece
  <2>3. QED BY <1>2, <2>1, <2>2 DEF Q
<1>11. "RW_LICENSE_KEY_PATH" \notin Q \ Names(spec.env)
  <2>1. "RW_LICENSE_KEY_PATH" \notin Names(a)
    BY <1>3, NoLicensePath DEF Piece
  <2>2. QED BY <1>2, <2>1, NoLicensePath DEF Q
<1>12. Complete(m, spec)
  <2>1. m \in Listed
    BY <1>7, <1>9, <1>10 DEF Listed, Rank
  <2>2. QED BY <1>8, <1>9, <1>11, <2>1 DEF Complete, U
<1>13. ASSUME EachOnce(spec.env) PROVE UserWins(m, spec, {})
  BY <1>2, <1>7, <1>13 DEF UserWins, system
<1>14. QED BY <1>4, <1>7, <1>9, <1>12, <1>13

\* what replaces the user's variables in a standalone container
StandaloneArgs(spec) ==
    Plain(<<"RW_CONFIG_PATH">>) \o coreEnvsForMeta(spec) \o Plain(<<"RW_META_ADDR">>)
        \o envsForStateStore(spec.state) \o envsForMetaStore(spec.meta)

ConfigNames == {"RW_CONFIG_PATH"}
AddrNames == {"RW_META_ADDR"}
StandaloneNames == (((ConfigNames \cup CoreNames) \cup AddrNames) \cup StoreNames) \cup MetaStoreNames

LEMMA StandaloneArgsPiece ==
    ASSUME NEW spec \in Specs,
           hummockConnectionStr(spec.state) = "minio" => StateStoreOfEnvs(spec.state) = "minio"
    PROVE  LET l == StandaloneArgs(spec) IN
           /\ Piece(l, StandaloneNames, Stores(spec)) /\ Stores(spec) \subseteq Names(l)
           /\ Names(coreEnvsForMeta(spec)) \cup ConfigNames \subseteq Names(l)
           /\ "RW_LICENSE_KEY_PATH" \in Names(l) => MountsLicense(spec)
<1> DEFINE a == Plain(<<"RW_CONFIG_PATH">>)
           b == coreEnvsForMeta(spec)
           c == Plain(<<"RW_META_ADDR">>)
           d == envsForStateStore(spec.state)
           e == envsForMetaStore(spec.meta)
           R == Stores(spec)
           ab == a \o b
           abc == ab \o c
           abcd == abc \o d
           l == abcd \o e
<1>1. StandaloneArgs(spec) = l
  BY DEF StandaloneArgs
<1>2. ConfigNames \subseteq OperatorNames /\ AddrNames \subseteq OperatorNames
  BY DEF ConfigNames, AddrNames, OperatorNames
<1>3. Piece(a, ConfigNames, R) /\ Names(a) = ConfigNames
  BY <1>2, Plain1 DEF ConfigNames
<1>4. Piece(c, AddrNames, R)
  BY <1>2, Plain1 DEF AddrNames
<1>5. Piece(b, CoreNames, R) /\ ("RW_LICENSE_KEY_PATH" \in Names(b) => MountsLicense(spec))
  BY CorePiece
<1>6. Piece(d, StoreNames, Names(d)) /\ Piece(e, MetaStoreNames, {})
  BY StateStorePiece, MetaStorePiece
<1>7. R = Names(d) \cup Names(e)
  BY DEF Stores
<1>8. /\ ConfigNames \cap CoreNames = {} /\ (ConfigNames \cup CoreNames) \cap AddrNames = {}
      /\ ((ConfigNames \cup CoreNames) \cup AddrNames) \cap StoreNames = {}
  BY DEF ConfigNames, AddrNames, CoreNames, CoreFront, BackendNames, LicenseNames, SecretNames,
         StoreNames
<1>9. (((ConfigNames \cup CoreNames) \cup AddrNames) \cup StoreNames) \cap MetaStoreNames = {}
  BY DEF ConfigNames, AddrNames, CoreNames, CoreFront, BackendNames, LicenseNames, SecretNames,
         StoreNames, MetaStoreNames
<1>10. "RW_LICENSE_KEY_PATH" \notin ConfigNames \cup AddrNames
  BY DEF ConfigNames, AddrNames
<1> HIDE DEF a, b, c, d, e, R
<1>11. Piece(d, StoreNames, R) /\ Piece(e, MetaStoreNames, R)
  BY <1>6, <1>7, PieceOf
<1>12. Piece(ab, ConfigNames \cup CoreNames, R)
  BY <1>3, <1>5, <1>8, PieceBehind
<1>13. Names(ab) = Names(a) \cup Names(b)
  BY <1>3, <1>5, Behind DEF Piece
<1> HIDE DEF ab
<1>14. Piece(abc, (ConfigNames \cup CoreNames) \cup AddrNames, R)
  BY <1>4, <1>8, <1>12, PieceBehind
<1>15. Names(abc) = Names(ab) \cup Names(c)
  BY <1>4, <1>12, Behind DEF Piece
<1> HIDE DEF abc
<1>16. Piece(abcd, ((ConfigNames \cup CoreNames) \cup AddrNames) \cup StoreNames, R)
  BY <1>8, <1>11, <1>14, PieceBehind
<1>17. Names(abcd) = Names(abc) \cup Names(d)
  BY <1>11, <1>14, Behind DEF Piece
<1> HIDE DEF abcd
<1>18. Piece(l, StandaloneNames, R)
  BY <1>9, <1>11, <1>16, PieceBehind DEF StandaloneNames
<1>19. Names(l) = Names(abcd) \cup Names(e)
  BY <1>11, <1>16, Behind DEF Piece
<1> HIDE DEF l
<1>20. R \subseteq Names(l)
  BY <1>7, <1>17, <1>19
<1>21. Names(b) \cup ConfigNames \subseteq Names(l)
  BY <1>3, <1>13, <1>15, <1>17, <1>19
<1>22. "RW_LICENSE_KEY_PATH" \in Names(l) => MountsLicense(spec)
  <2>1. "RW_LICENSE_KEY_PATH" \notin Names(a) \cup Names(c)
    BY <1>3, <1>4, <1>10 DEF Piece
  <2>2. "RW_LICENSE_KEY_PATH" \notin Names(d) \cup Names(e)
    BY <1>11, NoLicensePath DEF Piece
  <2>3. QED BY <1>5, <1>13, <1>15, <1>17, <1>19, <2>1, <2>2
<1>23. QED BY <1>1, <1>18, <1>20, <1>21, <1>22 DEF R, b

(* A standalone: the variables of TLS and of the listener are appended.    *)
LEMMA StandaloneContainer ==
    ASSUME NEW spec \in Specs,
           hummockConnectionStr(spec.state) = "minio" => StateStoreOfEnvs(spec.state) = "minio",
           NEW m, m = setupStandaloneContainer(spec)
    PROVE  /\ Complete(m, spec)
           /\ Names(coreEnvsForMeta(spec)) \cup ConfigNames \subseteq Names(m)
           /\ Names(envsForMetaStore(spec.meta)) \subseteq Names(m)
           /\ EachOnce(spec.env) => OperatorWins(m, Stores(spec) \cup Names(coreEnvsForMeta(spec)))
           /\ OrderlyTemplate(spec) => EachOnce(m)
<1> DEFINE b == BasicEnv(spec)
           tls == envsForTLS(spec)
           bt == b \o tls
           l == StandaloneArgs(spec)
           n == MergeAll(bt, l)
           w == Listener(spec)
           U == ToSet(spec.env)
           R == Stores(spec)
           Q == ((Names(b) \cup Names(tls)) \cup Names(l)) \cup Names(w)
<1>1. m = n \o w
  BY DEF setupStandaloneContainer, StandaloneArgs, Listener
<1>2. /\ b \in Seq(Variables) /\ Given(b, U, Q)
      /\ Names(b) \subseteq Alphabet
      /\ \A name \in Names(b) :
            name \in Names(spec.env) \/ name \in SystemNames \/ name = "RW_RESOURCE_GROUP"
      /\ EachOnce(spec.env) => EachOnce(b)
  <2>1. Template(spec, spec)
    BY UserTemplate
  <2> HIDE DEF Q
  <2>2. QED BY <2>1, TemplateMerged
<1>3. /\ Piece(l, StandaloneNames, R) /\ R \subseteq Names(l)
      /\ Names(coreEnvsForMeta(spec)) \cup ConfigNames \subseteq Names(l)
      /\ "RW_LICENSE_KEY_PATH" \in Names(l) => MountsLicense(spec)
  BY StandaloneArgsPiece
<1>4. Piece(tls, TLSNames, {}) /\ Piece(w, ListenerNames, {})
  BY TLSPiece, ListenerPiece
<1>5. (~spec.tls => Names(tls) = {}) /\ (~spec.listener => Names(w) = {})
  BY TLSPiece, ListenerPiece, NoVariables
<1>6. Names(envsForMetaStore(spec.meta)) \subseteq R
  BY DEF Stores
<1>7. StandaloneNames \cap TLSNames = {}
  BY DEF StandaloneNames, ConfigNames, AddrNames, CoreNames, CoreFront, BackendNames, LicenseNames,
         SecretNames, StoreNames, MetaStoreNames, TLSNames
<1> HIDE DEF b, tls, l, w, U, R
<1>8. tls \in Seq(Variables) /\ l \in Seq(Variables) /\ w \in Seq(Variables)
  BY <1>3, <1>4 DEF Piece
<1>9. /\ bt \in Seq(Variables) /\ Names(bt) = Names(b) \cup Names(tls)
      /\ \A name : Once(b, name) /\ name \notin Names(tls) => Once(bt, name)
      /\ \A name : Once(tls, name) /\ name \notin Names(b) => Once(bt, name)
  BY <1>2, <1>8, Behind
<1>10. /\ \A name : Once(tls, name) /\ Once(w, name)
       /\ EachOnce(spec.env) => \A name : Once(b, name)
  <2>1. EachOnce(tls) /\ EachOnce(w)
    BY <1>4 DEF Piece
  <2>2. \A name : Once(tls, name) /\ Once(w, name)
    BY <1>8, <2>1, OnceEach
  <2>3. EachOnce(spec.env) => \A name : Once(b, name)
    BY <1>2, OnceEach
  <2>4. QED BY <2>2, <2>3
<1>11. R \subseteq Q /\ {} \subseteq Q
  BY <1>3
<1> HIDE DEF Q
<1>12. Given(bt, U, Q) /\ Given(l, U, Q) /\ Given(w, U, Q)
  <2>1. Given(tls, U, Q)
    BY <1>4, <1>11, PieceGiven
  <2>2. Given(bt, U, Q)
    BY <1>2, <1>8, <2>1, GivenBehind
  <2>3. Given(l, U, Q)
    BY <1>3, <1>11, PieceGiven
  <2>4. Given(w, U, Q)
    BY <1>4, <1>11, PieceGiven
  <2>5. QED BY <2>2, <2>3, <2>4
<1> HIDE DEF bt
<1>13. /\ n \in Seq(Variables) /\ Names(n) = Names(bt) \cup Names(l)
       /\ \A name : Once(bt, name) =>
             /\ Once(n, name)
             /\ \A x \in ToSet(n) : x.name = name =>
                   IF name \in Names(l) THEN x \in ToSet(l) ELSE x \in ToSet(bt)
  BY <1>8, <1>9, AllMerged
<1>14. Given(n, U, Q)
  BY <1>8, <1>9, <1>12, GivenMerged
<1> HIDE DEF n
<1>15. /\ m \in Seq(Variables) /\ Names(m) = Names(n) \cup Names(w)
       /\ ToSet(m) = ToSet(n) \cup ToSet(w)
       /\ \A name : Once(n, name) /\ name \notin Names(w) => Once(m, name)
       /\ \A name : Once(w, name) /\ name \notin Names(n) => Once(m, name)
  BY <1>1, <1>8, <1>13, Behind
<1>16. Given(m, U, Q)
  BY <1>1, <1>8, <1>12, <1>13, <1>14, GivenBehind
<1>17. Names(m) = Q
  BY <1>9, <1>13, <1>15 DEF Q
<1>18. Q \subseteq Alphabet
  <2>1. OperatorNames \subseteq Alphabet
    BY FactoryAssumption
  <2>2. Names(tls) \subseteq OperatorNames /\ Names(w) \subseteq OperatorNames
    BY <1>4, AllNamed DEF Piece
  <2>3. ConfigNames \subseteq OperatorNames /\ AddrNames \subseteq OperatorNames
    BY DEF ConfigNames, AddrNames, OperatorNames
  <2>4. StandaloneNames \subseteq OperatorNames
    BY <2>3, AllNamed, StoreNamed, MetaStoreNamed DEF StandaloneNames
  <2>5. Names(l) \subseteq OperatorNames
    BY <1>3, <2>4 DEF Piece
  <2>6. QED BY <1>2, <2>1, <2>2, <2>5 DEF Q
<1>19. "RW_LICENSE_KEY_PATH" \in Q \ Names(spec.env) => MountsLicense(spec)
  <2>1. "RW_LICENSE_KEY_PATH" \notin Names(tls) \cup Names(w)
    BY <1>4, NoLicensePath DEF Piece
  <2>2. QED BY <1>2, <1>3, <2>1, NoLicensePath DEF Q
<1>20. Complete(m, spec)
  <2>1. m \in Listed
    BY <1>15, <1>17, <1>18 DEF Listed, Rank
  <2>2. QED BY <1>16, <1>17, <1>19, <2>1 DEF Complete, U
<1>21. Names(l) \subseteq Names(m)
  BY <1>17 DEF Q
<1>22. ASSUME EachOnce(spec.env), NEW v \in ToSet(m), v.name \in Names(l) PROVE v.by = "operator"
  <2>1. v.name \notin TLSNames
    BY <1>3, <1>7, <1>22 DEF Piece
  <2>2. v.name \notin Names(tls)
    BY <1>4, <2>1 DEF Piece
  <2>3. Once(bt, v.name)
    BY <1>9, <1>10, <1>22, <2>2
  <2>4. CASE v \in ToSet(w)
    BY <1>4, <2>4 DEF Piece
  <2>5. CASE v \in ToSet(n)
    <3>1. v \in ToSet(l)
      BY <1>3, <1>13, <1>22, <2>3, <2>5
    <3>2. QED BY <1>3, <3>1 DEF Piece
  <2>6. QED BY <1>15, <2>4, <2>5
<1>23. ASSUME OrderlyTemplate(spec) PROVE EachOnce(m)
  <2>1. /\ EachOnce(spec.env) /\ (spec.tls => Names(spec.env) \cap TLSNames = {})
        /\ (spec.listener => "RW_WEBHOOK_LISTEN_ADDR" \notin Names(spec.env))
    BY <1>23 DEF OrderlyTemplate, TLSNames
  <2>2. /\ TLSNames \cap SystemNames = {} /\ "RW_RESOURCE_GROUP" \notin TLSNames
        /\ ListenerNames \cap SystemNames = {} /\ "RW_RESOURCE_GROUP" \notin ListenerNames
        /\ ListenerNames \cap TLSNames = {}
        /\ ListenerNames = {"RW_WEBHOOK_LISTEN_ADDR"}
    BY DEF TLSNames, SystemNames, ListenerNames
  <2>3. Names(tls) \cap Names(b) = {}
    BY <1>2, <1>4, <1>5, <2>1, <2>2 DEF Piece
  <2>4. ListenerNames \cap StandaloneNames = {}
    BY DEF ListenerNames, StandaloneNames, ConfigNames, AddrNames, CoreNames, CoreFront,
           BackendNames, LicenseNames, SecretNames, StoreNames, MetaStoreNames
  <2>5. Names(w) \cap Names(n) = {}
    <3>1. Names(w) \cap Names(b) = {}
      BY <1>2, <1>4, <1>5, <2>1, <2>2 DEF Piece
    <3>2. Names(w) \cap Names(tls) = {}
      BY <1>4, <2>2 DEF Piece
    <3>3. Names(w) \cap Names(l) = {}
      BY <1>3, <1>4, <2>4 DEF Piece
    <3>4. QED BY <1>9, <1>13, <3>1, <3>2, <3>3
  <2>6. \A name : Once(bt, name)
    BY <1>9, <1>10, <2>1, <2>3
  <2>7. \A name : Once(n, name)
    BY <1>13, <2>6
  <2>8. \A name : Once(m, name)
    BY <1>10, <1>15, <2>5, <2>7
  <2>9. QED BY <1>15, <2>8, OnceEach
<1>24. ASSUME EachOnce(spec.env) PROVE OperatorWins(m, R \cup Names(coreEnvsForMeta(spec)))
  BY <1>3, <1>22, <1>24 DEF OperatorWins
<1>25. QED BY <1>3, <1>6, <1>20, <1>21, <1>23, <1>24 DEF R

-----------------------------------------------------------------------------
(* The environments of the containers.                                     *)

LEMMA ContainerOf ==
    ASSUME NEW c \in Containers, NEW spec
    PROVE  \/ c = "meta" /\ MergedEnv(c, spec) = setupMetaContainer(spec)
           \/ c = "frontend" /\ MergedEnv(c, spec) = setupFrontendContainer(spec)
           \/ c = "compute" /\ MergedEnv(c, spec) = setupComputeContainer(WithResourceGroup(spec))
           \/ c = "compactor" /\ MergedEnv(c, spec) = setupCompactorContainer(spec)
           \/ c = "standalone" /\ MergedEnv(c, spec) = setupStandaloneContainer(spec)
BY DEF Containers, MergedEnv

LEMMA ComputeContainer ==
    ASSUME NEW spec \in Specs, NEW m, m = setupComputeContainer(WithResourceGroup(spec))
    PROVE  /\ Complete(m, spec) /\ EachOnce(m)
           /\ OperatorWins(m, Names(envsForStateStore(spec.state)))
           /\ EachOnce(spec.env) => UserWins(m, spec, Names(envsForStateStore(spec.state)))
<1> DEFINE t == WithResourceGroup(spec)
           a == envsForComputeArgs(t)
           S == NodeNames \cup LimitNames
<1>1. m = MergeAll(MergeAll(a, BasicEnv(t)), envsForStateStore(t.state))
  BY DEF setupComputeContainer
<1>2. Piece(a, S, PodRefs) /\ S \subseteq OperatorNames /\ "RW_LICENSE_KEY_PATH" \notin S
  BY ComputeArgsPiece, AllNamed, NoLicensePath
<1>3. Template(t, spec)
  BY GroupTemplate
<1> HIDE DEF t, a, S
<1>4. QED BY <1>1, <1>2, <1>3, NodeContainer

LEMMA CompactorContainer ==
    ASSUME NEW spec \in Specs, NEW m, m = setupCompactorContainer(spec)
    PROVE  /\ Complete(m, spec) /\ EachOnce(m)
           /\ OperatorWins(m, Names(envsForStateStore(spec.state)))
           /\ EachOnce(spec.env) => UserWins(m, spec, Names(envsForStateStore(spec.state)))
<1> DEFINE a == envsForCompactorArgs(spec)
<1>1. m = MergeAll(MergeAll(a, BasicEnv(spec)), envsForStateStore(spec.state))
  BY DEF setupCompactorContainer
<1>2. Piece(a, NodeNames, PodRefs) /\ NodeNames \subseteq OperatorNames /\ "RW_LICENSE_KEY_PATH" \notin NodeNames
  BY ComputeArgsPiece, AllNamed, NoLicensePath
<1>3. Template(spec, spec)
  BY UserTemplate
<1> HIDE DEF a
<1>4. QED BY <1>1, <1>2, <1>3, NodeContainer

(* With etcd and no memory, etcd is the store of meta.                     *)
LEMMA EtcdPicked ==
    ASSUME NEW meta, "etcd" \in meta.configured, "memory" \notin meta.configured
    PROVE  MetaStoreOfCoreEnvs(meta) = "etcd" /\ MetaStoreOfEnvs(meta) = "etcd"
<1> DEFINE order == <<"memory", "etcd", "sqlite", "mysql", "postgresql">>
           hits == {i \in DOMAIN order : order[i] \in meta.configured}
<1>1. DOMAIN order = 1 .. 5 /\ order[1] = "memory" /\ order[2] = "etcd"
  OBVIOUS
<1>2. /\ MetaStoreOfCoreEnvs(meta) = IF hits = {} THEN "unknown" ELSE order[Min(hits)]
      /\ MetaStoreOfEnvs(meta) = IF hits = {} THEN "unknown" ELSE order[Min(hits)]
  BY DEF MetaStoreOfCoreEnvs, MetaStoreOfEnvs, Picks
<1>3. 2 \in hits /\ 1 \notin hits /\ hits \in SUBSET Nat /\ \A i \in hits : i >= 1
  BY <1>1
<1> HIDE DEF hits, order
<1>4. Min(hits) \in hits /\ \A i \in hits : Min(hits) <= i
  BY <1>3, MinIsLeast
<1> DEFINE k == Min(hits)
<1> HIDE DEF k
<1>5. k \in hits /\ k \in Nat /\ k >= 1 /\ k # 1 /\ k <= 2
  BY <1>3, <1>4 DEF k
<1>6. k = 2
  BY <1>5
<1>7. QED BY <1>1, <1>2, <1>3, <1>6 DEF k

(* In every container everything that the operator's variables and the     *)
(* command line refer to is defined.                                       *)
LEMMA ContainersComplete ==
    ASSUME NEW spec \in Specs, validateCreate(spec), NEW c \in Containers,
           NEW m, m = MergedEnv(c, spec)
    PROVE  /\ Complete(m, spec) /\ (OrderlyTemplate(spec) => EachOnce(m))
           /\ {"memory", "etcd"} \subseteq spec.meta.configured \/ ArgRefs(c, spec) \subseteq Names(m)
<1>1. hummockConnectionStr(spec.state) = "minio" => StateStoreOfEnvs(spec.state) = "minio"
  BY ValidatedHasOneBackend
<1>2. CASE c = "meta" /\ m = setupMetaContainer(spec)
  <2>1. ArgRefs(c, spec) = {}
    BY <1>2 DEF ArgRefs
  <2>2. QED BY <1>1, <1>2, <2>1, MetaContainer
<1>3. CASE c = "frontend" /\ m = setupFrontendContainer(spec)
  <2>1. ArgRefs(c, spec) \subseteq {"POD_IP"}
    BY <1>3 DEF ArgRefs
  <2>2. QED BY <1>3, <2>1, FrontendContainer
<1>4. CASE c = "compute" /\ m = setupComputeContainer(WithResourceGroup(spec))
  <2>1. ArgRefs(c, spec) = {}
    BY <1>4 DEF ArgRefs
  <2>2. QED BY <1>4, <2>1, ComputeContainer
<1>5. CASE c = "compactor" /\ m = setupCompactorContainer(spec)
  <2>1. ArgRefs(c, spec) = {}
    BY <1>5 DEF ArgRefs
  <2>2. QED BY <1>5, <2>1, CompactorContainer
<1>6. CASE c = "standalone" /\ m = setupStandaloneContainer(spec)
  <2>1. /\ Complete(m, spec) /\ (OrderlyTemplate(spec) => EachOnce(m))
        /\ Names(coreEnvsForMeta(spec)) \cup ConfigNames \subseteq Names(m)
        /\ Names(envsForMetaStore(spec.meta)) \subseteq Names(m)
    BY <1>1, <1>6, StandaloneContainer
  <2>2. ASSUME ~({"memory", "etcd"} \subseteq spec.meta.configured)
        PROVE  ArgRefs(c, spec) \subseteq Names(m)
    <3>1. /\ {"RW_STATE_STORE", "RW_DATA_DIRECTORY", "RW_BACKEND"} \subseteq Names(m)
          /\ MetaStoreOfCoreEnvs(spec.meta) = "etcd" => "RW_ETCD_ENDPOINTS" \in Names(m)
          /\ "RW_CONFIG_PATH" \in Names(m)
      BY <1>1, <2>1, CorePiece DEF ConfigNames
    <3>2. "etcd" \in spec.meta.configured =>
             MetaStoreOfCoreEnvs(spec.meta) = "etcd" /\ MetaStoreOfEnvs(spec.meta) = "etcd"
      BY <2>2, EtcdPicked
    <3>3. "etcd" \in spec.meta.configured /\ spec.meta.auth =>
             {"RW_ETCD_USERNAME", "RW_ETCD_PASSWORD"} \subseteq Names(m)
      BY <2>1, <3>2, MetaStorePiece
    <3>4. argsForStandaloneMetaStore(spec) \subseteq Names(m)
      BY <3>1, <3>2, <3>3 DEF argsForStandaloneMetaStore
    <3>5. argsForStandalone(spec) \subseteq Names(m)
      BY <3>1, <3>4 DEF argsForStandalone
    <3>6. ArgRefs(c, spec) \subseteq {"RW_CONFIG_PATH"} \cup argsForStandalone(spec)
      BY <1>6 DEF ArgRefs
    <3>7. QED BY <3>1, <3>5, <3>6
  <2>3. QED BY <2>1, <2>2
<1>7. QED BY <1>2, <1>3, <1>4, <1>5, <1>6, ContainerOf

(* And each has the variables of the operator and of the template that     *)
(* TemplateScope says.                                                     *)
LEMMA ContainersKeepSettings ==
    ASSUME NEW spec \in Specs, validateCreate(spec), EachOnce(spec.env), NEW c \in Containers,
           NEW m, m = MergedEnv(c, spec)
    PROVE  /\ OperatorWins(m, Protected(c, spec))
           /\ c # "standalone" => UserWins(m, spec, Protected(c, spec))
<1> DEFINE state == Names(envsForStateStore(spec.state))
           core == Names(coreEnvsForMeta(spec))
<1>a. Stores(spec) = state \cup Names(envsForMetaStore(spec.meta))
  BY DEF Stores
<1>b. /\ c = "meta" => Protected(c, spec) = Stores(spec)
      /\ c = "frontend" => Protected(c, spec) = {}
      /\ c \in {"compute", "compactor"} => Protected(c, spec) = state
      /\ c = "standalone" => Protected(c, spec) = Stores(spec) \cup core
  BY <1>a DEF Protected
<1> HIDE DEF state, core
<1>1. hummockConnectionStr(spec.state) = "minio" => StateStoreOfEnvs(spec.state) = "minio"
  BY ValidatedHasOneBackend
<1>2. CASE c = "meta" /\ m = setupMetaContainer(spec)
  BY <1>1, <1>2, <1>b, MetaContainer
<1>3. CASE c = "frontend" /\ m = setupFrontendContainer(spec)
  BY <1>3, <1>b, FrontendContainer DEF OperatorWins
<1>4. CASE c = "compute" /\ m = setupComputeContainer(WithResourceGroup(spec))
  BY <1>4, <1>b, ComputeContainer DEF state
<1>5. CASE c = "compactor" /\ m = setupCompactorContainer(spec)
  BY <1>5, <1>b, CompactorContainer DEF state
<1>6. CASE c = "standalone" /\ m = setupStandaloneContainer(spec)
  BY <1>1, <1>6, <1>b, StandaloneContainer DEF core
<1>7. QED BY <1>2, <1>3, <1>4, <1>5, <1>6, ContainerOf

-----------------------------------------------------------------------------
(* The sorted environments.                                                *)

(* What sorting does to a list, seen as a list and as a set.               *)
LEMMA Sorted ==
    ASSUME NEW m \in Listed, Sortable(m), NEW s, s = TopologicalSort(m)
    PROVE  /\ DOMAIN s = 1 .. Len(m) /\ Len(s) = Len(m)
           /\ ToSet(s) = ToSet(m) /\ Names(s) = Names(m)
           /\ EachOnce(m) => Cardinality(Names(s)) = Len(s)
<1> DEFINE N == Len(m)
<1>1. N \in Nat /\ DOMAIN m = 1 .. N /\ m \in Seq(Variables)
  BY DEF Listed
<1>2. Len(s) = N
  BY SortIsTopological
<1>3. PICK place \in Bijection(1 .. N, 1 .. N) : \A i \in 1 .. N : s[i] = m[place[i]]
  BY SortIsTopological
<1>4. DOMAIN s = 1 .. N
  <2>1. s = [i \in DOMAIN SortedOrder(m) |-> m[SortedOrder(m)[i]]]
              \o SubSeq(m, Len(SortedOrder(m)) + 1, Len(m))
    BY DEF TopologicalSort
  <2>2. DOMAIN s = 1 .. Len(s)
    BY <2>1
  <2>3. QED BY <1>2, <2>2
<1>5. /\ \A i \in 1 .. N : place[i] \in 1 .. N
      /\ \A i \in 1 .. N : \E j \in 1 .. N : place[j] = i
  BY DEF Bijection, Injection, Surjection
<1> HIDE DEF N
<1>6. \A v : v \in ToSet(s) <=> v \in ToSet(m)
  <2>1. ASSUME NEW v \in ToSet(s) PROVE v \in ToSet(m)
    <3>1. PICK i \in 1 .. N : v = s[i]
      BY <1>4 DEF ToSet
    <3>2. place[i] \in DOMAIN m /\ v = m[place[i]]
      BY <1>1, <1>3, <1>5, <3>1
    <3>3. QED BY <3>2 DEF ToSet
  <2>2. ASSUME NEW v \in ToSet(m) PROVE v \in ToSet(s)
    <3>1. PICK i \in 1 .. N : v = m[i]
      BY <1>1 DEF ToSet
    <3>2. PICK j \in 1 .. N : place[j] = i
      BY <1>5
    <3>3. j \in DOMAIN s /\ v = s[j]
      BY <1>3, <1>4, <3>1, <3>2
    <3>4. QED BY <3>3 DEF ToSet
  <2>3. QED BY <2>1, <2>2
<1>7. \A n : n \in Names(s) <=> n \in Names(m)
  <2>1. \A n : n \in Names(s) <=> \E v \in ToSet(s) : v.name = n
    BY DEF Names, ToSet
  <2>2. \A n : n \in Names(m) <=> \E v \in ToSet(m) : v.name = n
    BY DEF Names, ToSet
  <2>3. QED BY <1>6, <2>1, <2>2
<1>8. ASSUME EachOnce(m) PROVE Cardinality(Names(m)) = N
  <2> DEFINE f == [i \in 1 .. N |-> m[i].name]
  <2>1. f \in Injection(1 .. N, Names(m))
    <3>1. f \in [1 .. N -> Names(m)]
      BY <1>1 DEF Names
    <3>2. \A i, j \in 1 .. N : f[i] = f[j] => i = j
      BY <1>1, <1>8 DEF EachOnce
    <3>3. QED BY <3>1, <3>2 DEF Injection, IsInjective
  <2>2. \A n \in Names(m) : \E i \in 1 .. N : f[i] = n
    BY <1>1 DEF Names
  <2>3. f \in Bijection(1 .. N, Names(m))
    BY <2>1, <2>2 DEF Bijection, Injection, Surjection
  <2>4. ExistsBijection(1 .. N, Names(m))
    BY <2>3 DEF ExistsBijection
  <2>5. IsFiniteSet(1 .. N) /\ Cardinality(1 .. N) = N
    BY <1>1, UpTo
  <2>6. QED BY <2>4, <2>5, FS_Bijection
<1>9. ToSet(s) = ToSet(m) /\ Names(s) = Names(m)
  BY <1>6, <1>7
<1>10. QED BY <1>2, <1>4, <1>8, <1>9 DEF N

(* A reference that is not escaped is a dependency on what it names.       *)
LEMMA Refers ==
    ASSUME NEW v \in Variables, NEW w, NEW k \in DOMAIN v.refs, v.refs[k].name = w.name,
           \A l \in DOMAIN v.refs : v.refs[l].name = w.name => ~v.refs[l].escaped
    PROVE  DependsOn(v, w)
<1> DEFINE hits == {i \in DOMAIN v.refs : v.refs[i].name = w.name}
<1>1. v.refs \in Seq([name : STRING, escaped : BOOLEAN])
  BY DEF Variables
<1>2. hits \in SUBSET Nat /\ hits # {}
  BY <1>1
<1>3. \A i \in hits : ~v.refs[i].escaped
  OBVIOUS
<1>4. DependsOn(v, w) <=> hits # {} /\ ~v.refs[Min(hits)].escaped
  BY DEF DependsOn
<1> HIDE DEF hits
<1>5. Min(hits) \in hits
  BY <1>2, MinIsLeast
<1>6. QED BY <1>2, <1>3, <1>4, <1>5

(* Every reference of the operator's, and every one to a variable of the   *)
(* container, is to an earlier variable, unless that one refers back.      *)
LEMMA SortedResolves ==
    ASSUME NEW spec \in Specs, OrderlyTemplate(spec), NEW m, Complete(m, spec), Sortable(m),
           NEW s, s = TopologicalSort(m),
           NEW i \in DOMAIN s, NEW k \in DOMAIN s[i].refs, ~s[i].refs[k].escaped,
           s[i].by = "operator" \/ s[i].refs[k].name \in Names(s)
    PROVE  \E j \in DOMAIN s :
              s[j].name = s[i].refs[k].name /\ (j < i \/ DependsOn(s[j], s[i]))
<1> DEFINE v == s[i]
           name == v.refs[k].name
<1>1. m \in Listed /\ m \in Seq(Variables) /\ Given(m, ToSet(spec.env), Names(m))
  BY DEF Complete, Listed
<1>2. /\ DOMAIN s = 1 .. Len(m) /\ Len(s) = Len(m)
      /\ ToSet(s) = ToSet(m) /\ Names(s) = Names(m)
  BY <1>1, Sorted
<1>3. v \in ToSet(m)
  BY <1>2 DEF ToSet
<1>4. v \in Variables
  <2>1. \A x \in ToSet(m) : x \in Variables
    BY <1>1 DEF ToSet
  <2>2. QED BY <1>3, <2>1
<1>5. v \in ToSet(spec.env) \/ (v.by = "operator" /\ Leads(v, Names(m)))
  BY <1>1, <1>3 DEF Given
<1>6. /\ name \in Names(s)
      /\ \A l \in DOMAIN v.refs : v.refs[l].name = name => ~v.refs[l].escaped
  <2>1. CASE v \in ToSet(spec.env)
    <3>1. v.by = "user"
      BY <2>1, UserTemplate
    <3>2. name \in Names(s)
      BY <3>1
    <3>3. \A l \in DOMAIN v.refs : v.refs[l].name = name => v.refs[l].escaped = v.refs[k].escaped
      BY <2>1 DEF OrderlyTemplate
    <3>4. QED BY <3>2, <3>3
  <2>2. CASE Leads(v, Names(m))
    BY <1>2, <2>2 DEF Leads
  <2>3. QED BY <1>5, <2>1, <2>2
<1>7. PICK j \in DOMAIN s : s[j].name = name
  BY <1>6 DEF Names
<1>8. DependsOn(v, s[j])
  <2> DEFINE w == s[j]
  <2>1. v.refs[k].name = w.name /\ \A l \in DOMAIN v.refs : v.refs[l].name = w.name => ~v.refs[l].escaped
    BY <1>6, <1>7
  <2> HIDE DEF v, w
  <2>2. k \in DOMAIN v.refs
    BY DEF v
  <2>3. DependsOn(v, w)
    BY <1>4, <2>1, <2>2, Refers
  <2>4. QED BY <2>3 DEF w
<1>9. j < i \/ DependsOn(s[j], s[i])
  BY <1>1, <1>2, <1>8, SortIsTopological
<1>10. QED BY <1>7, <1>9

(* What a reconciliation built from is a specification of the cache that   *)
(* the webhook has seen, when no annotation bypassed it.                   *)
LEMMA BuiltIsValid ==
    TypeOK /\ Validated /\ Fresh => built.spec \in Specs /\ validateCreate(built.spec)
<1> SUFFICES ASSUME TypeOK, Validated, Fresh PROVE built.spec \in Specs /\ validateCreate(built.spec)
  OBVIOUS
<1>1. built # NoRW
  BY DEF Fresh
<1>2. built \in RisingWaves
  BY <1>1 DEF TypeOK
<1>3. built.spec \in Specs
  BY <1>2 DEF RisingWaves
<1>4. built.spec.bypass \/ validateCreate(built.spec)
  BY <1>1 DEF Validated
<1>5. QED BY <1>3, <1>4 DEF Fresh

(* For every specification with a template that lists a name once: what    *)
(* setupMeta-, setupCompute-, setupCompactor- and setupStandaloneContainer *)
(* merge over the template is the operator's, everything else that the     *)
(* template lists is the user's, also where a meta node is told which      *)
(* stores to use; and nothing that keepPodSpecConsistent does to the list, *)
(* even with a cycle in it, brings back what mergeListWhenKeyEquals        *)
(* replaced.                                                               *)
THEOREM TemplateIsBounded == Spec => []TemplateScope
<1>1. FactoryInv => TemplateScope
  <2> SUFFICES ASSUME FactoryInv, FirstBuild, EachOnce(built.spec.env),
                      NEW c \in Containers, NEW v \in ToSet(Env(c))
               PROVE  LET protected == Protected(c, built.spec) IN
                      /\ v.name \in protected => v.by = "operator"
                      /\ c # "standalone" /\ v.name \in Names(built.spec.env)
                         /\ v.name \notin protected \cup ToSet(BasicNames(built.spec)) => v.by = "user"
    BY DEF TemplateScope
  <2> DEFINE spec == built.spec
             m == MergedEnv(c, spec)
  <2>1. spec \in Specs /\ validateCreate(spec)
    BY BuiltIsValid DEF FactoryInv, FirstBuild
  <2>2. EachOnce(spec.env)
    OBVIOUS
  <2>3. Env(c) = TopologicalSort(m)
    BY DEF Env, keepPodSpecConsistent
  <2> HIDE DEF spec, m
  <2>4. m = MergedEnv(c, spec)
    BY DEF m
  <2>5. Complete(m, spec)
    BY <2>1, <2>4, ContainersComplete
  <2>6. v \in ToSet(m)
    <3>1. ToSet(TopologicalSort(m)) \subseteq ToSet(m)
      BY <2>5, SortFrom DEF Complete
    <3>2. QED BY <2>3, <3>1
  <2>7. /\ OperatorWins(m, Protected(c, spec))
        /\ c # "standalone" => UserWins(m, spec, Protected(c, spec))
    BY <2>1, <2>2, <2>4, ContainersKeepSettings
  <2>8. v.name \in Protected(c, spec) => v.by = "operator"
    BY <2>6, <2>7 DEF OperatorWins
  <2>9. ASSUME c # "standalone", v.name \in Names(spec.env), v.name \notin Protected(c, spec),
               v.name \notin ToSet(BasicNames(spec))
        PROVE  v.by = "user"
    BY <2>6, <2>7, <2>9 DEF UserWins
  <2>10. QED BY <2>8, <2>9 DEF spec
<1>2. QED BY <1>1, FactoryInvariant, PTL

\* the variables have no cycle, other than of two that refer to each other
NoLongCycle == \A c \in Containers : Sortable(MergedEnv(c, built.spec))

(* Every environment that the factory builds from what the webhook let     *)
(* through can be expanded and has every variable once, for every          *)
(* specification with an orderly template: the lists that setupMeta-,      *)
(* setupFrontend-, setupCompute-, setupCompactor- and                      *)
(* setupStandaloneContainer merge define whatever the operator's variables *)
(* and the command line refer to, and keepPodSpecConsistent puts it in     *)
(* front.  Only a cycle of more than two, or of one, among the user's      *)
(* variables is left out.                                                  *)
THEOREM EnvironmentIsSound == Spec => [](NoLongCycle => EnvironmentSound)
<1>1. FactoryInv /\ NoLongCycle => EnvironmentSound
  <2> SUFFICES ASSUME FactoryInv, NoLongCycle, FirstBuild, OrderlyTemplate(built.spec)
               PROVE  EnvironmentSound
    BY DEF EnvironmentSound, ReferencesResolve, EveryVariableOnce
  <2> DEFINE spec == built.spec
  <2>1. spec \in Specs /\ validateCreate(spec) /\ OrderlyTemplate(spec)
    BY BuiltIsValid DEF FactoryInv, FirstBuild
  <2>2. ASSUME NEW c \in Containers
        PROVE  LET env == Env(c)
                   m == MergedEnv(c, spec)
               IN  /\ \A i \in DOMAIN env : \A k \in DOMAIN env[i].refs :
                         ~env[i].refs[k].escaped /\ (env[i].by = "operator" \/ env[i].refs[k].name \in Names(env))
                         => \E j \in DOMAIN env :
                               env[j].name = env[i].refs[k].name /\ (j < i \/ DependsOn(env[j], env[i]))
                   /\ {"memory", "etcd"} \subseteq spec.meta.configured \/ ArgRefs(c, spec) \subseteq Names(env)
                   /\ "RW_LICENSE_KEY_PATH" \in Names(env) \ Names(spec.env) => MountsLicense(spec)
                   /\ ToSet(env) = ToSet(m) /\ Cardinality(Names(env)) = Len(env)
    <3> DEFINE m == MergedEnv(c, spec)
               s == Env(c)
    <3>1. s = TopologicalSort(m) /\ Sortable(m)
      BY DEF Env, keepPodSpecConsistent, NoLongCycle
    <3> HIDE DEF spec, m, s
    <3>2. m = MergedEnv(c, spec)
      BY DEF m
    <3>3. /\ Complete(m, spec) /\ EachOnce(m)
          /\ {"memory", "etcd"} \subseteq spec.meta.configured \/ ArgRefs(c, spec) \subseteq Names(m)
      BY <2>1, <3>2, ContainersComplete
    <3>4. m \in Listed /\ ("RW_LICENSE_KEY_PATH" \in Names(m) \ Names(spec.env) => MountsLicense(spec))
      BY <3>3 DEF Complete
    <3>5. ToSet(s) = ToSet(m) /\ Names(s) = Names(m) /\ Cardinality(Names(s)) = Len(s)
      BY <3>1, <3>3, <3>4, Sorted
    <3>6. ASSUME NEW i \in DOMAIN s, NEW k \in DOMAIN s[i].refs, ~s[i].refs[k].escaped,
                 s[i].by = "operator" \/ s[i].refs[k].name \in Names(s)
          PROVE  \E j \in DOMAIN s :
                    s[j].name = s[i].refs[k].name /\ (j < i \/ DependsOn(s[j], s[i]))
      BY <2>1, <3>1, <3>3, <3>6, SortedResolves
    <3>7. QED BY <3>3, <3>4, <3>5, <3>6 DEF m, s
  <2>3. ReferencesResolve
    BY <2>2 DEF ReferencesResolve
  <2>4. EveryVariableOnce
    BY <2>2 DEF EveryVariableOnce, ToSet
  <2>5. QED BY <2>3, <2>4 DEF EnvironmentSound
<1>2. QED BY <1>1, FactoryInvariant, PTL

\* every reference of the user's goes to a variable of a smaller depth, and so
\* do the operator's
Layered(env, depth) ==
    /\ \A n \in Referring : \A r \in Referred : depth[r] < depth[n]
    /\ \A v \in ToSet(env) : \A k \in DOMAIN v.refs :
          ~v.refs[k].escaped /\ v.refs[k].name \in Alphabet => depth[v.refs[k].name] < depth[v.name]

(* The condition of EnvironmentIsSound can be told from the template: the  *)
(* operator's own variables never close a cycle, so the lists of every     *)
(* container can be sorted by TopologicalSort when the names can be        *)
(* layered.                                                                *)
THEOREM TemplatesSort ==
    ASSUME NEW spec \in Specs, validateCreate(spec), NEW c \in Containers,
           NEW depth \in [Alphabet -> Nat], Layered(spec.env, depth)
    PROVE  Sortable(MergedEnv(c, spec))
<1> DEFINE m == MergedEnv(c, spec)
<1>1. Complete(m, spec)
  BY ContainersComplete
<1> HIDE DEF m
<1>2. m \in Seq(Variables) /\ Names(m) \subseteq Alphabet /\ Given(m, ToSet(spec.env), Names(m))
  BY <1>1 DEF Complete, Listed, Rank
<1> DEFINE d == [i \in DOMAIN m |-> depth[m[i].name]]
<1>3. \A i \in DOMAIN m : m[i] \in Variables /\ m[i].name \in Alphabet /\ m[i] \in ToSet(m)
  BY <1>2 DEF Names, ToSet
<1>4. d \in [DOMAIN m -> Nat]
  BY <1>3
<1>5. ASSUME NEW e \in Edges(m) PROVE d[e[1]] < d[e[2]]
  <2>1. e[1] \in DOMAIN m /\ e[2] \in DOMAIN m /\ DependsOn(m[e[2]], m[e[1]])
    BY DEF Edges, Edges_OneWay
  <2> DEFINE v == m[e[2]]
             w == m[e[1]]
             hits == {i \in DOMAIN v.refs : v.refs[i].name = w.name}
  <2>2. v \in Variables /\ w.name \in Alphabet /\ v \in ToSet(m)
    BY <1>3, <2>1
  <2>3. hits # {} /\ ~v.refs[Min(hits)].escaped
    BY <2>1 DEF DependsOn
  <2>4. hits \in SUBSET Nat
    <3>1. v.refs \in Seq([name : STRING, escaped : BOOLEAN])
      BY <2>2 DEF Variables
    <3>2. QED BY <3>1
  <2>5. Min(hits) \in hits
    <3> HIDE DEF hits
    <3>1. QED BY <2>3, <2>4, MinIsLeast
  <2>6. PICK k \in DOMAIN v.refs : v.refs[k].name = w.name /\ ~v.refs[k].escaped
    BY <2>3, <2>5
  <2>7. v \in ToSet(spec.env) \/ Leads(v, Names(m))
    BY <1>2, <2>2 DEF Given
  <2>8. depth[w.name] < depth[v.name]
    <3>1. CASE v \in ToSet(spec.env)
      <4> HIDE DEF v, w
      <4>1. QED BY <2>2, <2>6, <3>1 DEF Layered
    <3>2. CASE Leads(v, Names(m))
      <4> HIDE DEF v, w
      <4>1. w.name \in Referred /\ v.name \in Referring
        BY <2>6, <3>2 DEF Leads
      <4> HIDE DEF Referred, Referring
      <4>2. QED BY <4>1 DEF Layered
    <3>3. QED BY <2>7, <3>1, <3>2
  <2>9. QED BY <2>1, <2>8
<1>6. Sortable(m)
  BY <1>4, <1>5 DEF Sortable
<1>7. QED BY <1>6 DEF m

(* A template without references, as most are, never gets in the way.      *)
COROLLARY PlainTemplatesSort ==
    ASSUME NEW spec \in Specs, validateCreate(spec), NEW c \in Containers,
           \A v \in ToSet(spec.env) : v.refs = <<>>
    PROVE  Sortable(MergedEnv(c, spec))
<1> DEFINE depth == [n \in Alphabet |-> IF n \in Referring THEN 1 ELSE 0]
<1>1. depth \in [Alphabet -> Nat]
  OBVIOUS
<1>2. Referring \subseteq Alphabet /\ Referred \subseteq Alphabet
  <2>1. Referring \subseteq OperatorNames
    BY DEF Referring, OperatorNames
  <2>2. Referred \subseteq OperatorNames
    BY DEF Referred, OperatorNames
  <2>3. QED BY <2>1, <2>2, FactoryAssumption
<1>3. Referring \cap Referred = {}
  BY DEF Referring, Referred
<1>4. \A n \in Referring : \A r \in Referred : depth[r] < depth[n]
  <2> SUFFICES ASSUME NEW n \in Referring, NEW r \in Referred PROVE depth[r] < depth[n]
    OBVIOUS
  <2> HIDE DEF Referring, Referred
  <2>1. depth[n] = 1 /\ depth[r] = 0
    BY <1>2, <1>3
  <2>2. QED BY <2>1
<1> HIDE DEF depth
<1>5. Layered(spec.env, depth)
  BY <1>4 DEF Layered
<1>6. QED BY <1>1, <1>5, TemplatesSort
=============================================================================
