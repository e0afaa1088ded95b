------------------------- MODULE RisingWaveFactory -------------------------
(***************************************************************************)
(* From a specification to Pods: the webhooks decide which specifications  *)
(* of the meta store, the state store and the secret store are stored, and *)
(* the object factory turns what is stored into the environment of the     *)
(* containers.  The controller records the root path of the state store    *)
(* once in the status.                                                     *)
(*                                                                         *)
(* A specification is a record:                                            *)
(*   meta     [configured, blank : sets of meta stores, auth : BOOLEAN]    *)
(*            blank ones are present with a zero value; a memory store     *)
(*            that is switched off is not configured                       *)
(*   state    [configured : set of state stores, endpoint, pathStyle :     *)
(*             BOOLEAN, credentials : Credentials, dir, root : paths]      *)
(*   replicas of meta; key, the private key of the secret store            *)
(*   image, license, ip, embedded, tls, listener, limits, traces, mode     *)
(*            switches                                                     *)
(*   env      the variables of the user's Pod template                     *)
(*   bypass   the annotation that turns the validating webhook off         *)
(***************************************************************************)
EXTENDS EnvVars, Integers

CONSTANTS
    Paths,          \* data directories and root paths
    FirstSpecs,     \* specifications that users create
    Edits(_),       \* and what they make of a stored one
    MaxEdits,       \* bound: updates
    MaxRestarts     \* bound: restarts of the operator with other features

MetaStores  == {"memory", "etcd", "sqlite", "mysql", "postgresql"}
StateStores == {"memory", "s3", "minio", "gcs", "oss", "azure", "hdfs", "webhdfs",
                "local", "obs"}
Credentials == {"none", "secret", "identity"}

VARIABLES
    rw,        \* the stored RisingWave: uid, rv, spec, recorded root
    cache,     \* the one the informer shows
    wf,        \* the RisingWave of the reconcile in flight
    built,     \* the RisingWave the current Pods were built from
    random,    \* is the feature RandomSecretStorePrivateKey enabled?
    bypassed,  \* has a request to this RisingWave bypassed the webhook?
    edits,     \* how many of MaxEdits are left
    restarts   \* and of MaxRestarts

vars == <<rw, cache, wf, built, random, bypassed, edits, restarts>>

NoRW == [uid |-> 0]
NoKey == 0
UserKey == 1           \* a key that the user sets; generated ones are larger
BothKeys == -1         \* value and secretRef are both set

\* what the schema of the CRD admits
MetaSpecs == [configured : SUBSET MetaStores, blank : SUBSET (MetaStores \ {"memory"}),
              auth : BOOLEAN]
StateSpecs == [configured : SUBSET StateStores, endpoint : BOOLEAN, pathStyle : BOOLEAN,
               credentials : Credentials, dir : Paths, root : Paths]
UserVars == [name : Alphabet, by : {"user"}, refs : Seq([name : STRING, escaped : BOOLEAN])]
Specs ==
    [meta : MetaSpecs, state : StateSpecs, replicas : Nat, key : Nat \cup {BothKeys},
     image : {"v1.7", "v2.0", "v2.1"}, license : {"none", "default", "file", "env"},
     ip : BOOLEAN, embedded : BOOLEAN, tls : BOOLEAN, listener : BOOLEAN, limits : BOOLEAN,
     traces : BOOLEAN, mode : {0, 1, 2}, env : Seq(UserVars), bypass : BOOLEAN]

\* the names of the variables that the operator sets
OperatorNames ==
    {"AWS_ACCESS_KEY_ID", "AWS_EC2_METADATA_DISABLED", "AWS_REGION", "AWS_S3_BUCKET",
     "AWS_SECRET_ACCESS_KEY", "AZBLOB_ACCOUNT_KEY", "AZBLOB_ACCOUNT_NAME", "AZBLOB_ENDPOINT",
     "ETCD_PASSWORD", "ETCD_USERNAME", "GOOGLE_APPLICATION_CREDENTIALS",
     "MINIO_BUCKET", "MINIO_ENDPOINT", "MINIO_PASSWORD", "MINIO_USERNAME",
     "OBS_ACCESS_KEY_ID", "OBS_ENDPOINT", "OBS_REGION", "OBS_SECRET_ACCESS_KEY",
     "OSS_ACCESS_KEY_ID", "OSS_ACCESS_KEY_SECRET", "OSS_ENDPOINT", "OSS_REGION",
     "POD_IP", "POD_NAME", "POD_NAMESPACE", "RUST_BACKTRACE", "RUST_LOG", "RUST_MIN_STACK",
     "RW_ADVERTISE_ADDR", "RW_BACKEND", "RW_CONFIG_PATH", "RW_DASHBOARD_HOST",
     "RW_DATA_DIRECTORY", "RW_ETCD_AUTH", "RW_ETCD_ENDPOINTS", "RW_ETCD_PASSWORD",
     "RW_ETCD_USERNAME", "RW_IS_FORCE_PATH_STYLE", "RW_LICENSE_KEY",
     "RW_LICENSE_KEY_PATH", "RW_LISTEN_ADDR",
     "RW_META_ADDR", "RW_META_ADDRESS", "RW_MYSQL_PASSWORD", "RW_MYSQL_USERNAME",
     "RW_PARALLELISM", "RW_POSTGRES_PASSWORD", "RW_POSTGRES_USERNAME", "RW_PROMETHEUS_HOST",
     "RW_PROMETHEUS_LISTENER_ADDR", "RW_RESOURCE_GROUP", "RW_S3_ENDPOINT",
     "RW_SECRET_STORE_PRIVATE_KEY_HEX", "RW_SQL_DATABASE", "RW_SQL_ENDPOINT", "RW_SQL_PASSWORD",
     "RW_SQL_USERNAME", "RW_SSL_CERT", "RW_SSL_KEY", "RW_STATE_STORE", "RW_TOTAL_MEMORY_BYTES",
     "RW_WEBHOOK_LISTEN_ADDR", "RW_WORKER_THREADS"}

ASSUME FactoryAssumption ==
    /\ OperatorNames \subseteq Alphabet
    /\ {"", "data"} \subseteq Paths
    /\ FirstSpecs \subseteq Specs
    /\ MaxEdits \in Nat /\ MaxRestarts \in Nat

-----------------------------------------------------------------------------
(* Which backend a switch picks: the first of its cases that is configured.*)

Picks(order, configured) ==
    LET hits == {i \in DOMAIN order : order[i] \in configured} IN
    IF hits = {} THEN "unknown" ELSE order[Min(hits)]

hummockConnectionStr(state) ==
    Picks(<<"memory", "s3", "minio", "gcs", "oss", "azure", "hdfs", "webhdfs", "local", "obs">>,
          state.configured)
StateStoreOfEnvs(state) ==
    Picks(<<"minio", "s3", "gcs", "oss", "azure", "hdfs", "webhdfs", "local", "obs">>,
          state.configured)
buildStateStoreType(state) ==
    Picks(<<"memory", "minio", "s3", "gcs", "oss", "azure", "hdfs", "webhdfs", "local", "obs">>,
          state.configured)

MetaStoreOfEnvs(meta) ==
    Picks(<<"memory", "etcd", "sqlite", "mysql", "postgresql">>, meta.configured)
MetaStoreOfCoreEnvs(meta) ==
    Picks(<<"memory", "etcd", "sqlite", "mysql", "postgresql">>, meta.configured)
buildMetaStoreType(meta) ==
    Picks(<<"memory", "etcd", "sqlite", "mysql", "postgresql">>, meta.configured)

StateStoreRootPath(state) ==
    IF state.configured \cap {"azure", "oss", "gcs", "hdfs", "webhdfs"} = {}
    THEN "" ELSE state.root

(* getDataDirectory joins the recorded root path, or that of the           *)
(* specification while none is recorded, with the data directory.          *)
getDataDirectory(r) ==
    <<IF r.root = "" THEN StateStoreRootPath(r.spec.state) ELSE r.root, r.spec.state.dir>>

-----------------------------------------------------------------------------
(* The webhooks.                                                           *)

Trim(dir) == IF dir = "data/" THEN "data" ELSE dir
ValidPaths == {"", "data", "other"}

(* The mutating webhook trims the data directory and, with the feature on, *)
(* generates a private key where none is set: for the version rv of the    *)
(* RisingWave, no key generated before.  It is registered for CREATE only  *)
(* (config/webhook/manifests.yaml): updates are validated as they come.    *)
Default(spec, rv) ==
    [spec EXCEPT !.state.dir = Trim(@),
                 !.key = IF random /\ @ = NoKey THEN UserKey + rv ELSE @]

(* An Azure Blob store without credentials makes the webhook panic, which  *)
(* refuses the request as well.                                            *)
CredentialsValid(state) ==
    /\ "s3" \in state.configured =>
          IF state.endpoint THEN state.credentials = "secret" ELSE state.credentials # "none"
    /\ {"azure", "gcs"} \cap state.configured # {} => state.credentials # "none"

OneStore_AtLeast(stores) == stores # {}
OneStore(stores) == Cardinality(stores) = 1

validateMetaStoreAndStateStore(spec) ==
    /\ OneStore(spec.meta.configured \ spec.meta.blank)
    /\ OneStore(spec.state.configured)
    /\ CredentialsValid(spec.state)
    /\ spec.state.dir \in ValidPaths

validateMetaReplicas(spec) == "memory" \in spec.meta.configured => spec.replicas <= 1

SystemEnv ==
    {"POD_IP", "POD_NAME", "POD_NAMESPACE", "RUST_BACKTRACE", "RW_WORKER_THREADS", "JAVA_OPTS"}

validateCreate(spec) ==
    /\ validateMetaStoreAndStateStore(spec)
    /\ validateMetaReplicas(spec)
    /\ spec.key # BothKeys
    /\ Names(spec.env) \cap SystemEnv = {}

isMetaStoresTheSame(old, new) == old.meta = new.meta
isStateStoresTheSame(old, new) == old.state = new.state
isSecretStoreChangeAllowed_Reset(old, new) == old.key = NoKey \/ new.key # UserKey
isSecretStoreChangeAllowed(old, new) == old.key = NoKey \/ new.key = old.key

ValidateUpdate(old, new) ==
    \/ new.bypass
    \/ /\ validateCreate(new)
       /\ isMetaStoresTheSame(old, new)
       /\ isStateStoresTheSame(old, new)
       /\ isSecretStoreChangeAllowed(old, new)

-----------------------------------------------------------------------------
(* The environment.  The image is of a version that takes the credentials  *)
(* of a SQL store from the connection string ("v1.7"), from the            *)
(* environment ("v2.0"), or that also reads the license from a file        *)
(* ("v2.1").                                                               *)

isSQLCredentialsViaEnvSupported(spec) == spec.image # "v1.7"

useLicenseFile(spec) ==
    spec.license = "file" \/ (spec.license = "default" /\ spec.image = "v2.1")

envsForLicenseKey(spec) ==
    CASE spec.license = "none" -> <<>>
      [] useLicenseFile(spec) -> Plain(<<"RW_LICENSE_KEY_PATH">>)
      [] OTHER -> Plain(<<"RW_LICENSE_KEY">>)

MountsLicense(spec) == spec.license # "none" /\ useLicenseFile(spec)

envsForSecretStore(spec) ==
    IF spec.key = NoKey THEN <<>> ELSE Plain(<<"RW_SECRET_STORE_PRIVATE_KEY_HEX">>)

envsForTLS(spec) == IF spec.tls THEN Plain(<<"RW_SSL_KEY", "RW_SSL_CERT">>) ELSE <<>>

SQLEndpoint(spec, username, password) ==
    IF isSQLCredentialsViaEnvSupported(spec)
    THEN Plain(<<"RW_BACKEND", "RW_SQL_ENDPOINT", "RW_SQL_DATABASE">>)
    ELSE <<EnvVar("RW_BACKEND", <<>>),
           EnvVar("RW_SQL_ENDPOINT", <<Ref(username), Ref(password)>>)>>

BackendEnvs(spec) ==
    LET store == MetaStoreOfCoreEnvs(spec.meta) IN
    CASE store = "etcd" ->
            Plain(<<"RW_BACKEND", "RW_ETCD_ENDPOINTS">>
                  \o IF spec.meta.auth THEN <<"RW_ETCD_AUTH">> ELSE <<>>)
      [] store = "sqlite" -> Plain(<<"RW_BACKEND", "RW_SQL_ENDPOINT">>)
      [] store = "mysql" -> SQLEndpoint(spec, "RW_MYSQL_USERNAME", "RW_MYSQL_PASSWORD")
      [] store = "postgresql" -> SQLEndpoint(spec, "RW_POSTGRES_USERNAME", "RW_POSTGRES_PASSWORD")
      [] OTHER -> Plain(<<"RW_BACKEND">>)

StateStoreRefs(spec) ==
    IF hummockConnectionStr(spec.state) = "minio"
    THEN <<Ref("MINIO_USERNAME"), Ref("MINIO_PASSWORD")>> ELSE <<>>

coreEnvsForMeta(spec) ==
    <<EnvVar("RW_STATE_STORE", StateStoreRefs(spec))>>
        \o Plain(<<"RW_DATA_DIRECTORY", "RW_DASHBOARD_HOST">>)
        \o BackendEnvs(spec) \o envsForLicenseKey(spec) \o envsForSecretStore(spec)

AdvertiseAddr(spec) == EnvVar("RW_ADVERTISE_ADDR", <<Ref(IF spec.ip THEN "POD_IP" ELSE "POD_NAME")>>)

envsForMetaArgs(spec) ==
    Plain(<<"RW_META_ADDR", "RW_CONFIG_PATH", "RW_LISTEN_ADDR">>)
        \o <<AdvertiseAddr(spec)>> \o Plain(<<"RW_PROMETHEUS_HOST">>)
        \o coreEnvsForMeta(spec)

envsForResourceLimits(spec) ==
    IF spec.limits THEN Plain(<<"RW_PARALLELISM", "RW_TOTAL_MEMORY_BYTES">>) ELSE <<>>

NodeArgs(addr) ==
    Plain(<<"RW_LISTEN_ADDR", "RW_CONFIG_PATH">>) \o <<addr>>
        \o Plain(<<"RW_META_ADDR", "RW_META_ADDRESS", "RW_PROMETHEUS_LISTENER_ADDR">>)
OnPodIP == EnvVar("RW_ADVERTISE_ADDR", <<Ref("POD_IP")>>)

envsForFrontendArgs(spec) ==
    NodeArgs(OnPodIP)
        \o (IF spec.listener THEN Plain(<<"RW_WEBHOOK_LISTEN_ADDR">>) ELSE <<>>)
        \o envsForTLS(spec)
envsForComputeArgs(spec)   == NodeArgs(AdvertiseAddr(spec)) \o envsForResourceLimits(spec)
envsForCompactorArgs(spec) == NodeArgs(OnPodIP)

envsForMinIO == Plain(<<"MINIO_ENDPOINT", "MINIO_BUCKET", "MINIO_USERNAME", "MINIO_PASSWORD">>)

S3Keys == Plain(<<"AWS_ACCESS_KEY_ID", "AWS_SECRET_ACCESS_KEY">>)
PathStyle(state) == IF state.pathStyle THEN Plain(<<"RW_IS_FORCE_PATH_STYLE">>) ELSE <<>>

envsForAWSS3(state) ==
    Plain(<<"AWS_REGION", "AWS_S3_BUCKET">>)
        \o (IF state.credentials = "identity" THEN <<>> ELSE S3Keys) \o PathStyle(state)

(* The endpoint may name the region and the bucket.                        *)
envsForS3Compatible(state) ==
    Plain(<<"AWS_EC2_METADATA_DISABLED", "AWS_S3_BUCKET", "AWS_REGION">>) \o S3Keys
        \o <<EnvVar("RW_S3_ENDPOINT", <<Ref("AWS_REGION"), Ref("AWS_S3_BUCKET")>>)>>
        \o PathStyle(state)

envsForS3(state) == IF state.endpoint THEN envsForS3Compatible(state) ELSE envsForAWSS3(state)

envsForGCS(state) ==
    IF state.credentials = "identity" THEN <<>> ELSE Plain(<<"GOOGLE_APPLICATION_CREDENTIALS">>)

envsForAliyunOSS ==
    Plain(<<"OSS_REGION", "OSS_ACCESS_KEY_ID", "OSS_ACCESS_KEY_SECRET">>)
        \o <<EnvVar("OSS_ENDPOINT", <<Ref("OSS_REGION")>>)>>

envsForAzureBlob(state) ==
    Plain(<<"AZBLOB_ENDPOINT">>)
        \o IF state.credentials = "identity" THEN <<>>
           ELSE Plain(<<"AZBLOB_ACCOUNT_NAME", "AZBLOB_ACCOUNT_KEY">>)

envsForHuaweiCloudOBS ==
    Plain(<<"OBS_REGION">>) \o <<EnvVar("OBS_ENDPOINT", <<Ref("OBS_REGION")>>)>>
        \o Plain(<<"OBS_ACCESS_KEY_ID", "OBS_SECRET_ACCESS_KEY">>)

envsForStateStore(state) ==
    LET store == StateStoreOfEnvs(state) IN
    CASE store = "minio" -> envsForMinIO
      [] store = "s3" -> envsForS3(state)
      [] store = "gcs" -> envsForGCS(state)
      [] store = "oss" -> envsForAliyunOSS
      [] store = "azure" -> envsForAzureBlob(state)
      [] store = "obs" -> envsForHuaweiCloudOBS
      [] OTHER -> <<>>

envsForEtcd(meta) ==
    IF ~meta.auth THEN <<>>
    ELSE Plain(<<"ETCD_USERNAME", "ETCD_PASSWORD", "RW_ETCD_USERNAME", "RW_ETCD_PASSWORD">>)
envsForMySQL ==
    Plain(<<"RW_MYSQL_USERNAME", "RW_SQL_USERNAME", "RW_MYSQL_PASSWORD", "RW_SQL_PASSWORD">>)
envsForPostgreSQL ==
    Plain(<<"RW_POSTGRES_USERNAME", "RW_POSTGRES_PASSWORD", "RW_SQL_USERNAME", "RW_SQL_PASSWORD">>)

envsForMetaStore(meta) ==
    LET store == MetaStoreOfEnvs(meta) IN
    CASE store = "etcd" -> envsForEtcd(meta)
      [] store = "mysql" -> envsForMySQL
      [] store = "postgresql" -> envsForPostgreSQL
      [] OTHER -> <<>>

-----------------------------------------------------------------------------
(* Containers: the variables before they are sorted.                       *)

(* basicSetupRisingWaveContainer sets the system variables on top of those *)
(* of the user's template.                                                 *)
BasicNames(spec) ==
    <<"RUST_LOG", "POD_IP", "POD_NAME", "POD_NAMESPACE", "RUST_MIN_STACK">>
        \o (IF spec.traces THEN <<"RUST_BACKTRACE">> ELSE <<>>)
        \o (IF spec.limits THEN <<"RW_WORKER_THREADS">> ELSE <<>>)
BasicEnv(spec) == MergeAll(spec.env, Plain(BasicNames(spec)))

setupMetaContainer(spec) ==
    MergeAll(MergeAll(MergeAll(envsForMetaArgs(spec), BasicEnv(spec)),
                      envsForStateStore(spec.state)),
             envsForMetaStore(spec.meta))

setupFrontendContainer(spec) ==
    MergeAll(envsForFrontendArgs(spec)
                \o (IF spec.embedded
                    THEN envsForResourceLimits(spec) \o envsForStateStore(spec.state) ELSE <<>>),
             BasicEnv(spec))

setupComputeContainer_UserLast(spec) ==
    MergeAll(MergeAll(envsForComputeArgs(spec), envsForStateStore(spec.state)), BasicEnv(spec))
setupComputeContainer(spec) ==
    MergeAll(MergeAll(envsForComputeArgs(spec), BasicEnv(spec)), envsForStateStore(spec.state))

(* The Pods of a compute node group that has a name get it as resource     *)
(* group, unless the template has one; this comes before the setup.        *)
WithResourceGroup(spec) ==
    IF "RW_RESOURCE_GROUP" \in Names(spec.env) THEN spec
    ELSE [spec EXCEPT !.env = @ \o Plain(<<"RW_RESOURCE_GROUP">>)]

setupCompactorContainer(spec) ==
    MergeAll(MergeAll(envsForCompactorArgs(spec), BasicEnv(spec)), envsForStateStore(spec.state))

(* The variables of TLS and of the webhook listener are appended, the      *)
(* others replace the user's.                                              *)
setupStandaloneContainer(spec) ==
    MergeAll(BasicEnv(spec) \o envsForTLS(spec),
             Plain(<<"RW_CONFIG_PATH">>) \o coreEnvsForMeta(spec) \o Plain(<<"RW_META_ADDR">>)
                 \o envsForStateStore(spec.state) \o envsForMetaStore(spec.meta))
        \o (IF spec.listener THEN Plain(<<"RW_WEBHOOK_LISTEN_ADDR">>) ELSE <<>>)

Containers == {"meta", "frontend", "compute", "compactor", "standalone"}

MergedEnv(c, spec) ==
    CASE c = "meta"       -> setupMetaContainer(spec)
      [] c = "frontend"   -> setupFrontendContainer(spec)
      [] c = "compute"    -> setupComputeContainer(WithResourceGroup(spec))
      [] c = "compactor"  -> setupCompactorContainer(spec)
      [] c = "standalone" -> setupStandaloneContainer(spec)

(* The names that the command line refers to.  "standalone" is what images *)
(* from v1.3 to v1.7 run, later ones run "single-node".                    *)
argsForStandaloneMetaStore(spec) ==
    {"RW_BACKEND"}
    \cup (IF "etcd" \in spec.meta.configured THEN {"RW_ETCD_ENDPOINTS"} ELSE {})
    \cup (IF "etcd" \in spec.meta.configured /\ spec.meta.auth
          THEN {"RW_ETCD_USERNAME", "RW_ETCD_PASSWORD"} ELSE {})

argsForStandalone(spec) ==
    {"RW_CONFIG_PATH", "RW_STATE_STORE", "RW_DATA_DIRECTORY"} \cup argsForStandaloneMetaStore(spec)

useV2Style(spec) == spec.mode = 2 \/ (spec.mode = 0 /\ spec.image # "v1.7")

ArgRefs(c, spec) ==
    CASE c = "standalone" -> IF useV2Style(spec) THEN {"RW_CONFIG_PATH"} ELSE argsForStandalone(spec)
      [] c = "frontend" -> IF spec.embedded THEN {"POD_IP"} ELSE {}
      [] OTHER -> {}

(* The factory panics when a switch finds no backend.                      *)
Panics(spec) == "unknown" \in {hummockConnectionStr(spec.state), MetaStoreOfCoreEnvs(spec.meta),
                               MetaStoreOfEnvs(spec.meta)}

keepPodSpecConsistent(env) == TopologicalSort(env)

-----------------------------------------------------------------------------
(* Users.                                                                  *)

Admitted(specs) == {s \in specs : s \in Specs}

Update ==
    /\ edits > 0
    /\ \E spec \in Admitted(Edits(rw.spec)) :
          /\ ValidateUpdate(rw.spec, spec)
          /\ rw' = [rw EXCEPT !.spec = spec, !.rv = @ + 1]
          /\ bypassed' = (bypassed \/ spec.bypass)
    /\ edits' = edits - 1
    /\ UNCHANGED <<cache, wf, built, random, restarts>>

(* Deleted, and created anew under the same name.                          *)
Recreate ==
    /\ edits > 0
    /\ \E edit \in Admitted(Edits(rw.spec)) :
          LET spec == Default(edit, rw.rv + 1) IN
          /\ spec.bypass \/ validateCreate(spec)
          /\ rw' = [uid |-> rw.uid + 1, rv |-> rw.rv + 1, spec |-> spec, root |-> ""]
          /\ bypassed' = spec.bypass
    /\ edits' = edits - 1
    /\ UNCHANGED <<cache, wf, built, random, restarts>>

(* The controller.                                                         *)

Deliver ==
    /\ cache # rw
    /\ cache' = rw
    /\ UNCHANGED <<rw, wf, built, random, bypassed, edits, restarts>>

(* A reconcile builds the Pods from the cached RisingWave.                 *)
Reconcile ==
    /\ wf = NoRW /\ cache # NoRW
    /\ wf' = cache
    /\ built' = cache
    /\ UNCHANGED <<rw, cache, random, bypassed, edits, restarts>>

(* syncInternalStatus and the status write that ends the reconcile; a      *)
(* conflict drops it.                                                      *)
syncInternalStatus_Overwrites(r) ==
    IF r.root = "" THEN [rw EXCEPT !.root = StateStoreRootPath(r.spec.state), !.rv = @ + 1] ELSE rw
syncInternalStatus(r) ==
    IF r.root = "" /\ StateStoreRootPath(r.spec.state) # "" /\ rw.rv = r.rv
    THEN [rw EXCEPT !.root = StateStoreRootPath(r.spec.state), !.rv = @ + 1] ELSE rw

UpdateStatus ==
    /\ wf # NoRW
    /\ rw' = syncInternalStatus(wf)
    /\ wf' = NoRW
    /\ UNCHANGED <<cache, built, random, bypassed, edits, restarts>>

(* A restart, with the feature switched on or off.                         *)
Restart ==
    /\ restarts > 0
    /\ restarts' = restarts - 1
    /\ random' = ~random
    /\ cache' = rw /\ wf' = NoRW
    /\ UNCHANGED <<rw, built, bypassed, edits>>

-----------------------------------------------------------------------------
(* A RisingWave that the webhooks let through has just been stored.        *)
Init ==
    /\ random \in BOOLEAN
    /\ edits = MaxEdits /\ restarts = MaxRestarts
    /\ cache = NoRW /\ wf = NoRW /\ built = NoRW
    /\ \E first \in FirstSpecs :
          LET spec == Default(first, 1) IN
          /\ spec.bypass \/ validateCreate(spec)
          /\ rw = [uid |-> 1, rv |-> 1, spec |-> spec, root |-> ""]
          /\ bypassed = spec.bypass

Next == Update \/ Recreate \/ Deliver \/ Reconcile \/ UpdateStatus \/ Restart

Spec == Init /\ [][Next]_vars

-----------------------------------------------------------------------------
(* Properties.  The Pods are looked at when a reconcile has built them.    *)
(* Their environment depends on the specification only: that of the first  *)
(* version is enough.                                                      *)

Fresh == wf # NoRW /\ wf = built /\ ~built.spec.bypass
FirstBuild == Fresh /\ built.rv = 1 /\ rw = built

Env(c) == keepPodSpecConsistent(MergedEnv(c, built.spec))

(* The template lists a name once, none that the standalone container      *)
(* appends without looking, and no value escapes a reference and makes it  *)
(* later on: DependsOn looks at the first occurrence only.                 *)
OrderlyTemplate(spec) ==
    /\ EachOnce(spec.env)
    /\ spec.tls => Names(spec.env) \cap {"RW_SSL_KEY", "RW_SSL_CERT"} = {}
    /\ spec.listener => "RW_WEBHOOK_LISTEN_ADDR" \notin Names(spec.env)
    /\ \A v \in ToSet(spec.env) : \A k, l \in DOMAIN v.refs :
          v.refs[k].name = v.refs[l].name => v.refs[k].escaped = v.refs[l].escaped

RisingWaves == [uid : Nat \ {0}, rv : Nat \ {0}, spec : Specs, root : Paths]

(* Types of the state.                                                     *)
TypeOK ==
    /\ rw \in RisingWaves
    /\ \A r \in {cache, wf, built} : r # NoRW => r \in RisingWaves
    /\ random \in BOOLEAN /\ bypassed \in BOOLEAN
    /\ edits \in 0 .. MaxEdits /\ restarts \in 0 .. MaxRestarts

\* a specification without the annotation has been validated
Validated ==
    \A r \in {rw, cache, wf, built} : r # NoRW => r.spec.bypass \/ validateCreate(r.spec)

\* copies are not newer than what is stored, and are not taken for another version
CopiesInOrder ==
    /\ cache = NoRW => wf = NoRW /\ built = NoRW
    /\ \A r \in {cache, wf, built} : r # NoRW =>
          r.rv <= rw.rv /\ r.uid <= rw.uid /\ (r.rv = rw.rv => r = rw)
    /\ built.uid <= cache.uid

\* of two copies of the RisingWave that is stored, b is not older than a
Keeps(a, b) ==
    a # NoRW /\ a.uid = b.uid /\ a.uid = rw.uid /\ ~bypassed =>
        /\ b.spec.state = a.spec.state
        /\ a.spec.key # NoKey => b.spec.key = a.spec.key

IdentityInOrder ==
    /\ Keeps(cache, rw) /\ Keeps(wf, rw) /\ Keeps(built, rw) /\ Keeps(built, cache)
    /\ \A r \in {rw, cache, wf, built} :
          r # NoRW /\ r.uid = rw.uid /\ ~bypassed =>
             r.root \in {"", StateStoreRootPath(r.spec.state)}

(* Whatever the webhook lets through, the factory builds without a panic,  *)
(* and the five switches over the stores, each with an order of its own,   *)
(* pick the same backend: the connection string, the credentials and the   *)
(* status never speak of different stores.                                 *)
OneBackend ==
    Fresh =>
        LET spec == built.spec IN
        /\ ~Panics(spec)
        /\ hummockConnectionStr(spec.state) = buildStateStoreType(spec.state)
        /\ hummockConnectionStr(spec.state) = "memory"
               \/ hummockConnectionStr(spec.state) = StateStoreOfEnvs(spec.state)
        /\ MetaStoreOfEnvs(spec.meta) = MetaStoreOfCoreEnvs(spec.meta)
        /\ buildMetaStoreType(spec.meta) = MetaStoreOfEnvs(spec.meta)

(* The types, one backend for all of them, and why the identity of the     *)
(* state is kept.                                                          *)
FactoryInv ==
    /\ TypeOK
    /\ Validated
    /\ CopiesInOrder
    /\ IdentityInOrder
    /\ OneBackend

(* Kubernetes expands $(NAME) only where NAME is defined earlier in the    *)
(* list.  Every reference in the variables the operator generates, and     *)
(* every reference of the user's variables to a variable of the container, *)
(* is to an earlier one, unless that one refers back; the command line     *)
(* refers to defined variables only, unless a blank etcd is configured     *)
(* beside the memory; and the operator gives a license path only where the *)
(* license is mounted.                                                     *)
ReferencesResolve ==
    FirstBuild /\ OrderlyTemplate(built.spec) =>
        \A c \in Containers :
            LET env  == Env(c)
                spec == built.spec
            IN
            /\ \A i \in DOMAIN env : \A k \in DOMAIN env[i].refs :
                  LET ref == env[i].refs[k] IN
                  /\ ~ref.escaped
                  /\ env[i].by = "operator" \/ ref.name \in Names(env)
                  => \E j \in DOMAIN env :
                        env[j].name = ref.name /\ (j < i \/ DependsOn(env[j], env[i]))
            /\ {"memory", "etcd"} \subseteq spec.meta.configured
                   \/ ArgRefs(c, spec) \subseteq Names(env)
            /\ "RW_LICENSE_KEY_PATH" \in Names(env) \ Names(spec.env) => MountsLicense(spec)

(* Sorting neither loses nor duplicates a variable, as long as the user's  *)
(* variables have no cycle of other than two: every variable is defined    *)
(* once.                                                                   *)
EveryVariableOnce ==
    FirstBuild /\ OrderlyTemplate(built.spec) =>
        \A c \in Containers :
            LET env == Env(c)
                merged == MergedEnv(c, built.spec)
            IN  /\ {env[i] : i \in DOMAIN env} = {merged[i] : i \in DOMAIN merged}
                /\ Cardinality(Names(env)) = Len(env)

(* The environment that is built is complete and can be expanded.          *)
EnvironmentSound == ReferencesResolve /\ EveryVariableOnce

\* what the operator merges over the user's template in container c: what it
\* takes to reach the state store, except in a frontend, and the meta store,
\* where one is used, and all of coreEnvsForMeta in a standalone
Protected(c, spec) ==
    (IF c = "frontend" THEN {} ELSE Names(envsForStateStore(spec.state)))
        \cup (IF c \in {"meta", "standalone"} THEN Names(envsForMetaStore(spec.meta)) ELSE {})
        \cup (IF c = "standalone" THEN Names(coreEnvsForMeta(spec)) ELSE {})

(* How far the user's template reaches, where it lists a name once.  The   *)
(* endpoint, bucket and credentials by which meta, compute, compactor and  *)
(* standalone reach the state store, and the credentials by which meta and *)
(* standalone reach the meta store, are the operator's, and in a           *)
(* standalone also which stores these are (RW_STATE_STORE,                 *)
(* RW_DATA_DIRECTORY, RW_BACKEND, RW_SQL_ENDPOINT).  Everywhere else the   *)
(* template replaces what is generated, so that it decides which stores a  *)
(* meta node uses, and in a frontend with embedded serving how they are    *)
(* reached; no merge or sort brings a replaced variable back.              *)
TemplateScope ==
    FirstBuild /\ EachOnce(built.spec.env) =>
        \A c \in Containers : \A v \in ToSet(Env(c)) :
            LET protected == Protected(c, built.spec) IN
            /\ v.name \in protected => v.by = "operator"
            /\ c # "standalone" /\ v.name \in Names(built.spec.env)
               /\ v.name \notin protected \cup ToSet(BasicNames(built.spec)) => v.by = "user"

(* While no request bypasses the webhook, the data directory that Pods are *)
(* built with stays the same, before and after the root path is recorded;  *)
(* and once Pods are built with a private key, the user's or a generated   *)
(* one, they keep it, whatever updates, stale copies and restarts with the *)
(* feature on or off come in between.                                      *)
IdentityKept ==
    [][/\ built # NoRW /\ built'.uid = built.uid /\ built'.uid = rw.uid /\ ~bypassed
       => /\ getDataDirectory(built') = getDataDirectory(built)
          /\ built.spec.key # NoKey => built'.spec.key = built.spec.key]_vars

(* "Set once and never update": a recorded root path stays, whatever       *)
(* requests bypass the webhook and however old the cached RisingWave is.   *)
RootRecordedOnce ==
    [][rw'.uid = rw.uid /\ rw.root # "" => rw'.root = rw.root]_vars

=============================================================================
