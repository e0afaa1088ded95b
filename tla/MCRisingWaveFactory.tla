------------------------ MODULE MCRisingWaveFactory ------------------------
(***************************************************************************)
(* Specifications for RisingWaveFactory: one per question, not their       *)
(* product.                                                                *)
(***************************************************************************)
EXTENDS RisingWaveFactory

MCEnvNames ==
    <<"AWS_ACCESS_KEY_ID", "AWS_EC2_METADATA_DISABLED", "AWS_REGION", "AWS_S3_BUCKET",
      "AWS_SECRET_ACCESS_KEY", "AZBLOB_ACCOUNT_KEY", "AZBLOB_ACCOUNT_NAME", "AZBLOB_ENDPOINT",
      "A_USER", "ETCD_PASSWORD", "ETCD_USERNAME", "GOOGLE_APPLICATION_CREDENTIALS",
      "MINIO_BUCKET", "MINIO_ENDPOINT", "MINIO_PASSWORD", "MINIO_USERNAME",
      "OBS_ACCESS_KEY_ID", "OBS_ENDPOINT", "OBS_REGION", "OBS_SECRET_ACCESS_KEY",
      "OSS_ACCESS_KEY_ID", "OSS_ACCESS_KEY_SECRET", "OSS_ENDPOINT", "OSS_REGION",
      "POD_IP", "POD_NAME", "POD_NAMESPACE", "RUST_BACKTRACE", "RUST_LOG", "RUST_MIN_STACK",
      "RW_ADVERTISE_ADDR", "RW_BACKEND", "RW_CONFIG_PATH", "RW_DASHBOARD_HOST",
      "RW_DATA_DIRECTORY", "RW_ETCD_AUTH", "RW_ETCD_ENDPOINTS", "RW_ETCD_PASSWORD",
      "RW_ETCD_USERNAME", "RW_IS_FORCE_PATH_STYLE", "RW_LICENSE_KEY",
      "RW_LICENSE_KEY_PATH", "RW_LISTEN_ADDR",
      "RW_META_ADDR", "RW_META_ADDRESS", "RW_MYSQL_PASSWORD", "RW_MYSQL_USERNAME",
      "RW_PARALLELISM", "RW_POSTGRES_PASSWORD", "RW_POSTGRES_USERNAME", "RW_PROMETHEUS_HOST",
      "RW_PROMETHEUS_LISTENER_ADDR", "RW_RESOURCE_GROUP", "RW_S3_ENDPOINT",
      "RW_SECRET_STORE_PRIVATE_KEY_HEX",
      "RW_SQL_DATABASE", "RW_SQL_ENDPOINT", "RW_SQL_PASSWORD", "RW_SQL_USERNAME", "RW_SSL_CERT",
      "RW_SSL_KEY", "RW_STATE_STORE", "RW_TOTAL_MEMORY_BYTES", "RW_WEBHOOK_LISTEN_ADDR",
      "RW_WORKER_THREADS", "Z_USER">>

Meta(configured, blank, auth) == [configured |-> configured, blank |-> blank, auth |-> auth]
State(configured, endpoint, credentials, dir, root) ==
    [configured |-> configured, endpoint |-> endpoint, pathStyle |-> endpoint,
     credentials |-> credentials, dir |-> dir, root |-> root]

Etcd == Meta({"etcd"}, {}, TRUE)
OneGCS == State({"gcs"}, FALSE, "secret", "data", "r1")

Base == [meta |-> Etcd, state |-> OneGCS, replicas |-> 1, key |-> NoKey, image |-> "v2.1",
         license |-> "none", ip |-> FALSE, embedded |-> FALSE, tls |-> FALSE,
         listener |-> FALSE, limits |-> FALSE, traces |-> TRUE, mode |-> 0,
         env |-> <<>>, bypass |-> FALSE]

Few(stores) == {s \in SUBSET stores : Cardinality(s) <= 2}

\* every choice of at most two stores, with every kind of credentials
StateChoices ==
    {[Base EXCEPT !.state = State(stores, endpoint, cred, "data", "")] :
        stores \in Few(StateStores), endpoint \in BOOLEAN, cred \in Credentials}
MetaChoices ==
    {[Base EXCEPT !.meta = Meta(stores, blank, auth), !.image = image, !.mode = mode,
                  !.replicas = replicas] :
        stores \in Few(MetaStores), blank \in {{}, {"etcd"}, {"sqlite"}}, auth \in BOOLEAN,
        image \in {"v1.7", "v2.0"}, mode \in {0, 1}, replicas \in {1, 2}}
    \cup {[Base EXCEPT !.meta = Meta({"memory"}, {}, FALSE), !.mode = 2]}

\* what users put in the template: a chain against the alphabet, a default
\* they replace, two variables that refer to each other, an escaped
\* reference, settings of the stores, and a resource group
UserEnvs ==
    {<<>>,
     <<UserVar("A_USER", <<Ref("Z_USER")>>), UserVar("Z_USER", <<Ref("POD_IP")>>)>>,
     <<UserVar("RW_LISTEN_ADDR", <<Ref("A_USER")>>), UserVar("A_USER", <<Ref("RW_STATE_STORE")>>)>>,
     <<UserVar("Z_USER", <<Ref("A_USER")>>), UserVar("A_USER", <<Ref("Z_USER")>>)>>,
     <<UserVar("A_USER", <<Escaped("Z_USER")>>), UserVar("Z_USER", <<Ref("A_USER")>>)>>,
     <<UserVar("MINIO_USERNAME", <<>>), UserVar("AWS_REGION", <<Ref("A_USER")>>),
       UserVar("RUST_LOG", <<>>)>>,
     <<UserVar("RW_RESOURCE_GROUP", <<Ref("POD_NAME")>>)>>,
     <<UserVar("RW_SQL_USERNAME", <<>>), UserVar("RW_ETCD_USERNAME", <<Ref("A_USER")>>)>>,
     <<UserVar("RW_DATA_DIRECTORY", <<>>), UserVar("RW_STATE_STORE", <<Ref("A_USER")>>)>>,
     <<UserVar("POD_IP", <<>>)>>}
Switches ==
    {[Base EXCEPT !.state = State(stores, TRUE, "secret", "", ""), !.env = env,
                  !.ip = on, !.embedded = ~on, !.tls = on, !.listener = on, !.limits = on,
                  !.traces = on] :
        stores \in {{"minio"}, {"s3"}, {"oss"}}, env \in UserEnvs, on \in BOOLEAN}
Licenses ==
    {[Base EXCEPT !.license = license, !.image = image] :
        license \in {"none", "default", "file", "env"}, image \in {"v1.7", "v2.0", "v2.1"}}

\* specifications that are edited later, and some that are refused
Kept == {[Base EXCEPT !.key = key, !.state.root = root] :
            key \in {NoKey, UserKey}, root \in {"", "r1"}}
Refused == {[Base EXCEPT !.key = BothKeys], [Base EXCEPT !.state.dir = "/data"]}

MCFirstSpecs == StateChoices \cup MetaChoices \cup Switches \cup Licenses \cup Kept \cup Refused

\* edits of the key, the data directory or the root path
Edited(spec) == [spec EXCEPT !.key = NoKey, !.bypass = FALSE, !.state.root = "r1", !.state.dir = "data"]
                    = Base
MCEdits(spec) ==
    IF ~Edited(spec) THEN {}
    ELSE UNION {{[spec EXCEPT !.bypass = bypass, !.key = key] : key \in {NoKey, UserKey}}
                \cup {[spec EXCEPT !.bypass = bypass, !.state.dir = dir] : dir \in {"data/", "other"}}
                \cup {[spec EXCEPT !.bypass = bypass, !.state.root = "r2"]} :
                    bypass \in BOOLEAN}
=============================================================================
