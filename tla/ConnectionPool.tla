--------------------------- MODULE ConnectionPool ---------------------------
(***************************************************************************)
(* The pool of database handles of the RisingWaveUser controller, for one  *)
(* cluster: Get, called by the single worker of the controller, beside the *)
(* health checker, which pings handles, removes the dead ones and those    *)
(* that have not been used for long.  A handle (sql.DB) has a stack of     *)
(* idle connections; each connection is a session with a current database. *)
(***************************************************************************)
EXTENDS Integers, Sequences, FiniteSets

CONSTANTS
    Sessions,       \* the databases that a session may be in
    MaxIdleConns,   \* connections that a handle keeps when they are idle
    MaxIncidents    \* bound: pings and statements that fail, rounds of the checker,
                    \*        handles that grow old, connections that expire

VARIABLES
    pool,      \* the handle that the pool has for the cluster, or NoHandle
    handles,   \* all handles so far: open, stale, idle connections
    get,       \* the call of Get in progress, or the handle that it returned
    checker,   \* the goroutine of startHealthChecker
    failures,  \* how many pings have failed
    incidents  \* how many of MaxIncidents are left

poolVars == <<pool, handles, get, checker, failures, incidents>>

\* the operator runs with DefaultMaxIdleConns = 2
ASSUME PoolAssumption ==
    /\ MaxIdleConns \in Nat \ {0}
    /\ MaxIncidents \in Nat
    /\ "dev" \in Sessions

DefaultDatabase == "dev"     \* DefaultConnectionInfo
NoHandle == 0
NoCall == [pc |-> "none", handle |-> NoHandle]
Idle == [pc |-> "idle", handle |-> NoHandle, taken |-> <<>>]

\* nothing, or what earlier reconciles have left some time ago
PoolInit ==
    /\ handles \in {<<>>} \cup {<<[open |-> TRUE, stale |-> TRUE, idle |-> <<db>>]>> : db \in Sessions}
    /\ pool = Len(handles)
    /\ get = NoCall /\ checker = Idle
    /\ failures = 0 /\ incidents = MaxIncidents

-----------------------------------------------------------------------------
(* database/sql: the connection that was given back last is taken, a new   *)
(* one is opened when none is idle, and more than MaxIdleConns are closed. *)

Taken(h)  == IF handles[h].idle = <<>> THEN DefaultDatabase
             ELSE handles[h].idle[Len(handles[h].idle)]
Left(h)   == SubSeq(handles[h].idle, 1, Len(handles[h].idle) - 1)
GivenBack(idle, session) == IF Len(idle) < MaxIdleConns THEN Append(idle, session) ELSE idle

\* a request that leaves its connection in the database session
Answered(h, session) == [handles EXCEPT ![h].idle = GivenBack(Left(h), session)]

Incident == incidents > 0 /\ incidents' = incidents - 1

\* a request to a closed handle fails, and others may
Fails(h) == IF handles[h].open THEN Incident ELSE UNCHANGED incidents
PingFails(h) == Fails(h) /\ failures' = failures + 1

-----------------------------------------------------------------------------
(* Get: look the handle up, ping it, and open another if there is none or  *)
(* it does not answer.  A handle that does not answer is forgotten, not    *)
(* closed.                                                                 *)

Get ==
    /\ get = NoCall
    /\ IF pool = NoHandle
       THEN get' = [pc |-> "open", handle |-> NoHandle] /\ UNCHANGED handles
       ELSE /\ get' = [pc |-> "ping", handle |-> pool]
            /\ handles' = [handles EXCEPT ![pool].stale = FALSE]
    /\ UNCHANGED <<pool, checker, failures, incidents>>

Ping ==
    /\ get.pc = "ping"
    /\ \/ /\ handles[get.handle].open
          /\ handles' = Answered(get.handle, Taken(get.handle))
          /\ get' = [get EXCEPT !.pc = "have"]
          /\ UNCHANGED <<pool, failures, incidents>>
       \/ /\ PingFails(get.handle)
          /\ handles' = [handles EXCEPT ![get.handle].idle = <<>>]
          /\ pool' = NoHandle
          /\ get' = [pc |-> "open", handle |-> NoHandle]
    /\ UNCHANGED checker

Open ==
    /\ get.pc = "open"
    /\ handles' = Append(handles, [open |-> TRUE, stale |-> FALSE, idle |-> <<DefaultDatabase>>])
    /\ pool' = Len(handles')
    /\ get' = [pc |-> "have", handle |-> Len(handles')]
    /\ UNCHANGED <<checker, failures, incidents>>

\* the new handle does not answer either: it is closed, and Get fails
OpenFails ==
    /\ get.pc = "open" /\ Incident
    /\ get' = NoCall
    /\ UNCHANGED <<pool, handles, checker, failures>>

-----------------------------------------------------------------------------
(* The health checker: healthCheck, then cleanupStaleConnections.  Both    *)
(* remove whatever the pool has under the key by then, and close the       *)
(* handle that they looked at.                                             *)

HealthCheck ==
    /\ checker.pc = "idle" /\ pool # NoHandle /\ Incident
    /\ checker' = [pc |-> "ping", handle |-> pool, taken |-> <<Taken(pool)>>]
    /\ handles' = [handles EXCEPT ![pool].idle = Left(pool)]
    /\ UNCHANGED <<pool, get, failures>>

CheckPing ==
    /\ checker.pc = "ping"
    /\ LET h == checker.handle IN
       \/ /\ handles[h].open
          /\ handles' = [handles EXCEPT ![h].idle = GivenBack(@, checker.taken[1])]
          /\ checker' = [checker EXCEPT !.pc = "cleanup", !.taken = <<>>]
          /\ UNCHANGED <<failures, incidents>>
       \/ /\ PingFails(h)
          /\ checker' = [checker EXCEPT !.pc = "remove", !.taken = <<>>]
          /\ UNCHANGED handles
    /\ UNCHANGED <<pool, get>>

Remove ==
    /\ checker.pc \in {"remove", "removeStale"}
    /\ pool' = NoHandle
    /\ checker' = [checker EXCEPT !.pc = IF @ = "remove" THEN "close" ELSE "closeStale"]
    /\ UNCHANGED <<handles, get, failures, incidents>>

ClosedHandle_LeftOpen(h) == handles
ClosedHandle(h) == [handles EXCEPT ![h].open = FALSE, ![h].idle = <<>>]

Close ==
    /\ checker.pc \in {"close", "closeStale"}
    /\ handles' = ClosedHandle(checker.handle)
    /\ checker' = IF checker.pc = "close" THEN [checker EXCEPT !.pc = "cleanup"] ELSE Idle
    /\ UNCHANGED <<pool, get, failures, incidents>>

cleanupStaleConnections ==
    /\ checker.pc = "cleanup"
    /\ checker' = IF pool # NoHandle /\ handles[pool].stale
                  THEN [pc |-> "removeStale", handle |-> pool, taken |-> <<>>] ELSE Idle
    /\ UNCHANGED <<pool, handles, get, failures, incidents>>

Checker == HealthCheck \/ CheckPing \/ Remove \/ Close \/ cleanupStaleConnections

-----------------------------------------------------------------------------
(* Time passes: a handle has not been used for idleConnectionTTL, or an    *)
(* idle connection reaches its lifetime.                                   *)
Age ==
    /\ Incident
    /\ \E h \in DOMAIN handles :
          /\ handles[h].open
          /\ \/ ~handles[h].stale /\ handles' = [handles EXCEPT ![h].stale = TRUE]
             \/ \E i \in DOMAIN handles[h].idle :
                   handles' = [handles EXCEPT ![h].idle =
                                  SubSeq(@, 1, i - 1) \o SubSeq(@, i + 1, Len(@))]
    /\ UNCHANGED <<pool, get, checker, failures>>

-----------------------------------------------------------------------------
Handles == [open : BOOLEAN, stale : BOOLEAN, idle : Seq(Sessions)]
Calls == [pc : {"none", "open", "ping", "have"}, handle : Nat]
Checkers ==
    [pc : {"idle", "ping", "remove", "close", "cleanup", "removeStale", "closeStale"},
     handle : Nat, taken : Seq(Sessions)]

(* Types of the state.  The pool has no handle that is closed, and none    *)
(* while Get opens one; the checker closes a handle that has left the pool.*)
PoolTypeOK ==
    /\ handles \in Seq(Handles)
    /\ pool \in {NoHandle} \cup {h \in DOMAIN handles : handles[h].open}
    /\ get \in Calls /\ get.handle \in 0 .. Len(handles)
    /\ get.pc \in {"ping", "have"} => get.handle # NoHandle
    /\ get.pc = "open" => pool = NoHandle
    /\ checker \in Checkers /\ checker.handle \in 0 .. Len(handles)
    /\ checker.pc = "idle" <=> checker.handle = NoHandle
    /\ checker.pc = "ping" => Len(checker.taken) = 1
    /\ checker.pc \in {"close", "closeStale"} => pool # checker.handle
    /\ failures \in Nat /\ incidents \in 0 .. MaxIncidents

\* open handles that neither the pool nor the checker knows
Loose == {h \in DOMAIN handles : handles[h].open /\ h \notin {pool, checker.handle}}

\* the checker is about to drop an open handle: the one it has looked at, or
\* the one that has taken its place in the pool
AboutToDrop ==
    \/ /\ checker.pc \in {"ping", "cleanup"}
       /\ handles[checker.handle].open /\ pool # checker.handle
    \/ checker.pc = "remove"
    \/ checker.pc = "removeStale" /\ pool # checker.handle

\* why LeaksBounded holds
DropsPaid == Cardinality(Loose) + (IF AboutToDrop THEN 1 ELSE 0) <= failures

(* Handles that are open, although nobody can find them any more.          *)
Leaked == {h \in DOMAIN handles : handles[h].open /\ h \notin {pool, get.handle, checker.handle}}

(* No handle is left open by a clean-up that races with Get, not even when *)
(* the clean-up removes the successor of the handle it looked at: a handle *)
(* leaks only where a ping has failed, and then only one.                  *)
LeaksBounded == Cardinality(Leaked) <= failures

=============================================================================
