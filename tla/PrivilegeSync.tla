--------------------------- MODULE PrivilegeSync ---------------------------
(***************************************************************************)
(* applyPrivileges: the grants of a RisingWaveUser and the privileges that *)
(* the database user has, reconciled over connections of the pool.         *)
(*                                                                         *)
(* An entry of the catalogue is a tuple <<"database", d>>,                 *)
(* <<"schema", d, s>> or <<kind, d, s, name>>.  acl maps entries to the    *)
(* privileges of the user.  Grants are a function with the same kind of    *)
(* keys, where a name may be Wildcard and the privileges may be {All}.     *)
(***************************************************************************)
EXTENDS ConnectionPool

CONSTANTS
    Catalogue,     \* the databases, schemas and objects that exist
    Grants,        \* what users write into spec.grants
    FirstACLs,     \* the privileges that the user starts with
    PrivilegesOf(_)   \* the privileges that a kind of entry has

VARIABLES
    spec,      \* the grants of the RisingWaveUser
    acl,
    worker     \* the reconcile in flight

syncVars == <<spec, acl, worker>>
vars == <<poolVars, syncVars>>

Wildcard == "*"
All == "ALL"
SearchPath == "public"      \* where a name without a schema is looked up

\* the kinds that applyPrivileges knows; the others in a spec are ignored
Managed == {"table", "view", "materialized view", "source"}

Databases == {e[2] : e \in {x \in Catalogue : x[1] = "database"}}

\* a session is in a database that exists
ASSUME SessionsAssumption == Sessions = Databases

Kind(e) == e[1]

\* the database expands ALL
Expand(e, privs) == IF All \in privs THEN PrivilegesOf(Kind(e)) ELSE privs

Entry(e) ==
    \/ e = <<"database", e[2]>>
    \/ e = <<"schema", e[2], e[3]>>
    \/ e = <<e[1], e[2], e[3], e[4]>> /\ e[1] \notin {"database", "schema", "all"}

\* Wildcard and All are words of the specification, not of the database
ASSUME CatalogueAssumption ==
    \A e \in Catalogue :
        /\ Entry(e) /\ e[2] \in Sessions
        /\ Len(e) = 4 => e[4] # Wildcard
        /\ All \notin PrivilegesOf(Kind(e))

\* grants on objects are written below a schema; the privileges are those that
\* the kind has (RisingWave rejects others)
ASSUME GrantsAssumption ==
    \A g \in Grants : \A e \in DOMAIN g :
        /\ Entry(e) /\ g[e] \subseteq PrivilegesOf(Kind(e)) \cup {All}
        /\ Len(e) = 4 => <<"schema", e[2], e[3]>> \in DOMAIN g

ASSUME FirstACLsAssumption ==
    \A a \in FirstACLs :
        DOMAIN a = Catalogue /\ \A e \in Catalogue : a[e] \subseteq PrivilegesOf(Kind(e))

\* statements name objects without their schema: they mean the right ones when
\* an object, or a grant, outside the search path has no namesake in it
Unambiguous ==
    \A e \in Catalogue \cup UNION {DOMAIN g : g \in Grants} :
        Len(e) = 4 /\ e[3] # SearchPath => <<e[1], e[2], SearchPath, e[4]>> \notin Catalogue

-----------------------------------------------------------------------------
(* Statements.  REVOKE ALL ... is written with {All}.                      *)

Stmt(op, on, privs) == [op |-> op, on |-> on, privs |-> privs]

(* CalculateDatabaseDiff, CalculateSchemaDiff and CalculateObjectDiff.     *)
Diff_KeepsExtra(on, actual, desired) ==
    {s \in {Stmt("grant", on, desired \ actual)} : s.privs # {}}
Diff(on, actual, desired) ==
    {s \in {Stmt("grant", on, desired \ actual), Stmt("revoke", on, actual \ desired)} :
        s.privs # {}}

ActualOf(e) == IF e \in DOMAIN acl THEN acl[e] ELSE {}

(* Databases that are not in the specification lose their privileges.      *)
DatabaseStatements(grants, snapshot) ==
    UNION {LET e == <<"database", d>>
               actual == IF d \in DOMAIN snapshot THEN snapshot[d] ELSE {}
           IN  IF e \in DOMAIN grants THEN Diff(e, actual, grants[e])
               ELSE {s \in {Stmt("revoke", e, {All})} : actual # {}} :
           d \in Databases \cup {e[2] : e \in DOMAIN grants}}

(* ON TABLE t, without the schema, or ON ALL TABLES IN SCHEMA s.           *)
On(kind, s, name) ==
    IF name = Wildcard THEN <<"all", kind, s>> ELSE <<kind, name>>

(* reconcileObjectPrivileges, in the database db of the session.           *)
reconcileObjectPrivileges(grants, d, db, s, kind) ==
    LET actual  == {e[4] : e \in {x \in DOMAIN acl : /\ Len(x) = 4
                                                     /\ x[1] = kind /\ x[2] = db /\ x[3] = s
                                                     /\ acl[x] # {}}}
        desired == {e[4] : e \in {x \in DOMAIN grants : /\ Len(x) = 4
                                                        /\ x[1] = kind /\ x[2] = d /\ x[3] = s}}
    IN  UNION {IF name \in desired
               THEN Diff(On(kind, s, name), ActualOf(<<kind, db, s, name>>),
                         grants[<<kind, d, s, name>>])
               ELSE {Stmt("revoke", <<kind, name>>, {All})} :
               name \in actual \cup desired}

(* FetchSchemaPrivileges returns the schemas on which the user has some    *)
(* privilege, with their objects: the objects of other schemas are not     *)
(* seen.                                                                   *)
SchemaStatements(grants, d, db) ==
    LET actual  == {e[3] : e \in {x \in DOMAIN acl : /\ Kind(x) = "schema"
                                                     /\ x[2] = db /\ acl[x] # {}}}
        desired == {e[3] : e \in {x \in DOMAIN grants : Kind(x) = "schema" /\ x[2] = d}}
        Objects(s) ==
            IF s \in actual
            THEN UNION {reconcileObjectPrivileges(grants, d, db, s, k) : k \in Managed}
            ELSE UNION {Diff(On(e[1], s, e[4]), {}, grants[e]) :
                           e \in {x \in DOMAIN grants : /\ Kind(x) \in Managed
                                                        /\ x[2] = d /\ x[3] = s}}
    IN  UNION {Objects(s) \cup
               IF s \in desired
               THEN Diff(<<"schema", s>>, ActualOf(<<"schema", db, s>>), grants[<<"schema", d, s>>])
               ELSE {Stmt("revoke", <<"schema", s>>, {All})} :
               s \in actual \cup desired}

(* What a statement is about in a session of the database db.              *)
Hits(on, db) ==
    CASE on[1] = "database" -> {on}
      [] on[1] = "schema" -> {<<"schema", db, on[2]>>}
      [] on[1] = "all" -> {e \in Catalogue : Len(e) = 4 /\ e[1] = on[2] /\ e[2] = db /\ e[3] = on[3]}
      [] OTHER -> {<<on[1], db, SearchPath, on[2]>>}
Found(stmt, db) == stmt.on[1] = "all" \/ Hits(stmt.on, db) \subseteq Catalogue

Execute(stmt, db) ==
    [e \in Catalogue |->
        IF e \notin Hits(stmt.on, db) THEN acl[e]
        ELSE IF stmt.op = "grant" THEN acl[e] \cup Expand(e, stmt.privs)
        ELSE acl[e] \ Expand(e, stmt.privs)]

-----------------------------------------------------------------------------
(* The reconcile.  It believes its session to be in worker.current.        *)
(* lost, skipped and touched record what has happened to it: a connection  *)
(* has come or gone or its database was guessed; a database was skipped;   *)
(* somebody else changed the privileges.                                   *)

NoWorker == [pc |-> "idle"]
Working == worker # NoWorker
H == get.handle
Session == Taken(H)

Goto(pc) == worker' = [worker EXCEPT !.pc = pc]

\* the statement is answered, its connection is in the database db afterwards
Answer(db) == handles[H].open /\ handles' = Answered(H, db) /\ UNCHANGED incidents
Error == Fails(H) /\ UNCHANGED handles
Rest == UNCHANGED <<pool, checker, failures, spec>>

\* the reconcile is over, the handle stays in the pool
Return == worker' = NoWorker /\ get' = NoCall

Begin ==
    /\ ~Working /\ get.pc = "have"
    /\ worker' = [pc |-> "snapshot", spec |-> spec, snapshot |-> <<>>, todo |-> {},
                  current |-> "", original |-> "", stmts |-> [d \in {} |-> {}], failed |-> FALSE,
                  lost |-> FALSE, skipped |-> FALSE, touched |-> FALSE]
    /\ UNCHANGED <<poolVars, spec, acl>>

(* FetchUserPrivilegeSnapshot and getAllDatabases: two queries, the second *)
(* of which reads names that do not change.                                *)
FetchSnapshot ==
    /\ worker.pc = "snapshot"
    /\ \/ /\ Answer(Session)
          /\ worker' = [worker EXCEPT !.pc = "current",
                                      !.snapshot = [d \in Databases |-> acl[<<"database", d>>]]]
          /\ UNCHANGED get
       \/ Error /\ Return
    /\ UNCHANGED acl /\ Rest

AddStatements(stmts, d, new) ==
    [x \in DOMAIN stmts \cup {d} |->
        (IF x \in DOMAIN stmts THEN stmts[x] ELSE {}) \cup (IF x = d THEN new ELSE {})]

(* getCurrentDatabase, whose error is ignored, and the statements on       *)
(* databases.                                                              *)
getCurrentDatabase ==
    /\ worker.pc = "current"
    /\ \E known \in BOOLEAN :
          LET db == IF known THEN Session ELSE DefaultDatabase IN
          /\ IF known THEN Answer(Session) ELSE Error
          /\ worker' = [worker EXCEPT
                !.pc = "schemas", !.current = db, !.original = db, !.lost = @ \/ ~known,
                !.todo = Databases \cup {e[2] : e \in DOMAIN worker.spec},
                !.stmts = AddStatements(@, db, DatabaseStatements(worker.spec, worker.snapshot))]
    /\ UNCHANGED <<get, acl>> /\ Rest

\* when all databases are collected, those with statements are left to do
Collected(w) ==
    IF w.todo # {} THEN w
    ELSE [w EXCEPT !.pc = "execute", !.todo = {d \in DOMAIN w.stmts : w.stmts[d] # {}}]

(* SET DATABASE TO d                                                       *)
CanSwitch(d) == d \in Databases
Skipped(d) == [worker EXCEPT !.todo = @ \ {d}, !.skipped = TRUE]
GivenUp_GoesOn(d) == [worker EXCEPT !.current = d, !.failed = TRUE]
GivenUp(d) == [worker EXCEPT !.todo = @ \ {d}, !.failed = TRUE]

(* One database: switch to it, or skip it.                                 *)
SwitchForSchemas ==
    /\ worker.pc = "schemas"
    /\ \E d \in worker.todo :
          /\ d # worker.current
          /\ \/ /\ CanSwitch(d) /\ Answer(d)
                /\ worker' = [worker EXCEPT !.current = d, !.pc = "fetch"]
             \/ /\ IF CanSwitch(d) THEN Error ELSE Answer(Session)
                /\ worker' = Collected(Skipped(d))
    /\ UNCHANGED <<get, acl>> /\ Rest

(* FetchSchemaPrivileges in the session: its queries are one step.  An     *)
(* error ends the reconcile with the session where it is.                  *)
FetchSchemas ==
    /\ \/ worker.pc = "fetch"
       \/ worker.pc = "schemas" /\ worker.current \in worker.todo
    /\ LET d == worker.current IN
       \/ /\ Answer(Session)
          /\ worker' = Collected([worker EXCEPT
                            !.pc = "schemas", !.todo = @ \ {d},
                            !.stmts = AddStatements(@, d, SchemaStatements(worker.spec, d, Session))])
          /\ UNCHANGED get
       \/ Error /\ Return
    /\ UNCHANGED acl /\ Rest

(* The databases that have statements are served in any order; once one of *)
(* them is begun, all its statements are executed.                         *)
SwitchForExecution ==
    /\ worker.pc = "execute"
    /\ \E d \in worker.todo :
          /\ d # worker.current
          /\ \/ /\ CanSwitch(d) /\ Answer(d)
                /\ worker' = [worker EXCEPT !.current = d, !.pc = "apply"]
             \/ /\ IF CanSwitch(d) THEN Error ELSE Answer(Session)
                /\ worker' = GivenUp(d)
    /\ UNCHANGED <<get, acl>> /\ Rest

(* REVOKEs first.  That something does not exist is no error for them.     *)
Ready_AnyOrder(stmts) == stmts
Ready(stmts) ==
    IF \E s \in stmts : s.op = "revoke" THEN {s \in stmts : s.op = "revoke"} ELSE stmts

ExecuteStatement ==
    /\ worker.pc \in {"execute", "apply"} /\ worker.current \in worker.todo
    /\ LET d == worker.current IN
       \E stmt \in Ready(worker.stmts[d]) :
          LET left == worker.stmts[d] \ {stmt}
              Ended(failed) ==
                  worker' = [worker EXCEPT !.stmts[d] = left, !.failed = @ \/ failed,
                                           !.pc = IF left = {} THEN "execute" ELSE "apply",
                                           !.todo = IF left = {} THEN @ \ {d} ELSE @]
          IN  \/ /\ Answer(Session)
                 /\ acl' = IF Found(stmt, Session) THEN Execute(stmt, Session) ELSE acl
                 /\ Ended(stmt.op = "grant" /\ ~Found(stmt, Session))
              \/ Error /\ UNCHANGED acl /\ Ended(TRUE)
    /\ UNCHANGED get /\ Rest

(* Back to the original database, whether that works or not.               *)
SwitchBack ==
    /\ worker.pc = "execute" /\ worker.todo = {}
    /\ \/ worker.current = worker.original /\ UNCHANGED <<handles, incidents>>
       \/ worker.current # worker.original /\ (Answer(worker.original) \/ Error)
    /\ Goto("done")
    /\ UNCHANGED <<get, acl>> /\ Rest

(* The status is written.  What starts the next reconcile is the event of  *)
(* that write, if its seconds changed anything, or the next resync.        *)
End ==
    /\ worker.pc = "done"
    /\ Return
    /\ UNCHANGED <<acl, handles, incidents>> /\ Rest

Sync ==
    \/ Begin \/ FetchSnapshot \/ getCurrentDatabase \/ SwitchForSchemas \/ FetchSchemas
    \/ SwitchForExecution \/ ExecuteStatement \/ SwitchBack \/ End

-----------------------------------------------------------------------------
(* Others: their requests are incidents as well.                           *)

EditGrants ==
    /\ Incident
    /\ spec' \in Grants \ {spec}
    /\ UNCHANGED <<pool, handles, get, checker, failures, acl, worker>>

OutsideChange ==
    /\ Incident
    /\ \E e \in Catalogue : \E p \in PrivilegesOf(Kind(e)) :
          acl' = [acl EXCEPT ![e] = IF p \in @ THEN @ \ {p} ELSE @ \cup {p}]
    /\ worker' = IF Working THEN [worker EXCEPT !.touched = TRUE] ELSE worker
    /\ UNCHANGED <<pool, handles, get, checker, failures, spec>>

\* the pool's own steps; connections come and go beside the reconcile
PoolGet == (Get \/ Ping \/ Open \/ OpenFails) /\ UNCHANGED syncVars
PoolRest ==
    /\ Checker \/ Age
    /\ worker' = IF Working /\ handles' # handles THEN [worker EXCEPT !.lost = TRUE] ELSE worker
    /\ UNCHANGED <<spec, acl>>

Init ==
    /\ PoolInit
    /\ spec \in Grants /\ acl \in FirstACLs
    /\ worker = NoWorker

Next == PoolGet \/ PoolRest \/ Sync \/ EditGrants \/ OutsideChange

Spec == Init /\ [][Next]_vars

WorkerStep == PoolGet \/ Sync
CheckerStep == Checker /\ PoolRest
FairSpec == Spec /\ WF_vars(WorkerStep) /\ WF_vars(CheckerStep)

-----------------------------------------------------------------------------
(* Properties.                                                             *)

\* what the grants ask for by name, and what they ask for at all
Named(grants, e) == IF e \in DOMAIN grants THEN grants[e] ELSE {}
Asked(grants, e) ==
    Expand(e, Named(grants, e))
    \cup IF Len(e) = 4 /\ <<e[1], e[2], e[3], Wildcard>> \in DOMAIN grants
         THEN Expand(e, grants[<<e[1], e[2], e[3], Wildcard>>]) ELSE {}

\* entries that statements of the operator reach: an object outside the
\* search path cannot be named, a kind that is not managed is ignored
Reachable(e) == Len(e) < 4 \/ (e[3] = SearchPath /\ Kind(e) \in Managed)

WorkerFields == {"pc", "spec", "snapshot", "todo", "current", "original", "stmts", "failed",
                 "lost", "skipped", "touched"}

\* a reconcile has the handle that Get returned; the database that it goes
\* back to exists
WorkerTypeOK ==
    /\ Working => DOMAIN worker = WorkerFields /\ get.pc = "have"
    /\ worker.pc \in {"schemas", "fetch", "execute", "apply"} => worker.original \in Sessions

(* Types of the state.                                                     *)
TypeOK ==
    /\ PoolTypeOK
    /\ \A h \in DOMAIN handles : Len(handles[h].idle) <= MaxIdleConns
    /\ spec \in Grants
    /\ DOMAIN acl = Catalogue /\ \A e \in Catalogue : acl[e] \subseteq PrivilegesOf(Kind(e))
    /\ WorkerTypeOK

(* While no connection comes or goes beside it, a reconcile gives and      *)
(* takes in the right place: it grants nothing that the specification does *)
(* not ask for, and takes nothing away that it asks for by name, although  *)
(* it starts in whatever database an earlier, failed reconcile left the    *)
(* session in, and any switch of databases may fail.                       *)
RightPlace ==
    [][worker.pc \in {"execute", "apply"} /\ ~worker.lost /\ worker'.stmts # worker.stmts =>
          \A e \in {x \in Catalogue : Reachable(x)} :
              /\ acl'[e] \ acl[e] \subseteq Asked(worker.spec, e)
              /\ acl[e] \cap Named(worker.spec, e) \subseteq acl'[e]]_vars

(* A reconcile that reports the privileges as synced has granted what the  *)
(* specification asks for, unless it skipped a database.                   *)
SyncedMeansGranted ==
    worker.pc = "done" /\ ~worker.failed /\ ~worker.lost /\ ~worker.skipped /\ ~worker.touched
    => \A e \in {x \in Catalogue : Reachable(x)} : Asked(worker.spec, e) \subseteq acl[e]

\* why SyncedMeansGranted and RightPlace hold: what is known of a reconcile
\* while it collects and executes statements

Executing == worker.pc \in {"execute", "apply"}
Collecting == worker.pc \in {"schemas", "fetch"}
Disturbed == worker.lost \/ worker.skipped \/ worker.touched \/ worker.failed

\* whose statements are on the entry e
Home(e) == IF Kind(e) = "database" THEN worker.original ELSE e[2]

Hit(stmt, db) == Catalogue \cap Hits(stmt.on, db)

\* wherever it is executed, the statement gives what there is to give
Typed(stmt) ==
    /\ stmt.op \in {"grant", "revoke"}
    /\ stmt.op = "grant" =>
          \A db \in Sessions : \A e \in Hit(stmt, db) :
              Expand(e, stmt.privs) \subseteq PrivilegesOf(Kind(e))

\* it gives what is asked for, and takes nothing that is asked for by name
Right(grants, stmt, db) ==
    \A e \in Hit(stmt, db) :
        /\ stmt.op = "grant" => Expand(e, stmt.privs) \subseteq Asked(grants, e)
        /\ stmt.op = "revoke" => Expand(e, stmt.privs) \cap Named(grants, e) = {}

Changes(stmts, op, e, p, db) ==
    \E s \in stmts : s.op = op /\ e \in Hit(s, db) /\ p \in Expand(e, s.privs)

\* what is asked for will be granted, or is there and is not going to be taken
Provided(grants, stmts, e, db) ==
    \A p \in Asked(grants, e) :
        \/ Changes(stmts, "grant", e, p, db)
        \/ p \in acl[e] /\ ~Changes(stmts, "revoke", e, p, db)

SnapshotInv ==
    /\ worker.pc \in {"snapshot", "current"} => worker.stmts = [d \in {} |-> {}]
    /\ worker.pc = "current" =>
          /\ DOMAIN worker.snapshot = Databases
          /\ \A d \in Databases :
                /\ worker.snapshot[d] \subseteq PrivilegesOf("database")
                /\ ~worker.touched => worker.snapshot[d] = acl[<<"database", d>>]

\* the session is where the reconcile believes it to be
PlaceInv ==
    Collecting \/ Executing =>
        /\ worker.current \in Sessions
        /\ ~worker.lost => Session = worker.current
        /\ worker.pc \in {"fetch", "apply"} => worker.current \in worker.todo

\* the statements of a database are about its own entries; before its schemas
\* are fetched there are statements on databases only
StatementsInv ==
    Collecting \/ Executing =>
        \A d \in DOMAIN worker.stmts : \A s \in worker.stmts[d] :
            /\ Typed(s)
            /\ ~worker.lost =>
                  /\ Right(worker.spec, s, d)
                  /\ \A e \in Hit(s, d) : Home(e) = d
                  /\ Collecting /\ d \in worker.todo => \A e \in Hit(s, d) : Kind(e) = "database"

ProvidedInv ==
    (Collecting \/ Executing) /\ ~Disturbed =>
        \A e \in {x \in Catalogue : Reachable(x)} :
            Kind(e) = "database" \/ Executing \/ e[2] \notin worker.todo =>
                /\ Home(e) \in DOMAIN worker.stmts
                /\ Provided(worker.spec, worker.stmts[Home(e)], e, Home(e))

TodoInv ==
    Executing =>
        /\ worker.todo \subseteq DOMAIN worker.stmts
        /\ ~worker.failed => \A d \in DOMAIN worker.stmts \ worker.todo : worker.stmts[d] = {}

ReconcileInv ==
    /\ Working => worker.spec \in Grants
    /\ SnapshotInv /\ PlaceInv /\ StatementsInv /\ ProvidedInv /\ TodoInv

(* The types, every open handle that is lost paid for by a ping that has   *)
(* failed, a report of success that is one, and, on the way to it, every   *)
(* statement in the right place and every privilege provided for.          *)
SyncInv == TypeOK /\ DropsPaid /\ ReconcileInv /\ SyncedMeansGranted

\* the objects of a schema that the specification does not mention, and on
\* which the user has no privilege, are never looked at
Hidden(e) == Len(e) = 4 /\ <<"schema", e[2], e[3]>> \notin DOMAIN spec
                        /\ acl[<<"schema", e[2], e[3]>>] = {}

Matches == \A e \in {x \in Catalogue : Reachable(x) /\ ~Hidden(x)} : acl[e] = Asked(spec, e)

(* However the privileges were changed, whatever failed and whichever      *)
(* connections were lost, they keep coming back to what the specification  *)
(* asks for.                                                               *)
Converges == []<>Matches

=============================================================================
