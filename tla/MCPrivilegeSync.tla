-------------------------- MODULE MCPrivilegeSync --------------------------
(***************************************************************************)
(* An instance of PrivilegeSync: two databases with a schema and a table   *)
(* each; one also has a sink.                                              *)
(***************************************************************************)
EXTENDS PrivilegeSync

MCPrivilegesOf(kind) ==
    CASE kind = "database" -> {"CONNECT"}
      [] kind = "schema" -> {"USAGE"}
      [] kind = "table" -> {"SELECT", "INSERT"}
      [] OTHER -> {"SELECT"}

Dev   == <<"database", "dev">>
Other == <<"database", "other">>
DevSchema   == <<"schema", "dev", "public">>
OtherSchema == <<"schema", "other", "public">>
DevTable   == <<"table", "dev", "public", "t">>
OtherTable == <<"table", "other", "public", "t">>
DevSink == <<"sink", "dev", "public", "k">>

Missing == <<"table", "other", "public", "gone">>

MCCatalogue == {Dev, Other, DevSchema, OtherSchema, DevTable, OtherTable, DevSink}

\* CONNECT on the database, USAGE on the schema, and so on the objects
On3(database, schema, objects) ==
    [e \in {database, schema} \cup DOMAIN objects |->
        IF e \in DOMAIN objects THEN objects[e] ELSE MCPrivilegesOf(Kind(e))]

\* a table by name, and a sink, which is ignored; a table with all
\* privileges; all tables of a schema, and one that does not exist
MCGrants ==
    {On3(Dev, DevSchema, [e \in {DevTable, DevSink} |-> {"SELECT"}]),
     On3(Other, OtherSchema, [e \in {OtherTable} |-> {"ALL"}]),
     On3(Other, OtherSchema,
         [e \in {<<"table", "other", "public", Wildcard>>, Missing} |-> {"SELECT"}])}

\* everything but the sink
MCFirstACLs == {[e \in MCCatalogue |-> IF e = DevSink THEN {} ELSE MCPrivilegesOf(Kind(e))]}

ASSUME MCUnambiguous == Unambiguous
=============================================================================
