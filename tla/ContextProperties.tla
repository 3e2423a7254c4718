------------------------- MODULE ContextProperties --------------------------
(***************************************************************************)
(* What the contexts of TSqlParser.g4 keep of a match, and which rules can *)
(* take the separator of batches for a name.                               *)
(***************************************************************************)
EXTENDS RuleContext, ObjectSyntax, ServerSyntax, TableSyntax, CommandSyntax, ColumnSyntax,
        FileSyntax, QuerySyntax, FunctionSyntax, NameSyntax

\* The whole of TSqlParser.g4: every rule that matches more than keywords,
\* with its context class.
Rules ==
    FileRules @@ ControlRules @@ AssemblyRules @@ AuthorizationRules @@ AvailabilityRules
    @@ DropRules @@ TriggerSwitchRules @@ CredentialRules @@ EndpointRules @@ ExternalRules
    @@ LoginRules @@ PartitionRules @@ AuditRules @@ SchemaRules @@ ServerAuditRules
    @@ ServiceRules @@ UserRules @@ QueueRules @@ IndexRules @@ ProcedureRules @@ TableRules
    @@ DatabaseRules @@ DropTableRules @@ DeclareRules @@ BackupRules @@ ExecuteRules
    @@ SecurityRules @@ SessionRules @@ DbccRules @@ ColumnRules @@ CursorRules @@ DataRules
    @@ ExpressionRules @@ SelectRules @@ SourceRules @@ CallRules @@ MetadataFunctions
    @@ StringFunctions @@ SystemFunctions @@ ConversionFunctions @@ DateFunctions
    @@ XmlAndJsonFunctions @@ MathFunctions @@ SecurityFunctions @@ BuiltInRules @@ MethodRules
    @@ HintRules @@ WindowRules @@ FileSpecRules @@ NameRules @@ ConversationRules
    @@ ConstantRules

(***************************************************************************)
(* The rules in which the grammar of the C++ port (the automaton in        *)
(* port/cpp/TSqlParser.interp) differs from TSqlParser.g4.  The port was   *)
(* generated before tsql_file and full_table_name were rewritten; all      *)
(* other rules are the same in both.                                       *)
(***************************************************************************)
BatchContext ==
    Plain({"execute_body_batch", "batch_level_statement"}, {"go_statement", "sql_clauses"})
Non_ansi_joinContext ==
    Class({}, {"table_source"}, <<>>, Of("table_source", {"source"}))

PortRules == [
    tsql_file |-> Tsql_fileContext ::=
        (N("batch")^* & T("EOF")) | (N("execute_body_batch") & N("go_statement")^* & T("EOF")),
    batch |-> BatchContext ::=
        N("go_statement")
        | (N("execute_body_batch")^# & (N("go_statement") | N("sql_clauses")^+)
           & N("go_statement")^*)
        | (N("batch_level_statement") & N("go_statement")^*),
    insert_statement_value |-> Insert_statement_valueContext ::=
        N("table_value_constructor") | N("derived_table") | N("execute_statement")
        | T("DEFAULT VALUES"),
    table_sources |-> Table_sourcesContext ::=
        N("non_ansi_join") | List(V("source", N("table_source"))),
    non_ansi_join |-> Non_ansi_joinContext ::=
        V("source", N("table_source")) & (T(",") & V("source", N("table_source")))^+,
    freetext_predicate |-> Freetext_predicateContext ::=
        (T("CONTAINS (")
         & (N("full_column_name")
            | (T("(") & List(N("full_column_name")) & T(")"))
            | T("*")
            | (T("PROPERTY (") & N("full_column_name") & T(",") & N("expression") & T(")")))
         & T(",") & N("expression") & T(")"))
        | (T("FREETEXT (") & N("table_name") & T(",")
           & (N("full_column_name")
              | (T("(") & List(N("full_column_name")) & T(")"))
              | T("*"))
           & T(",") & N("expression") & (T(", LANGUAGE") & N("expression"))^# & T(")")),
    full_table_name |-> Full_table_nameContext ::=
        (  (Id("linkedServer") & T(". .") & Id("schema") & T("."))
         | (Id("server") & T(".") & Id("database") & T(".") & Id("schema") & T("."))
         | (Id("database") & T(".") & Id("schema")^# & T("."))
         | (Id("schema") & T(".")))^#
        & Id("table"),
    full_column_name |-> Full_column_nameContext ::=
        ((OneOf({"DELETED", "INSERTED"}) | N("full_table_name")) & T("."))^#
        & (Id("column_name") | (T("$") & OneOf({"IDENTITY", "ROWGUID"})))]

(***************************************************************************)
(* The children of five rules that were rewritten after TSqlParser.h was   *)
(* generated, for which the header has no accessor.                        *)
(***************************************************************************)
Unreached == [
    tsql_file |-> {"batch_without_go"},
    batch_without_go |-> {"sql_clauses", "batch_level_statement", "execute_body_batch"},
    full_table_name |-> {"dotID", "doubleDotID"},
    dotID |-> {"id_"},
    doubleDotID |-> {"id_"}]

\* The entry for this call's rule in a list of exceptions.
Excepted(list) == IF rule \in DOMAIN list THEN list[rule] ELSE {}

(***************************************************************************)
(* Every child is within the reach of the accessors in TSqlParser.h: its   *)
(* kind has one, and where there can be two children of a kind it is the   *)
(* accessor that returns a vector.  So it is for the grammar of the port,  *)
(* and for the current one but for the children in Unreached: the          *)
(* separators and the end of a tsql_file are still within reach, its       *)
(* batches are not.                                                        *)
(***************************************************************************)
AccessorsReachEveryChild ==
    got # <<>> /\ watch[1] = "child" =>
        \/ watch[2] \in context.many \cup IF Len(got) = 1 THEN context.one ELSE {}
        \/ grammar = "current" /\ watch[2] \in Excepted(Unreached)

(***************************************************************************)
(* Labels inside a loop, or twice on one path (as both arguments of ATN2   *)
(* are float_expression): the field keeps the last match only.  All        *)
(* matches of these are still among the children of their kind, and        *)
(* nothing else is.                                                        *)
(***************************************************************************)
Repeated == [
    ATN2 |-> {"float_expression"},
    JSON_OBJECT |-> {"key_value"},
    alter_login_azure_sql |-> {"login_name"},
    alter_login_azure_sql_dw_and_pdw |-> {"login_name"},
    alter_user |-> {"lcid"},
    create_column_encryption_key |-> {"algorithm_name", "encrypted_value"},
    dbcc_checkalloc |-> {"dbcc_option"},
    dbcc_checkconstraints |-> {"dbcc_option"},
    dbcc_checkdb |-> {"dbcc_option"},
    dbcc_checkfilegroup |-> {"dbcc_option"},
    dbcc_checktable |-> {"dbcc_option"},
    dbcc_clonedatabase |-> {"dbcc_option"},
    drop_assembly |-> {"assembly_name"},
    drop_database |-> {"database_name_or_database_snapshot_name"},
    drop_statistics |-> {"name"}]

\* Those whose other matches are lost among children of the same kind, or
\* have no accessor.
AuditFile == {"filepath", "max_files", "max_rollover_files", "queue_delay"}
WorkloadLimits ==
    {"group_max_requests", "max_dop", "request_max_cpu_time_sec", "request_max_memory_grant",
     "request_memory_grant_timeout_sec"}
BackupOptions ==
    {"backup_set_name", "encryptor_name", "logical_device_name", "medianame", "stats_percent"}

Lost == [
    alter_availability_group_options |-> {"ag_name", "ag_name_modified"},
    alter_external_data_source |-> {"credential_name", "location", "resource_manager_location"},
    alter_external_library |-> {"external_data_source_name"},
    alter_login_sql_server |-> {"login_name"},
    alter_server_audit |-> AuditFile,
    alter_server_audit_specification |-> {"audit_action_group_name"},
    alter_user |-> {"language_name_or_alias", "loginame", "newusername", "schema_name"},
    alter_user_azure_sql |-> {"loginame", "newusername", "schema_name"},
    alter_workload_group |-> WorkloadLimits,
    backup_certificate |-> {"decryption_pasword", "encryption_password", "private_key_file"},
    backup_database |-> BackupOptions \cup {"file_or_filegroup"},
    backup_log |-> BackupOptions \cup {"undo_file_name"},
    create_column_encryption_key |-> {"column_master_key_name"},
    create_contract |-> {"message_type_name"},
    create_event_notification |-> {"event_type_or_group"},
    create_external_library |-> {"external_data_source_name"},
    create_or_alter_event_session |->
        {"action_name", "event_customizable_attributue", "event_module_guid", "event_name",
         "event_package_name", "target_name", "target_parameter_name"},
    create_schema |-> {"object_name", "owner_name"},
    create_security_policy |->
        {"column_name_or_arguments", "name", "security_predicate_function_name",
         "table_schema_name", "tvf_schema_name"},
    create_server_audit |-> AuditFile \cup {"audit_guid"},
    create_server_audit_specification |-> {"audit_action_group_name"},
    create_user |-> {"language_name_or_alias", "schema_name"},
    create_workload_group |-> WorkloadLimits,
    disable_trigger |-> {"schema_name", "trigger_name"},
    drop_event_notifications |-> {"notification_name"},
    drop_signature |-> {"Asym_key_name", "cert_name"},
    enable_trigger |-> {"schema_name", "trigger_name"},
    event_session_predicate_leaf |-> {"event_module_guid", "event_package_name"},
    on_partitions |-> {"partition_number", "to_partition_number"},
    raiseerror_statement |-> {"argument"},
    try_catch_statement |-> {"try_clauses", "catch_clauses"}]

(***************************************************************************)
(* A label is a field, or a vector, of the kind of child that it marks.    *)
(* What a field held is not lost to a later match: it is assigned once per *)
(* call, or its label is one of Repeated and the matches are the children  *)
(* of their kind (both names of DROP ASSEMBLY a, b are found there), or    *)
(* its label is one of Lost.                                               *)
(***************************************************************************)
FieldsKeepTheirMatch ==
    got # <<>> /\ watch[1] = "field" =>
        LET label == watch[2]
            AllAre(as, type) == \A i \in DOMAIN got : got[i].as = as /\ got[i].type = type
            found == \A i \in DOMAIN got : got[i].child \in context.many \ besides
        IN  \/ label \in DOMAIN context.vector /\ AllAre("vector", context.vector[label])
            \/ /\ label \in DOMAIN context.field
               /\ AllAre("field", context.field[label])
               /\ \/ Len(got) = 1
                  \/ label \in Excepted(Repeated) /\ found
                  \/ label \in Excepted(Lost)

\* Optional labels that stand before others of the same kind: in DROP QUEUE
\* dbo.q the name dbo is the database, not the schema.
Undetermined == [
    IDENTITY |-> {"datatype", "seed", "increment"},
    create_synonym |->
        {"database_name", "server_name", "schema_name_2", "database_or_schema2",
         "schema_id_2_or_object_name"},
    create_user |-> {"user_name", "windows_principal"},
    drop_external_table |-> {"database_name", "schema_name"},
    drop_queue |-> {"database_name", "schema_name"},
    drop_sequence |-> {"database_name", "schema_name"}]

(***************************************************************************)
(* The children of a context determine its fields: two readings of the     *)
(* same children assign the same labels, but for those in Undetermined;    *)
(* the queue of DROP QUEUE is certain, what stands before it is not.       *)
(***************************************************************************)
ChildrenDetermineFields == exited => apart \subseteq Excepted(Undetermined)

-----------------------------------------------------------------------------
(***************************************************************************)
(* Where a batch can end, and what can begin with GO.                      *)
(***************************************************************************)
Closure(Grow(_), universe, start) ==
    LET closed[S \in SUBSET universe] ==
            LET more == S \cup Grow(S) IN IF more = S THEN S ELSE closed[more]
    IN  closed[start]

\* The places that the function of a rule can come to.
Places(e) ==
    LET Reach(S) == UNION {{After(e, p) : p \in Nexts(e, q) \ {End}} : q \in S}
    IN  Closure(Reach, Seq(Nat), {<<1>>})

\* The rules that can be the last child of a rule.
Lasts(e) ==
    LET calls == {p \in UNION {Nexts(e, q) : q \in Places(e)} \ {End} : ItemAt(e, p).k = "rule"}
        last == {p \in calls : End \in Nexts(e, After(e, p))}
    IN  {ItemAt(e, p).sym : p \in last}

\* The rules with which a batch can end.
Endings ==
    LET Inner(S) == UNION {Lasts(def.rhs) : def \in {Rules[r] : r \in S}} \cap DOMAIN Rules
    IN  Closure(Inner, DOMAIN Rules, {"batch_without_go"})

\* At this place e can go on with GO, S being rules that begin with it.
GoFits(e, path, S) ==
    \E p \in Nexts(e, path) \ {End} : ItemAt(e, p).sym \in S \/ "GO" \in ItemAt(e, p).set

\* The rules that can begin with the keyword GO, read as a name.  As a label
\* (goto_statement) GO would have to have a colon behind it.
GoStarters ==
    LET others == DOMAIN Rules \ {"go_statement", "goto_statement"}
        Outer(S) == {r \in others : \E def \in {Rules[r]} : GoFits(def.rhs, <<1>>, S)}
    IN  Closure(Outer, DOMAIN Rules, {})

\* Rules that end in an optional name, or in a list of names whose commas
\* are optional.
OpenTails ==
    {"alter_partition_scheme", "alter_table", "backup_database", "backup_log",
     "column_def_table_constraints", "create_synonym", "create_workload_group",
     "drop_assembly", "drop_database", "drop_rule", "drop_sequence", "execute_body",
     "execute_body_batch", "expression_elem", "open_json", "open_xml",
     "output_dml_list_elem", "return_statement", "table_source_item",
     "transaction_statement", "udt_elem", "update_statistics", "waitfor_statement"}

(***************************************************************************)
(* Where the last rule of a batch can return, a GO that follows is the     *)
(* separator: the rule cannot go on with it, but for the 23 rules with an  *)
(* open tail, which take it for a name.                                    *)
(***************************************************************************)
GoIsTakenOnlyByOpenTails ==
    /\ grammar = "current"
    /\ rule \in Endings
    /\ ~exited
    /\ End \in Nexts(code, at)
    /\ GoFits(code, at, GoStarters)
    => rule \in OpenTails
=============================================================================
