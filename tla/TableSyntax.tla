---------------------------- MODULE TableSyntax -----------------------------
(***************************************************************************)
(* Databases, indexes, procedures, functions, triggers, tables and views.  *)
(* Rules in the order of TSqlParser.g4, each with its class of             *)
(* TSqlParser.h.                                                           *)
(***************************************************************************)
EXTENDS RuleNotation

Create_databaseContext ==
    Named({}, {"id_", "database_file_spec", "create_database_option"},
          Of("id_", {"database", "collation_name"}))
Create_indexContext ==
    Named({"table_name", "column_name_list_with_order", "clustered", "column_name_list",
           "create_index_options", "search_condition"}, {"id_"},
          Of("search_condition", {"where"}))
Create_index_optionsContext == Plain({}, {"relational_index_option"})
Relational_index_optionContext == Plain({"rebuild_index_option", "on_off"}, {})
Alter_indexContext ==
    Plain({"table_name", "id_", "reorganize_partition", "set_index_options",
           "rebuild_partition", "resumable_index_options"}, {})
Resumable_index_optionsContext == Plain({}, {"resumable_index_option"})
Resumable_index_optionContext ==
    Named({"DECIMAL", "low_priority_lock_wait"}, {},
          Of("Token", {"max_degree_of_parallelism", "max_duration"}))
Reorganize_partitionContext == Plain({"DECIMAL", "reorganize_options"}, {})
Reorganize_optionsContext == Plain({}, {"reorganize_option"})
Reorganize_optionContext == Plain({"on_off"}, {})
Set_index_optionsContext == Plain({}, {"set_index_option"})
Set_index_optionContext == Named({"on_off", "DECIMAL"}, {}, Of("Token", {"delay"}))
Rebuild_partitionContext ==
    Plain({"rebuild_index_options", "DECIMAL", "single_partition_rebuild_index_options"}, {})
Rebuild_index_optionsContext == Plain({}, {"rebuild_index_option"})
Rebuild_index_optionContext ==
    Named({"on_off", "DECIMAL", "low_priority_lock_wait", "on_partitions"}, {},
          Of("Token", {"times", "max_degree_of_parallelism"}))
Single_partition_rebuild_index_optionsContext ==
    Plain({}, {"single_partition_rebuild_index_option"})
Single_partition_rebuild_index_optionContext ==
    Named({"on_off", "DECIMAL", "on_partitions", "low_priority_lock_wait"}, {},
          Of("Token", {"max_degree_of_parallelism"}))
On_partitionsContext ==
    Named({}, {"DECIMAL"}, Of("Token", {"partition_number", "to_partition_number"}))
Create_columnstore_indexContext ==
    Plain({"table_name", "create_columnstore_index_options"}, {"id_"})
Create_columnstore_index_optionsContext == Plain({}, {"columnstore_index_option"})
Columnstore_index_optionContext ==
    Named({"on_off", "DECIMAL", "on_partitions"}, {},
          Of("Token", {"max_degree_of_parallelism", "delay"}))
Create_nonclustered_columnstore_indexContext ==
    Plain({"table_name", "column_name_list_with_order", "search_condition",
           "create_columnstore_index_options"}, {"id_"})
Create_xml_indexContext == Plain({"table_name", "xml_index_options"}, {"id_"})
Xml_index_optionsContext == Plain({}, {"xml_index_option"})
Xml_index_optionContext ==
    Named({"on_off", "DECIMAL", "low_priority_lock_wait"}, {},
          Of("Token", {"max_degree_of_parallelism"}))

IndexRules == [
    create_database |-> Create_databaseContext ::=
        T("CREATE DATABASE") & Id("database")
        & (T("CONTAINMENT =") & OneOf({"NONE", "PARTIAL"}))^#
        & (T("ON") & T("PRIMARY")^# & List(N("database_file_spec")))^#
        & (T("LOG ON") & List(N("database_file_spec")))^#
        & (T("COLLATE") & Id("collation_name"))^#
        & (T("WITH") & List(N("create_database_option")))^#,
    create_index |-> Create_indexContext ::=
        T("CREATE") & T("UNIQUE")^# & N("clustered")^# & T("INDEX") & N("id_") & T("ON")
        & N("table_name") & T("(") & N("column_name_list_with_order") & T(")")
        & (T("INCLUDE (") & N("column_name_list") & T(")"))^#
        & (T("WHERE") & L("where", N("search_condition")))^# & N("create_index_options")^#
        & (T("ON") & N("id_"))^# & T(";")^#,
    create_index_options |-> Create_index_optionsContext ::=
        T("WITH (") & List(N("relational_index_option")) & T(")"),
    relational_index_option |-> Relational_index_optionContext ::=
        N("rebuild_index_option")
        | (T("DROP_EXISTING =") & N("on_off"))
        | (T("OPTIMIZE_FOR_SEQUENTIAL_KEY =") & N("on_off")),
    alter_index |-> Alter_indexContext ::=
        T("ALTER INDEX") & (N("id_") | T("ALL")) & T("ON") & N("table_name")
        & (T("DISABLE") | T("PAUSE") | T("ABORT")
           | (T("RESUME") & N("resumable_index_options")^#) | N("reorganize_partition")
           | N("set_index_options") | N("rebuild_partition")),
    resumable_index_options |-> Resumable_index_optionsContext ::=
        T("WITH (") & List(N("resumable_index_option")) & T(")"),
    resumable_index_option |-> Resumable_index_optionContext ::=
        (T("MAXDOP =") & Num("max_degree_of_parallelism"))
        | (T("MAX_DURATION =") & Num("max_duration") & T("MINUTES")^#)
        | N("low_priority_lock_wait"),
    reorganize_partition |-> Reorganize_partitionContext ::=
        T("REORGANIZE") & (T("PARTITION =") & T("DECIMAL"))^# & N("reorganize_options")^#,
    reorganize_options |-> Reorganize_optionsContext ::=
        T("WITH (") & List(N("reorganize_option")) & T(")"),
    reorganize_option |-> Reorganize_optionContext ::=
        (T("LOB_COMPACTION =") & N("on_off")) | (T("COMPRESS_ALL_ROW_GROUPS =") & N("on_off")),
    set_index_options |-> Set_index_optionsContext ::=
        T("SET (") & List(N("set_index_option")) & T(")"),
    set_index_option |-> Set_index_optionContext ::=
        (T("ALLOW_ROW_LOCKS =") & N("on_off"))
        | (T("ALLOW_PAGE_LOCKS =") & N("on_off"))
        | (T("OPTIMIZE_FOR_SEQUENTIAL_KEY =") & N("on_off"))
        | (T("IGNORE_DUP_KEY =") & N("on_off"))
        | (T("STATISTICS_NORECOMPUTE =") & N("on_off"))
        | (T("COMPRESSION_DELAY =") & Num("delay") & T("MINUTES")^#),
    rebuild_partition |-> Rebuild_partitionContext ::=
        (T("REBUILD") & T("PARTITION = ALL")^# & N("rebuild_index_options")^#)
        | (T("REBUILD PARTITION =") & T("DECIMAL")
           & N("single_partition_rebuild_index_options")^#),
    rebuild_index_options |-> Rebuild_index_optionsContext ::=
        T("WITH (") & List(N("rebuild_index_option")) & T(")"),
    rebuild_index_option |-> Rebuild_index_optionContext ::=
        (T("PAD_INDEX =") & N("on_off"))
        | (T("FILLFACTOR =") & T("DECIMAL"))
        | (T("SORT_IN_TEMPDB =") & N("on_off"))
        | (T("IGNORE_DUP_KEY =") & N("on_off"))
        | (T("STATISTICS_NORECOMPUTE =") & N("on_off"))
        | (T("STATISTICS_INCREMENTAL =") & N("on_off"))
        | (T("ONLINE =")
           & ((T("ON") & (T("(") & N("low_priority_lock_wait") & T(")"))^#) | T("OFF")))
        | (T("RESUMABLE =") & N("on_off"))
        | (T("MAX_DURATION =") & Num("times") & T("MINUTES")^#)
        | (T("ALLOW_ROW_LOCKS =") & N("on_off"))
        | (T("ALLOW_PAGE_LOCKS =") & N("on_off"))
        | (T("MAXDOP =") & Num("max_degree_of_parallelism"))
        | (T("DATA_COMPRESSION =")
           & OneOf({"NONE", "ROW", "PAGE", "COLUMNSTORE", "COLUMNSTORE_ARCHIVE"})
           & N("on_partitions")^#)
        | (T("XML_COMPRESSION =") & N("on_off") & N("on_partitions")^#),
    single_partition_rebuild_index_options |-> Single_partition_rebuild_index_optionsContext ::=
        T("WITH (") & List(N("single_partition_rebuild_index_option")) & T(")"),
    single_partition_rebuild_index_option |-> Single_partition_rebuild_index_optionContext ::=
        (T("SORT_IN_TEMPDB =") & N("on_off"))
        | (T("MAXDOP =") & Num("max_degree_of_parallelism"))
        | (T("RESUMABLE =") & N("on_off"))
        | (T("DATA_COMPRESSION =")
           & OneOf({"NONE", "ROW", "PAGE", "COLUMNSTORE", "COLUMNSTORE_ARCHIVE"})
           & N("on_partitions")^#)
        | (T("XML_COMPRESSION =") & N("on_off") & N("on_partitions")^#)
        | (T("ONLINE =")
           & ((T("ON") & (T("(") & N("low_priority_lock_wait") & T(")"))^#) | T("OFF"))),
    on_partitions |-> On_partitionsContext ::=
        T("ON PARTITIONS (") & Num("partition_number")
        & (T("TO") & Num("to_partition_number"))^#
        & (T(",") & Num("partition_number") & (T("TO") & Num("to_partition_number"))^#)^*
        & T(")"),
    create_columnstore_index |-> Create_columnstore_indexContext ::=
        T("CREATE CLUSTERED COLUMNSTORE INDEX") & N("id_") & T("ON") & N("table_name")
        & N("create_columnstore_index_options")^# & (T("ON") & N("id_"))^# & T(";")^#,
    create_columnstore_index_options |-> Create_columnstore_index_optionsContext ::=
        T("WITH (") & List(N("columnstore_index_option")) & T(")"),
    columnstore_index_option |-> Columnstore_index_optionContext ::=
        (T("DROP_EXISTING =") & N("on_off"))
        | (T("MAXDOP =") & Num("max_degree_of_parallelism"))
        | (T("ONLINE =") & N("on_off"))
        | (T("COMPRESSION_DELAY =") & Num("delay") & T("MINUTES")^#)
        | (T("DATA_COMPRESSION =") & OneOf({"COLUMNSTORE", "COLUMNSTORE_ARCHIVE"})
           & N("on_partitions")^#),
    create_nonclustered_columnstore_index |-> Create_nonclustered_columnstore_indexContext ::=
        T("CREATE") & T("NONCLUSTERED")^# & T("COLUMNSTORE INDEX") & N("id_") & T("ON")
        & N("table_name") & T("(") & N("column_name_list_with_order") & T(")")
        & (T("WHERE") & N("search_condition"))^# & N("create_columnstore_index_options")^#
        & (T("ON") & N("id_"))^# & T(";")^#,
    create_xml_index |-> Create_xml_indexContext ::=
        T("CREATE") & T("PRIMARY")^# & T("XML INDEX") & N("id_") & T("ON") & N("table_name")
        & T("(") & N("id_") & T(")")
        & (T("USING XML INDEX") & N("id_")
           & (T("FOR") & OneOf({"VALUE", "PATH", "PROPERTY"})^#)^#)^#
        & N("xml_index_options")^# & T(";")^#,
    xml_index_options |-> Xml_index_optionsContext ::=
        T("WITH (") & List(N("xml_index_option")) & T(")"),
    xml_index_option |-> Xml_index_optionContext ::=
        (T("PAD_INDEX =") & N("on_off"))
        | (T("FILLFACTOR =") & T("DECIMAL"))
        | (T("SORT_IN_TEMPDB =") & N("on_off"))
        | (T("IGNORE_DUP_KEY =") & N("on_off"))
        | (T("DROP_EXISTING =") & N("on_off"))
        | (T("ONLINE =")
           & ((T("ON") & (T("(") & N("low_priority_lock_wait") & T(")"))^#) | T("OFF")))
        | (T("ALLOW_ROW_LOCKS =") & N("on_off"))
        | (T("ALLOW_PAGE_LOCKS =") & N("on_off"))
        | (T("MAXDOP =") & Num("max_degree_of_parallelism"))
        | (T("XML_COMPRESSION =") & N("on_off"))]

Create_or_alter_procedureContext ==
    Named({"func_proc_name_schema", "as_external_name", "DECIMAL"},
          {"procedure_param", "procedure_option", "sql_clauses"},
          Of("Token", {"proc"}) @@ Of("func_proc_name_schema", {"procName"}))
As_external_nameContext ==
    Named({}, {"id_"}, Of("id_", {"assembly_name", "class_name", "method_name"}))
Create_or_alter_triggerContext ==
    Plain({"create_or_alter_dml_trigger", "create_or_alter_ddl_trigger"}, {})
Create_or_alter_dml_triggerContext ==
    Plain({"simple_name", "table_name"},
          {"dml_trigger_operation", "dml_trigger_option", "sql_clauses"})
Dml_trigger_optionContext == Plain({"execute_clause"}, {})
Create_or_alter_ddl_triggerContext ==
    Plain({"simple_name"}, {"ddl_trigger_operation", "dml_trigger_option", "sql_clauses"})
Ddl_trigger_operationContext == Plain({"simple_id"}, {})
Create_or_alter_functionContext ==
    Named({"func_proc_name_schema", "func_body_returns_select", "func_body_returns_table",
           "func_body_returns_scalar"}, {"procedure_param"},
          Of("func_proc_name_schema", {"funcName"}))
Func_body_returns_selectContext ==
    Plain({"as_external_name", "select_statement_standalone"}, {"function_option"})
Func_body_returns_tableContext ==
    Plain({"LOCAL_ID", "table_type_definition", "as_external_name"},
          {"function_option", "sql_clauses"})
Func_body_returns_scalarContext ==
    Named({"data_type", "as_external_name", "expression"}, {"function_option", "sql_clauses"},
          Of("expression", {"ret"}))
Procedure_param_default_valueContext == Plain({"constant", "LOCAL_ID"}, {})
Procedure_paramContext ==
    Named({"LOCAL_ID", "data_type", "id_", "procedure_param_default_value"}, {},
          Of("id_", {"type_schema"}) @@ Of("procedure_param_default_value", {"default_val"}))
Procedure_optionContext == Plain({"execute_clause"}, {})
Function_optionContext == Plain({"execute_clause"}, {})

ProcedureRules == [
    create_or_alter_procedure |-> Create_or_alter_procedureContext ::=
        ((T("CREATE") & (T("OR") & OneOf({"ALTER", "REPLACE"}))^#) | T("ALTER"))
        & L("proc", OneOf({"PROC", "PROCEDURE"})) & L("procName", N("func_proc_name_schema"))
        & (T(";") & T("DECIMAL"))^# & (T("(")^# & List(N("procedure_param")) & T(")")^#)^#
        & (T("WITH") & List(N("procedure_option")))^# & T("FOR REPLICATION")^# & T("AS")
        & (N("as_external_name") | N("sql_clauses")^*),
    as_external_name |-> As_external_nameContext ::=
        T("EXTERNAL NAME") & Id("assembly_name") & T(".") & Id("class_name") & T(".")
        & Id("method_name"),
    create_or_alter_trigger |-> Create_or_alter_triggerContext ::=
        N("create_or_alter_dml_trigger") | N("create_or_alter_ddl_trigger"),
    create_or_alter_dml_trigger |-> Create_or_alter_dml_triggerContext ::=
        ((T("CREATE") & (T("OR") & OneOf({"ALTER", "REPLACE"}))^#) | T("ALTER")) & T("TRIGGER")
        & N("simple_name") & T("ON") & N("table_name")
        & (T("WITH") & List(N("dml_trigger_option")))^# & OneOf({"FOR", "AFTER", "INSTEAD OF"})
        & List(N("dml_trigger_operation")) & T("WITH APPEND")^# & T("NOT FOR REPLICATION")^#
        & T("AS") & N("sql_clauses")^+,
    dml_trigger_option |-> Dml_trigger_optionContext ::= T("ENCRYPTION") | N("execute_clause"),
    create_or_alter_ddl_trigger |-> Create_or_alter_ddl_triggerContext ::=
        ((T("CREATE") & (T("OR") & OneOf({"ALTER", "REPLACE"}))^#) | T("ALTER")) & T("TRIGGER")
        & N("simple_name") & T("ON") & OneOf({"ALL SERVER", "DATABASE"})
        & (T("WITH") & List(N("dml_trigger_option")))^# & OneOf({"FOR", "AFTER"})
        & List(N("ddl_trigger_operation")) & T("AS") & N("sql_clauses")^+,
    ddl_trigger_operation |-> Ddl_trigger_operationContext ::= N("simple_id"),
    create_or_alter_function |-> Create_or_alter_functionContext ::=
        ((T("CREATE") & T("OR ALTER")^#) | T("ALTER")) & T("FUNCTION")
        & L("funcName", N("func_proc_name_schema"))
        & ((T("(") & List(N("procedure_param")) & T(")")) | T("( )"))
        & (N("func_body_returns_select") | N("func_body_returns_table")
           | N("func_body_returns_scalar"))
        & T(";")^#,
    func_body_returns_select |-> Func_body_returns_selectContext ::=
        T("RETURNS TABLE") & (T("WITH") & List(N("function_option")))^# & T("AS")^#
        & (N("as_external_name")
           | (T("RETURN")
              & ((T("(") & N("select_statement_standalone") & T(")"))
                 | N("select_statement_standalone")))),
    func_body_returns_table |-> Func_body_returns_tableContext ::=
        T("RETURNS") & T("LOCAL_ID") & N("table_type_definition")
        & (T("WITH") & List(N("function_option")))^# & T("AS")^#
        & (N("as_external_name")
           | (T("BEGIN") & N("sql_clauses")^* & T("RETURN") & T(";")^# & T("END") & T(";")^#)),
    func_body_returns_scalar |-> Func_body_returns_scalarContext ::=
        T("RETURNS") & N("data_type") & (T("WITH") & List(N("function_option")))^# & T("AS")^#
        & (N("as_external_name")
           | (T("BEGIN") & N("sql_clauses")^* & T("RETURN") & Expr("ret") & T(";")^#
              & T("END"))),
    procedure_param_default_value |-> Procedure_param_default_valueContext ::=
        T("NULL_") | T("DEFAULT") | N("constant") | T("LOCAL_ID"),
    procedure_param |-> Procedure_paramContext ::=
        T("LOCAL_ID") & T("AS")^# & (Id("type_schema") & T("."))^# & N("data_type")
        & T("VARYING")^# & (T("=") & L("default_val", N("procedure_param_default_value")))^#
        & OneOf({"OUT", "OUTPUT", "READONLY"})^#,
    procedure_option |-> Procedure_optionContext ::=
        T("ENCRYPTION") | T("RECOMPILE") | N("execute_clause"),
    function_option |-> Function_optionContext ::=
        T("ENCRYPTION") | T("SCHEMABINDING") | T("RETURNS NULL_ ON NULL_ INPUT")
        | T("CALLED ON NULL_ INPUT") | N("execute_clause")]

Create_statisticsContext ==
    Plain({"id_", "table_name", "column_name_list", "DECIMAL", "on_off"}, {})
Update_statisticsContext == Plain({"full_table_name", "update_statistics_options"}, {"id_"})
Update_statistics_optionsContext == Plain({}, {"update_statistics_option"})
Update_statistics_optionContext ==
    Named({"on_off", "DECIMAL", "on_partitions", "expression"}, {},
          Of("Token", {"number", "max_dregree_of_parallelism"})
          @@ Of("expression", {"stats_stream_"}))
Create_tableContext ==
    Plain({"table_name", "column_def_table_constraints", "simple_id",
           "on_partition_or_filegroup"}, {"table_indices", "table_options", "id_"})
Table_indicesContext ==
    Plain({"column_name_list_with_order", "clustered", "column_name_list",
           "create_table_index_options"}, {"id_"})
Table_optionsContext == Plain({}, {"table_option"})
Table_optionContext ==
    Plain({"on_off", "DECIMAL", "on_partitions"}, {"simple_id", "keyword", "id_"})
Create_table_index_optionsContext == Plain({}, {"create_table_index_option"})
Create_table_index_optionContext == Plain({"on_off", "DECIMAL", "on_partitions"}, {})
Create_viewContext ==
    Plain({"simple_name", "select_statement_standalone", "column_name_list"},
          {"view_attribute"})
Alter_tableContext ==
    Named({"column_def_table_constraints", "table_options", "switch_partition",
           "column_definition", "column_modifier", "search_condition"},
          {"table_name", "id_", "column_name_list", "on_delete", "on_update"},
          Of("id_", {"constraint"}) @@ Of("column_name_list", {"fk", "pk"}))
Switch_partitionContext ==
    Named({"table_name", "low_priority_lock_wait"}, {"expression"},
          Of("expression", {"source_partition_number_expression",
                            "target_partition_number_expression"})
          @@ Of("table_name", {"target_table"}))
Low_priority_lock_waitContext ==
    Named({"time"}, {}, Of("time", {"max_duration"}) @@ Of("Token", {"abort_after_wait"}))

TableRules == [
    create_statistics |-> Create_statisticsContext ::=
        T("CREATE STATISTICS") & N("id_") & T("ON") & N("table_name") & T("(")
        & N("column_name_list") & T(")")
        & (T("WITH")
           & (T("FULLSCAN")
              | (T("SAMPLE") & T("DECIMAL") & OneOf({"PERCENT", "ROWS"})) | T("STATS_STREAM"))
           & T(", NORECOMPUTE")^# & (T(", INCREMENTAL =") & N("on_off"))^#)^#
        & T(";")^#,
    update_statistics |-> Update_statisticsContext ::=
        T("UPDATE STATISTICS") & N("full_table_name")
        & (N("id_") | (T("(") & List(N("id_")) & T(")")))^# & N("update_statistics_options")^#,
    update_statistics_options |-> Update_statistics_optionsContext ::=
        T("WITH") & List(N("update_statistics_option")),
    update_statistics_option |-> Update_statistics_optionContext ::=
        (T("FULLSCAN") & (T(",")^# & T("PERSIST_SAMPLE_PERCENT =") & N("on_off"))^#)
        | (T("SAMPLE") & Num("number") & OneOf({"PERCENT", "ROWS"})
           & (T(",")^# & T("PERSIST_SAMPLE_PERCENT =") & N("on_off"))^#)
        | (T("RESAMPLE") & N("on_partitions")^#)
        | (T("STATS_STREAM =") & Expr("stats_stream_"))
        | (T("ROWCOUNT =") & T("DECIMAL"))
        | (T("PAGECOUNT =") & T("DECIMAL")) | T("ALL") | T("COLUMNS") | T("INDEX")
        | T("NORECOMPUTE")
        | (T("INCREMENTAL =") & N("on_off"))
        | (T("MAXDOP =") & Num("max_dregree_of_parallelism"))
        | (T("AUTO_DROP =") & N("on_off")),
    create_table |-> Create_tableContext ::=
        T("CREATE TABLE") & N("table_name") & T("(") & N("column_def_table_constraints")
        & (T(",")^# & N("table_indices"))^* & T(",")^# & T(")") & (T("LOCK") & N("simple_id"))^#
        & N("table_options")^*
        & ((T("ON") & N("id_")) | T("DEFAULT") | N("on_partition_or_filegroup"))^#
        & ((T("TEXTIMAGE_ON") & N("id_")) | T("DEFAULT"))^# & T(";")^#,
    table_indices |-> Table_indicesContext ::=
        (T("INDEX") & N("id_") & T("UNIQUE")^# & N("clustered")^# & T("(")
         & N("column_name_list_with_order") & T(")"))
        | (T("INDEX") & N("id_") & T("CLUSTERED COLUMNSTORE"))
        | (T("INDEX") & N("id_") & T("NONCLUSTERED")^# & T("COLUMNSTORE (")
           & N("column_name_list") & T(")") & N("create_table_index_options")^#
           & (T("ON") & N("id_"))^#),
    table_options |-> Table_optionsContext ::=
        T("WITH") & ((T("(") & List(N("table_option")) & T(")")) | List(N("table_option"))),
    table_option |-> Table_optionContext ::=
        ((N("simple_id") | N("keyword")) & T("=")
         & (N("simple_id") | N("keyword") | N("on_off") | T("DECIMAL")))
        | T("CLUSTERED COLUMNSTORE INDEX") | T("HEAP")
        | (T("FILLFACTOR =") & T("DECIMAL"))
        | (T("DISTRIBUTION = HASH (") & N("id_") & T(")"))
        | (T("CLUSTERED INDEX (") & N("id_") & OneOf({"ASC", "DESC"})^#
           & (T(",") & N("id_") & OneOf({"ASC", "DESC"})^#)^* & T(")"))
        | (T("DATA_COMPRESSION =") & OneOf({"NONE", "ROW", "PAGE"}) & N("on_partitions")^#)
        | (T("XML_COMPRESSION =") & N("on_off") & N("on_partitions")^#),
    create_table_index_options |-> Create_table_index_optionsContext ::=
        T("WITH (") & List(N("create_table_index_option")) & T(")"),
    create_table_index_option |-> Create_table_index_optionContext ::=
        (T("PAD_INDEX =") & N("on_off"))
        | (T("FILLFACTOR =") & T("DECIMAL"))
        | (T("IGNORE_DUP_KEY =") & N("on_off"))
        | (T("STATISTICS_NORECOMPUTE =") & N("on_off"))
        | (T("STATISTICS_INCREMENTAL =") & N("on_off"))
        | (T("ALLOW_ROW_LOCKS =") & N("on_off"))
        | (T("ALLOW_PAGE_LOCKS =") & N("on_off"))
        | (T("OPTIMIZE_FOR_SEQUENTIAL_KEY =") & N("on_off"))
        | (T("DATA_COMPRESSION =")
           & OneOf({"NONE", "ROW", "PAGE", "COLUMNSTORE", "COLUMNSTORE_ARCHIVE"})
           & N("on_partitions")^#)
        | (T("XML_COMPRESSION =") & N("on_off") & N("on_partitions")^#),
    create_view |-> Create_viewContext ::=
        ((T("CREATE") & (T("OR") & OneOf({"ALTER", "REPLACE"}))^#) | T("ALTER")) & T("VIEW")
        & N("simple_name") & (T("(") & N("column_name_list") & T(")"))^#
        & (T("WITH") & List(N("view_attribute")))^# & T("AS") & N("select_statement_standalone")
        & T("WITH CHECK OPTION")^# & T(";")^#,
    alter_table |-> Alter_tableContext ::=
        T("ALTER TABLE") & N("table_name")
        & ((T("SET ( LOCK_ESCALATION =") & OneOf({"AUTO", "TABLE", "DISABLE"}) & T(")"))
           | (T("ADD") & N("column_def_table_constraints"))
           | (T("ALTER COLUMN") & (N("column_definition") | N("column_modifier")))
           | (T("DROP COLUMN") & List(N("id_")))
           | (T("DROP CONSTRAINT") & Id("constraint"))
           | (T("WITH") & OneOf({"CHECK", "NOCHECK"}) & T("ADD")
              & (T("CONSTRAINT") & Id("constraint"))^#
              & ((T("FOREIGN KEY (") & L("fk", N("column_name_list")) & T(") REFERENCES")
                  & N("table_name") & (T("(") & L("pk", N("column_name_list")) & T(")"))^#
                  & (N("on_delete") | N("on_update"))^*)
                 | (T("CHECK (") & N("search_condition") & T(")"))))
           | (OneOf({"NOCHECK", "CHECK"}) & T("CONSTRAINT") & Id("constraint"))
           | (OneOf({"ENABLE", "DISABLE"}) & T("TRIGGER") & N("id_")^#)
           | (T("REBUILD") & N("table_options"))
           | (T("SWITCH") & N("switch_partition")))
        & T(";")^#,
    switch_partition |-> Switch_partitionContext ::=
        (T("PARTITION")^# & Expr("source_partition_number_expression"))^# & T("TO")
        & L("target_table", N("table_name"))
        & (T("PARTITION") & Expr("target_partition_number_expression"))^#
        & (T("WITH") & N("low_priority_lock_wait"))^#,
    low_priority_lock_wait |-> Low_priority_lock_waitContext ::=
        T("WAIT_AT_LOW_PRIORITY ( MAX_DURATION =") & L("max_duration", N("time"))
        & T("MINUTES")^# & T(", ABORT_AFTER_WAIT =")
        & L("abort_after_wait", OneOf({"NONE", "SELF", "BLOCKERS"})) & T(")")]

Alter_databaseContext ==
    Named({"database_optionspec", "add_or_modify_files", "add_or_modify_filegroups",
           "termination"}, {"id_"}, Of("id_", {"database", "new_name", "collation"}))
Add_or_modify_filesContext ==
    Named({"id_"}, {"filespec"}, Of("id_", {"filegroup_name", "logical_file_name"}))
FilespecContext ==
    Named({"STRING"}, {"id_or_string", "file_size"},
          Of("id_or_string", {"name", "new_name"}) @@ Of("Token", {"file_name"})
          @@ Of("file_size", {"size", "max_size", "growth_increment"}))
Add_or_modify_filegroupsContext ==
    Named({"filegroup_updatability_option"}, {"id_"},
          Of("id_", {"filegroup_name", "filegrou_name", "new_filegroup_name"}))
Database_optionspecContext ==
    Plain({"auto_option", "change_tracking_option", "containment_option", "cursor_option",
           "database_mirroring_option", "date_correlation_optimization_option",
           "db_encryption_option", "db_state_option", "db_update_option",
           "db_user_access_option", "delayed_durability_option", "external_access_option",
           "database_filestream_option", "hadr_options", "mixed_page_allocation_option",
           "parameterization_option", "recovery_option", "service_broker_option",
           "snapshot_option", "sql_option", "target_recovery_time_option", "termination"}, {})
Auto_optionContext == Plain({"on_off"}, {})
Change_tracking_optionContext == Plain({}, {"change_tracking_option_list"})
Change_tracking_option_listContext == Plain({"on_off", "DECIMAL"}, {})
Cursor_optionContext == Plain({"on_off"}, {})
Alter_endpointContext ==
    Named({"endpoint_listener_clause", "endpoint_authentication_clause",
           "endpoint_encryption_alogorithm_clause", "DECIMAL"}, {"id_"},
          Of("id_", {"endpointname", "login"}) @@ Of("Token", {"state"}))
Database_mirroring_optionContext == Plain({"mirroring_set_option"}, {})
Mirroring_set_optionContext ==
    Plain({"mirroring_partner", "partner_option", "mirroring_witness", "witness_option"}, {})
Partner_optionContext == Plain({"witness_partner_equal", "partner_server", "DECIMAL"}, {})
Witness_optionContext == Plain({"witness_partner_equal", "witness_server"}, {})
Witness_serverContext == Plain({"partner_server"}, {})
Partner_serverContext ==
    Plain({"partner_server_tcp_prefix", "host", "mirroring_host_port_seperator", "port_number"},
          {})
Port_numberContext == Named({"DECIMAL"}, {}, Of("Token", {"port"}))
HostContext == Plain({"id_", "host"}, {})
Date_correlation_optimization_optionContext == Plain({"on_off"}, {})
Db_encryption_optionContext == Plain({"on_off"}, {})
External_access_optionContext == Plain({"on_off", "id_", "STRING", "DECIMAL"}, {})
Hadr_optionsContext == Named({"id_"}, {}, Of("id_", {"availability_group_name"}))
Recovery_optionContext == Plain({"on_off"}, {})
Service_broker_optionContext == Plain({"on_off"}, {})
Snapshot_optionContext ==
    Named({"on_off"}, {}, Of("Token", {"MEMORY_OPTIMIZED_ELEVATE_TO_SNAPSHOT"}))
Sql_optionContext == Plain({"on_off", "DECIMAL"}, {})
Target_recovery_time_optionContext == Plain({"DECIMAL"}, {})
TerminationContext == Named({"DECIMAL"}, {}, Of("Token", {"seconds"}))

DatabaseRules == [
    alter_database |-> Alter_databaseContext ::=
        T("ALTER DATABASE") & (Id("database") | T("CURRENT"))
        & ((T("MODIFY NAME =") & Id("new_name"))
           | (T("COLLATE") & Id("collation"))
           | (T("SET") & N("database_optionspec") & (T("WITH") & N("termination"))^#)
           | N("add_or_modify_files") | N("add_or_modify_filegroups"))
        & T(";")^#,
    add_or_modify_files |-> Add_or_modify_filesContext ::=
        (T("ADD FILE") & List(N("filespec")) & (T("TO FILEGROUP") & Id("filegroup_name"))^#)
        | (T("ADD LOG FILE") & List(N("filespec")))
        | (T("REMOVE FILE") & Id("logical_file_name"))
        | (T("MODIFY FILE") & N("filespec")),
    filespec |-> FilespecContext ::=
        T("( NAME =") & L("name", N("id_or_string"))
        & (T(", NEWNAME =") & L("new_name", N("id_or_string")))^#
        & (T(", FILENAME =") & Str("file_name"))^#
        & (T(", SIZE =") & L("size", N("file_size")))^#
        & ((T(", MAXSIZE =") & L("max_size", N("file_size"))) | T("UNLIMITED"))^#
        & (T(", FILEGROWTH =") & L("growth_increment", N("file_size")))^# & T(", OFFLINE")^#
        & T(")"),
    add_or_modify_filegroups |-> Add_or_modify_filegroupsContext ::=
        (T("ADD FILEGROUP") & Id("filegroup_name")
         & OneOf({"CONTAINS FILESTREAM", "CONTAINS MEMORY_OPTIMIZED_DATA"})^#)
        | (T("REMOVE FILEGROUP") & Id("filegrou_name"))
        | (T("MODIFY FILEGROUP") & Id("filegrou_name")
           & (N("filegroup_updatability_option") | T("DEFAULT")
              | (T("NAME =") & Id("new_filegroup_name")) | T("AUTOGROW_SINGLE_FILE")
              | T("AUTOGROW_ALL_FILES"))),
    database_optionspec |-> Database_optionspecContext ::=
        N("auto_option") | N("change_tracking_option") | N("containment_option")
        | N("cursor_option") | N("database_mirroring_option")
        | N("date_correlation_optimization_option") | N("db_encryption_option")
        | N("db_state_option") | N("db_update_option") | N("db_user_access_option")
        | N("delayed_durability_option") | N("external_access_option")
        | (T("FILESTREAM") & N("database_filestream_option")) | N("hadr_options")
        | N("mixed_page_allocation_option") | N("parameterization_option")
        | N("recovery_option") | N("service_broker_option") | N("snapshot_option")
        | N("sql_option") | N("target_recovery_time_option") | N("termination"),
    auto_option |-> Auto_optionContext ::=
        (T("AUTO_CLOSE") & N("on_off")) | T("AUTO_CREATE_STATISTICS OFF")
        | (T("ON") & OneOf({"INCREMENTAL = ON", "OFF"}))
        | (T("AUTO_SHRINK") & N("on_off"))
        | (T("AUTO_UPDATE_STATISTICS") & N("on_off"))
        | (T("AUTO_UPDATE_STATISTICS_ASYNC") & OneOf({"ON", "OFF"})),
    change_tracking_option |-> Change_tracking_optionContext ::=
        T("CHANGE_TRACKING =")
        & (T("OFF") | (T("ON (") & List(N("change_tracking_option_list"))^* & T(")"))),
    change_tracking_option_list |-> Change_tracking_option_listContext ::=
        (T("AUTO_CLEANUP =") & N("on_off"))
        | (T("CHANGE_RETENTION =") & T("DECIMAL") & OneOf({"DAYS", "HOURS", "MINUTES"})),
    cursor_option |-> Cursor_optionContext ::=
        (T("CURSOR_CLOSE_ON_COMMIT") & N("on_off"))
        | (T("CURSOR_DEFAULT") & OneOf({"LOCAL", "GLOBAL"})),
    alter_endpoint |-> Alter_endpointContext ::=
        T("ALTER ENDPOINT") & Id("endpointname") & (T("AUTHORIZATION") & Id("login"))^#
        & (T("STATE =") & L("state", OneOf({"STARTED", "STOPPED", "DISABLED"})))^#
        & T("AS TCP (") & N("endpoint_listener_clause") & T(")")
        & (T("FOR TSQL ( )")
           | (T("FOR SERVICE_BROKER (") & N("endpoint_authentication_clause")
              & (T(",")^# & N("endpoint_encryption_alogorithm_clause"))^#
              & (T(",")^# & T("MESSAGE_FORWARDING =") & OneOf({"ENABLED", "DISABLED"}))^#
              & (T(",")^# & T("MESSAGE_FORWARD_SIZE =") & T("DECIMAL"))^# & T(")"))
           | (T("FOR DATABASE_MIRRORING (") & N("endpoint_authentication_clause")
              & (T(",")^# & N("endpoint_encryption_alogorithm_clause"))^# & T(",")^#
              & T("ROLE =") & OneOf({"WITNESS", "PARTNER", "ALL"}) & T(")"))),
    database_mirroring_option |-> Database_mirroring_optionContext ::=
        N("mirroring_set_option"),
    mirroring_set_option |-> Mirroring_set_optionContext ::=
        (N("mirroring_partner") & N("partner_option"))
        | (N("mirroring_witness") & N("witness_option")),
    partner_option |-> Partner_optionContext ::=
        (N("witness_partner_equal") & N("partner_server")) | T("FAILOVER")
        | T("FORCE_SERVICE_ALLOW_DATA_LOSS") | T("OFF") | T("RESUME")
        | (T("SAFETY") & OneOf({"FULL", "OFF"})) | T("SUSPEND")
        | (T("TIMEOUT") & T("DECIMAL")),
    witness_option |-> Witness_optionContext ::=
        (N("witness_partner_equal") & N("witness_server")) | T("OFF"),
    witness_server |-> Witness_serverContext ::= N("partner_server"),
    partner_server |-> Partner_serverContext ::=
        N("partner_server_tcp_prefix") & N("host") & N("mirroring_host_port_seperator")
        & N("port_number"),
    port_number |-> Port_numberContext ::= Num("port"),
    host |-> HostContext ::= (N("id_") & T(".") & N("host")) | ((N("id_") & T(".")) | N("id_")),
    date_correlation_optimization_option |-> Date_correlation_optimization_optionContext ::=
        T("DATE_CORRELATION_OPTIMIZATION") & N("on_off"),
    db_encryption_option |-> Db_encryption_optionContext ::= T("ENCRYPTION") & N("on_off"),
    external_access_option |-> External_access_optionContext ::=
        (T("DB_CHAINING") & N("on_off"))
        | (T("TRUSTWORTHY") & N("on_off"))
        | (T("DEFAULT_LANGUAGE =") & (N("id_") | T("STRING")))
        | (T("DEFAULT_FULLTEXT_LANGUAGE =") & (N("id_") | T("STRING")))
        | (T("NESTED_TRIGGERS =") & OneOf({"OFF", "ON"}))
        | (T("TRANSFORM_NOISE_WORDS =") & OneOf({"OFF", "ON"}))
        | (T("TWO_DIGIT_YEAR_CUTOFF =") & T("DECIMAL")),
    hadr_options |-> Hadr_optionsContext ::=
        T("HADR")
        & (((T("AVAILABILITY GROUP =") & Id("availability_group_name")) | T("OFF"))
           | OneOf({"SUSPEND", "RESUME"})),
    recovery_option |-> Recovery_optionContext ::=
        (T("RECOVERY") & OneOf({"FULL", "BULK_LOGGED", "SIMPLE"}))
        | (T("TORN_PAGE_DETECTION") & N("on_off"))
        | (T("ACCELERATED_DATABASE_RECOVERY =") & N("on_off"))
        | (T("PAGE_VERIFY") & OneOf({"CHECKSUM", "TORN_PAGE_DETECTION", "NONE"})),
    service_broker_option |-> Service_broker_optionContext ::=
        T("ENABLE_BROKER") | T("DISABLE_BROKER") | T("NEW_BROKER")
        | T("ERROR_BROKER_CONVERSATIONS")
        | (T("HONOR_BROKER_PRIORITY") & N("on_off")),
    snapshot_option |-> Snapshot_optionContext ::=
        (T("ALLOW_SNAPSHOT_ISOLATION") & N("on_off"))
        | (T("READ_COMMITTED_SNAPSHOT") & OneOf({"ON", "OFF"}))
        | L("MEMORY_OPTIMIZED_ELEVATE_TO_SNAPSHOT", OneOf({"ON", "OFF"})),
    sql_option |-> Sql_optionContext ::=
        (T("ANSI_NULL_DEFAULT") & N("on_off"))
        | (T("ANSI_NULLS") & N("on_off"))
        | (T("ANSI_PADDING") & N("on_off"))
        | (T("ANSI_WARNINGS") & N("on_off"))
        | (T("ARITHABORT") & N("on_off"))
        | (T("COMPATIBILITY_LEVEL =") & T("DECIMAL"))
        | (T("CONCAT_NULL_YIELDS_NULL") & N("on_off"))
        | (T("NUMERIC_ROUNDABORT") & N("on_off"))
        | (T("QUOTED_IDENTIFIER") & N("on_off"))
        | (T("RECURSIVE_TRIGGERS") & N("on_off")),
    target_recovery_time_option |-> Target_recovery_time_optionContext ::=
        T("TARGET_RECOVERY_TIME =") & T("DECIMAL") & OneOf({"SECONDS", "MINUTES"}),
    termination |-> TerminationContext ::=
        (T("ROLLBACK AFTER") & Num("seconds")) | T("ROLLBACK IMMEDIATE") | T("NO_WAIT")]

Drop_indexContext ==
    Plain({}, {"drop_relational_or_xml_or_spatial_index", "drop_backward_compatible_index"})
Drop_relational_or_xml_or_spatial_indexContext ==
    Named({"full_table_name", "id_"}, {}, Of("id_", {"index_name"}))
Drop_backward_compatible_indexContext ==
    Named({}, {"id_"}, Of("id_", {"owner_name", "table_or_view_name", "index_name"}))
Drop_procedureContext == Named({}, {"func_proc_name_schema"}, Of("Token", {"proc"}))
Drop_triggerContext == Plain({"drop_dml_trigger", "drop_ddl_trigger"}, {})
Drop_dml_triggerContext == Plain({}, {"simple_name"})
Drop_ddl_triggerContext == Plain({}, {"simple_name"})
Drop_functionContext == Plain({}, {"func_proc_name_schema"})
Drop_statisticsContext == Named({}, {"id_", "table_name"}, Of("id_", {"name"}))
Drop_tableContext == Plain({}, {"table_name"})
Drop_viewContext == Plain({}, {"simple_name"})
Create_typeContext ==
    Named({"simple_name", "data_type", "column_def_table_constraints", "null_notnull"}, {},
          Of("simple_name", {"name"}))
Drop_typeContext == Named({"simple_name"}, {}, Of("simple_name", {"name"}))
Rowset_function_limitedContext == Plain({"openquery", "opendatasource"}, {})
OpenqueryContext ==
    Named({"id_", "STRING"}, {}, Of("id_", {"linked_server"}) @@ Of("Token", {"query"}))
OpendatasourceContext ==
    Named({}, {"STRING", "id_"},
          Of("Token", {"provider", "init"}) @@ Of("id_", {"database", "scheme", "table"}))

\* Mutant: the name of the table may be left out too.
drop_backward_compatible_index_OptionalTable ==
    (Id("owner_name") & T("."))^# & (Id("table_or_view_name") & T("."))^# & Id("index_name")

drop_backward_compatible_index ==
    (Id("owner_name") & T("."))^# & Id("table_or_view_name") & T(".") & Id("index_name")

DropTableRules == [
    drop_index |-> Drop_indexContext ::=
        T("DROP INDEX") & T("IF EXISTS")^#
        & (List(N("drop_relational_or_xml_or_spatial_index"))
           | List(N("drop_backward_compatible_index")))
        & T(";")^#,
    drop_relational_or_xml_or_spatial_index |-> Drop_relational_or_xml_or_spatial_indexContext ::=
        Id("index_name") & T("ON") & N("full_table_name"),
    drop_backward_compatible_index |-> Drop_backward_compatible_indexContext ::= drop_backward_compatible_index,
    drop_procedure |-> Drop_procedureContext ::=
        T("DROP") & L("proc", OneOf({"PROC", "PROCEDURE"})) & T("IF EXISTS")^#
        & List(N("func_proc_name_schema")) & T(";")^#,
    drop_trigger |-> Drop_triggerContext ::= N("drop_dml_trigger") | N("drop_ddl_trigger"),
    drop_dml_trigger |-> Drop_dml_triggerContext ::=
        T("DROP TRIGGER") & T("IF EXISTS")^# & List(N("simple_name")) & T(";")^#,
    drop_ddl_trigger |-> Drop_ddl_triggerContext ::=
        T("DROP TRIGGER") & T("IF EXISTS")^# & List(N("simple_name")) & T("ON")
        & OneOf({"DATABASE", "ALL SERVER"}) & T(";")^#,
    drop_function |-> Drop_functionContext ::=
        T("DROP FUNCTION") & T("IF EXISTS")^# & List(N("func_proc_name_schema")) & T(";")^#,
    drop_statistics |-> Drop_statisticsContext ::=
        T("DROP STATISTICS") & (T(",")^# & (N("table_name") & T("."))^# & Id("name"))^+ & T(";"),
    drop_table |-> Drop_tableContext ::=
        T("DROP TABLE") & T("IF EXISTS")^# & List(N("table_name")) & T(";")^#,
    drop_view |-> Drop_viewContext ::=
        T("DROP VIEW") & T("IF EXISTS")^# & List(N("simple_name")) & T(";")^#,
    create_type |-> Create_typeContext ::=
        T("CREATE TYPE") & L("name", N("simple_name"))
        & (T("FROM") & N("data_type") & N("null_notnull")^#)^#
        & (T("AS TABLE (") & N("column_def_table_constraints") & T(")"))^#,
    drop_type |-> Drop_typeContext ::=
        T("DROP TYPE") & T("IF EXISTS")^# & L("name", N("simple_name")),
    rowset_function_limited |-> Rowset_function_limitedContext ::=
        N("openquery") | N("opendatasource"),
    openquery |-> OpenqueryContext ::=
        T("OPENQUERY (") & Id("linked_server") & T(",") & Str("query") & T(")"),
    opendatasource |-> OpendatasourceContext ::=
        T("OPENDATASOURCE (") & Str("provider") & T(",") & Str("init") & T(") .")
        & Id("database")^# & T(".") & Id("scheme")^# & T(".") & Id("table")]
=============================================================================
