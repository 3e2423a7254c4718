---------------------------- MODULE ColumnSyntax ----------------------------
(***************************************************************************)
(* Column and table constraints, cursors and SET options. Rules in the     *)
(* order of TSqlParser.g4, each with its class of TSqlParser.h.            *)
(***************************************************************************)
EXTENDS RuleNotation

Execute_clauseContext == Named({"STRING"}, {}, Of("Token", {"clause"}))
Declare_localContext == Plain({"LOCAL_ID", "data_type", "expression"}, {})
Table_type_definitionContext == Plain({"column_def_table_constraints"}, {"table_type_indices"})
Table_type_indicesContext ==
    Plain({"column_name_list_with_order", "id_", "search_condition"}, {})
Xml_type_definitionContext == Plain({"xml_schema_collection"}, {})
Xml_schema_collectionContext == Plain({}, {"ID"})
Column_def_table_constraintsContext == Plain({}, {"column_def_table_constraint"})
Column_def_table_constraintContext ==
    Plain({"column_definition", "materialized_column_definition", "table_constraint"}, {})
Column_definitionContext ==
    Plain({"id_", "data_type", "expression", "column_index"}, {"column_definition_element"})
Column_definition_elementContext ==
    Named({"id_", "expression", "column_constraint"}, {"STRING", "DECIMAL"},
          Of("id_", {"collation_name", "constraint"})
          @@ Of("Token", {"mask_function", "seed", "increment", "key_name", "algo"})
          @@ Of("expression", {"constant_expr"}))
Column_modifierContext == Plain({"id_", "STRING"}, {})
Materialized_column_definitionContext == Plain({"id_", "expression"}, {})
Column_constraintContext ==
    Named({"null_notnull", "check_constraint", "id_", "primary_key_options",
           "foreign_key_options", "clustered"}, {}, Of("id_", {"constraint"}))
Column_indexContext ==
    Named({"clustered", "create_table_index_options", "on_partition_or_filegroup"}, {"id_"},
          Of("id_", {"index_name", "filestream_filegroup_or_partition_schema_name"}))
On_partition_or_filegroupContext ==
    Named({}, {"id_"},
          Of("id_", {"partition_scheme_name", "partition_column_name", "filegroup"}))
Table_constraintContext ==
    Named({"check_constraint", "column_name_list_with_order", "primary_key_options",
           "foreign_key_options", "column_name_list", "expression", "clustered"},
          {"id_", "connection_node"},
          Of("id_", {"constraint", "column"}) @@ Of("column_name_list", {"fk"})
          @@ Of("expression", {"constant_expr"}))
Connection_nodeContext == Named({}, {"id_"}, Of("id_", {"from_node_table", "to_node_table"}))
Primary_key_optionsContext ==
    Plain({"DECIMAL", "alter_table_index_options", "on_partition_or_filegroup"}, {})
Foreign_key_optionsContext ==
    Named({"table_name", "column_name_list"}, {"on_delete", "on_update"},
          Of("column_name_list", {"pk"}))
Check_constraintContext == Plain({"search_condition"}, {})

ColumnRules == [
    execute_clause |-> Execute_clauseContext ::=
        T("EXECUTE AS") & L("clause", OneOf({"CALLER", "SELF", "OWNER", "STRING"})),
    declare_local |-> Declare_localContext ::=
        T("LOCAL_ID") & T("AS")^# & N("data_type") & (T("=") & N("expression"))^#,
    table_type_definition |-> Table_type_definitionContext ::=
        T("TABLE (") & N("column_def_table_constraints")
        & (T(",")^# & N("table_type_indices"))^* & T(")"),
    table_type_indices |-> Table_type_indicesContext ::=
        ((((T("PRIMARY KEY") | (T("INDEX") & N("id_")))
           & OneOf({"CLUSTERED", "NONCLUSTERED"})^#)
          | T("UNIQUE"))
         & T("(") & N("column_name_list_with_order") & T(")"))
        | (T("CHECK (") & N("search_condition") & T(")")),
    xml_type_definition |-> Xml_type_definitionContext ::=
        T("XML (") & OneOf({"CONTENT", "DOCUMENT"})^# & N("xml_schema_collection") & T(")"),
    xml_schema_collection |-> Xml_schema_collectionContext ::= T("ID") & T(".") & T("ID"),
    column_def_table_constraints |-> Column_def_table_constraintsContext ::=
        N("column_def_table_constraint") & (T(",")^# & N("column_def_table_constraint"))^*,
    column_def_table_constraint |-> Column_def_table_constraintContext ::=
        N("column_definition") | N("materialized_column_definition") | N("table_constraint"),
    column_definition |-> Column_definitionContext ::=
        N("id_") & (N("data_type") | (T("AS") & N("expression") & T("PERSISTED")^#))
        & N("column_definition_element")^* & N("column_index")^#,
    column_definition_element |-> Column_definition_elementContext ::=
        T("FILESTREAM")
        | (T("COLLATE") & Id("collation_name")) | T("SPARSE")
        | (T("MASKED WITH ( FUNCTION =") & Str("mask_function") & T(")"))
        | ((T("CONSTRAINT") & Id("constraint"))^# & T("DEFAULT") & Expr("constant_expr"))
        | (T("IDENTITY") & (T("(") & Num("seed") & T(",") & Num("increment") & T(")"))^#)
        | T("NOT FOR REPLICATION")
        | (T("GENERATED ALWAYS AS") & OneOf({"ROW", "TRANSACTION_ID", "SEQUENCE_NUMBER"})
           & OneOf({"START", "END"}) & T("HIDDEN_KEYWORD")^#)
        | T("ROWGUIDCOL")
        | (T("ENCRYPTED WITH ( COLUMN_ENCRYPTION_KEY =") & Str("key_name")
           & T(", ENCRYPTION_TYPE =") & OneOf({"DETERMINISTIC", "RANDOMIZED"})
           & T(", ALGORITHM =") & Str("algo") & T(")"))
        | N("column_constraint"),
    column_modifier |-> Column_modifierContext ::=
        N("id_") & OneOf({"ADD", "DROP"})
        & (T("ROWGUIDCOL") | T("PERSISTED") | T("NOT FOR REPLICATION") | T("SPARSE")
           | T("HIDDEN_KEYWORD")
           | (T("MASKED")
              & (T("WITH")
                 & ((T("FUNCTION =") & T("STRING"))
                    | (T("( FUNCTION =") & T("STRING") & T(")"))))^#)),
    materialized_column_definition |-> Materialized_column_definitionContext ::=
        N("id_") & OneOf({"COMPUTE", "AS"}) & N("expression")
        & OneOf({"MATERIALIZED", "NOT MATERIALIZED"})^#,
    column_constraint |-> Column_constraintContext ::=
        (T("CONSTRAINT") & Id("constraint"))^#
        & (N("null_notnull")
           | (OneOf({"PRIMARY KEY", "UNIQUE"}) & N("clustered")^# & N("primary_key_options"))
           | (T("FOREIGN KEY")^# & N("foreign_key_options")) | N("check_constraint")),
    column_index |-> Column_indexContext ::=
        T("INDEX") & Id("index_name") & N("clustered")^# & N("create_table_index_options")^#
        & N("on_partition_or_filegroup")^#
        & (T("FILESTREAM_ON")
           & (Id("filestream_filegroup_or_partition_schema_name") | T("NULL_DOUBLE_QUOTE")))^#,
    on_partition_or_filegroup |-> On_partition_or_filegroupContext ::=
        T("ON")
        & ((Id("partition_scheme_name") & T("(") & Id("partition_column_name") & T(")"))
           | Id("filegroup") | T("DEFAULT_DOUBLE_QUOTE")),
    table_constraint |-> Table_constraintContext ::=
        (T("CONSTRAINT") & Id("constraint"))^#
        & ((OneOf({"PRIMARY KEY", "UNIQUE"}) & N("clustered")^# & T("(")
            & N("column_name_list_with_order") & T(")") & N("primary_key_options"))
           | (T("FOREIGN KEY (") & L("fk", N("column_name_list")) & T(")")
              & N("foreign_key_options"))
           | (T("CONNECTION (") & List(N("connection_node")) & T(")"))
           | (T("DEFAULT") & Expr("constant_expr") & T("FOR") & Id("column")
              & T("WITH VALUES")^#)
           | N("check_constraint")),
    connection_node |-> Connection_nodeContext ::=
        Id("from_node_table") & T("TO") & Id("to_node_table"),
    primary_key_options |-> Primary_key_optionsContext ::=
        (T("WITH FILLFACTOR =") & T("DECIMAL"))^# & N("alter_table_index_options")^#
        & N("on_partition_or_filegroup")^#,
    foreign_key_options |-> Foreign_key_optionsContext ::=
        T("REFERENCES") & N("table_name") & T("(") & L("pk", N("column_name_list")) & T(")")
        & (N("on_delete") | N("on_update"))^* & T("NOT FOR REPLICATION")^#,
    check_constraint |-> Check_constraintContext ::=
        T("CHECK") & T("NOT FOR REPLICATION")^# & T("(") & N("search_condition") & T(")")]

Alter_table_index_optionsContext == Plain({}, {"alter_table_index_option"})
Alter_table_index_optionContext ==
    Named({"on_off", "DECIMAL", "on_partitions", "low_priority_lock_wait"}, {"id_"},
          Of("Token", {"max_degree_of_parallelism", "times"}))
Declare_cursorContext ==
    Plain({"cursor_name", "select_statement_standalone", "declare_set_cursor_common",
           "column_name_list"}, {})
Declare_set_cursor_commonContext ==
    Plain({"select_statement_standalone"}, {"declare_set_cursor_common_partial"})
Fetch_cursorContext == Plain({"cursor_name", "expression"}, {"LOCAL_ID"})
Set_specialContext ==
    Plain({"constant_LOCAL_ID", "on_off", "LOCAL_ID", "DECIMAL", "table_name", "modify_method"},
          {"id_", "special_list"})
Constant_LOCAL_IDContext == Plain({"constant", "LOCAL_ID"}, {})

CursorRules == [
    alter_table_index_options |-> Alter_table_index_optionsContext ::=
        T("WITH (") & List(N("alter_table_index_option")) & T(")"),
    alter_table_index_option |-> Alter_table_index_optionContext ::=
        (T("PAD_INDEX =") & N("on_off"))
        | (T("FILLFACTOR =") & T("DECIMAL"))
        | (T("IGNORE_DUP_KEY =") & N("on_off"))
        | (T("STATISTICS_NORECOMPUTE =") & N("on_off"))
        | (T("ALLOW_ROW_LOCKS =") & N("on_off"))
        | (T("ALLOW_PAGE_LOCKS =") & N("on_off"))
        | (T("OPTIMIZE_FOR_SEQUENTIAL_KEY =") & N("on_off"))
        | (T("SORT_IN_TEMPDB =") & N("on_off"))
        | (T("MAXDOP =") & Num("max_degree_of_parallelism"))
        | (T("DATA_COMPRESSION =")
           & OneOf({"NONE", "ROW", "PAGE", "COLUMNSTORE", "COLUMNSTORE_ARCHIVE"})
           & N("on_partitions")^#)
        | (T("XML_COMPRESSION =") & N("on_off") & N("on_partitions")^#)
        | (T("DISTRIBUTION = HASH (") & N("id_") & T(")"))
        | (T("CLUSTERED INDEX (") & N("id_") & OneOf({"ASC", "DESC"})^#
           & (T(",") & N("id_") & OneOf({"ASC", "DESC"})^#)^* & T(")"))
        | (T("ONLINE =")
           & ((T("ON") & (T("(") & N("low_priority_lock_wait") & T(")"))^#) | T("OFF")))
        | (T("RESUMABLE =") & N("on_off"))
        | (T("MAX_DURATION =") & Num("times") & T("MINUTES")^#),
    declare_cursor |-> Declare_cursorContext ::=
        T("DECLARE") & N("cursor_name")
        & ((T("CURSOR")
            & (N("declare_set_cursor_common")
               & (T("FOR UPDATE") & (T("OF") & N("column_name_list"))^#)^#)^#)
           | (OneOf({"SEMI_SENSITIVE", "INSENSITIVE"})^# & T("SCROLL")^# & T("CURSOR FOR")
              & N("select_statement_standalone")
              & (T("FOR")
                 & (T("READ ONLY") | T("UPDATE") | (T("OF") & N("column_name_list"))))^#))
        & T(";")^#,
    declare_set_cursor_common |-> Declare_set_cursor_commonContext ::=
        N("declare_set_cursor_common_partial")^* & T("FOR") & N("select_statement_standalone"),
    fetch_cursor |-> Fetch_cursorContext ::=
        T("FETCH")
        & ((T("NEXT") | T("PRIOR") | T("FIRST") | T("LAST")
            | (OneOf({"ABSOLUTE", "RELATIVE"}) & N("expression")))^#
           & T("FROM"))^#
        & T("GLOBAL")^# & N("cursor_name") & (T("INTO") & List(T("LOCAL_ID")))^# & T(";")^#,
    set_special |-> Set_specialContext ::=
        (T("SET") & N("id_") & (N("id_") | N("constant_LOCAL_ID") | N("on_off")) & T(";")^#)
        | (T("SET STATISTICS") & OneOf({"IO", "TIME", "XML", "PROFILE"}) & N("on_off")
           & T(";")^#)
        | (T("SET ROWCOUNT") & OneOf({"LOCAL_ID", "DECIMAL"}) & T(";")^#)
        | (T("SET TEXTSIZE") & T("DECIMAL") & T(";")^#)
        | (T("SET TRANSACTION ISOLATION LEVEL")
           & OneOf({"READ UNCOMMITTED", "READ COMMITTED", "REPEATABLE READ", "SNAPSHOT",
                    "SERIALIZABLE", "DECIMAL"})
           & T(";")^#)
        | (T("SET IDENTITY_INSERT") & N("table_name") & N("on_off") & T(";")^#)
        | (T("SET") & List(N("special_list")) & N("on_off"))
        | (T("SET") & N("modify_method")),
    constant_LOCAL_ID |-> Constant_LOCAL_IDContext ::= N("constant") | T("LOCAL_ID")]
=============================================================================
