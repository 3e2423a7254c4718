----------------------------- MODULE NameSyntax -----------------------------
(***************************************************************************)
(* Hints, windows, file specifications, names, conversations, types and    *)
(* constants. Rules in the order of TSqlParser.g4, each with its class of  *)
(* TSqlParser.h. Of the keywords, ABORT stands for all but GO.             *)
(***************************************************************************)
EXTENDS RuleNotation

Switch_sectionContext == Plain({}, {"expression"})
Switch_search_condition_sectionContext == Plain({"search_condition", "expression"}, {})
As_column_aliasContext == Plain({"column_alias"}, {})
As_table_aliasContext == Plain({"table_alias"}, {})
Table_aliasContext == Plain({"id_"}, {})
With_table_hintsContext == Class({}, {"table_hint"}, <<>>, Of("table_hint", {"hint"}))
Deprecated_table_hintContext == Plain({"table_hint"}, {})
Sybase_legacy_hintsContext == Plain({}, {"sybase_legacy_hint"})
Table_hintContext == Plain({"column_name_list", "DECIMAL"}, {"index_value"})
Index_valueContext == Plain({"id_", "DECIMAL"}, {})

HintRules == [
    switch_section |-> Switch_sectionContext ::=
        T("WHEN") & N("expression") & T("THEN") & N("expression"),
    switch_search_condition_section |-> Switch_search_condition_sectionContext ::=
        T("WHEN") & N("search_condition") & T("THEN") & N("expression"),
    as_column_alias |-> As_column_aliasContext ::= T("AS")^# & N("column_alias"),
    as_table_alias |-> As_table_aliasContext ::= T("AS")^# & N("table_alias"),
    table_alias |-> Table_aliasContext ::= N("id_"),
    with_table_hints |-> With_table_hintsContext ::=
        T("WITH (") & V("hint", N("table_hint")) & (T(",")^# & V("hint", N("table_hint")))^*
        & T(")"),
    deprecated_table_hint |-> Deprecated_table_hintContext ::=
        T("(") & N("table_hint") & T(")"),
    sybase_legacy_hints |-> Sybase_legacy_hintsContext ::= N("sybase_legacy_hint")^+,
    table_hint |-> Table_hintContext ::=
        T("NOEXPAND")
        | (T("INDEX")
           & ((T("(") & List(N("index_value")) & T(")"))
              | (T("= (") & N("index_value") & T(")"))
              | (T("=") & N("index_value"))))
        | (T("FORCESEEK")
           & (T("(") & N("index_value") & T("(") & N("column_name_list") & T(") )"))^#)
        | T("FORCESCAN") | T("HOLDLOCK") | T("NOLOCK") | T("NOWAIT") | T("PAGLOCK")
        | T("READCOMMITTED") | T("READCOMMITTEDLOCK") | T("READPAST") | T("READUNCOMMITTED")
        | T("REPEATABLEREAD") | T("ROWLOCK") | T("SERIALIZABLE") | T("SNAPSHOT")
        | (T("SPATIAL_WINDOW_MAX_CELLS =") & T("DECIMAL")) | T("TABLOCK") | T("TABLOCKX")
        | T("UPDLOCK") | T("XLOCK") | T("KEEPIDENTITY") | T("KEEPDEFAULTS")
        | T("IGNORE_CONSTRAINTS") | T("IGNORE_TRIGGERS"),
    index_value |-> Index_valueContext ::= N("id_") | T("DECIMAL")]

Column_alias_listContext == Class({}, {"column_alias"}, <<>>, Of("column_alias", {"alias"}))
Column_aliasContext == Plain({"id_", "STRING"}, {})
Table_value_constructorContext ==
    Class({}, {"expression_list_"}, <<>>, Of("expression_list_", {"exps"}))
Expression_list_Context == Class({}, {"expression"}, <<>>, Of("expression", {"exp"}))
Ranking_windowed_functionContext == Plain({"over_clause", "expression"}, {})
Aggregate_windowed_functionContext ==
    Named({"all_distinct_expression", "over_clause", "expression", "expression_list_"}, {},
          Of("Token", {"agg_func", "cnt"}))
Analytic_windowed_functionContext ==
    Plain({"over_clause", "order_by_clause", "expression_list_"}, {"expression"})
All_distinct_expressionContext == Plain({"expression"}, {})
Over_clauseContext == Plain({"expression_list_", "order_by_clause", "row_or_range_clause"}, {})
Row_or_range_clauseContext == Plain({"window_frame_extent"}, {})
Window_frame_extentContext == Plain({"window_frame_preceding"}, {"window_frame_bound"})
Window_frame_boundContext == Plain({"window_frame_preceding", "window_frame_following"}, {})
Window_frame_precedingContext == Plain({"DECIMAL"}, {})
Window_frame_followingContext == Plain({"DECIMAL"}, {})

expression_list_ == List(V("exp", N("expression")))

WindowRules == [
    column_alias_list |-> Column_alias_listContext ::=
        T("(") & List(V("alias", N("column_alias"))) & T(")"),
    column_alias |-> Column_aliasContext ::= N("id_") | T("STRING"),
    table_value_constructor |-> Table_value_constructorContext ::=
        T("VALUES (") & V("exps", N("expression_list_")) & T(")")
        & (T(", (") & V("exps", N("expression_list_")) & T(")"))^*,
    expression_list_ |-> Expression_list_Context ::= expression_list_,
    ranking_windowed_function |-> Ranking_windowed_functionContext ::=
        (OneOf({"RANK", "DENSE_RANK", "ROW_NUMBER"}) & T("( )") & N("over_clause"))
        | (T("NTILE (") & N("expression") & T(")") & N("over_clause")),
    aggregate_windowed_function |-> Aggregate_windowed_functionContext ::=
        (L("agg_func", OneOf({"AVG", "MAX", "MIN", "SUM", "STDEV", "STDEVP", "VAR", "VARP"}))
         & T("(") & N("all_distinct_expression") & T(")") & N("over_clause")^#)
        | (L("cnt", OneOf({"COUNT", "COUNT_BIG"})) & T("(")
           & (T("*") | N("all_distinct_expression")) & T(")") & N("over_clause")^#)
        | (T("CHECKSUM_AGG (") & N("all_distinct_expression") & T(")"))
        | (T("GROUPING (") & N("expression") & T(")"))
        | (T("GROUPING_ID (") & N("expression_list_") & T(")")),
    analytic_windowed_function |-> Analytic_windowed_functionContext ::=
        (OneOf({"FIRST_VALUE", "LAST_VALUE"}) & T("(") & N("expression") & T(")")
         & N("over_clause"))
        | (OneOf({"LAG", "LEAD"}) & T("(") & N("expression")
           & (T(",") & N("expression") & (T(",") & N("expression"))^#)^# & T(")")
           & N("over_clause"))
        | (OneOf({"CUME_DIST", "PERCENT_RANK"}) & T("( ) OVER (")
           & (T("PARTITION BY") & N("expression_list_"))^# & N("order_by_clause") & T(")"))
        | (OneOf({"PERCENTILE_CONT", "PERCENTILE_DISC"}) & T("(") & N("expression")
           & T(") WITHIN GROUP (") & N("order_by_clause") & T(") OVER (")
           & (T("PARTITION BY") & N("expression_list_"))^# & T(")")),
    all_distinct_expression |-> All_distinct_expressionContext ::=
        OneOf({"ALL", "DISTINCT"})^# & N("expression"),
    over_clause |-> Over_clauseContext ::=
        T("OVER (") & (T("PARTITION BY") & N("expression_list_"))^# & N("order_by_clause")^#
        & N("row_or_range_clause")^# & T(")"),
    row_or_range_clause |-> Row_or_range_clauseContext ::=
        OneOf({"ROWS", "RANGE"}) & N("window_frame_extent"),
    window_frame_extent |-> Window_frame_extentContext ::=
        N("window_frame_preceding")
        | (T("BETWEEN") & N("window_frame_bound") & T("AND") & N("window_frame_bound")),
    window_frame_bound |-> Window_frame_boundContext ::=
        N("window_frame_preceding") | N("window_frame_following"),
    window_frame_preceding |-> Window_frame_precedingContext ::=
        T("UNBOUNDED PRECEDING") | (T("DECIMAL") & T("PRECEDING")) | T("CURRENT ROW"),
    window_frame_following |-> Window_frame_followingContext ::=
        T("UNBOUNDED FOLLOWING") | (T("DECIMAL") & T("FOLLOWING"))]

Create_database_optionContext ==
    Plain({"id_", "STRING", "DECIMAL"}, {"database_filestream_option"})
Database_filestream_optionContext == Plain({"STRING"}, {})
Database_file_specContext == Plain({"file_group", "file_spec"}, {})
File_groupContext == Plain({"id_"}, {"file_spec"})
File_specContext == Named({"id_"}, {"STRING", "file_size"}, Of("Token", {"file"}))

FileSpecRules == [
    create_database_option |-> Create_database_optionContext ::=
        (T("FILESTREAM") & List(N("database_filestream_option")))
        | (T("DEFAULT_LANGUAGE =") & (N("id_") | T("STRING")))
        | (T("DEFAULT_FULLTEXT_LANGUAGE =") & (N("id_") | T("STRING")))
        | (T("NESTED_TRIGGERS =") & OneOf({"OFF", "ON"}))
        | (T("TRANSFORM_NOISE_WORDS =") & OneOf({"OFF", "ON"}))
        | (T("TWO_DIGIT_YEAR_CUTOFF =") & T("DECIMAL"))
        | (T("DB_CHAINING") & OneOf({"OFF", "ON"}))
        | (T("TRUSTWORTHY") & OneOf({"OFF", "ON"})),
    database_filestream_option |-> Database_filestream_optionContext ::=
        T("(")
        & ((T("NON_TRANSACTED_ACCESS =") & OneOf({"OFF", "READ_ONLY", "FULL"}))
           | (T("DIRECTORY_NAME =") & T("STRING")))
        & T(")"),
    database_file_spec |-> Database_file_specContext ::= N("file_group") | N("file_spec"),
    file_group |-> File_groupContext ::=
        T("FILEGROUP") & N("id_") & T("CONTAINS FILESTREAM")^# & T("DEFAULT")^#
        & T("CONTAINS MEMORY_OPTIMIZED_DATA")^# & List(N("file_spec")),
    file_spec |-> File_specContext ::=
        T("( NAME =") & (N("id_") | T("STRING")) & T(",")^# & T("FILENAME =") & Str("file")
        & T(",")^# & (T("SIZE =") & N("file_size") & T(",")^#)^#
        & (T("MAXSIZE =") & (N("file_size") | T("UNLIMITED")) & T(",")^#)^#
        & (T("FILEGROWTH =") & N("file_size") & T(",")^#)^# & T(")")]

Entity_nameContext == Named({}, {"id_"}, Of("id_", {"server", "database", "schema", "table"}))
Entity_name_for_azure_dwContext == Named({}, {"id_"}, Of("id_", {"schema", "object_name"}))
Entity_name_for_parallel_dwContext ==
    Named({}, {"id_"}, Of("id_", {"schema_database", "schema", "object_name"}))
Full_table_nameContext ==
    Named({}, {"id_"}, Of("id_", {"linkedServer", "schema", "server", "database", "table"}))
Table_nameContext ==
    Named({}, {"id_"},
          Of("id_", {"database", "schema", "table"}) @@ Of("Token", {"blocking_hierarchy"}))
Simple_nameContext == Named({}, {"id_"}, Of("id_", {"schema", "name"}))
Func_proc_name_schemaContext == Named({}, {"id_"}, Of("id_", {"schema", "procedure"}))
Func_proc_name_database_schemaContext ==
    Named({"func_proc_name_schema"}, {"id_"}, Of("id_", {"database", "schema", "procedure"}))
Func_proc_name_server_database_schemaContext ==
    Named({"func_proc_name_database_schema"}, {"id_"},
          Of("id_", {"server", "database", "schema", "procedure"}))
Ddl_objectContext == Plain({"full_table_name", "LOCAL_ID"}, {})
Full_column_nameContext == Named({"id_", "full_table_name"}, {}, Of("id_", {"column_name"}))
Column_name_list_with_orderContext == Plain({}, {"id_"})
Insert_column_name_listContext ==
    Class({}, {"insert_column_id"}, <<>>, Of("insert_column_id", {"col"}))
Insert_column_idContext == Class({}, {"id_"}, <<>>, Of("id_", {"ignore"}))
Column_name_listContext == Class({}, {"id_"}, <<>>, Of("id_", {"col"}))
Cursor_nameContext == Plain({"id_", "LOCAL_ID"}, {})
Scalar_function_nameContext == Plain({"func_proc_name_server_database_schema"}, {})

NameRules == [
    entity_name |-> Entity_nameContext ::=
        ((Id("server") & T(".") & Id("database") & T(".") & Id("schema") & T("."))
         | (Id("database") & T(".") & Id("schema")^# & T("."))
         | (Id("schema") & T(".")))^#
        & Id("table"),
    entity_name_for_azure_dw |-> Entity_name_for_azure_dwContext ::=
        Id("schema") | (Id("schema") & T(".") & Id("object_name")),
    entity_name_for_parallel_dw |-> Entity_name_for_parallel_dwContext ::=
        Id("schema_database") | (Id("schema") & T(".") & Id("object_name")),
    full_table_name |-> Full_table_nameContext ::=
        N("id_") & (N("dotID")^+ | (N("doubleDotID") & N("dotID")^#))^#,
    dotID |-> NoClass ::= T(".") & N("id_"),
    doubleDotID |-> NoClass ::= T(". .") & N("id_"),
    table_name |-> Table_nameContext ::=
        ((Id("database") & T(".") & Id("schema")^# & T(".")) | (Id("schema") & T(".")))^#
        & (Id("table") | L("blocking_hierarchy", T("BLOCKING_HIERARCHY"))),
    simple_name |-> Simple_nameContext ::= (Id("schema") & T("."))^# & Id("name"),
    func_proc_name_schema |-> Func_proc_name_schemaContext ::=
        (Id("schema") & T("."))^# & Id("procedure"),
    func_proc_name_database_schema |-> Func_proc_name_database_schemaContext ::=
        (Id("database")^# & T(".") & Id("schema")^# & T(".") & Id("procedure"))
        | N("func_proc_name_schema"),
    func_proc_name_server_database_schema |-> Func_proc_name_server_database_schemaContext ::=
        (Id("server")^# & T(".") & Id("database")^# & T(".") & Id("schema")^# & T(".")
         & Id("procedure"))
        | N("func_proc_name_database_schema"),
    ddl_object |-> Ddl_objectContext ::= N("full_table_name") | T("LOCAL_ID"),
    full_column_name |-> Full_column_nameContext ::=
        (OneOf({"DELETED", "INSERTED"})
         & (Id("column_name") | (T("$") & OneOf({"IDENTITY", "ROWGUID"}))))
        | (N("full_table_name") & T(".")
           & (Id("column_name") | (T("$") & OneOf({"IDENTITY", "ROWGUID"}))))
        | (Id("column_name") | (T("$") & OneOf({"IDENTITY", "ROWGUID"}))),
    column_name_list_with_order |-> Column_name_list_with_orderContext ::=
        N("id_") & OneOf({"ASC", "DESC"})^# & (T(",") & N("id_") & OneOf({"ASC", "DESC"})^#)^*,
    insert_column_name_list |-> Insert_column_name_listContext ::=
        List(V("col", N("insert_column_id"))),
    insert_column_id |-> Insert_column_idContext ::=
        (V("ignore", N("id_"))^# & T("."))^* & N("id_"),
    column_name_list |-> Column_name_listContext ::= List(V("col", N("id_"))),
    cursor_name |-> Cursor_nameContext ::= N("id_") | T("LOCAL_ID"),
    scalar_function_name |-> Scalar_function_nameContext ::=
        N("func_proc_name_server_database_schema") | T("RIGHT") | T("LEFT")
        | T("BINARY_CHECKSUM") | T("CHECKSUM")]

Begin_conversation_timerContext == Plain({"LOCAL_ID", "time"}, {})
Begin_conversation_dialogContext ==
    Named({"contract_name", "STRING", "on_off", "DECIMAL"}, {"LOCAL_ID", "service_name"},
          Of("Token", {"dialog_handle", "service_broker_guid"})
          @@ Of("service_name", {"initiator_service_name", "target_service_name"}))
Contract_nameContext == Plain({"id_", "expression"}, {})
Service_nameContext == Plain({"id_", "expression"}, {})
End_conversationContext ==
    Named({}, {"LOCAL_ID", "STRING"},
          Of("Token", {"conversation_handle", "faliure_code", "failure_text"}))
Waitfor_conversationContext == Named({"get_conversation", "time"}, {}, Of("time", {"timeout"}))
Get_conversationContext ==
    Named({"queue_id", "STRING", "LOCAL_ID"}, {},
          Of("Token", {"conversation_group_id"}) @@ Of("queue_id", {"queue"}))
Queue_idContext == Named({}, {"id_"}, Of("id_", {"database_name", "schema_name", "name"}))
Send_conversationContext ==
    Named({"expression"}, {"STRING", "LOCAL_ID"},
          Of("Token", {"conversation_handle", "message_body_expression"})
          @@ Of("expression", {"message_type_name"}))

ConversationRules == [
    begin_conversation_timer |-> Begin_conversation_timerContext ::=
        T("BEGIN CONVERSATION TIMER (") & T("LOCAL_ID") & T(") TIMEOUT =") & N("time")
        & T(";")^#,
    begin_conversation_dialog |-> Begin_conversation_dialogContext ::=
        T("BEGIN DIALOG") & T("CONVERSATION")^# & L("dialog_handle", T("LOCAL_ID"))
        & T("FROM SERVICE") & L("initiator_service_name", N("service_name")) & T("TO SERVICE")
        & L("target_service_name", N("service_name")) & (T(",") & Str("service_broker_guid"))^#
        & T("ON CONTRACT") & N("contract_name")
        & (T("WITH")
           & (OneOf({"RELATED_CONVERSATION", "RELATED_CONVERSATION_GROUP"}) & T("=")
              & T("LOCAL_ID") & T(",")^#)^#
           & (T("LIFETIME =") & OneOf({"DECIMAL", "LOCAL_ID"}) & T(",")^#)^#
           & (T("ENCRYPTION =") & N("on_off"))^#)^#
        & T(";")^#,
    contract_name |-> Contract_nameContext ::= N("id_") | N("expression"),
    service_name |-> Service_nameContext ::= N("id_") | N("expression"),
    end_conversation |-> End_conversationContext ::=
        T("END CONVERSATION") & L("conversation_handle", T("LOCAL_ID")) & T(";")^#
        & (T("WITH")
           & (T("ERROR =") & L("faliure_code", OneOf({"LOCAL_ID", "STRING"}))
              & T("DESCRIPTION =") & L("failure_text", OneOf({"LOCAL_ID", "STRING"})))^#
           & T("CLEANUP")^#)^#,
    waitfor_conversation |-> Waitfor_conversationContext ::=
        T("WAITFOR")^# & T("(") & N("get_conversation") & T(")")
        & (T(",")^# & T("TIMEOUT") & L("timeout", N("time")))^# & T(";")^#,
    get_conversation |-> Get_conversationContext ::=
        T("GET CONVERSATION GROUP") & L("conversation_group_id", OneOf({"STRING", "LOCAL_ID"}))
        & T("FROM") & L("queue", N("queue_id")) & T(";")^#,
    queue_id |-> Queue_idContext ::=
        (Id("database_name") & T(".") & Id("schema_name") & T(".") & Id("name")) | N("id_"),
    send_conversation |-> Send_conversationContext ::=
        T("SEND ON CONVERSATION") & L("conversation_handle", OneOf({"STRING", "LOCAL_ID"}))
        & T("MESSAGE TYPE") & Expr("message_type_name")
        & (T("(") & L("message_body_expression", OneOf({"STRING", "LOCAL_ID"})) & T(")"))^#
        & T(";")^#]

Data_typeContext ==
    Named({"SQUARE_BRACKET_ID", "id_"}, {"DECIMAL"},
          Of("Token", {"scaled", "scale", "prec", "seed", "inc", "double_prec"})
          @@ Of("id_", {"ext_type", "unscaled_type"}))
ConstantContext ==
    Named({"STRING", "BINARY", "DECIMAL", "REAL", "FLOAT", "parameter"}, {},
          Of("Token", {"dollar"}))
Primitive_constantContext ==
    Named({"STRING", "BINARY", "DECIMAL", "REAL", "FLOAT", "parameter"}, {},
          Of("Token", {"dollar"}))
KeywordContext == Plain({}, {})
Id_Context == Plain({"ID", "TEMP_ID", "DOUBLE_QUOTE_ID", "SQUARE_BRACKET_ID", "keyword"}, {})
Simple_idContext == Plain({"ID"}, {})
Id_or_stringContext == Plain({"id_", "STRING"}, {})
File_sizeContext == Plain({"DECIMAL"}, {})

ConstantRules == [
    data_type |-> Data_typeContext ::=
        (L("scaled", OneOf({"VARCHAR", "NVARCHAR", "BINARY_KEYWORD", "VARBINARY_KEYWORD",
                            "SQUARE_BRACKET_ID"}))
         & T("( MAX )"))
        | (Id("ext_type") & T("(") & Num("scale") & T(",") & Num("prec") & T(")"))
        | (Id("ext_type") & T("(") & Num("scale") & T(")"))
        | (Id("ext_type") & T("IDENTITY")
           & (T("(") & Num("seed") & T(",") & Num("inc") & T(")"))^#)
        | (L("double_prec", T("DOUBLE")) & T("PRECISION")^#) | Id("unscaled_type"),
    constant |-> ConstantContext ::=
        T("STRING") | T("BINARY")
        | (T("-")^# & OneOf({"DECIMAL", "REAL", "FLOAT"}))
        | (T("-")^# & L("dollar", T("$")) & OneOf({"-", "+"})^# & OneOf({"DECIMAL", "FLOAT"}))
        | N("parameter"),
    primitive_constant |-> Primitive_constantContext ::=
        T("STRING") | T("BINARY") | OneOf({"DECIMAL", "REAL", "FLOAT"})
        | (L("dollar", T("$")) & OneOf({"-", "+"})^# & OneOf({"DECIMAL", "FLOAT"}))
        | N("parameter"),
    keyword |-> KeywordContext ::= OneOf({"ABORT", "GO"}),
    id_ |-> Id_Context ::=
        T("ID") | T("TEMP_ID") | T("DOUBLE_QUOTE_ID") | T("DOUBLE_QUOTE_BLANK")
        | T("SQUARE_BRACKET_ID") | N("keyword") | T("RAW"),
    simple_id |-> Simple_idContext ::= T("ID"),
    id_or_string |-> Id_or_stringContext ::= N("id_") | T("STRING"),
    file_size |-> File_sizeContext ::= T("DECIMAL") & OneOf({"KB", "MB", "GB", "TB", "%"})^#]
=============================================================================
