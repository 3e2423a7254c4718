----------------------------- MODULE FileSyntax -----------------------------
(***************************************************************************)
(* Files, batches, clauses and control of flow. Rules in the order of      *)
(* TSqlParser.g4, each with its class of TSqlParser.h.                     *)
(***************************************************************************)
EXTENDS RuleNotation

\* Mutant: the accessor for the separators returns the first one only.
Tsql_fileContext_OneGo == Plain({"EOF", "execute_body_batch", "go_statement"}, {"batch"})
Tsql_fileContext == Plain({"EOF", "execute_body_batch"}, {"batch", "go_statement"})
Batch_level_statementContext ==
    Plain({"create_or_alter_function", "create_or_alter_procedure", "create_or_alter_trigger",
           "create_view"}, {})
Sql_clausesContext ==
    Plain({"dml_clause", "cfl_statement", "another_statement", "ddl_clause", "dbcc_clause",
           "backup_statement"}, {})
Dml_clauseContext ==
    Plain({"merge_statement", "delete_statement", "insert_statement",
           "select_statement_standalone", "update_statement"}, {})
Ddl_clauseContext ==
    Plain({"alter_application_role", "alter_assembly", "alter_asymmetric_key",
           "alter_authorization", "alter_authorization_for_azure_dw",
           "alter_authorization_for_parallel_dw", "alter_authorization_for_sql_database",
           "alter_availability_group", "alter_certificate", "alter_column_encryption_key",
           "alter_credential", "alter_cryptographic_provider", "alter_database",
           "alter_database_audit_specification", "alter_db_role", "alter_endpoint",
           "alter_external_data_source", "alter_external_library",
           "alter_external_resource_pool", "alter_fulltext_catalog", "alter_fulltext_stoplist",
           "alter_index", "alter_login_azure_sql", "alter_login_azure_sql_dw_and_pdw",
           "alter_login_sql_server", "alter_master_key_azure_sql",
           "alter_master_key_sql_server", "alter_message_type", "alter_partition_function",
           "alter_partition_scheme", "alter_remote_service_binding", "alter_resource_governor",
           "alter_schema_azure_sql_dw_and_pdw", "alter_schema_sql", "alter_sequence",
           "alter_server_audit", "alter_server_audit_specification",
           "alter_server_configuration", "alter_server_role", "alter_server_role_pdw",
           "alter_service", "alter_service_master_key", "alter_symmetric_key", "alter_table",
           "alter_user", "alter_user_azure_sql", "alter_workload_group",
           "alter_xml_schema_collection", "create_application_role", "create_assembly",
           "create_asymmetric_key", "create_column_encryption_key", "create_column_master_key",
           "create_columnstore_index", "create_credential", "create_cryptographic_provider",
           "create_database", "create_database_audit_specification", "create_db_role",
           "create_endpoint", "create_event_notification", "create_external_library",
           "create_external_resource_pool", "create_fulltext_catalog",
           "create_fulltext_stoplist", "create_index", "create_login_azure_sql",
           "create_login_pdw", "create_login_sql_server", "create_master_key_azure_sql",
           "create_master_key_sql_server", "create_nonclustered_columnstore_index",
           "create_or_alter_broker_priority", "create_or_alter_event_session",
           "create_partition_function", "create_partition_scheme",
           "create_remote_service_binding", "create_resource_pool", "create_route",
           "create_rule", "create_schema", "create_schema_azure_sql_dw_and_pdw",
           "create_search_property_list", "create_security_policy", "create_sequence",
           "create_server_audit", "create_server_audit_specification", "create_server_role",
           "create_service", "create_statistics", "create_synonym", "create_table",
           "create_type", "create_user", "create_user_azure_sql_dw", "create_workload_group",
           "create_xml_index", "create_xml_schema_collection", "disable_trigger",
           "drop_aggregate", "drop_application_role", "drop_assembly", "drop_asymmetric_key",
           "drop_availability_group", "drop_broker_priority", "drop_certificate",
           "drop_column_encryption_key", "drop_column_master_key", "drop_contract",
           "drop_credential", "drop_cryptograhic_provider", "drop_database",
           "drop_database_audit_specification", "drop_database_encryption_key",
           "drop_database_scoped_credential", "drop_db_role", "drop_default", "drop_endpoint",
           "drop_event_notifications", "drop_event_session", "drop_external_data_source",
           "drop_external_file_format", "drop_external_library", "drop_external_resource_pool",
           "drop_external_table", "drop_fulltext_catalog", "drop_fulltext_index",
           "drop_fulltext_stoplist", "drop_function", "drop_index", "drop_login",
           "drop_master_key", "drop_message_type", "drop_partition_function",
           "drop_partition_scheme", "drop_procedure", "drop_queue",
           "drop_remote_service_binding", "drop_resource_pool", "drop_route", "drop_rule",
           "drop_schema", "drop_search_property_list", "drop_security_policy", "drop_sequence",
           "drop_server_audit", "drop_server_audit_specification", "drop_server_role",
           "drop_service", "drop_signature", "drop_statistics",
           "drop_statistics_name_azure_dw_and_pdw", "drop_symmetric_key", "drop_synonym",
           "drop_table", "drop_trigger", "drop_type", "drop_user", "drop_view",
           "drop_workload_group", "drop_xml_schema_collection", "enable_trigger", "lock_table",
           "truncate_table", "update_statistics"}, {})
Backup_statementContext ==
    Plain({"backup_database", "backup_log", "backup_certificate", "backup_master_key",
           "backup_service_master_key"}, {})

FileRules == [
    tsql_file |-> Tsql_fileContext ::=
        (N("go_statement")^* & T("EOF"))
        | (N("batch_without_go") & (N("go_statement") & N("batch_without_go")^#)^*
           & N("go_statement")^# & T("EOF")),
    batch_without_go |-> NoClass ::=
        N("sql_clauses")^+ | N("batch_level_statement")
        | (N("execute_body_batch") & N("sql_clauses")^*),
    batch_level_statement |-> Batch_level_statementContext ::=
        Choice(<<N("create_or_alter_function"), N("create_or_alter_procedure"),
                 N("create_or_alter_trigger"), N("create_view")>>),
    sql_clauses |-> Sql_clausesContext ::=
        (N("dml_clause") & T(";")^#)
        | (N("cfl_statement") & T(";")^#)
        | (N("another_statement") & T(";")^#)
        | (N("ddl_clause") & T(";")^#)
        | (N("dbcc_clause") & T(";")^#)
        | (N("backup_statement") & T(";")^#) | T(";"),
    dml_clause |-> Dml_clauseContext ::=
        Choice(<<N("merge_statement"), N("delete_statement"), N("insert_statement"),
                 N("select_statement_standalone"), N("update_statement")>>),
    ddl_clause |-> Ddl_clauseContext ::=
        Choice(<<N("alter_application_role"), N("alter_assembly"), N("alter_asymmetric_key"),
                 N("alter_authorization"), N("alter_authorization_for_azure_dw"),
                 N("alter_authorization_for_parallel_dw"),
                 N("alter_authorization_for_sql_database"), N("alter_availability_group"),
                 N("alter_certificate"), N("alter_column_encryption_key"),
                 N("alter_credential"), N("alter_cryptographic_provider"), N("alter_database"),
                 N("alter_database_audit_specification"), N("alter_db_role"),
                 N("alter_endpoint"), N("alter_external_data_source"),
                 N("alter_external_library"), N("alter_external_resource_pool"),
                 N("alter_fulltext_catalog"), N("alter_fulltext_stoplist"), N("alter_index"),
                 N("alter_login_azure_sql"), N("alter_login_azure_sql_dw_and_pdw"),
                 N("alter_login_sql_server"), N("alter_master_key_azure_sql"),
                 N("alter_master_key_sql_server"), N("alter_message_type"),
                 N("alter_partition_function"), N("alter_partition_scheme"),
                 N("alter_remote_service_binding"), N("alter_resource_governor"),
                 N("alter_schema_azure_sql_dw_and_pdw"), N("alter_schema_sql"),
                 N("alter_sequence"), N("alter_server_audit"),
                 N("alter_server_audit_specification"), N("alter_server_configuration"),
                 N("alter_server_role"), N("alter_server_role_pdw"), N("alter_service"),
                 N("alter_service_master_key"), N("alter_symmetric_key"), N("alter_table"),
                 N("alter_user"), N("alter_user_azure_sql"), N("alter_workload_group"),
                 N("alter_xml_schema_collection"), N("create_application_role"),
                 N("create_assembly"), N("create_asymmetric_key"),
                 N("create_column_encryption_key"), N("create_column_master_key"),
                 N("create_columnstore_index"), N("create_credential"),
                 N("create_cryptographic_provider"), N("create_database"),
                 N("create_database_audit_specification"), N("create_db_role"),
                 N("create_endpoint"), N("create_event_notification"),
                 N("create_external_library"), N("create_external_resource_pool"),
                 N("create_fulltext_catalog"), N("create_fulltext_stoplist"), N("create_index"),
                 N("create_login_azure_sql"), N("create_login_pdw"),
                 N("create_login_sql_server"), N("create_master_key_azure_sql"),
                 N("create_master_key_sql_server"), N("create_nonclustered_columnstore_index"),
                 N("create_or_alter_broker_priority"), N("create_or_alter_event_session"),
                 N("create_partition_function"), N("create_partition_scheme"),
                 N("create_remote_service_binding"), N("create_resource_pool"),
                 N("create_route"), N("create_rule"), N("create_schema"),
                 N("create_schema_azure_sql_dw_and_pdw"), N("create_search_property_list"),
                 N("create_security_policy"), N("create_sequence"), N("create_server_audit"),
                 N("create_server_audit_specification"), N("create_server_role"),
                 N("create_service"), N("create_statistics"), N("create_synonym"),
                 N("create_table"), N("create_type"), N("create_user"),
                 N("create_user_azure_sql_dw"), N("create_workload_group"),
                 N("create_xml_index"), N("create_xml_schema_collection"), N("disable_trigger"),
                 N("drop_aggregate"), N("drop_application_role"), N("drop_assembly"),
                 N("drop_asymmetric_key"), N("drop_availability_group"),
                 N("drop_broker_priority"), N("drop_certificate"),
                 N("drop_column_encryption_key"), N("drop_column_master_key"),
                 N("drop_contract"), N("drop_credential"), N("drop_cryptograhic_provider"),
                 N("drop_database"), N("drop_database_audit_specification"),
                 N("drop_database_encryption_key"), N("drop_database_scoped_credential"),
                 N("drop_db_role"), N("drop_default"), N("drop_endpoint"),
                 N("drop_event_notifications"), N("drop_event_session"),
                 N("drop_external_data_source"), N("drop_external_file_format"),
                 N("drop_external_library"), N("drop_external_resource_pool"),
                 N("drop_external_table"), N("drop_fulltext_catalog"), N("drop_fulltext_index"),
                 N("drop_fulltext_stoplist"), N("drop_function"), N("drop_index"),
                 N("drop_login"), N("drop_master_key"), N("drop_message_type"),
                 N("drop_partition_function"), N("drop_partition_scheme"), N("drop_procedure"),
                 N("drop_queue"), N("drop_remote_service_binding"), N("drop_resource_pool"),
                 N("drop_route"), N("drop_rule"), N("drop_schema"),
                 N("drop_search_property_list"), N("drop_security_policy"), N("drop_sequence"),
                 N("drop_server_audit"), N("drop_server_audit_specification"),
                 N("drop_server_role"), N("drop_service"), N("drop_signature"),
                 N("drop_statistics"), N("drop_statistics_name_azure_dw_and_pdw"),
                 N("drop_symmetric_key"), N("drop_synonym"), N("drop_table"), N("drop_trigger"),
                 N("drop_type"), N("drop_user"), N("drop_view"), N("drop_workload_group"),
                 N("drop_xml_schema_collection"), N("enable_trigger"), N("lock_table"),
                 N("truncate_table"), N("update_statistics")>>),
    backup_statement |-> Backup_statementContext ::=
        Choice(<<N("backup_database"), N("backup_log"), N("backup_certificate"),
                 N("backup_master_key"), N("backup_service_master_key")>>)]

Cfl_statementContext ==
    Plain({"block_statement", "break_statement", "continue_statement", "goto_statement",
           "if_statement", "print_statement", "raiseerror_statement", "return_statement",
           "throw_statement", "try_catch_statement", "waitfor_statement", "while_statement"},
          {})
Block_statementContext == Plain({}, {"sql_clauses"})
Goto_statementContext == Plain({"id_"}, {})
Return_statementContext == Plain({"expression"}, {})
If_statementContext == Plain({"search_condition"}, {"sql_clauses"})
Throw_statementContext == Plain({"throw_error_number", "throw_message", "throw_state"}, {})
Throw_error_numberContext == Plain({"DECIMAL", "LOCAL_ID"}, {})
Throw_messageContext == Plain({"STRING", "LOCAL_ID"}, {})
Throw_stateContext == Plain({"DECIMAL", "LOCAL_ID"}, {})
Try_catch_statementContext ==
    Named({}, {"sql_clauses"}, Of("sql_clauses", {"try_clauses", "catch_clauses"}))
Waitfor_statementContext == Plain({"receive_statement", "time", "expression"}, {})
While_statementContext == Plain({"search_condition", "sql_clauses"}, {})
Print_statementContext == Plain({"expression", "DOUBLE_QUOTE_ID"}, {"LOCAL_ID"})
Raiseerror_statementContext ==
    Named({"DOUBLE_QUOTE_ID"}, {"constant_LOCAL_ID", "DECIMAL", "STRING", "LOCAL_ID"},
          Of("Token", {"msg", "formatstring", "argument"})
          @@ Of("constant_LOCAL_ID", {"severity", "state"}))
Another_statementContext ==
    Plain({"alter_queue", "checkpoint_statement", "conversation_statement", "create_contract",
           "create_queue", "cursor_statement", "declare_statement", "execute_statement",
           "kill_statement", "message_statement", "reconfigure_statement", "security_statement",
           "set_statement", "setuser_statement", "shutdown_statement", "transaction_statement",
           "use_statement"}, {})

ControlRules == [
    cfl_statement |-> Cfl_statementContext ::=
        Choice(<<N("block_statement"), N("break_statement"), N("continue_statement"),
                 N("goto_statement"), N("if_statement"), N("print_statement"),
                 N("raiseerror_statement"), N("return_statement"), N("throw_statement"),
                 N("try_catch_statement"), N("waitfor_statement"), N("while_statement")>>),
    block_statement |-> Block_statementContext ::=
        T("BEGIN") & T(";")^# & N("sql_clauses")^* & T("END") & T(";")^#,
    goto_statement |-> Goto_statementContext ::=
        (T("GOTO") & N("id_") & T(";")^#) | (N("id_") & T(":") & T(";")^#),
    return_statement |-> Return_statementContext ::= T("RETURN") & N("expression")^# & T(";")^#,
    if_statement |-> If_statementContext ::=
        T("IF") & N("search_condition") & N("sql_clauses") & (T("ELSE") & N("sql_clauses"))^#
        & T(";")^#,
    throw_statement |-> Throw_statementContext ::=
        T("THROW")
        & (N("throw_error_number") & T(",") & N("throw_message") & T(",") & N("throw_state"))^#
        & T(";")^#,
    throw_error_number |-> Throw_error_numberContext ::= OneOf({"DECIMAL", "LOCAL_ID"}),
    throw_message |-> Throw_messageContext ::= OneOf({"STRING", "LOCAL_ID"}),
    throw_state |-> Throw_stateContext ::= OneOf({"DECIMAL", "LOCAL_ID"}),
    try_catch_statement |-> Try_catch_statementContext ::=
        T("BEGIN TRY") & T(";")^# & L("try_clauses", N("sql_clauses"))^+ & T("END TRY")
        & T(";")^# & T("BEGIN CATCH") & T(";")^# & L("catch_clauses", N("sql_clauses"))^*
        & T("END CATCH") & T(";")^#,
    waitfor_statement |-> Waitfor_statementContext ::=
        T("WAITFOR") & N("receive_statement")^# & T(",")^#
        & (OneOf({"DELAY", "TIME", "TIMEOUT"}) & N("time"))^# & N("expression")^# & T(";")^#,
    while_statement |-> While_statementContext ::=
        T("WHILE") & N("search_condition")
        & (N("sql_clauses") | (T("BREAK") & T(";")^#) | (T("CONTINUE") & T(";")^#)),
    print_statement |-> Print_statementContext ::=
        T("PRINT") & (N("expression") | T("DOUBLE_QUOTE_ID")) & (T(",") & T("LOCAL_ID"))^*
        & T(";")^#,
    raiseerror_statement |-> Raiseerror_statementContext ::=
        (T("RAISERROR (") & L("msg", OneOf({"DECIMAL", "STRING", "LOCAL_ID"})) & T(",")
         & L("severity", N("constant_LOCAL_ID")) & T(",") & L("state", N("constant_LOCAL_ID"))
         & (T(",") & (N("constant_LOCAL_ID") | T("NULL_")))^* & T(")")
         & (T("WITH") & OneOf({"LOG", "SETERROR", "NOWAIT"}))^# & T(";")^#)
        | (T("RAISERROR") & T("DECIMAL")
           & L("formatstring", OneOf({"STRING", "LOCAL_ID", "DOUBLE_QUOTE_ID"}))
           & (T(",") & L("argument", OneOf({"DECIMAL", "STRING", "LOCAL_ID"})))^*),
    another_statement |-> Another_statementContext ::=
        Choice(<<N("alter_queue"), N("checkpoint_statement"), N("conversation_statement"),
                 N("create_contract"), N("create_queue"), N("cursor_statement"),
                 N("declare_statement"), N("execute_statement"), N("kill_statement"),
                 N("message_statement"), N("reconfigure_statement"), N("security_statement"),
                 N("set_statement"), N("setuser_statement"), N("shutdown_statement"),
                 N("transaction_statement"), N("use_statement")>>)]
=============================================================================
