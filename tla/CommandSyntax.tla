--------------------------- MODULE CommandSyntax ----------------------------
(***************************************************************************)
(* Declarations, backups, calls, permissions, session commands and DBCC.   *)
(* Rules in the order of TSqlParser.g4, each with its class of             *)
(* TSqlParser.h.                                                           *)
(***************************************************************************)
EXTENDS RuleNotation

Declare_statementContext ==
    Class({"LOCAL_ID", "data_type", "table_type_definition", "table_name",
           "xml_type_definition"}, {"declare_local", "xml_declaration"}, <<>>,
          Of("declare_local", {"loc"}) @@ Of("xml_declaration", {"xml_dec"}))
Xml_declarationContext == Named({"id_", "STRING"}, {}, Of("Token", {"xml_namespace_uri"}))
Cursor_statementContext == Plain({"cursor_name", "declare_cursor", "fetch_cursor"}, {})

DeclareRules == [
    declare_statement |-> Declare_statementContext ::=
        (T("DECLARE") & T("LOCAL_ID") & T("AS")^#
         & (N("data_type") | N("table_type_definition") | N("table_name")))
        | (T("DECLARE") & List(V("loc", N("declare_local"))))
        | (T("DECLARE") & T("LOCAL_ID") & T("AS")^# & N("xml_type_definition"))
        | (T("WITH XMLNAMESPACES (") & List(V("xml_dec", N("xml_declaration"))) & T(")")),
    xml_declaration |-> Xml_declarationContext ::=
        (Str("xml_namespace_uri") & T("AS") & N("id_")) | (T("DEFAULT") & T("STRING")),
    cursor_statement |-> Cursor_statementContext ::=
        (T("CLOSE") & T("GLOBAL")^# & N("cursor_name") & T(";")^#)
        | (T("DEALLOCATE") & T("GLOBAL")^# & T("CURSOR")^# & N("cursor_name") & T(";")^#)
        | N("declare_cursor") | N("fetch_cursor")
        | (T("OPEN") & T("GLOBAL")^# & N("cursor_name") & T(";")^#)]

Backup_databaseContext ==
    Named({}, {"id_", "STRING", "DECIMAL"},
          Of("id_", {"database_name", "logical_device_name", "backup_set_name",
                     "encryptor_name"})
          @@ Of("Token", {"file_or_filegroup", "medianame", "stats_percent"}))
Backup_logContext ==
    Named({}, {"id_", "STRING", "DECIMAL"},
          Of("id_", {"database_name", "logical_device_name", "backup_set_name",
                     "encryptor_name"})
          @@ Of("Token", {"medianame", "stats_percent", "undo_file_name"}))
Backup_certificateContext ==
    Named({"id_"}, {"STRING"},
          Of("id_", {"certname"})
          @@ Of("Token", {"cert_file", "private_key_file", "encryption_password",
                         "decryption_pasword"}))
Backup_master_keyContext ==
    Named({}, {"STRING"}, Of("Token", {"master_key_backup_file", "encryption_password"}))
Backup_service_master_keyContext ==
    Named({}, {"STRING"},
          Of("Token", {"service_master_key_backup_file", "encryption_password"}))

BackupRules == [
    backup_database |-> Backup_databaseContext ::=
        T("BACKUP DATABASE") & Id("database_name")
        & (T("READ_WRITE_FILEGROUPS")
           & (T(",")^# & OneOf({"FILE", "FILEGROUP"}) & T("=") & Str("file_or_filegroup"))^*)^#
        & (T(",")^# & OneOf({"FILE", "FILEGROUP"}) & T("=") & Str("file_or_filegroup"))^*
        & ((T("TO") & (T(",")^# & Id("logical_device_name"))^+)
           | (T("TO")
              & (T(",")^# & OneOf({"DISK", "TAPE", "URL"}) & T("=")
                 & (T("STRING") | N("id_")))^+))
        & ((T("MIRROR TO") & (T(",")^# & Id("logical_device_name"))^+)^+
           | (T("MIRROR TO")
              & (T(",")^# & OneOf({"DISK", "TAPE", "URL"}) & T("=")
                 & (T("STRING") | N("id_")))^+)^+)^#
        & (T("WITH")
           & ((T(",")^# & T("DIFFERENTIAL"))
              | (T(",")^# & T("COPY_ONLY"))
              | (T(",")^# & OneOf({"COMPRESSION", "NO_COMPRESSION"}))
              | (T(",")^# & T("DESCRIPTION =") & (T("STRING") | N("id_")))
              | (T(",")^# & T("NAME =") & Id("backup_set_name"))
              | (T(",")^# & T("CREDENTIAL"))
              | (T(",")^# & T("FILE_SNAPSHOT"))
              | (T(",")^#
                 & ((T("EXPIREDATE =") & (T("STRING") | N("id_")))
                    | (T("RETAINDAYS =") & (T("DECIMAL") | N("id_")))))
              | (T(",")^# & OneOf({"NOINIT", "INIT"}))
              | (T(",")^# & OneOf({"NOSKIP", "SKIP_KEYWORD"}))
              | (T(",")^# & OneOf({"NOFORMAT", "FORMAT"}))
              | (T(",")^# & T("MEDIADESCRIPTION =") & (T("STRING") | N("id_")))
              | (T(",")^# & T("MEDIANAME =") & Str("medianame"))
              | (T(",")^# & T("BLOCKSIZE =") & (T("DECIMAL") | N("id_")))
              | (T(",")^# & T("BUFFERCOUNT =") & (T("DECIMAL") | N("id_")))
              | (T(",")^# & T("MAXTRANSFER =") & (T("DECIMAL") | N("id_")))
              | (T(",")^# & OneOf({"NO_CHECKSUM", "CHECKSUM"}))
              | (T(",")^# & OneOf({"STOP_ON_ERROR", "CONTINUE_AFTER_ERROR"}))
              | (T(",")^# & T("RESTART"))
              | (T(",")^# & T("STATS") & (T("=") & Num("stats_percent"))^#)
              | (T(",")^# & OneOf({"REWIND", "NOREWIND"}))
              | (T(",")^# & OneOf({"LOAD", "NOUNLOAD"}))
              | (T(",")^# & T("ENCRYPTION ( ALGORITHM =")
                 & OneOf({"AES_128", "AES_192", "AES_256", "TRIPLE_DES_3KEY"})
                 & T(", SERVER CERTIFICATE =")
                 & (Id("encryptor_name")
                    | (T("SERVER ASYMMETRIC KEY =") & Id("encryptor_name")))))^*)^#,
    backup_log |-> Backup_logContext ::=
        T("BACKUP LOG") & Id("database_name")
        & ((T("TO") & (T(",")^# & Id("logical_device_name"))^+)
           | (T("TO")
              & (T(",")^# & OneOf({"DISK", "TAPE", "URL"}) & T("=")
                 & (T("STRING") | N("id_")))^+))
        & ((T("MIRROR TO") & (T(",")^# & Id("logical_device_name"))^+)^+
           | (T("MIRROR TO")
              & (T(",")^# & OneOf({"DISK", "TAPE", "URL"}) & T("=")
                 & (T("STRING") | N("id_")))^+)^+)^#
        & (T("WITH")
           & ((T(",")^# & T("DIFFERENTIAL"))
              | (T(",")^# & T("COPY_ONLY"))
              | (T(",")^# & OneOf({"COMPRESSION", "NO_COMPRESSION"}))
              | (T(",")^# & T("DESCRIPTION =") & (T("STRING") | N("id_")))
              | (T(",")^# & T("NAME =") & Id("backup_set_name"))
              | (T(",")^# & T("CREDENTIAL"))
              | (T(",")^# & T("FILE_SNAPSHOT"))
              | (T(",")^#
                 & ((T("EXPIREDATE =") & (T("STRING") | N("id_")))
                    | (T("RETAINDAYS =") & (T("DECIMAL") | N("id_")))))
              | (T(",")^# & OneOf({"NOINIT", "INIT"}))
              | (T(",")^# & OneOf({"NOSKIP", "SKIP_KEYWORD"}))
              | (T(",")^# & OneOf({"NOFORMAT", "FORMAT"}))
              | (T(",")^# & T("MEDIADESCRIPTION =") & (T("STRING") | N("id_")))
              | (T(",")^# & T("MEDIANAME =") & Str("medianame"))
              | (T(",")^# & T("BLOCKSIZE =") & (T("DECIMAL") | N("id_")))
              | (T(",")^# & T("BUFFERCOUNT =") & (T("DECIMAL") | N("id_")))
              | (T(",")^# & T("MAXTRANSFER =") & (T("DECIMAL") | N("id_")))
              | (T(",")^# & OneOf({"NO_CHECKSUM", "CHECKSUM"}))
              | (T(",")^# & OneOf({"STOP_ON_ERROR", "CONTINUE_AFTER_ERROR"}))
              | (T(",")^# & T("RESTART"))
              | (T(",")^# & T("STATS") & (T("=") & Num("stats_percent"))^#)
              | (T(",")^# & OneOf({"REWIND", "NOREWIND"}))
              | (T(",")^# & OneOf({"LOAD", "NOUNLOAD"}))
              | (T(",")^# & (T("NORECOVERY") | (T("STANDBY =") & Str("undo_file_name"))))
              | (T(",")^# & T("NO_TRUNCATE"))
              | (T(",")^# & T("ENCRYPTION ( ALGORITHM =")
                 & OneOf({"AES_128", "AES_192", "AES_256", "TRIPLE_DES_3KEY"})
                 & T(", SERVER CERTIFICATE =")
                 & (Id("encryptor_name")
                    | (T("SERVER ASYMMETRIC KEY =") & Id("encryptor_name")))))^*)^#,
    backup_certificate |-> Backup_certificateContext ::=
        T("BACKUP CERTIFICATE") & Id("certname") & T("TO FILE =") & Str("cert_file")
        & (T("WITH PRIVATE KEY (")
           & ((T(",")^# & T("FILE =") & Str("private_key_file"))
              | (T(",")^# & T("ENCRYPTION BY PASSWORD =") & Str("encryption_password"))
              | (T(",")^# & T("DECRYPTION BY PASSWORD =") & Str("decryption_pasword")))^+
           & T(")"))^#,
    backup_master_key |-> Backup_master_keyContext ::=
        T("BACKUP MASTER KEY TO FILE =") & Str("master_key_backup_file")
        & T("ENCRYPTION BY PASSWORD =") & Str("encryption_password"),
    backup_service_master_key |-> Backup_service_master_keyContext ::=
        T("BACKUP SERVICE MASTER KEY TO FILE =") & Str("service_master_key_backup_file")
        & T("ENCRYPTION BY PASSWORD =") & Str("encryption_password")]

Kill_statementContext ==
    Plain({"kill_process", "kill_query_notification", "kill_stats_job"}, {})
Kill_processContext == Named({"DECIMAL", "STRING"}, {}, Of("Token", {"session_id"}))
Kill_query_notificationContext == Named({"DECIMAL"}, {}, Of("Token", {"subscription_id"}))
Kill_stats_jobContext == Named({"DECIMAL"}, {}, Of("Token", {"job_id"}))
Execute_statementContext == Plain({"execute_body"}, {})
Execute_body_batchContext ==
    Plain({"func_proc_name_server_database_schema"}, {"execute_statement_arg"})
Execute_bodyContext ==
    Named({"func_proc_name_server_database_schema", "execute_statement_arg", "LOCAL_ID",
           "STRING", "id_"}, {"execute_var_string"},
          Of("Token", {"return_status"}) @@ Of("id_", {"linkedServer"}))
Execute_statement_argContext ==
    Plain({"execute_statement_arg_unnamed"},
          {"execute_statement_arg", "execute_statement_arg_named"})
Execute_statement_arg_namedContext ==
    Named({"LOCAL_ID", "execute_parameter"}, {},
          Of("Token", {"name"}) @@ Of("execute_parameter", {"value"}))
Execute_statement_arg_unnamedContext ==
    Named({"execute_parameter"}, {}, Of("execute_parameter", {"value"}))
Execute_parameterContext == Plain({"constant", "LOCAL_ID", "id_"}, {})
Execute_var_stringContext == Plain({"execute_var_string", "STRING"}, {"LOCAL_ID"})

ExecuteRules == [
    kill_statement |-> Kill_statementContext ::=
        T("KILL") & (N("kill_process") | N("kill_query_notification") | N("kill_stats_job")),
    kill_process |-> Kill_processContext ::=
        (L("session_id", OneOf({"DECIMAL", "STRING"})) | T("UOW")) & T("WITH STATUSONLY")^#,
    kill_query_notification |-> Kill_query_notificationContext ::=
        T("QUERY NOTIFICATION SUBSCRIPTION") & (T("ALL") | Num("subscription_id")),
    kill_stats_job |-> Kill_stats_jobContext ::= T("STATS JOB") & Num("job_id"),
    execute_statement |-> Execute_statementContext ::=
        T("EXECUTE") & N("execute_body") & T(";")^#,
    execute_body_batch |-> Execute_body_batchContext ::=
        N("func_proc_name_server_database_schema") & List(N("execute_statement_arg"))^#
        & T(";")^#,
    execute_body |-> Execute_bodyContext ::=
        ((L("return_status", T("LOCAL_ID")) & T("="))^#
         & (N("func_proc_name_server_database_schema") | N("execute_var_string"))
         & N("execute_statement_arg")^#)
        | (T("(") & List(N("execute_var_string")) & T(")")
           & (T("AS") & OneOf({"LOGIN", "USER"}) & T("=") & T("STRING"))^#
           & (T("AT_KEYWORD") & Id("linkedServer"))^#)
        | (T("AS") & ((OneOf({"LOGIN", "USER"}) & T("=") & T("STRING")) | T("CALLER"))),
    execute_statement_arg |-> Execute_statement_argContext ::=
        (N("execute_statement_arg_unnamed") & (T(",") & N("execute_statement_arg"))^*)
        | List(N("execute_statement_arg_named")),
    execute_statement_arg_named |-> Execute_statement_arg_namedContext ::=
        L("name", T("LOCAL_ID")) & T("=") & L("value", N("execute_parameter")),
    execute_statement_arg_unnamed |-> Execute_statement_arg_unnamedContext ::=
        L("value", N("execute_parameter")),
    execute_parameter |-> Execute_parameterContext ::=
        N("constant")
        | (T("LOCAL_ID") & OneOf({"OUTPUT", "OUT"})^#) | N("id_") | T("DEFAULT") | T("NULL_"),
    execute_var_string |-> Execute_var_stringContext ::=
        (T("LOCAL_ID") & OneOf({"OUTPUT", "OUT"})^#
         & (T("+") & T("LOCAL_ID") & (T("+") & N("execute_var_string"))^#)^#)
        | (T("STRING") & (T("+") & T("LOCAL_ID") & (T("+") & N("execute_var_string"))^#)^#)]

Security_statementContext ==
    Class({"execute_clause", "grant_permission", "table_name", "column_name_list",
           "class_type_for_grant", "LOCAL_ID", "open_key", "close_key", "create_key",
           "create_certificate"}, {"principal_id"},
          Of("table_name", {"on_id"}) @@ Of("principal_id", {"as_principal"}),
          Of("principal_id", {"to_principal"}))
Principal_idContext == Plain({"id_"}, {})
Create_certificateContext ==
    Named({"existing_keys", "generate_new_keys", "on_off"}, {"id_"},
          Of("id_", {"certificate_name", "user_name"}))
Existing_keysContext ==
    Named({"id_", "STRING", "private_key_options"}, {},
          Of("id_", {"assembly_name"}) @@ Of("Token", {"path_to_file"}))
Private_key_optionsContext == Named({"BINARY"}, {"STRING"}, Of("Token", {"path", "password"}))
Generate_new_keysContext ==
    Named({}, {"STRING", "date_options"}, Of("Token", {"password", "certificate_subject_name"}))
Date_optionsContext == Plain({"STRING"}, {})
Open_keyContext ==
    Named({"decryption_mechanism", "id_", "STRING"}, {},
          Of("id_", {"key_name"}) @@ Of("Token", {"password"}))
Close_keyContext == Named({"id_"}, {}, Of("id_", {"key_name"}))
Create_keyContext ==
    Named({"STRING"}, {"id_", "key_options", "encryption_mechanism"},
          Of("Token", {"password"}) @@ Of("id_", {"key_name", "user_name", "provider_name"}))
Key_optionsContext ==
    Named({"STRING", "algorithm"}, {},
          Of("Token", {"pass_phrase", "identity_phrase", "key_name_in_provider"}))
Encryption_mechanismContext ==
    Named({"id_", "STRING"}, {},
          Of("id_", {"certificate_name", "asym_key_name", "decrypting_Key_name"}))
Decryption_mechanismContext ==
    Named({"id_", "STRING"}, {},
          Of("id_", {"certificate_name", "asym_key_name", "decrypting_Key_name"}))

SecurityRules == [
    security_statement |-> Security_statementContext ::=
        (N("execute_clause") & T(";")^#)
        | (T("GRANT")
           & ((T("ALL") & T("PRIVILEGES")^#)
              | (N("grant_permission") & (T("(") & N("column_name_list") & T(")"))^#))
           & (T("ON") & (N("class_type_for_grant") & T("::"))^# & L("on_id", N("table_name")))^#
           & T("TO") & List(V("to_principal", N("principal_id"))) & T("WITH GRANT OPTION")^#
           & (T("AS") & L("as_principal", N("principal_id")))^# & T(";")^#)
        | (T("REVERT") & (T("WITH COOKIE =") & T("LOCAL_ID"))^# & T(";")^#) | N("open_key")
        | N("close_key") | N("create_key") | N("create_certificate"),
    principal_id |-> Principal_idContext ::= N("id_") | T("PUBLIC"),
    create_certificate |-> Create_certificateContext ::=
        T("CREATE CERTIFICATE") & Id("certificate_name")
        & (T("AUTHORIZATION") & Id("user_name"))^#
        & ((T("FROM") & N("existing_keys")) | N("generate_new_keys"))
        & (T("ACTIVE FOR BEGIN DIALOG =") & N("on_off"))^#,
    existing_keys |-> Existing_keysContext ::=
        (T("ASSEMBLY") & Id("assembly_name"))
        | (T("EXECUTABLE")^# & T("FILE =") & Str("path_to_file")
           & (T("WITH PRIVATE KEY (") & N("private_key_options") & T(")"))^#),
    private_key_options |-> Private_key_optionsContext ::=
        OneOf({"FILE", "BINARY"}) & T("=") & Str("path")
        & (T(",") & OneOf({"DECRYPTION", "ENCRYPTION"}) & T("BY PASSWORD =")
           & Str("password"))^#,
    generate_new_keys |-> Generate_new_keysContext ::=
        (T("ENCRYPTION BY PASSWORD =") & Str("password"))^# & T("WITH SUBJECT =")
        & Str("certificate_subject_name") & (T(",") & N("date_options"))^*,
    date_options |-> Date_optionsContext ::=
        OneOf({"START_DATE", "EXPIRY_DATE"}) & T("=") & T("STRING"),
    open_key |-> Open_keyContext ::=
        (T("OPEN SYMMETRIC KEY") & Id("key_name") & T("DECRYPTION BY")
         & N("decryption_mechanism"))
        | (T("OPEN MASTER KEY DECRYPTION BY PASSWORD =") & Str("password")),
    close_key |-> Close_keyContext ::=
        (T("CLOSE SYMMETRIC KEY") & Id("key_name")) | T("CLOSE ALL SYMMETRIC KEYS")
        | T("CLOSE MASTER KEY"),
    create_key |-> Create_keyContext ::=
        (T("CREATE MASTER KEY ENCRYPTION BY PASSWORD =") & Str("password"))
        | (T("CREATE SYMMETRIC KEY") & Id("key_name") & (T("AUTHORIZATION") & Id("user_name"))^#
           & (T("FROM PROVIDER") & Id("provider_name"))^# & T("WITH")
           & ((N("key_options") | (T("ENCRYPTION BY") & N("encryption_mechanism")))
              & T(",")^#)^+),
    key_options |-> Key_optionsContext ::=
        (T("KEY_SOURCE =") & Str("pass_phrase"))
        | (T("ALGORITHM =") & N("algorithm"))
        | (T("IDENTITY_VALUE =") & Str("identity_phrase"))
        | (T("PROVIDER_KEY_NAME =") & Str("key_name_in_provider"))
        | (T("CREATION_DISPOSITION =") & OneOf({"CREATE_NEW", "OPEN_EXISTING"})),
    encryption_mechanism |-> Encryption_mechanismContext ::=
        (T("CERTIFICATE") & Id("certificate_name"))
        | (T("ASYMMETRIC KEY") & Id("asym_key_name"))
        | (T("SYMMETRIC KEY") & Id("decrypting_Key_name"))
        | (T("PASSWORD =") & T("STRING")),
    decryption_mechanism |-> Decryption_mechanismContext ::=
        (T("CERTIFICATE") & Id("certificate_name") & (T("WITH PASSWORD =") & T("STRING"))^#)
        | (T("ASYMMETRIC KEY") & Id("asym_key_name") & (T("WITH PASSWORD =") & T("STRING"))^#)
        | (T("SYMMETRIC KEY") & Id("decrypting_Key_name"))
        | (T("PASSWORD =") & T("STRING"))]

Set_statementContext ==
    Named({"LOCAL_ID", "expression", "id_", "assignment_operator", "declare_set_cursor_common",
           "column_name_list", "set_special"}, {}, Of("id_", {"member_name"}))
Transaction_statementContext == Plain({"id_", "LOCAL_ID", "STRING"}, {})
Go_statementContext == Named({"DECIMAL"}, {}, Of("Token", {"count"}))
Use_statementContext == Named({"id_"}, {}, Of("id_", {"database"}))
Setuser_statementContext == Named({"STRING"}, {}, Of("Token", {"user"}))
Checkpoint_statementContext == Named({"DECIMAL"}, {}, Of("Token", {"checkPointDuration"}))

SessionRules == [
    set_statement |-> Set_statementContext ::=
        (T("SET") & T("LOCAL_ID") & (T(".") & Id("member_name"))^# & T("=") & N("expression"))
        | (T("SET") & T("LOCAL_ID") & N("assignment_operator") & N("expression"))
        | (T("SET") & T("LOCAL_ID") & T("= CURSOR") & N("declare_set_cursor_common")
           & (T("FOR")
              & (T("READ ONLY") | (T("UPDATE") & (T("OF") & N("column_name_list"))^#)))^#)
        | N("set_special"),
    transaction_statement |-> Transaction_statementContext ::=
        (T("BEGIN DISTRIBUTED") & OneOf({"TRAN", "TRANSACTION"}) & (N("id_") | T("LOCAL_ID"))^#)
        | (T("BEGIN") & OneOf({"TRAN", "TRANSACTION"})
           & ((N("id_") | T("LOCAL_ID")) & (T("WITH MARK") & T("STRING"))^#)^#)
        | (T("COMMIT") & OneOf({"TRAN", "TRANSACTION"})
           & ((N("id_") | T("LOCAL_ID"))
              & (T("WITH ( DELAYED_DURABILITY =") & OneOf({"OFF", "ON"}) & T(")"))^#)^#)
        | (T("COMMIT") & T("WORK")^#)
        | (T("COMMIT") & N("id_"))
        | (T("ROLLBACK") & N("id_"))
        | (T("ROLLBACK") & OneOf({"TRAN", "TRANSACTION"}) & (N("id_") | T("LOCAL_ID"))^#)
        | (T("ROLLBACK") & T("WORK")^#)
        | (T("SAVE") & OneOf({"TRAN", "TRANSACTION"}) & (N("id_") | T("LOCAL_ID"))^#),
    go_statement |-> Go_statementContext ::= T("GO") & Num("count")^#,
    use_statement |-> Use_statementContext ::= T("USE") & Id("database"),
    setuser_statement |-> Setuser_statementContext ::= T("SETUSER") & Str("user")^#,
    checkpoint_statement |-> Checkpoint_statementContext ::=
        T("CHECKPOINT") & Num("checkPointDuration")^#]

Dbcc_checkallocContext ==
    Named({"DECIMAL", "id_", "STRING"}, {"dbcc_checkalloc_option"},
          Of("Token", {"name", "databaseid"}) @@ Of("id_", {"database"})
          @@ Of("dbcc_checkalloc_option", {"dbcc_option"}))
Dbcc_checkcatalogContext ==
    Named({"DECIMAL", "id_", "STRING"}, {},
          Of("Token", {"name", "databasename", "dbcc_option"}) @@ Of("id_", {"database"}))
Dbcc_checkconstraintsContext ==
    Named({"id_", "STRING"}, {"dbcc_checkconstraints_option"},
          Of("Token", {"name", "table_or_constraint_name"}) @@ Of("id_", {"table_or_constraint"})
          @@ Of("dbcc_checkconstraints_option", {"dbcc_option"}))
Dbcc_checkdb_table_optionContext ==
    Named({"DECIMAL"}, {}, Of("Token", {"max_dregree_of_parallelism"}))
Dbcc_checkdbContext ==
    Named({"DECIMAL", "id_", "STRING"}, {"dbcc_checkdb_table_option"},
          Of("Token", {"name", "databasename"}) @@ Of("id_", {"database"})
          @@ Of("dbcc_checkdb_table_option", {"dbcc_option"}))
Dbcc_checkfilegroup_optionContext ==
    Named({"DECIMAL"}, {}, Of("Token", {"max_dregree_of_parallelism"}))
Dbcc_checkfilegroupContext ==
    Named({"DECIMAL", "STRING"}, {"dbcc_checkfilegroup_option"},
          Of("Token", {"name", "filegroup_id", "filegroup_name"})
          @@ Of("dbcc_checkfilegroup_option", {"dbcc_option"}))
Dbcc_checktableContext ==
    Named({"STRING", "expression"}, {"dbcc_checkdb_table_option"},
          Of("Token", {"name", "table_or_view_name"}) @@ Of("expression", {"index_id"})
          @@ Of("dbcc_checkdb_table_option", {"dbcc_option"}))
Dbcc_cleantableContext ==
    Named({}, {"DECIMAL", "id_", "STRING"},
          Of("Token", {"name", "databasename", "table_or_view_name", "batch_size",
                       "dbcc_option"})
          @@ Of("id_", {"database", "table_or_view"}))
Dbcc_clonedatabaseContext ==
    Named({}, {"id_", "dbcc_clonedatabase_option"},
          Of("Token", {"name"}) @@ Of("id_", {"source_database", "target_database"})
          @@ Of("dbcc_clonedatabase_option", {"dbcc_option"}))
Dbcc_pdw_showspaceusedContext ==
    Named({"id_"}, {}, Of("Token", {"name", "dbcc_option"}) @@ Of("id_", {"tablename"}))
Dbcc_proccacheContext == Named({}, {}, Of("Token", {"name", "dbcc_option"}))
Dbcc_showcontigContext ==
    Named({}, {"expression", "dbcc_showcontig_option"},
          Of("Token", {"name"}) @@ Of("expression", {"table_or_view", "index"})
          @@ Of("dbcc_showcontig_option", {"dbcc_option"}))
Dbcc_shrinklogContext == Named({"DECIMAL"}, {}, Of("Token", {"name", "dbcc_option"}))
Dbcc_dbreindexContext ==
    Named({"expression"}, {"id_or_string"},
          Of("Token", {"name", "dbcc_option"}) @@ Of("id_or_string", {"table", "index_name"})
          @@ Of("expression", {"fillfactor"}))
Dbcc_dll_freeContext ==
    Named({"id_"}, {}, Of("id_", {"dllname"}) @@ Of("Token", {"name", "dbcc_option"}))
Dbcc_dropcleanbuffersContext == Named({}, {}, Of("Token", {"name", "dbcc_option"}))
Dbcc_clauseContext ==
    Plain({"dbcc_checkalloc", "dbcc_checkcatalog", "dbcc_checkconstraints", "dbcc_checkdb",
           "dbcc_checkfilegroup", "dbcc_checktable", "dbcc_cleantable", "dbcc_clonedatabase",
           "dbcc_dbreindex", "dbcc_dll_free", "dbcc_dropcleanbuffers", "dbcc_pdw_showspaceused",
           "dbcc_proccache", "dbcc_showcontig", "dbcc_shrinklog"}, {})

DbccRules == [
    dbcc_checkalloc |-> Dbcc_checkallocContext ::=
        L("name", T("CHECKALLOC"))
        & (T("(") & (Id("database") | Str("databaseid") | T("DECIMAL"))
           & (T(", NOINDEX")
              | (T(",") & OneOf({"REPAIR_ALLOW_DATA_LOSS", "REPAIR_FAST", "REPAIR_REBUILD"})))^#
           & T(")") & (T("WITH") & List(L("dbcc_option", N("dbcc_checkalloc_option"))))^#)^#,
    dbcc_checkcatalog |-> Dbcc_checkcatalogContext ::=
        L("name", T("CHECKCATALOG"))
        & (T("(") & (Id("database") | Str("databasename") | T("DECIMAL")) & T(")"))^#
        & (T("WITH") & L("dbcc_option", T("NO_INFOMSGS")))^#,
    dbcc_checkconstraints |-> Dbcc_checkconstraintsContext ::=
        L("name", T("CHECKCONSTRAINTS"))
        & (T("(") & (Id("table_or_constraint") | Str("table_or_constraint_name")) & T(")"))^#
        & (T("WITH") & List(L("dbcc_option", N("dbcc_checkconstraints_option"))))^#,
    dbcc_checkdb_table_option |-> Dbcc_checkdb_table_optionContext ::=
        T("ALL_ERRORMSGS") | T("EXTENDED_LOGICAL_CHECKS") | T("NO_INFOMSGS") | T("TABLOCK")
        | T("ESTIMATEONLY") | T("PHYSICAL_ONLY") | T("DATA_PURITY")
        | (T("MAXDOP =") & Num("max_dregree_of_parallelism")),
    dbcc_checkdb |-> Dbcc_checkdbContext ::=
        L("name", T("CHECKDB"))
        & (T("(") & (Id("database") | Str("databasename") | T("DECIMAL"))
           & (T(",")
              & OneOf({"NOINDEX", "REPAIR_ALLOW_DATA_LOSS", "REPAIR_FAST", "REPAIR_REBUILD"}))^#
           & T(")"))^#
        & (T("WITH") & List(L("dbcc_option", N("dbcc_checkdb_table_option"))))^#,
    dbcc_checkfilegroup_option |-> Dbcc_checkfilegroup_optionContext ::=
        T("ALL_ERRORMSGS") | T("NO_INFOMSGS") | T("TABLOCK") | T("ESTIMATEONLY")
        | T("PHYSICAL_ONLY")
        | (T("MAXDOP =") & Num("max_dregree_of_parallelism")),
    dbcc_checkfilegroup |-> Dbcc_checkfilegroupContext ::=
        L("name", T("CHECKFILEGROUP"))
        & (T("(") & (Num("filegroup_id") | Str("filegroup_name"))
           & (T(",")
              & OneOf({"NOINDEX", "REPAIR_ALLOW_DATA_LOSS", "REPAIR_FAST", "REPAIR_REBUILD"}))^#
           & T(")"))^#
        & (T("WITH") & List(L("dbcc_option", N("dbcc_checkfilegroup_option"))))^#,
    dbcc_checktable |-> Dbcc_checktableContext ::=
        L("name", T("CHECKTABLE")) & T("(") & Str("table_or_view_name")
        & (T(",")
           & (T("NOINDEX") | Expr("index_id") | T("REPAIR_ALLOW_DATA_LOSS") | T("REPAIR_FAST")
              | T("REPAIR_REBUILD")))^#
        & T(")") & (T("WITH") & List(L("dbcc_option", N("dbcc_checkdb_table_option"))))^#,
    dbcc_cleantable |-> Dbcc_cleantableContext ::=
        L("name", T("CLEANTABLE")) & T("(")
        & (Id("database") | Str("databasename") | T("DECIMAL")) & T(",")
        & (Id("table_or_view") | Str("table_or_view_name")) & (T(",") & Num("batch_size"))^#
        & T(")") & (T("WITH") & L("dbcc_option", T("NO_INFOMSGS")))^#,
    dbcc_clonedatabase |-> Dbcc_clonedatabaseContext ::=
        L("name", T("CLONEDATABASE")) & T("(") & Id("source_database") & T(",")
        & Id("target_database") & T(")")
        & (T("WITH") & List(L("dbcc_option", N("dbcc_clonedatabase_option"))))^#,
    dbcc_pdw_showspaceused |-> Dbcc_pdw_showspaceusedContext ::=
        L("name", T("PDW_SHOWSPACEUSED")) & (T("(") & Id("tablename") & T(")"))^#
        & (T("WITH") & L("dbcc_option", T("IGNORE_REPLICATED_TABLE_CACHE")))^#,
    dbcc_proccache |-> Dbcc_proccacheContext ::=
        L("name", T("PROCCACHE")) & (T("WITH") & L("dbcc_option", T("NO_INFOMSGS")))^#,
    dbcc_showcontig |-> Dbcc_showcontigContext ::=
        L("name", T("SHOWCONTIG"))
        & (T("(") & Expr("table_or_view") & (T(",") & Expr("index"))^# & T(")"))^#
        & (T("WITH") & L("dbcc_option", N("dbcc_showcontig_option"))
           & (T(",") & N("dbcc_showcontig_option"))^*)^#,
    dbcc_shrinklog |-> Dbcc_shrinklogContext ::=
        L("name", T("SHRINKLOG"))
        & (T("( SIZE =") & ((T("DECIMAL") & OneOf({"MB", "GB", "TB"})) | T("DEFAULT"))
           & T(")"))^#
        & (T("WITH") & L("dbcc_option", T("NO_INFOMSGS")))^#,
    dbcc_dbreindex |-> Dbcc_dbreindexContext ::=
        L("name", T("DBREINDEX")) & T("(") & L("table", N("id_or_string"))
        & (T(",") & L("index_name", N("id_or_string")) & (T(",") & Expr("fillfactor"))^#)^#
        & T(")") & (T("WITH") & L("dbcc_option", T("NO_INFOMSGS")))^#,
    dbcc_dll_free |-> Dbcc_dll_freeContext ::=
        Id("dllname") & T("(") & L("name", T("FREE")) & T(")")
        & (T("WITH") & L("dbcc_option", T("NO_INFOMSGS")))^#,
    dbcc_dropcleanbuffers |-> Dbcc_dropcleanbuffersContext ::=
        L("name", T("DROPCLEANBUFFERS")) & OneOf({"( COMPUTE", "ALL )"})^#
        & (T("WITH") & L("dbcc_option", T("NO_INFOMSGS")))^#,
    dbcc_clause |-> Dbcc_clauseContext ::=
        T("DBCC")
        & Choice(<<N("dbcc_checkalloc"), N("dbcc_checkcatalog"), N("dbcc_checkconstraints"),
                   N("dbcc_checkdb"), N("dbcc_checkfilegroup"), N("dbcc_checktable"),
                   N("dbcc_cleantable"), N("dbcc_clonedatabase"), N("dbcc_dbreindex"),
                   N("dbcc_dll_free"), N("dbcc_dropcleanbuffers"), N("dbcc_pdw_showspaceused"),
                   N("dbcc_proccache"), N("dbcc_showcontig"), N("dbcc_shrinklog")>>)]
=============================================================================
