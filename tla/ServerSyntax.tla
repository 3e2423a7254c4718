---------------------------- MODULE ServerSyntax ----------------------------
(***************************************************************************)
(* Credentials, endpoints, logins, audits, schemas, services, users and    *)
(* queues. Rules in the order of TSqlParser.g4, each with its class of     *)
(* TSqlParser.h.                                                           *)
(***************************************************************************)
EXTENDS RuleNotation

Create_column_master_keyContext ==
    Named({"id_"}, {"STRING"},
          Of("id_", {"key_name"}) @@ Of("Token", {"key_store_provider_name", "key_path"}))
Alter_credentialContext ==
    Named({"id_"}, {"STRING"},
          Of("id_", {"credential_name"}) @@ Of("Token", {"identity_name", "secret"}))
Create_credentialContext ==
    Named({}, {"id_", "STRING"},
          Of("id_", {"credential_name", "cryptographic_provider_name"})
          @@ Of("Token", {"identity_name", "secret"}))
Alter_cryptographic_providerContext ==
    Named({"id_", "STRING"}, {},
          Of("id_", {"provider_name"}) @@ Of("Token", {"crypto_provider_ddl_file"}))
Create_cryptographic_providerContext ==
    Named({"id_", "STRING"}, {}, Of("id_", {"provider_name"}) @@ Of("Token", {"path_of_DLL"}))

CredentialRules == [
    create_column_master_key |-> Create_column_master_keyContext ::=
        T("CREATE COLUMN MASTER KEY") & Id("key_name") & T("WITH ( KEY_STORE_PROVIDER_NAME =")
        & Str("key_store_provider_name") & T(", KEY_PATH =") & Str("key_path") & T(")"),
    alter_credential |-> Alter_credentialContext ::=
        T("ALTER CREDENTIAL") & Id("credential_name") & T("WITH IDENTITY =")
        & Str("identity_name") & (T(", SECRET =") & Str("secret"))^#,
    create_credential |-> Create_credentialContext ::=
        T("CREATE CREDENTIAL") & Id("credential_name") & T("WITH IDENTITY =")
        & Str("identity_name") & (T(", SECRET =") & Str("secret"))^#
        & (T("FOR CRYPTOGRAPHIC PROVIDER") & Id("cryptographic_provider_name"))^#,
    alter_cryptographic_provider |-> Alter_cryptographic_providerContext ::=
        T("ALTER CRYPTOGRAPHIC PROVIDER") & Id("provider_name")
        & (T("FROM FILE =") & Str("crypto_provider_ddl_file"))^#
        & OneOf({"ENABLE", "DISABLE"})^#,
    create_cryptographic_provider |-> Create_cryptographic_providerContext ::=
        T("CREATE CRYPTOGRAPHIC PROVIDER") & Id("provider_name") & T("FROM FILE =")
        & Str("path_of_DLL")]

Create_endpointContext ==
    Named({"endpoint_listener_clause", "endpoint_authentication_clause",
           "endpoint_encryption_alogorithm_clause", "DECIMAL"}, {"id_"},
          Of("id_", {"endpointname", "login"}) @@ Of("Token", {"state"}))
Endpoint_authentication_clauseContext == Named({"id_"}, {}, Of("id_", {"cert_name"}))
Endpoint_listener_clauseContext ==
    Named({"DECIMAL", "IPV4_ADDR", "STRING"}, {}, Of("Token", {"port", "ipv4", "ipv6"}))
Create_event_notificationContext ==
    Named({}, {"id_", "STRING"},
          Of("id_", {"event_notification_name", "queue_name", "event_type_or_group"})
          @@ Of("Token", {"broker_service", "broker_service_specifier_or_current_database"}))
Create_or_alter_event_sessionContext ==
    Named({}, {"id_", "DECIMAL", "event_session_predicate_expression", "STRING"},
          Of("id_", {"event_session_name", "event_module_guid", "event_package_name",
                     "event_name", "event_customizable_attributue", "action_name",
                     "target_name", "target_parameter_name"})
          @@ Of("Token", {"max_memory", "max_dispatch_latency_seconds", "max_event_size"}))
Event_session_predicate_expressionContext ==
    Plain({}, {"event_session_predicate_factor", "event_session_predicate_expression"})
Event_session_predicate_factorContext ==
    Plain({"event_session_predicate_leaf", "event_session_predicate_expression"}, {})
Event_session_predicate_leafContext ==
    Named({"DECIMAL", "STRING"}, {"id_"},
          Of("id_", {"event_field_name", "event_module_guid", "event_package_name",
                     "predicate_source_name", "predicate_compare_name"}))

EndpointRules == [
    create_endpoint |-> Create_endpointContext ::=
        T("CREATE ENDPOINT") & Id("endpointname") & (T("AUTHORIZATION") & Id("login"))^#
        & (T("STATE =") & L("state", OneOf({"STARTED", "STOPPED", "DISABLED"})))^#
        & T("AS TCP (") & N("endpoint_listener_clause") & T(")")
        & (T("FOR TSQL ( )")
           | (T("FOR SERVICE_BROKER (") & N("endpoint_authentication_clause")
              & (T(",")^# & N("endpoint_encryption_alogorithm_clause"))^#
              & (T(",")^# & T("MESSAGE_FORWARDING =") & OneOf({"ENABLED", "DISABLED"}))^#
              & (T(",")^# & T("MESSAGE_FORWARD_SIZE =") & T("DECIMAL"))^# & T(")"))
           | (T("FOR DATABASE_MIRRORING (") & N("endpoint_authentication_clause")
              & (T(",")^# & N("endpoint_encryption_alogorithm_clause"))^# & T(",")^#
              & T("ROLE =") & OneOf({"WITNESS", "PARTNER", "ALL"}) & T(")"))),
    endpoint_authentication_clause |-> Endpoint_authentication_clauseContext ::=
        T("AUTHENTICATION =")
        & ((T("WINDOWS") & OneOf({"NTLM", "KERBEROS", "NEGOTIATE"})^#
            & (T("CERTIFICATE") & Id("cert_name"))^#)
           | (T("CERTIFICATE") & Id("cert_name") & T("WINDOWS")^#
              & OneOf({"NTLM", "KERBEROS", "NEGOTIATE"})^#)),
    endpoint_listener_clause |-> Endpoint_listener_clauseContext ::=
        T("LISTENER_PORT =") & Num("port")
        & (T(", LISTENER_IP =")
           & (T("ALL") | (T("(") & (L("ipv4", T("IPV4_ADDR")) | Str("ipv6")) & T(")"))))^#,
    create_event_notification |-> Create_event_notificationContext ::=
        T("CREATE EVENT NOTIFICATION") & Id("event_notification_name") & T("ON")
        & (T("SERVER") | T("DATABASE") | (T("QUEUE") & Id("queue_name"))) & T("WITH FAN_IN")^#
        & T("FOR") & (T(",")^# & Id("event_type_or_group"))^+ & T("TO SERVICE")
        & Str("broker_service") & T(",") & Str("broker_service_specifier_or_current_database"),
    create_or_alter_event_session |-> Create_or_alter_event_sessionContext ::=
        OneOf({"CREATE", "ALTER"}) & T("EVENT SESSION") & Id("event_session_name")
        & T("ON SERVER")
        & (T(",")^# & T("ADD EVENT") & (Id("event_module_guid") & T("."))^#
           & Id("event_package_name") & T(".") & Id("event_name")
           & (T("(")
              & (T("SET")
                 & (T(",")^# & Id("event_customizable_attributue") & T("=")
                    & OneOf({"DECIMAL", "STRING"}))^*)^#
              & (T("ACTION (")
                 & (T(",")^# & (Id("event_module_guid") & T("."))^# & Id("event_package_name")
                    & T(".") & Id("action_name"))^+
                 & T(")"))^+
              & (T("WHERE") & N("event_session_predicate_expression"))^# & T(")"))^*)^*
        & (T(",")^# & T("DROP EVENT") & (Id("event_module_guid") & T("."))^#
           & Id("event_package_name") & T(".") & Id("event_name"))^*
        & (T("ADD TARGET") & (Id("event_module_guid") & T("."))^# & Id("event_package_name")
           & T(".") & Id("target_name")
           & (T("( SET")
              & (T(",")^# & Id("target_parameter_name") & T("=")
                 & ((T("(")^# & T("DECIMAL") & T(")")^#) | T("STRING")))^+
              & T(")"))^*)^*
        & (T("DROP TARGET") & (Id("event_module_guid") & T("."))^# & Id("event_package_name")
           & T(".") & Id("target_name"))^*
        & (T("WITH (")
           & (T(",")^# & T("MAX_MEMORY =") & Num("max_memory") & OneOf({"KB", "MB"}))^#
           & (T(",")^# & T("EVENT_RETENTION_MODE =")
              & OneOf({"ALLOW_SINGLE_EVENT_LOSS", "ALLOW_MULTIPLE_EVENT_LOSS", "NO_EVENT_LOSS"}))^#
           & (T(",")^# & T("MAX_DISPATCH_LATENCY =")
              & ((Num("max_dispatch_latency_seconds") & T("SECONDS")) | T("INFINITE")))^#
           & (T(",")^# & T("MAX_EVENT_SIZE =") & Num("max_event_size") & OneOf({"KB", "MB"}))^#
           & (T(",")^# & T("MEMORY_PARTITION_MODE =")
              & OneOf({"NONE", "PER_NODE", "PER_CPU"}))^#
           & (T(",")^# & T("TRACK_CAUSALITY =") & OneOf({"ON", "OFF"}))^#
           & (T(",")^# & T("STARTUP_STATE =") & OneOf({"ON", "OFF"}))^# & T(")"))^#
        & (T("STATE =") & OneOf({"START", "STOP"}))^#,
    event_session_predicate_expression |-> Event_session_predicate_expressionContext ::=
        (T(",")^# & OneOf({"AND", "OR"})^# & T("NOT")^#
         & (N("event_session_predicate_factor")
            | (T("(") & N("event_session_predicate_expression") & T(")"))))^+,
    event_session_predicate_factor |-> Event_session_predicate_factorContext ::=
        N("event_session_predicate_leaf")
        | (T("(") & N("event_session_predicate_expression") & T(")")),
    event_session_predicate_leaf |-> Event_session_predicate_leafContext ::=
        (Id("event_field_name")
         | ((Id("event_field_name")
             | ((Id("event_module_guid") & T("."))^# & Id("event_package_name") & T(".")
                & Id("predicate_source_name")))
            & OneOf({"=", "< >", "! =", ">", "> =", "<", "< ="})
            & OneOf({"DECIMAL", "STRING"})))
        | ((Id("event_module_guid") & T("."))^# & Id("event_package_name") & T(".")
           & Id("predicate_compare_name") & T("(")
           & (Id("event_field_name")
              | ((Id("event_module_guid") & T("."))^# & Id("event_package_name") & T(".")
                 & Id("predicate_source_name") & T(",") & OneOf({"DECIMAL", "STRING"})))
           & T(")"))]

Alter_external_data_sourceContext ==
    Named({}, {"id_", "STRING"},
          Of("id_", {"data_source_name", "credential_name"})
          @@ Of("Token", {"location", "resource_manager_location"}))
Alter_external_libraryContext ==
    Named({"BINARY", "STRING"}, {"id_"},
          Of("id_", {"library_name", "owner_name", "external_data_source_name"})
          @@ Of("Token", {"client_library"}))
Create_external_libraryContext ==
    Named({"BINARY", "STRING"}, {"id_"},
          Of("id_", {"library_name", "owner_name", "external_data_source_name"})
          @@ Of("Token", {"client_library"}))
Alter_external_resource_poolContext ==
    Named({"id_"}, {"DECIMAL"},
          Of("id_", {"pool_name"})
          @@ Of("Token", {"max_cpu_percent", "max_memory_percent", "max_processes"}))
Create_external_resource_poolContext ==
    Named({"id_"}, {"DECIMAL"},
          Of("id_", {"pool_name"})
          @@ Of("Token", {"max_cpu_percent", "max_memory_percent", "max_processes"}))
Alter_fulltext_catalogContext == Named({"id_"}, {}, Of("id_", {"catalog_name"}))
Create_fulltext_catalogContext ==
    Named({"STRING"}, {"id_"},
          Of("id_", {"catalog_name", "filegroup", "owner_name"}) @@ Of("Token", {"rootpath"}))
Alter_fulltext_stoplistContext ==
    Named({"id_", "DECIMAL", "BINARY"}, {"STRING"},
          Of("id_", {"stoplist_name"}) @@ Of("Token", {"stopword"}))
Create_fulltext_stoplistContext ==
    Named({}, {"id_"},
          Of("id_", {"stoplist_name", "database_name", "source_stoplist_name", "owner_name"}))

ExternalRules == [
    alter_external_data_source |-> Alter_external_data_sourceContext ::=
        (T("ALTER EXTERNAL DATA SOURCE") & Id("data_source_name") & T("SET")
         & ((T("LOCATION =") & Str("location") & T(",")^#)
            | (T("RESOURCE_MANAGER_LOCATION =") & Str("resource_manager_location") & T(",")^#)
            | (T("CREDENTIAL =") & Id("credential_name")))^+)
        | (T("ALTER EXTERNAL DATA SOURCE") & Id("data_source_name")
           & T("WITH ( TYPE = BLOB_STORAGE , LOCATION =") & Str("location")
           & (T(", CREDENTIAL =") & Id("credential_name"))^# & T(")")),
    alter_external_library |-> Alter_external_libraryContext ::=
        T("ALTER EXTERNAL LIBRARY") & Id("library_name")
        & (T("AUTHORIZATION") & Id("owner_name"))^# & OneOf({"SET", "ADD"}) & T("( CONTENT =")
        & (Str("client_library") | T("BINARY") | T("NONE")) & T(", PLATFORM =")
        & OneOf({"WINDOWS", "LINUX"})^# & T(") WITH")
        & ((T(",")^# & T("LANGUAGE =") & OneOf({"R", "PYTHON"}))
           | (T("DATA_SOURCE =") & Id("external_data_source_name")))^+
        & T(")"),
    create_external_library |-> Create_external_libraryContext ::=
        T("CREATE EXTERNAL LIBRARY") & Id("library_name")
        & (T("AUTHORIZATION") & Id("owner_name"))^# & T("FROM") & T(",")^# & T("(")^#
        & T("CONTENT =")^# & (Str("client_library") | T("BINARY") | T("NONE"))
        & (T(", PLATFORM =") & OneOf({"WINDOWS", "LINUX"})^# & T(")"))^#
        & (T("WITH")
           & ((T(",")^# & T("LANGUAGE =") & OneOf({"R", "PYTHON"}))
              | (T("DATA_SOURCE =") & Id("external_data_source_name")))^+
           & T(")"))^#,
    alter_external_resource_pool |-> Alter_external_resource_poolContext ::=
        T("ALTER EXTERNAL RESOURCE POOL") & (Id("pool_name") | T("DEFAULT_DOUBLE_QUOTE"))
        & T("WITH ( MAX_CPU_PERCENT =") & Num("max_cpu_percent")
        & ((T(",")^# & T("AFFINITY CPU =")
            & (T("AUTO")
               | ((T(",")^# & T("DECIMAL") & T("TO") & T("DECIMAL"))
                  | (T(",") & T("DECIMAL")))^+))
           | (T("NUMANODE =")
              & ((T(",")^# & T("DECIMAL") & T("TO") & T("DECIMAL"))
                 | (T(",")^# & T("DECIMAL")))^+))
        & (T(",")^# & T("MAX_MEMORY_PERCENT =") & Num("max_memory_percent"))^#
        & (T(",")^# & T("MAX_PROCESSES =") & Num("max_processes"))^# & T(")"),
    create_external_resource_pool |-> Create_external_resource_poolContext ::=
        T("CREATE EXTERNAL RESOURCE POOL") & Id("pool_name") & T("WITH ( MAX_CPU_PERCENT =")
        & Num("max_cpu_percent")
        & ((T(",")^# & T("AFFINITY CPU =")
            & (T("AUTO")
               | ((T(",")^# & T("DECIMAL") & T("TO") & T("DECIMAL"))
                  | (T(",") & T("DECIMAL")))^+))
           | (T("NUMANODE =")
              & ((T(",")^# & T("DECIMAL") & T("TO") & T("DECIMAL"))
                 | (T(",")^# & T("DECIMAL")))^+))
        & (T(",")^# & T("MAX_MEMORY_PERCENT =") & Num("max_memory_percent"))^#
        & (T(",")^# & T("MAX_PROCESSES =") & Num("max_processes"))^# & T(")"),
    alter_fulltext_catalog |-> Alter_fulltext_catalogContext ::=
        T("ALTER FULLTEXT CATALOG") & Id("catalog_name")
        & ((T("REBUILD") & (T("WITH ACCENT_SENSITIVITY =") & OneOf({"ON", "OFF"}))^#)
           | T("REORGANIZE") | T("AS DEFAULT")),
    create_fulltext_catalog |-> Create_fulltext_catalogContext ::=
        T("CREATE FULLTEXT CATALOG") & Id("catalog_name")
        & (T("ON FILEGROUP") & Id("filegroup"))^# & (T("IN PATH") & Str("rootpath"))^#
        & (T("WITH ACCENT_SENSITIVITY =") & OneOf({"ON", "OFF"}))^# & T("AS DEFAULT")^#
        & (T("AUTHORIZATION") & Id("owner_name"))^#,
    alter_fulltext_stoplist |-> Alter_fulltext_stoplistContext ::=
        T("ALTER FULLTEXT STOPLIST") & Id("stoplist_name")
        & ((T("ADD") & Str("stopword") & T("LANGUAGE") & OneOf({"STRING", "DECIMAL", "BINARY"}))
           | (T("DROP")
              & ((Str("stopword") & T("LANGUAGE") & OneOf({"STRING", "DECIMAL", "BINARY"}))
                 | (T("ALL") & OneOf({"STRING", "DECIMAL", "BINARY"})) | T("ALL")))),
    create_fulltext_stoplist |-> Create_fulltext_stoplistContext ::=
        T("CREATE FULLTEXT STOPLIST") & Id("stoplist_name")
        & (T("FROM")
           & (((Id("database_name") & T("."))^# & Id("source_stoplist_name"))
              | T("SYSTEM STOPLIST")))^#
        & (T("AUTHORIZATION") & Id("owner_name"))^#]

Alter_login_sql_serverContext ==
    Named({"BINARY"}, {"id_", "STRING"},
          Of("id_", {"login_name", "default_database", "default_laguage", "credential_name"})
          @@ Of("Token", {"password", "password_hash", "old_password"}))
Create_login_sql_serverContext ==
    Named({"STRING"}, {"id_", "BINARY"},
          Of("id_", {"login_name", "default_database", "default_laguage", "credential_name",
                     "certname", "asym_key_name"})
          @@ Of("Token", {"password", "password_hash", "sid", "default_language"}))
Alter_login_azure_sqlContext ==
    Named({}, {"id_", "STRING"},
          Of("id_", {"login_name"}) @@ Of("Token", {"password", "old_password"}))
Create_login_azure_sqlContext ==
    Named({"STRING", "id_", "BINARY"}, {}, Of("id_", {"login_name"}) @@ Of("Token", {"sid"}))
Alter_login_azure_sql_dw_and_pdwContext ==
    Named({}, {"id_", "STRING"},
          Of("id_", {"login_name"}) @@ Of("Token", {"password", "old_password"}))
Create_login_pdwContext ==
    Named({"id_", "STRING"}, {}, Of("id_", {"loginName"}) @@ Of("Token", {"password"}))
Alter_master_key_sql_serverContext ==
    Named({"STRING"}, {}, Of("Token", {"password", "encryption_password"}))
Create_master_key_sql_serverContext == Named({"STRING"}, {}, Of("Token", {"password"}))
Alter_master_key_azure_sqlContext ==
    Named({"STRING"}, {}, Of("Token", {"password", "encryption_password"}))
Create_master_key_azure_sqlContext == Named({"STRING"}, {}, Of("Token", {"password"}))

LoginRules == [
    alter_login_sql_server |-> Alter_login_sql_serverContext ::=
        T("ALTER LOGIN") & Id("login_name")
        & (OneOf({"ENABLE", "DISABLE"})^#
           | (T("WITH")
              & (T("PASSWORD =")
                 & (Str("password") | (L("password_hash", T("BINARY")) & T("HASHED")))
                 & OneOf({"MUST_CHANGE", "UNLOCK"})^*)^#
              & (T("OLD_PASSWORD =") & Str("old_password")
                 & OneOf({"MUST_CHANGE", "UNLOCK"})^*)^#
              & (T("DEFAULT_DATABASE =") & Id("default_database"))^#
              & (T("DEFAULT_LANGUAGE =") & Id("default_laguage"))^#
              & (T("NAME =") & Id("login_name"))^#
              & (T("CHECK_POLICY =") & OneOf({"ON", "OFF"}))^#
              & (T("CHECK_EXPIRATION =") & OneOf({"ON", "OFF"}))^#
              & (T("CREDENTIAL =") & Id("credential_name"))^# & T("NO CREDENTIAL")^#)
           | (OneOf({"ADD", "DROP"}) & T("CREDENTIAL") & Id("credential_name"))),
    create_login_sql_server |-> Create_login_sql_serverContext ::=
        T("CREATE LOGIN") & Id("login_name")
        & ((T("WITH")
            & (T("PASSWORD =")
               & (Str("password") | (L("password_hash", T("BINARY")) & T("HASHED")))
               & OneOf({"MUST_CHANGE", "UNLOCK"})^*)^#
            & (T(",")^# & T("SID =") & L("sid", T("BINARY")))^#
            & (T(",")^# & T("DEFAULT_DATABASE =") & Id("default_database"))^#
            & (T(",")^# & T("DEFAULT_LANGUAGE =") & Id("default_laguage"))^#
            & (T(",")^# & T("CHECK_EXPIRATION =") & OneOf({"ON", "OFF"}))^#
            & (T(",")^# & T("CHECK_POLICY =") & OneOf({"ON", "OFF"}))^#
            & (T(",")^# & T("CREDENTIAL =") & Id("credential_name"))^#)
           | (T("FROM")
              & ((T("WINDOWS WITH")
                  & (T(",")^# & T("DEFAULT_DATABASE =") & Id("default_database"))^#
                  & (T(",")^# & T("DEFAULT_LANGUAGE =") & Str("default_language"))^#)
                 | (T("CERTIFICATE") & Id("certname"))
                 | (T("ASYMMETRIC KEY") & Id("asym_key_name"))))),
    alter_login_azure_sql |-> Alter_login_azure_sqlContext ::=
        T("ALTER LOGIN") & Id("login_name")
        & (OneOf({"ENABLE", "DISABLE"})^#
           | (T("WITH")
              & ((T("PASSWORD =") & Str("password")
                  & (T("OLD_PASSWORD =") & Str("old_password"))^#)
                 | (T("NAME =") & Id("login_name"))))),
    create_login_azure_sql |-> Create_login_azure_sqlContext ::=
        T("CREATE LOGIN") & Id("login_name") & T("WITH PASSWORD =") & T("STRING")
        & (T("SID =") & L("sid", T("BINARY")))^#,
    alter_login_azure_sql_dw_and_pdw |-> Alter_login_azure_sql_dw_and_pdwContext ::=
        T("ALTER LOGIN") & Id("login_name")
        & (OneOf({"ENABLE", "DISABLE"})^#
           | (T("WITH")
              & ((T("PASSWORD =") & Str("password")
                  & (T("OLD_PASSWORD =") & Str("old_password")
                     & OneOf({"MUST_CHANGE", "UNLOCK"})^*)^#)
                 | (T("NAME =") & Id("login_name"))))),
    create_login_pdw |-> Create_login_pdwContext ::=
        T("CREATE LOGIN") & Id("loginName")
        & ((T("WITH PASSWORD =") & Str("password") & T("MUST_CHANGE")^#
            & (T("CHECK_POLICY =") & OneOf({"ON", "OFF"})^#)^#)
           | T("FROM WINDOWS")),
    alter_master_key_sql_server |-> Alter_master_key_sql_serverContext ::=
        T("ALTER MASTER KEY")
        & ((T("FORCE")^# & T("REGENERATE WITH ENCRYPTION BY PASSWORD =") & Str("password"))
           | (OneOf({"ADD", "DROP"}) & T("ENCRYPTION BY")
              & (T("SERVICE MASTER KEY") | (T("PASSWORD =") & Str("encryption_password"))))),
    create_master_key_sql_server |-> Create_master_key_sql_serverContext ::=
        T("CREATE MASTER KEY ENCRYPTION BY PASSWORD =") & Str("password"),
    alter_master_key_azure_sql |-> Alter_master_key_azure_sqlContext ::=
        T("ALTER MASTER KEY")
        & ((T("FORCE")^# & T("REGENERATE WITH ENCRYPTION BY PASSWORD =") & Str("password"))
           | (T("ADD ENCRYPTION BY")
              & (T("SERVICE MASTER KEY") | (T("PASSWORD =") & Str("encryption_password"))))
           | (T("DROP ENCRYPTION BY PASSWORD =") & Str("encryption_password"))),
    create_master_key_azure_sql |-> Create_master_key_azure_sqlContext ::=
        T("CREATE MASTER KEY") & (T("ENCRYPTION BY PASSWORD =") & Str("password"))^#]

Alter_message_typeContext ==
    Named({}, {"id_"}, Of("id_", {"message_type_name", "schema_collection_name"}))
Alter_partition_functionContext ==
    Named({"DECIMAL", "id_"}, {}, Of("id_", {"partition_function_name"}))
Alter_partition_schemeContext ==
    Named({}, {"id_"}, Of("id_", {"partition_scheme_name", "file_group_name"}))
Alter_remote_service_bindingContext ==
    Named({}, {"id_"}, Of("id_", {"binding_name", "user_name"}))
Create_remote_service_bindingContext ==
    Named({"STRING"}, {"id_"},
          Of("id_", {"binding_name", "owner_name", "user_name"})
          @@ Of("Token", {"remote_service_name"}))
Create_resource_poolContext == Named({"id_"}, {"DECIMAL"}, Of("id_", {"pool_name"}))
Alter_resource_governorContext ==
    Named({"DECIMAL"}, {"id_"},
          Of("id_", {"schema_name", "function_name"})
          @@ Of("Token", {"max_outstanding_io_per_volume"}))

PartitionRules == [
    alter_message_type |-> Alter_message_typeContext ::=
        T("ALTER MESSAGE TYPE") & Id("message_type_name") & T("VALIDATION =")
        & (T("NONE") | T("EMPTY") | T("WELL_FORMED_XML")
           | (T("VALID_XML WITH SCHEMA COLLECTION") & Id("schema_collection_name"))),
    alter_partition_function |-> Alter_partition_functionContext ::=
        T("ALTER PARTITION FUNCTION") & Id("partition_function_name") & T("( )")
        & OneOf({"SPLIT", "MERGE"}) & T("RANGE (") & T("DECIMAL") & T(")"),
    alter_partition_scheme |-> Alter_partition_schemeContext ::=
        T("ALTER PARTITION SCHEME") & Id("partition_scheme_name") & T("NEXT USED")
        & Id("file_group_name")^#,
    alter_remote_service_binding |-> Alter_remote_service_bindingContext ::=
        T("ALTER REMOTE SERVICE BINDING") & Id("binding_name") & T("WITH")
        & (T("USER =") & Id("user_name"))^# & (T(", ANONYMOUS =") & OneOf({"ON", "OFF"}))^#,
    create_remote_service_binding |-> Create_remote_service_bindingContext ::=
        T("CREATE REMOTE SERVICE BINDING") & Id("binding_name")
        & (T("AUTHORIZATION") & Id("owner_name"))^# & T("TO SERVICE")
        & Str("remote_service_name") & T("WITH") & (T("USER =") & Id("user_name"))^#
        & (T(", ANONYMOUS =") & OneOf({"ON", "OFF"}))^#,
    create_resource_pool |-> Create_resource_poolContext ::=
        T("CREATE RESOURCE POOL") & Id("pool_name")
        & (T("WITH (") & (T(",")^# & T("MIN_CPU_PERCENT =") & T("DECIMAL"))^#
           & (T(",")^# & T("MAX_CPU_PERCENT =") & T("DECIMAL"))^#
           & (T(",")^# & T("CAP_CPU_PERCENT =") & T("DECIMAL"))^#
           & (T(",")^# & T("AFFINITY SCHEDULER =")
              & (T("AUTO")
                 | (T("(")
                    & (T(",")^# & (T("DECIMAL") | (T("DECIMAL") & T("TO") & T("DECIMAL"))))^+
                    & T(")"))
                 | (T("NUMANODE = (")
                    & (T(",")^# & (T("DECIMAL") | (T("DECIMAL") & T("TO") & T("DECIMAL"))))^+
                    & T(")"))))^#
           & (T(",")^# & T("MIN_MEMORY_PERCENT =") & T("DECIMAL"))^#
           & (T(",")^# & T("MAX_MEMORY_PERCENT =") & T("DECIMAL"))^#
           & (T(",")^# & T("MIN_IOPS_PER_VOLUME =") & T("DECIMAL"))^#
           & (T(",")^# & T("MAX_IOPS_PER_VOLUME =") & T("DECIMAL"))^# & T(")"))^#,
    alter_resource_governor |-> Alter_resource_governorContext ::=
        T("ALTER RESOURCE GOVERNOR")
        & (OneOf({"DISABLE", "RECONFIGURE"})
           | (T("WITH ( CLASSIFIER_FUNCTION =")
              & ((Id("schema_name") & T(".") & Id("function_name")) | T("NULL_")) & T(")"))
           | T("RESET STATISTICS")
           | (T("WITH ( MAX_OUTSTANDING_IO_PER_VOLUME =") & Num("max_outstanding_io_per_volume")
              & T(")")))]

Alter_database_audit_specificationContext ==
    Named({}, {"id_", "audit_action_spec_group"},
          Of("id_", {"audit_specification_name", "audit_name"}))
Audit_action_spec_groupContext ==
    Named({"audit_action_specification", "id_"}, {}, Of("id_", {"audit_action_group_name"}))
Audit_action_specificationContext ==
    Plain({"audit_securable", "audit_class_name"}, {"action_specification", "principal_id"})
Audit_securableContext == Plain({}, {"id_"})
Alter_db_roleContext ==
    Named({}, {"id_"}, Of("id_", {"role_name", "database_principal", "new_role_name"}))
Create_database_audit_specificationContext ==
    Named({}, {"id_", "audit_action_spec_group"},
          Of("id_", {"audit_specification_name", "audit_name"}))
Create_db_roleContext == Named({}, {"id_"}, Of("id_", {"role_name", "owner_name"}))

AuditRules == [
    alter_database_audit_specification |-> Alter_database_audit_specificationContext ::=
        T("ALTER DATABASE AUDIT SPECIFICATION") & Id("audit_specification_name")
        & (T("FOR SERVER AUDIT") & Id("audit_name"))^# & List(N("audit_action_spec_group"))^#
        & (T("WITH ( STATE =") & OneOf({"ON", "OFF"}) & T(")"))^#,
    audit_action_spec_group |-> Audit_action_spec_groupContext ::=
        OneOf({"ADD", "DROP"}) & T("(")
        & (N("audit_action_specification") | Id("audit_action_group_name")) & T(")"),
    audit_action_specification |-> Audit_action_specificationContext ::=
        List(N("action_specification")) & T("ON") & (N("audit_class_name") & T("::"))^#
        & N("audit_securable") & T("BY") & List(N("principal_id")),
    audit_securable |-> Audit_securableContext ::=
        ((N("id_") & T("."))^# & N("id_") & T("."))^# & N("id_"),
    alter_db_role |-> Alter_db_roleContext ::=
        T("ALTER ROLE") & Id("role_name")
        & ((OneOf({"ADD", "DROP"}) & T("MEMBER") & Id("database_principal"))
           | (T("WITH NAME =") & Id("new_role_name"))),
    create_database_audit_specification |-> Create_database_audit_specificationContext ::=
        T("CREATE DATABASE AUDIT SPECIFICATION") & Id("audit_specification_name")
        & (T("FOR SERVER AUDIT") & Id("audit_name"))^# & List(N("audit_action_spec_group"))^#
        & (T("WITH ( STATE =") & OneOf({"ON", "OFF"}) & T(")"))^#,
    create_db_role |-> Create_db_roleContext ::=
        T("CREATE ROLE") & Id("role_name") & (T("AUTHORIZATION") & Id("owner_name"))^#]

Create_routeContext ==
    Named({"DECIMAL"}, {"STRING", "id_"},
          Of("id_", {"route_name", "owner_name"})
          @@ Of("Token", {"route_service_name", "broker_instance_identifier"}))
Create_ruleContext ==
    Named({"search_condition"}, {"id_"}, Of("id_", {"schema_name", "rule_name"}))
Alter_schema_sqlContext == Named({}, {"id_"}, Of("id_", {"schema_name"}))
Create_schemaContext ==
    Named({}, {"id_", "create_table", "create_view"},
          Of("id_", {"schema_name", "owner_name", "object_name"}))
Create_schema_azure_sql_dw_and_pdwContext ==
    Named({}, {"id_"}, Of("id_", {"schema_name", "owner_name"}))
Alter_schema_azure_sql_dw_and_pdwContext == Named({"ID"}, {"id_"}, Of("id_", {"schema_name"}))
Create_search_property_listContext ==
    Named({}, {"id_"},
          Of("id_", {"new_list_name", "database_name", "source_list_name", "owner_name"}))
Create_security_policyContext ==
    Named({}, {"id_"},
          Of("id_", {"schema_name", "security_policy_name", "tvf_schema_name",
                     "security_predicate_function_name", "column_name_or_arguments",
                     "table_schema_name", "name"}))
Alter_sequenceContext ==
    Named({}, {"id_", "DECIMAL"},
          Of("id_", {"schema_name", "sequence_name"}) @@ Of("Token", {"sequnce_increment"}))
Create_sequenceContext ==
    Named({"data_type"}, {"id_", "DECIMAL"}, Of("id_", {"schema_name", "sequence_name"}))

SchemaRules == [
    create_route |-> Create_routeContext ::=
        T("CREATE ROUTE") & Id("route_name") & (T("AUTHORIZATION") & Id("owner_name"))^#
        & T("WITH") & (T(",")^# & T("SERVICE_NAME =") & Str("route_service_name"))^#
        & (T(",")^# & T("BROKER_INSTANCE =") & Str("broker_instance_identifier"))^#
        & (T(",")^# & T("LIFETIME =") & T("DECIMAL"))^# & T(",")^# & T("ADDRESS =")
        & T("STRING") & (T(", MIRROR_ADDRESS =") & T("STRING"))^#,
    create_rule |-> Create_ruleContext ::=
        T("CREATE RULE") & (Id("schema_name") & T("."))^# & Id("rule_name") & T("AS")
        & N("search_condition"),
    alter_schema_sql |-> Alter_schema_sqlContext ::=
        T("ALTER SCHEMA") & Id("schema_name") & T("TRANSFER")
        & (OneOf({"OBJECT", "TYPE", "XML SCHEMA COLLECTION"}) & T("::"))^# & N("id_")
        & (T(".") & N("id_"))^#,
    create_schema |-> Create_schemaContext ::=
        T("CREATE SCHEMA")
        & (Id("schema_name")
           | (T("AUTHORIZATION") & Id("owner_name"))
           | (Id("schema_name") & T("AUTHORIZATION") & Id("owner_name")))
        & (N("create_table") | N("create_view")
           | (OneOf({"GRANT", "DENY"}) & OneOf({"SELECT", "INSERT", "DELETE", "UPDATE"})
              & T("ON") & T("SCHEMA ::")^# & Id("object_name") & T("TO") & Id("owner_name"))
           | (T("REVOKE") & OneOf({"SELECT", "INSERT", "DELETE", "UPDATE"}) & T("ON")
              & T("SCHEMA ::")^# & Id("object_name") & T("FROM") & Id("owner_name")))^*,
    create_schema_azure_sql_dw_and_pdw |-> Create_schema_azure_sql_dw_and_pdwContext ::=
        T("CREATE SCHEMA") & Id("schema_name") & (T("AUTHORIZATION") & Id("owner_name"))^#,
    alter_schema_azure_sql_dw_and_pdw |-> Alter_schema_azure_sql_dw_and_pdwContext ::=
        T("ALTER SCHEMA") & Id("schema_name") & T("TRANSFER") & T("OBJECT ::")^# & N("id_")
        & (T(".") & T("ID"))^#,
    create_search_property_list |-> Create_search_property_listContext ::=
        T("CREATE SEARCH PROPERTY LIST") & Id("new_list_name")
        & (T("FROM") & (Id("database_name") & T("."))^# & Id("source_list_name"))^#
        & (T("AUTHORIZATION") & Id("owner_name"))^#,
    create_security_policy |-> Create_security_policyContext ::=
        T("CREATE SECURITY POLICY") & (Id("schema_name") & T("."))^#
        & Id("security_policy_name")
        & (T(",")^# & T("ADD") & OneOf({"FILTER", "BLOCK"})^# & T("PREDICATE")
           & Id("tvf_schema_name") & T(".") & Id("security_predicate_function_name") & T("(")
           & (T(",")^# & Id("column_name_or_arguments"))^+ & T(") ON") & Id("table_schema_name")
           & T(".") & Id("name")
           & ((T(",")^# & T("AFTER") & OneOf({"INSERT", "UPDATE"}))
              | (T(",")^# & T("BEFORE") & OneOf({"UPDATE", "DELETE"})))^*)^+
        & (T("WITH ( STATE =") & OneOf({"ON", "OFF"})
           & (T("SCHEMABINDING") & OneOf({"ON", "OFF"}))^# & T(")"))^#
        & T("NOT FOR REPLICATION")^#,
    alter_sequence |-> Alter_sequenceContext ::=
        T("ALTER SEQUENCE") & (Id("schema_name") & T("."))^# & Id("sequence_name")
        & (T("RESTART") & (T("WITH") & T("DECIMAL"))^#)^#
        & (T("INCREMENT BY") & Num("sequnce_increment"))^#
        & ((T("MINVALUE") & T("DECIMAL")) | T("NO MINVALUE"))^#
        & ((T("MAXVALUE") & T("DECIMAL")) | T("NO MAXVALUE"))^# & OneOf({"CYCLE", "NO CYCLE"})^#
        & ((T("CACHE") & T("DECIMAL")) | T("NO CACHE"))^#,
    create_sequence |-> Create_sequenceContext ::=
        T("CREATE SEQUENCE") & (Id("schema_name") & T("."))^# & Id("sequence_name")
        & (T("AS") & N("data_type"))^# & (T("START WITH") & T("DECIMAL"))^#
        & (T("INCREMENT BY") & T("-")^# & T("DECIMAL"))^#
        & ((T("MINVALUE") & (T("-")^# & T("DECIMAL"))^#) | T("NO MINVALUE"))^#
        & ((T("MAXVALUE") & (T("-")^# & T("DECIMAL"))^#) | T("NO MAXVALUE"))^#
        & OneOf({"CYCLE", "NO CYCLE"})^# & ((T("CACHE") & T("DECIMAL")^#) | T("NO CACHE"))^#]

Alter_server_auditContext ==
    Named({}, {"id_", "DECIMAL", "STRING"},
          Of("id_", {"audit_name", "event_field_name", "new_audit_name"})
          @@ Of("Token", {"filepath", "max_rollover_files", "max_files", "queue_delay"}))
Create_server_auditContext ==
    Named({}, {"id_", "DECIMAL", "STRING"},
          Of("id_", {"audit_name", "audit_guid", "event_field_name", "new_audit_name"})
          @@ Of("Token", {"filepath", "max_rollover_files", "max_files", "queue_delay"}))
Alter_server_audit_specificationContext ==
    Named({}, {"id_"},
          Of("id_", {"audit_specification_name", "audit_name", "audit_action_group_name"}))
Create_server_audit_specificationContext ==
    Named({}, {"id_"},
          Of("id_", {"audit_specification_name", "audit_name", "audit_action_group_name"}))

ServerAuditRules == [
    alter_server_audit |-> Alter_server_auditContext ::=
        T("ALTER SERVER AUDIT") & Id("audit_name")
        & (((T("TO")
             & ((T("FILE (")
                 & ((T(",")^# & T("FILEPATH =") & Str("filepath"))
                    | (T(",")^# & T("MAXSIZE =")
                       & ((T("DECIMAL") & OneOf({"MB", "GB", "TB"})) | T("UNLIMITED")))
                    | (T(",")^# & T("MAX_ROLLOVER_FILES =")
                       & L("max_rollover_files", OneOf({"DECIMAL", "UNLIMITED"})))
                    | (T(",")^# & T("MAX_FILES =") & Num("max_files"))
                    | (T(",")^# & T("RESERVE_DISK_SPACE =") & OneOf({"ON", "OFF"})))^*
                 & T(")"))
                | T("APPLICATION_LOG") | T("SECURITY_LOG")))^#
            & (T("WITH (")
               & ((T(",")^# & T("QUEUE_DELAY =") & Num("queue_delay"))
                  | (T(",")^# & T("ON_FAILURE =")
                     & OneOf({"CONTINUE", "SHUTDOWN", "FAIL_OPERATION"}))
                  | (T(",")^# & T("STATE =") & OneOf({"ON", "OFF"})))^*
               & T(")"))^#
            & (T("WHERE")
               & ((T(",")^# & T("NOT")^# & Id("event_field_name")
                   & OneOf({"=", "< >", "! =", ">", "> =", "<", "< ="})
                   & OneOf({"DECIMAL", "STRING"}))
                  | (T(",")^# & OneOf({"AND", "OR"}) & T("NOT")^#
                     & OneOf({"=", "< >", "! =", ">", "> =", "<", "< ="})
                     & OneOf({"DECIMAL", "STRING"}))))^#)
           | T("REMOVE WHERE")
           | (T("MODIFY NAME =") & Id("new_audit_name"))),
    create_server_audit |-> Create_server_auditContext ::=
        T("CREATE SERVER AUDIT") & Id("audit_name")
        & (((T("TO")
             & ((T("FILE (")
                 & ((T(",")^# & T("FILEPATH =") & Str("filepath"))
                    | (T(",")^# & T("MAXSIZE =")
                       & ((T("DECIMAL") & OneOf({"MB", "GB", "TB"})) | T("UNLIMITED")))
                    | (T(",")^# & T("MAX_ROLLOVER_FILES =")
                       & L("max_rollover_files", OneOf({"DECIMAL", "UNLIMITED"})))
                    | (T(",")^# & T("MAX_FILES =") & Num("max_files"))
                    | (T(",")^# & T("RESERVE_DISK_SPACE =") & OneOf({"ON", "OFF"})))^*
                 & T(")"))
                | T("APPLICATION_LOG") | T("SECURITY_LOG")))^#
            & (T("WITH (")
               & ((T(",")^# & T("QUEUE_DELAY =") & Num("queue_delay"))
                  | (T(",")^# & T("ON_FAILURE =")
                     & OneOf({"CONTINUE", "SHUTDOWN", "FAIL_OPERATION"}))
                  | (T(",")^# & T("STATE =") & OneOf({"ON", "OFF"}))
                  | (T(",")^# & T("AUDIT_GUID =") & Id("audit_guid")))^*
               & T(")"))^#
            & (T("WHERE")
               & ((T(",")^# & T("NOT")^# & Id("event_field_name")
                   & OneOf({"=", "< >", "! =", ">", "> =", "<", "< ="})
                   & OneOf({"DECIMAL", "STRING"}))
                  | (T(",")^# & OneOf({"AND", "OR"}) & T("NOT")^#
                     & OneOf({"=", "< >", "! =", ">", "> =", "<", "< ="})
                     & OneOf({"DECIMAL", "STRING"}))))^#)
           | T("REMOVE WHERE")
           | (T("MODIFY NAME =") & Id("new_audit_name"))),
    alter_server_audit_specification |-> Alter_server_audit_specificationContext ::=
        T("ALTER SERVER AUDIT SPECIFICATION") & Id("audit_specification_name")
        & (T("FOR SERVER AUDIT") & Id("audit_name"))^#
        & (OneOf({"ADD", "DROP"}) & T("(") & Id("audit_action_group_name") & T(")"))^*
        & (T("WITH ( STATE =") & OneOf({"ON", "OFF"}) & T(")"))^#,
    create_server_audit_specification |-> Create_server_audit_specificationContext ::=
        T("CREATE SERVER AUDIT SPECIFICATION") & Id("audit_specification_name")
        & (T("FOR SERVER AUDIT") & Id("audit_name"))^#
        & (T("ADD (") & Id("audit_action_group_name") & T(")"))^*
        & (T("WITH ( STATE =") & OneOf({"ON", "OFF"}) & T(")"))^#]

Alter_server_configurationContext == Plain({"STRING"}, {"DECIMAL"})
Alter_server_roleContext ==
    Named({}, {"id_"},
          Of("id_", {"server_role_name", "server_principal", "new_server_role_name"}))
Create_server_roleContext == Named({}, {"id_"}, Of("id_", {"server_role", "server_principal"}))
Alter_server_role_pdwContext == Named({}, {"id_"}, Of("id_", {"server_role_name", "login"}))
Alter_serviceContext ==
    Named({}, {"id_", "opt_arg_clause"},
          Of("id_", {"modified_service_name", "schema_name", "queue_name"}))
Opt_arg_clauseContext == Named({"id_"}, {}, Of("id_", {"modified_contract_name"}))
Create_serviceContext ==
    Named({}, {"id_"},
          Of("id_", {"create_service_name", "owner_name", "schema_name", "queue_name"}))
Alter_service_master_keyContext ==
    Named({}, {"STRING"},
          Of("Token", {"acold_account_name", "old_password", "new_account_name", "new_password"}))
Alter_symmetric_keyContext ==
    Named({"STRING"}, {"id_"},
          Of("id_", {"key_name", "certificate_name", "symmetric_key_name", "Asym_key_name"})
          @@ Of("Token", {"password"}))
Create_synonymContext ==
    Named({}, {"id_"},
          Of("id_", {"schema_name_1", "synonym_name", "server_name", "database_name",
                     "schema_name_2", "object_name", "database_or_schema2",
                     "schema_id_2_or_object_name"}))

ServiceRules == [
    alter_server_configuration |-> Alter_server_configurationContext ::=
        T("ALTER SERVER CONFIGURATION SET")
        & ((T("PROCESS AFFINITY")
            & ((T("CPU =")
                & (T("AUTO")
                   | ((T(",")^# & T("DECIMAL"))
                      | (T(",")^# & T("DECIMAL") & T("TO") & T("DECIMAL")))^+))
               | (T("NUMANODE =")
                  & ((T(",")^# & T("DECIMAL"))
                     | (T(",")^# & T("DECIMAL") & T("TO") & T("DECIMAL")))^+)))
           | (T("DIAGNOSTICS LOG")
              & (T("ON") | T("OFF")
                 | (T("PATH =") & OneOf({"STRING", "DEFAULT"}))
                 | (T("MAX_SIZE =") & ((T("DECIMAL") & T("MB")) | T("DEFAULT")))
                 | (T("MAX_FILES =") & OneOf({"DECIMAL", "DEFAULT"}))))
           | (T("FAILOVER CLUSTER PROPERTY")
              & ((T("VERBOSELOGGING =") & OneOf({"STRING", "DEFAULT"}))
                 | (T("SQLDUMPERFLAGS =") & OneOf({"STRING", "DEFAULT"}))
                 | (T("SQLDUMPERPATH =") & OneOf({"STRING", "DEFAULT"}))
                 | (T("SQLDUMPERTIMEOUT") & OneOf({"STRING", "DEFAULT"}))
                 | (T("FAILURECONDITIONLEVEL =") & OneOf({"STRING", "DEFAULT"}))
                 | (T("HEALTHCHECKTIMEOUT =") & OneOf({"DECIMAL", "DEFAULT"}))))
           | (T("HADR CLUSTER CONTEXT =") & OneOf({"STRING", "LOCAL"}))
           | (T("BUFFER POOL EXTENSION")
              & ((T("ON ( FILENAME =") & T("STRING") & T(", SIZE =") & T("DECIMAL")
                  & OneOf({"KB", "MB", "GB"}) & T(")"))
                 | T("OFF")))
           | (T("SET SOFTNUMA") & OneOf({"ON", "OFF"}))),
    alter_server_role |-> Alter_server_roleContext ::=
        T("ALTER SERVER ROLE") & Id("server_role_name")
        & ((OneOf({"ADD", "DROP"}) & T("MEMBER") & Id("server_principal"))
           | (T("WITH NAME =") & Id("new_server_role_name"))),
    create_server_role |-> Create_server_roleContext ::=
        T("CREATE SERVER ROLE") & Id("server_role")
        & (T("AUTHORIZATION") & Id("server_principal"))^#,
    alter_server_role_pdw |-> Alter_server_role_pdwContext ::=
        T("ALTER SERVER ROLE") & Id("server_role_name") & OneOf({"ADD", "DROP"}) & T("MEMBER")
        & Id("login"),
    alter_service |-> Alter_serviceContext ::=
        T("ALTER SERVICE") & Id("modified_service_name")
        & (T("ON QUEUE") & (Id("schema_name") & T("."))^# & Id("queue_name"))^#
        & (T("(") & List(N("opt_arg_clause")) & T(")"))^#,
    opt_arg_clause |-> Opt_arg_clauseContext ::=
        OneOf({"ADD", "DROP"}) & T("CONTRACT") & Id("modified_contract_name"),
    create_service |-> Create_serviceContext ::=
        T("CREATE SERVICE") & Id("create_service_name")
        & (T("AUTHORIZATION") & Id("owner_name"))^# & T("ON QUEUE")
        & (Id("schema_name") & T("."))^# & Id("queue_name")
        & (T("(") & (T(",")^# & (N("id_") | T("DEFAULT")))^+ & T(")"))^#,
    alter_service_master_key |-> Alter_service_master_keyContext ::=
        T("ALTER SERVICE MASTER KEY")
        & ((T("FORCE")^# & T("REGENERATE"))
           | (T("WITH")
              & ((T("OLD_ACCOUNT =") & Str("acold_account_name") & T(", OLD_PASSWORD =")
                  & Str("old_password"))
                 | (T("NEW_ACCOUNT =") & Str("new_account_name") & T(", NEW_PASSWORD =")
                    & Str("new_password")))^#)),
    alter_symmetric_key |-> Alter_symmetric_keyContext ::=
        T("ALTER SYMMETRIC KEY") & Id("key_name") & OneOf({"ADD", "DROP"}) & T("ENCRYPTION BY")
        & ((T("CERTIFICATE") & Id("certificate_name"))
           | (T("PASSWORD =") & Str("password"))
           | (T("SYMMETRIC KEY") & Id("symmetric_key_name"))
           | (T("ASYMMETRIC KEY") & Id("Asym_key_name"))),
    create_synonym |-> Create_synonymContext ::=
        T("CREATE SYNONYM") & (Id("schema_name_1") & T("."))^# & Id("synonym_name") & T("FOR")
        & (((Id("server_name") & T("."))^# & (Id("database_name") & T("."))^#
            & (Id("schema_name_2") & T("."))^# & Id("object_name"))
           | ((Id("database_or_schema2") & T("."))^#
              & (Id("schema_id_2_or_object_name") & T("."))^#))]

Alter_userContext ==
    Named({}, {"id_", "STRING", "DECIMAL"},
          Of("id_", {"username", "newusername", "schema_name", "loginame",
                     "language_name_or_alias"})
          @@ Of("Token", {"lcid"}))
Create_userContext ==
    Named({"STRING"}, {"id_", "BINARY", "DECIMAL"},
          Of("id_", {"user_name", "login_name", "schema_name", "windows_principal",
                     "language_name_or_alias", "Azure_Active_Directory_principal", "cert_name",
                     "asym_key_name"})
          @@ Of("Token", {"password"}))
Create_user_azure_sql_dwContext ==
    Named({}, {"id_"},
          Of("id_", {"user_name", "login_name", "schema_name",
                     "Azure_Active_Directory_principal"}))
Alter_user_azure_sqlContext ==
    Named({}, {"id_"}, Of("id_", {"username", "newusername", "schema_name", "loginame"}))
Alter_workload_groupContext ==
    Named({}, {"id_", "DECIMAL"},
          Of("id_", {"workload_group_group_name", "workload_group_pool_name"})
          @@ Of("Token", {"request_max_memory_grant", "request_max_cpu_time_sec",
                         "request_memory_grant_timeout_sec", "max_dop", "group_max_requests"}))
Create_workload_groupContext ==
    Named({}, {"id_", "DECIMAL"},
          Of("id_", {"workload_group_group_name", "workload_group_pool_name",
                     "external_pool_name"})
          @@ Of("Token", {"request_max_memory_grant", "request_max_cpu_time_sec",
                         "request_memory_grant_timeout_sec", "max_dop", "group_max_requests"}))

UserRules == [
    alter_user |-> Alter_userContext ::=
        T("ALTER USER") & Id("username") & T("WITH")
        & ((T(",")^# & T("NAME =") & Id("newusername"))
           | (T(",")^# & T("DEFAULT_SCHEMA =") & (Id("schema_name") | T("NULL_")))
           | (T(",")^# & T("LOGIN =") & Id("loginame"))
           | (T(",")^# & T("PASSWORD =") & T("STRING") & (T("OLD_PASSWORD =") & T("STRING"))^+)
           | (T(",")^# & T("DEFAULT_LANGUAGE =")
              & (T("NONE") | Num("lcid") | Id("language_name_or_alias")))
           | (T(",")^# & T("ALLOW_ENCRYPTED_VALUE_MODIFICATIONS =") & OneOf({"ON", "OFF"})))^+,
    create_user |-> Create_userContext ::=
        (T("CREATE USER") & Id("user_name")
         & (OneOf({"FOR", "FROM"}) & T("LOGIN") & Id("login_name"))^#
         & (T("WITH")
            & ((T(",")^# & T("DEFAULT_SCHEMA =") & Id("schema_name"))
               | (T(",")^# & T("ALLOW_ENCRYPTED_VALUE_MODIFICATIONS =")
                  & OneOf({"ON", "OFF"})))^*)^#)
        | (T("CREATE USER")
           & ((Id("windows_principal")
               & (T("WITH")
                  & ((T(",")^# & T("DEFAULT_SCHEMA =") & Id("schema_name"))
                     | (T(",")^# & T("DEFAULT_LANGUAGE =")
                        & (T("NONE") | T("DECIMAL") | Id("language_name_or_alias")))
                     | (T(",")^# & T("SID =") & T("BINARY"))
                     | (T(",")^# & T("ALLOW_ENCRYPTED_VALUE_MODIFICATIONS =")
                        & OneOf({"ON", "OFF"})))^*)^#)
              | (Id("user_name") & T("WITH PASSWORD =") & Str("password")
                 & ((T(",")^# & T("DEFAULT_SCHEMA =") & Id("schema_name"))
                    | (T(",")^# & T("DEFAULT_LANGUAGE =")
                       & (T("NONE") | T("DECIMAL") | Id("language_name_or_alias")))
                    | (T(",")^# & T("SID =") & T("BINARY"))
                    | (T(",")^# & T("ALLOW_ENCRYPTED_VALUE_MODIFICATIONS =")
                       & OneOf({"ON", "OFF"})))^*)
              | (Id("Azure_Active_Directory_principal") & T("FROM EXTERNAL PROVIDER"))))
        | (T("CREATE USER") & Id("user_name")
           & ((T("WITHOUT LOGIN")
               & ((T(",")^# & T("DEFAULT_SCHEMA =") & Id("schema_name"))
                  | (T(",")^# & T("ALLOW_ENCRYPTED_VALUE_MODIFICATIONS =")
                     & OneOf({"ON", "OFF"})))^*)
              | (OneOf({"FOR", "FROM"}) & T("CERTIFICATE") & Id("cert_name"))
              | (OneOf({"FOR", "FROM"}) & T("ASYMMETRIC KEY") & Id("asym_key_name"))))
        | (T("CREATE USER") & Id("user_name")),
    create_user_azure_sql_dw |-> Create_user_azure_sql_dwContext ::=
        (T("CREATE USER") & Id("user_name")
         & ((OneOf({"FOR", "FROM"}) & T("LOGIN") & Id("login_name")) | T("WITHOUT LOGIN"))^#
         & (T("WITH DEFAULT_SCHEMA =") & Id("schema_name"))^#)
        | (T("CREATE USER") & Id("Azure_Active_Directory_principal")
           & T("FROM EXTERNAL PROVIDER") & (T("WITH DEFAULT_SCHEMA =") & Id("schema_name"))^#),
    alter_user_azure_sql |-> Alter_user_azure_sqlContext ::=
        T("ALTER USER") & Id("username") & T("WITH")
        & ((T(",")^# & T("NAME =") & Id("newusername"))
           | (T(",")^# & T("DEFAULT_SCHEMA =") & Id("schema_name"))
           | (T(",")^# & T("LOGIN =") & Id("loginame"))
           | (T(",")^# & T("ALLOW_ENCRYPTED_VALUE_MODIFICATIONS =") & OneOf({"ON", "OFF"})))^+,
    alter_workload_group |-> Alter_workload_groupContext ::=
        T("ALTER WORKLOAD GROUP")
        & (Id("workload_group_group_name") | T("DEFAULT_DOUBLE_QUOTE"))
        & (T("WITH (")
           & ((T("IMPORTANCE =") & OneOf({"LOW", "MEDIUM", "HIGH"}))
              | (T(",")^# & T("REQUEST_MAX_MEMORY_GRANT_PERCENT =")
                 & Num("request_max_memory_grant"))
              | (T(",")^# & T("REQUEST_MAX_CPU_TIME_SEC =") & Num("request_max_cpu_time_sec"))
              | (T("REQUEST_MEMORY_GRANT_TIMEOUT_SEC =")
                 & Num("request_memory_grant_timeout_sec"))
              | (T("MAX_DOP =") & Num("max_dop"))
              | (T("GROUP_MAX_REQUESTS =") & Num("group_max_requests")))^+
           & T(")"))^#
        & (T("USING") & (Id("workload_group_pool_name") | T("DEFAULT_DOUBLE_QUOTE")))^#,
    create_workload_group |-> Create_workload_groupContext ::=
        T("CREATE WORKLOAD GROUP") & Id("workload_group_group_name")
        & (T("WITH (")
           & ((T("IMPORTANCE =") & OneOf({"LOW", "MEDIUM", "HIGH"}))
              | (T(",")^# & T("REQUEST_MAX_MEMORY_GRANT_PERCENT =")
                 & Num("request_max_memory_grant"))
              | (T(",")^# & T("REQUEST_MAX_CPU_TIME_SEC =") & Num("request_max_cpu_time_sec"))
              | (T("REQUEST_MEMORY_GRANT_TIMEOUT_SEC =")
                 & Num("request_memory_grant_timeout_sec"))
              | (T("MAX_DOP =") & Num("max_dop"))
              | (T("GROUP_MAX_REQUESTS =") & Num("group_max_requests")))^+
           & T(")"))^#
        & (T("USING") & (Id("workload_group_pool_name") | T("DEFAULT_DOUBLE_QUOTE"))^#
           & ((T(",")^# & T("EXTERNAL") & Id("external_pool_name"))
              | T("DEFAULT_DOUBLE_QUOTE"))^#)^#]

Create_xml_schema_collectionContext ==
    Named({"STRING", "LOCAL_ID"}, {"id_"}, Of("id_", {"relational_schema", "sql_identifier"}))
Create_partition_functionContext ==
    Named({"id_", "data_type", "expression_list_"}, {},
          Of("id_", {"partition_function_name"}) @@ Of("data_type", {"input_parameter_type"})
          @@ Of("expression_list_", {"boundary_values"}))
Create_partition_schemeContext ==
    Class({}, {"id_"}, Of("id_", {"partition_scheme_name", "partition_function_name"}),
          Of("id_", {"file_group_names"}))
Create_queueContext ==
    Named({"full_table_name", "queue_settings"}, {"id_"},
          Of("id_", {"queue_name", "filegroup"}))
Queue_settingsContext ==
    Named({"func_proc_name_database_schema", "DECIMAL", "STRING"}, {"on_off"},
          Of("Token", {"max_readers", "user_name"}))
Alter_queueContext ==
    Named({"full_table_name", "queue_settings", "queue_action", "id_"}, {},
          Of("id_", {"queue_name"}))
Queue_actionContext == Plain({"queue_rebuild_options", "on_off", "id_"}, {})
Queue_rebuild_optionsContext == Plain({"DECIMAL"}, {})
Create_contractContext ==
    Named({"contract_name"}, {"id_"}, Of("id_", {"owner_name", "message_type_name"}))
Conversation_statementContext ==
    Plain({"begin_conversation_timer", "begin_conversation_dialog", "end_conversation",
           "get_conversation", "send_conversation", "waitfor_conversation"}, {})
Message_statementContext ==
    Named({}, {"id_"}, Of("id_", {"message_type_name", "owner_name", "schema_collection_name"}))

QueueRules == [
    create_xml_schema_collection |-> Create_xml_schema_collectionContext ::=
        T("CREATE XML SCHEMA COLLECTION") & (Id("relational_schema") & T("."))^#
        & Id("sql_identifier") & T("AS") & (T("STRING") | N("id_") | T("LOCAL_ID")),
    create_partition_function |-> Create_partition_functionContext ::=
        T("CREATE PARTITION FUNCTION") & Id("partition_function_name") & T("(")
        & L("input_parameter_type", N("data_type")) & T(") AS RANGE")
        & OneOf({"LEFT", "RIGHT"})^# & T("FOR VALUES (")
        & L("boundary_values", N("expression_list_")) & T(")"),
    create_partition_scheme |-> Create_partition_schemeContext ::=
        T("CREATE PARTITION SCHEME") & Id("partition_scheme_name") & T("AS PARTITION")
        & Id("partition_function_name") & T("ALL")^# & T("TO (")
        & List(V("file_group_names", N("id_"))) & T(")"),
    create_queue |-> Create_queueContext ::=
        T("CREATE QUEUE") & (N("full_table_name") | Id("queue_name")) & N("queue_settings")^#
        & ((T("ON") & Id("filegroup")) | T("DEFAULT"))^#,
    queue_settings |-> Queue_settingsContext ::=
        T("WITH") & (T("STATUS =") & N("on_off") & T(",")^#)^#
        & (T("RETENTION =") & N("on_off") & T(",")^#)^#
        & (T("ACTIVATION (")
           & (((T("STATUS =") & N("on_off") & T(",")^#)^#
               & (T("PROCEDURE_NAME =") & N("func_proc_name_database_schema") & T(",")^#)^#
               & (T("MAX_QUEUE_READERS =") & Num("max_readers") & T(",")^#)^#
               & (T("EXECUTE AS") & (T("SELF") | Str("user_name") | T("OWNER")) & T(",")^#)^#)
              | T("DROP"))
           & T(")") & T(",")^#)^#
        & (T("POISON_MESSAGE_HANDLING ( STATUS =") & N("on_off") & T(")"))^#,
    alter_queue |-> Alter_queueContext ::=
        T("ALTER QUEUE") & (N("full_table_name") | Id("queue_name"))
        & (N("queue_settings") | N("queue_action")),
    queue_action |-> Queue_actionContext ::=
        (T("REBUILD") & (T("WITH (") & N("queue_rebuild_options") & T(")"))^#)
        | (T("REORGANIZE") & (T("WITH LOB_COMPACTION =") & N("on_off"))^#)
        | (T("MOVE TO") & (N("id_") | T("DEFAULT"))),
    queue_rebuild_options |-> Queue_rebuild_optionsContext ::= T("MAXDOP =") & T("DECIMAL"),
    create_contract |-> Create_contractContext ::=
        T("CREATE CONTRACT") & N("contract_name") & (T("AUTHORIZATION") & Id("owner_name"))^#
        & T("(")
        & ((Id("message_type_name") | T("DEFAULT")) & T("SENT BY")
           & OneOf({"INITIATOR", "TARGET", "ANY"}) & T(",")^#)^+
        & T(")"),
    conversation_statement |-> Conversation_statementContext ::=
        Choice(<<N("begin_conversation_timer"), N("begin_conversation_dialog"),
                 N("end_conversation"), N("get_conversation"), N("send_conversation"),
                 N("waitfor_conversation")>>),
    message_statement |-> Message_statementContext ::=
        T("CREATE MESSAGE TYPE") & Id("message_type_name")
        & (T("AUTHORIZATION") & Id("owner_name"))^# & T("VALIDATION =")
        & (T("NONE") | T("EMPTY") | T("WELL_FORMED_XML")
           | (T("VALID_XML WITH SCHEMA COLLECTION") & Id("schema_collection_name")))]
=============================================================================
