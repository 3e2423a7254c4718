---------------------------- MODULE ObjectSyntax ----------------------------
(***************************************************************************)
(* Roles, assemblies, keys, ownership, availability groups and the DROP    *)
(* statements. Rules in the order of TSqlParser.g4, each with its class of *)
(* TSqlParser.h.                                                           *)
(***************************************************************************)
EXTENDS RuleNotation

Alter_application_roleContext ==
    Named({"STRING"}, {"id_"},
          Of("id_", {"appliction_role", "new_application_role_name", "app_role_default_schema"})
          @@ Of("Token", {"application_role_password"}))
Alter_xml_schema_collectionContext == Plain({"STRING"}, {"id_"})
Create_application_roleContext ==
    Named({"STRING"}, {"id_"},
          Of("id_", {"appliction_role", "app_role_default_schema"})
          @@ Of("Token", {"application_role_password"}))
Drop_aggregateContext == Named({}, {"id_"}, Of("id_", {"schema_name", "aggregate_name"}))
Drop_application_roleContext == Named({"id_"}, {}, Of("id_", {"rolename"}))
Alter_assemblyContext ==
    Named({"alter_assembly_start", "alter_assembly_clause", "id_"}, {},
          Of("id_", {"assembly_name"}))
Alter_assembly_clauseContext ==
    Plain({"alter_assembly_from_clause", "alter_assembly_with_clause",
           "alter_assembly_drop_clause", "alter_assembly_add_clause"}, {})
Alter_assembly_from_clauseContext ==
    Plain({"alter_assembly_from_clause_start", "client_assembly_specifier",
           "alter_assembly_file_bits"}, {})
Alter_assembly_drop_clauseContext ==
    Plain({"alter_assembly_drop", "alter_assembly_drop_multiple_files"}, {})
Alter_assembly_drop_multiple_filesContext == Plain({"multiple_local_files"}, {})
Alter_assembly_add_clauseContext ==
    Plain({"alter_asssembly_add_clause_start", "alter_assembly_client_file_clause"}, {})
Alter_assembly_client_file_clauseContext ==
    Plain({"alter_assembly_file_name", "alter_assembly_as", "id_"}, {})
Alter_assembly_file_nameContext == Plain({"STRING"}, {})
Alter_assembly_file_bitsContext == Plain({"alter_assembly_as", "id_"}, {})
Alter_assembly_with_clauseContext == Plain({"alter_assembly_with", "assembly_option"}, {})
Client_assembly_specifierContext == Plain({"network_file_share", "local_file", "STRING"}, {})
Assembly_optionContext == Plain({"on_off", "assembly_option"}, {})
Network_file_shareContext == Plain({"network_file_start", "network_computer", "file_path"}, {})
Network_computerContext == Named({"id_"}, {}, Of("id_", {"computer_name"}))
File_pathContext == Plain({"file_directory_path_separator", "file_path", "id_"}, {})
Local_fileContext == Plain({"local_drive", "file_path"}, {})
Local_driveContext == Plain({"DISK_DRIVE"}, {})
Multiple_local_filesContext == Plain({"multiple_local_file_start", "local_file"}, {})
Create_assemblyContext ==
    Named({}, {"id_", "STRING", "BINARY"}, Of("id_", {"assembly_name", "owner_name"}))
Drop_assemblyContext == Named({}, {"id_"}, Of("id_", {"assembly_name"}))

\* Mutant: names may be qualified, and the qualifier has no label.
drop_assembly_Qualified ==
    T("DROP ASSEMBLY") & T("IF EXISTS")^#
    & (T(",")^# & (N("id_") & T("."))^# & Id("assembly_name"))^+ & T("WITH NO DEPENDENTS")^#

drop_assembly ==
    T("DROP ASSEMBLY") & T("IF EXISTS")^# & (T(",")^# & Id("assembly_name"))^+
    & T("WITH NO DEPENDENTS")^#

AssemblyRules == [
    alter_application_role |-> Alter_application_roleContext ::=
        T("ALTER APPLICATION ROLE") & Id("appliction_role") & T("WITH")
        & (T(",")^# & T("NAME =") & Id("new_application_role_name"))^#
        & (T(",")^# & T("PASSWORD =") & Str("application_role_password"))^#
        & (T(",")^# & T("DEFAULT_SCHEMA =") & Id("app_role_default_schema"))^#,
    alter_xml_schema_collection |-> Alter_xml_schema_collectionContext ::=
        T("ALTER XML SCHEMA COLLECTION") & (N("id_") & T("."))^# & N("id_") & T("ADD")
        & T("STRING"),
    create_application_role |-> Create_application_roleContext ::=
        T("CREATE APPLICATION ROLE") & Id("appliction_role") & T("WITH")
        & (T(",")^# & T("PASSWORD =") & Str("application_role_password"))^#
        & (T(",")^# & T("DEFAULT_SCHEMA =") & Id("app_role_default_schema"))^#,
    drop_aggregate |-> Drop_aggregateContext ::=
        T("DROP AGGREGATE") & T("IF EXISTS")^# & (Id("schema_name") & T("."))^#
        & Id("aggregate_name"),
    drop_application_role |-> Drop_application_roleContext ::=
        T("DROP APPLICATION ROLE") & Id("rolename"),
    alter_assembly |-> Alter_assemblyContext ::=
        N("alter_assembly_start") & Id("assembly_name") & N("alter_assembly_clause"),
    alter_assembly_clause |-> Alter_assembly_clauseContext ::=
        N("alter_assembly_from_clause")^# & N("alter_assembly_with_clause")^#
        & N("alter_assembly_drop_clause")^# & N("alter_assembly_add_clause")^#,
    alter_assembly_from_clause |-> Alter_assembly_from_clauseContext ::=
        N("alter_assembly_from_clause_start")
        & (N("client_assembly_specifier") | N("alter_assembly_file_bits")),
    alter_assembly_drop_clause |-> Alter_assembly_drop_clauseContext ::=
        N("alter_assembly_drop") & N("alter_assembly_drop_multiple_files"),
    alter_assembly_drop_multiple_files |-> Alter_assembly_drop_multiple_filesContext ::=
        T("ALL") | N("multiple_local_files"),
    alter_assembly_add_clause |-> Alter_assembly_add_clauseContext ::=
        N("alter_asssembly_add_clause_start") & N("alter_assembly_client_file_clause"),
    alter_assembly_client_file_clause |-> Alter_assembly_client_file_clauseContext ::=
        N("alter_assembly_file_name") & (N("alter_assembly_as") & N("id_"))^#,
    alter_assembly_file_name |-> Alter_assembly_file_nameContext ::= T("STRING"),
    alter_assembly_file_bits |-> Alter_assembly_file_bitsContext ::=
        N("alter_assembly_as") & N("id_"),
    alter_assembly_with_clause |-> Alter_assembly_with_clauseContext ::=
        N("alter_assembly_with") & N("assembly_option"),
    client_assembly_specifier |-> Client_assembly_specifierContext ::=
        N("network_file_share") | N("local_file") | T("STRING"),
    assembly_option |-> Assembly_optionContext ::=
        (T("PERMISSION_SET =") & OneOf({"SAFE", "EXTERNAL_ACCESS", "UNSAFE"}))
        | (T("VISIBILITY =") & N("on_off")) | T("UNCHECKED DATA")
        | (N("assembly_option") & T(",")),
    network_file_share |-> Network_file_shareContext ::=
        N("network_file_start") & N("network_computer") & N("file_path"),
    network_computer |-> Network_computerContext ::= Id("computer_name"),
    file_path |-> File_pathContext ::=
        (N("file_directory_path_separator") & N("file_path")) | N("id_"),
    local_file |-> Local_fileContext ::= N("local_drive") & N("file_path"),
    local_drive |-> Local_driveContext ::= T("DISK_DRIVE"),
    multiple_local_files |-> Multiple_local_filesContext ::=
        (N("multiple_local_file_start") & N("local_file") & T("SINGLE_QUOTE ,"))
        | N("local_file"),
    create_assembly |-> Create_assemblyContext ::=
        T("CREATE ASSEMBLY") & Id("assembly_name") & (T("AUTHORIZATION") & Id("owner_name"))^#
        & T("FROM") & (T(",")^# & OneOf({"STRING", "BINARY"}))^+
        & (T("WITH PERMISSION_SET =") & OneOf({"SAFE", "EXTERNAL_ACCESS", "UNSAFE"}))^#,
    drop_assembly |-> Drop_assemblyContext ::= drop_assembly]

Alter_asymmetric_keyContext ==
    Named({"alter_asymmetric_key_start", "id_", "asymmetric_key_option"}, {},
          Of("id_", {"Asym_Key_Name"}))
Asymmetric_key_optionContext ==
    Plain({"asymmetric_key_option_start"}, {"asymmetric_key_password_change_option"})
Asymmetric_key_password_change_optionContext == Plain({"STRING"}, {})
Create_asymmetric_keyContext ==
    Named({}, {"id_", "STRING"},
          Of("id_", {"Asym_Key_Nam", "database_principal_name", "Assembly_Name",
                     "Provider_Name"})
          @@ Of("Token", {"provider_key_name", "asymmetric_key_password"}))
Drop_asymmetric_keyContext == Named({"id_"}, {}, Of("id_", {"key_name"}))
Alter_authorizationContext ==
    Named({"alter_authorization_start", "entity_to", "authorization_grantee", "entity_name",
           "class_type", "colon_colon"}, {}, Of("entity_name", {"entity"}))
Authorization_granteeContext == Named({"id_"}, {}, Of("id_", {"principal_name"}))
Alter_authorization_for_sql_databaseContext ==
    Named({"alter_authorization_start", "entity_to", "authorization_grantee", "entity_name",
           "class_type_for_sql_database", "colon_colon"}, {}, Of("entity_name", {"entity"}))
Alter_authorization_for_azure_dwContext ==
    Named({"alter_authorization_start", "entity_to", "authorization_grantee",
           "entity_name_for_azure_dw", "class_type_for_azure_dw", "colon_colon"}, {},
          Of("entity_name_for_azure_dw", {"entity"}))
Alter_authorization_for_parallel_dwContext ==
    Named({"alter_authorization_start", "entity_to", "authorization_grantee",
           "entity_name_for_parallel_dw", "class_type_for_parallel_dw", "colon_colon"}, {},
          Of("entity_name_for_parallel_dw", {"entity"}))

AuthorizationRules == [
    alter_asymmetric_key |-> Alter_asymmetric_keyContext ::=
        N("alter_asymmetric_key_start") & Id("Asym_Key_Name")
        & (N("asymmetric_key_option") | T("REMOVE PRIVATE KEY")),
    asymmetric_key_option |-> Asymmetric_key_optionContext ::=
        N("asymmetric_key_option_start") & N("asymmetric_key_password_change_option")
        & (T(",") & N("asymmetric_key_password_change_option"))^# & T(")"),
    asymmetric_key_password_change_option |-> Asymmetric_key_password_change_optionContext ::=
        (T("DECRYPTION BY PASSWORD =") & T("STRING"))
        | (T("ENCRYPTION BY PASSWORD =") & T("STRING")),
    create_asymmetric_key |-> Create_asymmetric_keyContext ::=
        T("CREATE ASYMMETRIC KEY") & Id("Asym_Key_Nam")
        & (T("AUTHORIZATION") & Id("database_principal_name"))^#
        & (T("FROM")
           & ((T("FILE =") & T("STRING"))
              | (T("EXECUTABLE_FILE =") & T("STRING"))
              | (T("ASSEMBLY") & Id("Assembly_Name"))
              | (T("PROVIDER") & Id("Provider_Name"))))^#
        & (T("WITH")
           & ((T("ALGORITHM =")
               & OneOf({"RSA_4096", "RSA_3072", "RSA_2048", "RSA_1024", "RSA_512"}))
              | (T("PROVIDER_KEY_NAME =") & Str("provider_key_name"))
              | (T("CREATION_DISPOSITION =") & OneOf({"CREATE_NEW", "OPEN_EXISTING"}))))^#
        & (T("ENCRYPTION BY PASSWORD =") & Str("asymmetric_key_password"))^#,
    drop_asymmetric_key |-> Drop_asymmetric_keyContext ::=
        T("DROP ASYMMETRIC KEY") & Id("key_name") & T("REMOVE PROVIDER KEY")^#,
    alter_authorization |-> Alter_authorizationContext ::=
        N("alter_authorization_start") & (N("class_type") & N("colon_colon"))^#
        & L("entity", N("entity_name")) & N("entity_to") & N("authorization_grantee"),
    authorization_grantee |-> Authorization_granteeContext ::=
        Id("principal_name") | T("SCHEMA OWNER"),
    alter_authorization_for_sql_database |-> Alter_authorization_for_sql_databaseContext ::=
        N("alter_authorization_start") & (N("class_type_for_sql_database") & N("colon_colon"))^#
        & L("entity", N("entity_name")) & N("entity_to") & N("authorization_grantee"),
    alter_authorization_for_azure_dw |-> Alter_authorization_for_azure_dwContext ::=
        N("alter_authorization_start") & (N("class_type_for_azure_dw") & N("colon_colon"))^#
        & L("entity", N("entity_name_for_azure_dw")) & N("entity_to")
        & N("authorization_grantee"),
    alter_authorization_for_parallel_dw |-> Alter_authorization_for_parallel_dwContext ::=
        N("alter_authorization_start") & (N("class_type_for_parallel_dw") & N("colon_colon"))^#
        & L("entity", N("entity_name_for_parallel_dw")) & N("entity_to")
        & N("authorization_grantee")]

Drop_availability_groupContext == Named({"id_"}, {}, Of("id_", {"group_name"}))
Alter_availability_groupContext ==
    Plain({"alter_availability_group_start", "alter_availability_group_options"}, {})
Alter_availability_group_startContext == Named({"id_"}, {}, Of("id_", {"group_name"}))
Alter_availability_group_optionsContext ==
    Named({"DECIMAL", "id_"}, {"STRING", "ip_v4_failover", "ip_v6_failover"},
          Of("Token", {"milliseconds", "server_instance", "session_timeout", "ag_name",
                       "ag_name_modified", "listener_name"})
          @@ Of("id_", {"database_name"}))
Ip_v4_failoverContext == Plain({"STRING"}, {})
Ip_v6_failoverContext == Plain({"STRING"}, {})
Create_or_alter_broker_priorityContext ==
    Named({"STRING", "DECIMAL"}, {"id_"},
          Of("id_", {"ConversationPriorityName"})
          @@ Of("Token", {"RemoteServiceName", "PriorityValue"}))
Drop_broker_priorityContext == Named({"id_"}, {}, Of("id_", {"ConversationPriorityName"}))
Alter_certificateContext == Named({"id_"}, {"STRING"}, Of("id_", {"certificate_name"}))
Alter_column_encryption_keyContext ==
    Named({"BINARY", "STRING"}, {"id_"},
          Of("id_", {"column_encryption_key", "column_master_key_name"})
          @@ Of("Token", {"algorithm_name"}))
Create_column_encryption_keyContext ==
    Named({}, {"id_", "STRING", "BINARY"},
          Of("id_", {"column_encryption_key", "column_master_key_name"})
          @@ Of("Token", {"algorithm_name", "encrypted_value"}))

AvailabilityRules == [
    drop_availability_group |-> Drop_availability_groupContext ::=
        T("DROP AVAILABILITY GROUP") & Id("group_name"),
    alter_availability_group |-> Alter_availability_groupContext ::=
        N("alter_availability_group_start") & N("alter_availability_group_options"),
    alter_availability_group_start |-> Alter_availability_group_startContext ::=
        T("ALTER AVAILABILITY GROUP") & Id("group_name"),
    alter_availability_group_options |-> Alter_availability_group_optionsContext ::=
        (T("SET (")
         & ((T("AUTOMATED_BACKUP_PREFERENCE =")
             & OneOf({"PRIMARY", "SECONDARY_ONLY", "SECONDARY", "NONE"}))
            | (T("FAILURE_CONDITION_LEVEL =") & T("DECIMAL"))
            | (T("HEALTH_CHECK_TIMEOUT =") & Num("milliseconds"))
            | (T("DB_FAILOVER =") & OneOf({"ON", "OFF"}))
            | (T("REQUIRED_SYNCHRONIZED_SECONDARIES_TO_COMMIT =") & T("DECIMAL")))
         & T(")"))
        | (T("ADD DATABASE") & Id("database_name"))
        | (T("REMOVE DATABASE") & Id("database_name"))
        | (T("ADD REPLICA ON") & Str("server_instance") & T("WITH (")
           & (T("ENDPOINT_URL =") & T("STRING"))^#
           & (T(",")^# & T("AVAILABILITY_MODE =")
              & OneOf({"SYNCHRONOUS_COMMIT", "ASYNCHRONOUS_COMMIT"}))^#
           & (T(",")^# & T("FAILOVER_MODE =") & OneOf({"AUTOMATIC", "MANUAL"}))^#
           & (T(",")^# & T("SEEDING_MODE =") & OneOf({"AUTOMATIC", "MANUAL"}))^#
           & (T(",")^# & T("BACKUP_PRIORITY =") & T("DECIMAL"))^#
           & (T(",")^# & T("PRIMARY_ROLE ( ALLOW_CONNECTIONS =") & OneOf({"READ_WRITE", "ALL"})
              & T(")"))^#
           & (T(",")^# & T("SECONDARY_ROLE ( ALLOW_CONNECTIONS = READ_ONLY )"))^# & T(")"))
        | (T("SECONDARY_ROLE (")
           & ((T("ALLOW_CONNECTIONS =") & OneOf({"NO", "READ_ONLY", "ALL"}))
              | (T("READ_ONLY_ROUTING_LIST = (") & T("STRING") & T(")"))))
        | (T("PRIMARY_ROLE (")
           & ((T("ALLOW_CONNECTIONS =") & OneOf({"NO", "READ_ONLY", "ALL"}))
              | (T("READ_ONLY_ROUTING_LIST = (") & ((T(",")^# & T("STRING"))^* | T("NONE"))
                 & T(")"))
              | (T("SESSION_TIMEOUT =") & Num("session_timeout"))))
        | (T("MODIFY REPLICA ON") & Str("server_instance")
           & ((T("WITH (")
               & ((T("ENDPOINT_URL =") & T("STRING"))
                  | (T("AVAILABILITY_MODE =")
                     & OneOf({"SYNCHRONOUS_COMMIT", "ASYNCHRONOUS_COMMIT"}))
                  | (T("FAILOVER_MODE =") & OneOf({"AUTOMATIC", "MANUAL"}))
                  | (T("SEEDING_MODE =") & OneOf({"AUTOMATIC", "MANUAL"}))
                  | (T("BACKUP_PRIORITY =") & T("DECIMAL"))))
              | (T("SECONDARY_ROLE (")
                 & ((T("ALLOW_CONNECTIONS =") & OneOf({"NO", "READ_ONLY", "ALL"}))
                    | (T("READ_ONLY_ROUTING_LIST = (") & T("STRING") & T(")"))))
              | (T("PRIMARY_ROLE (")
                 & ((T("ALLOW_CONNECTIONS =") & OneOf({"NO", "READ_ONLY", "ALL"}))
                    | (T("READ_ONLY_ROUTING_LIST = (")
                       & ((T(",")^# & T("STRING"))^* | T("NONE")) & T(")"))
                    | (T("SESSION_TIMEOUT =") & Num("session_timeout")))))
           & T(")"))
        | (T("REMOVE REPLICA ON") & T("STRING")) | T("JOIN")
        | (T("JOIN AVAILABILITY GROUP ON")
           & (T(",")^# & Str("ag_name") & T("WITH ( LISTENER_URL =") & T("STRING")
              & T(", AVAILABILITY_MODE =")
              & OneOf({"SYNCHRONOUS_COMMIT", "ASYNCHRONOUS_COMMIT"})
              & T(", FAILOVER_MODE = MANUAL , SEEDING_MODE =") & OneOf({"AUTOMATIC", "MANUAL"})
              & T(")"))^+)
        | (T("MODIFY AVAILABILITY GROUP ON")
           & (T(",")^# & Str("ag_name_modified") & T("WITH ( LISTENER_URL =") & T("STRING")
              & (T(",")^# & T("AVAILABILITY_MODE =")
                 & OneOf({"SYNCHRONOUS_COMMIT", "ASYNCHRONOUS_COMMIT"}))^#
              & (T(",")^# & T("FAILOVER_MODE = MANUAL"))^#
              & (T(",")^# & T("SEEDING_MODE =") & OneOf({"AUTOMATIC", "MANUAL"}))^# & T(")"))^+)
        | T("GRANT CREATE ANY DATABASE") | T("DENY CREATE ANY DATABASE") | T("FAILOVER")
        | T("FORCE_FAILOVER_ALLOW_DATA_LOSS")
        | (T("ADD LISTENER") & Str("listener_name") & T("(")
           & ((T("WITH DHCP ON (") & N("ip_v4_failover") & N("ip_v4_failover") & T(")"))
              | (T("WITH IP (")
                 & (T(",")^# & T("(")
                    & ((N("ip_v4_failover") & T(",") & N("ip_v4_failover"))
                       | N("ip_v6_failover"))
                    & T(")"))^+
                 & T(")") & (T(", PORT =") & T("DECIMAL"))^#))
           & T(")"))
        | (T("MODIFY LISTENER")
           & ((T("ADD IP (")
               & ((N("ip_v4_failover") & N("ip_v4_failover")) | N("ip_v6_failover")) & T(")"))
              | (T("PORT =") & T("DECIMAL"))))
        | (T("RESTART LISTENER") & T("STRING"))
        | (T("REMOVE LISTENER") & T("STRING")) | T("OFFLINE")
        | T("WITH ( DTC_SUPPORT = PER_DB )"),
    ip_v4_failover |-> Ip_v4_failoverContext ::= T("STRING"),
    ip_v6_failover |-> Ip_v6_failoverContext ::= T("STRING"),
    create_or_alter_broker_priority |-> Create_or_alter_broker_priorityContext ::=
        OneOf({"CREATE", "ALTER"}) & T("BROKER PRIORITY") & Id("ConversationPriorityName")
        & T("FOR CONVERSATION SET (")
        & (T("CONTRACT_NAME =") & (N("id_") | T("ANY")) & T(",")^#)^#
        & (T("LOCAL_SERVICE_NAME =") & ((T("//")^# & N("id_")) | T("ANY")) & T(",")^#)^#
        & (T("REMOTE_SERVICE_NAME =") & (Str("RemoteServiceName") | T("ANY")) & T(",")^#)^#
        & (T("PRIORITY_LEVEL =") & (Num("PriorityValue") | T("DEFAULT")))^# & T(")"),
    drop_broker_priority |-> Drop_broker_priorityContext ::=
        T("DROP BROKER PRIORITY") & Id("ConversationPriorityName"),
    alter_certificate |-> Alter_certificateContext ::=
        T("ALTER CERTIFICATE") & Id("certificate_name")
        & (T("REMOVE PRIVATE_KEY")
           | (T("WITH PRIVATE KEY (")
              & ((T("FILE =") & T("STRING") & T(",")^#)
                 | (T("DECRYPTION BY PASSWORD =") & T("STRING") & T(",")^#)
                 | (T("ENCRYPTION BY PASSWORD =") & T("STRING") & T(",")^#))^+
              & T(")"))
           | (T("WITH ACTIVE FOR BEGIN_DIALOG =") & OneOf({"ON", "OFF"}))),
    alter_column_encryption_key |-> Alter_column_encryption_keyContext ::=
        T("ALTER COLUMN ENCRYPTION KEY") & Id("column_encryption_key") & OneOf({"ADD", "DROP"})
        & T("VALUE ( COLUMN_MASTER_KEY =") & Id("column_master_key_name")
        & (T(", ALGORITHM =") & Str("algorithm_name") & T(", ENCRYPTED_VALUE =")
           & T("BINARY"))^#
        & T(")"),
    create_column_encryption_key |-> Create_column_encryption_keyContext ::=
        T("CREATE COLUMN ENCRYPTION KEY") & Id("column_encryption_key") & T("WITH VALUES")
        & (T("(") & T(",")^# & T("COLUMN_MASTER_KEY =") & Id("column_master_key_name")
           & T(", ALGORITHM =") & Str("algorithm_name") & T(", ENCRYPTED_VALUE =")
           & L("encrypted_value", T("BINARY")) & T(")") & T(",")^#)^+]

Drop_certificateContext == Named({"id_"}, {}, Of("id_", {"certificate_name"}))
Drop_column_encryption_keyContext == Named({"id_"}, {}, Of("id_", {"key_name"}))
Drop_column_master_keyContext == Named({"id_"}, {}, Of("id_", {"key_name"}))
Drop_contractContext == Named({"id_"}, {}, Of("id_", {"dropped_contract_name"}))
Drop_credentialContext == Named({"id_"}, {}, Of("id_", {"credential_name"}))
Drop_cryptograhic_providerContext == Named({"id_"}, {}, Of("id_", {"provider_name"}))
Drop_databaseContext ==
    Named({}, {"id_"}, Of("id_", {"database_name_or_database_snapshot_name"}))
Drop_database_audit_specificationContext ==
    Named({"id_"}, {}, Of("id_", {"audit_specification_name"}))
Drop_database_scoped_credentialContext == Named({"id_"}, {}, Of("id_", {"credential_name"}))
Drop_defaultContext == Named({}, {"id_"}, Of("id_", {"schema_name", "default_name"}))
Drop_endpointContext == Named({"id_"}, {}, Of("id_", {"endPointName"}))
Drop_external_data_sourceContext == Named({"id_"}, {}, Of("id_", {"external_data_source_name"}))
Drop_external_file_formatContext == Named({"id_"}, {}, Of("id_", {"external_file_format_name"}))
Drop_external_libraryContext == Named({}, {"id_"}, Of("id_", {"library_name", "owner_name"}))
Drop_external_resource_poolContext == Named({"id_"}, {}, Of("id_", {"pool_name"}))
Drop_external_tableContext ==
    Named({}, {"id_"}, Of("id_", {"database_name", "schema_name", "table"}))
Drop_event_notificationsContext ==
    Named({}, {"id_"}, Of("id_", {"notification_name", "queue_name"}))
Drop_event_sessionContext == Named({"id_"}, {}, Of("id_", {"event_session_name"}))
Drop_fulltext_catalogContext == Named({"id_"}, {}, Of("id_", {"catalog_name"}))
Drop_fulltext_indexContext == Named({}, {"id_"}, Of("id_", {"schema", "table"}))
Drop_fulltext_stoplistContext == Named({"id_"}, {}, Of("id_", {"stoplist_name"}))
Drop_loginContext == Named({"id_"}, {}, Of("id_", {"login_name"}))
Drop_message_typeContext == Named({"id_"}, {}, Of("id_", {"message_type_name"}))
Drop_partition_functionContext == Named({"id_"}, {}, Of("id_", {"partition_function_name"}))
Drop_partition_schemeContext == Named({"id_"}, {}, Of("id_", {"partition_scheme_name"}))
Drop_queueContext ==
    Named({}, {"id_"}, Of("id_", {"database_name", "schema_name", "queue_name"}))
Drop_remote_service_bindingContext == Named({"id_"}, {}, Of("id_", {"binding_name"}))
Drop_resource_poolContext == Named({"id_"}, {}, Of("id_", {"pool_name"}))
Drop_db_roleContext == Named({"id_"}, {}, Of("id_", {"role_name"}))
Drop_routeContext == Named({"id_"}, {}, Of("id_", {"route_name"}))
Drop_ruleContext == Named({}, {"id_"}, Of("id_", {"schema_name", "rule_name"}))
Drop_schemaContext == Named({"id_"}, {}, Of("id_", {"schema_name"}))
Drop_search_property_listContext == Named({"id_"}, {}, Of("id_", {"property_list_name"}))
Drop_security_policyContext ==
    Named({}, {"id_"}, Of("id_", {"schema_name", "security_policy_name"}))
Drop_sequenceContext ==
    Named({}, {"id_"}, Of("id_", {"database_name", "schema_name", "sequence_name"}))
Drop_server_auditContext == Named({"id_"}, {}, Of("id_", {"audit_name"}))
Drop_server_audit_specificationContext ==
    Named({"id_"}, {}, Of("id_", {"audit_specification_name"}))
Drop_server_roleContext == Named({"id_"}, {}, Of("id_", {"role_name"}))
Drop_serviceContext == Named({"id_"}, {}, Of("id_", {"dropped_service_name"}))
Drop_signatureContext ==
    Named({}, {"id_"}, Of("id_", {"schema_name", "module_name", "cert_name", "Asym_key_name"}))
Drop_statistics_name_azure_dw_and_pdwContext ==
    Named({}, {"id_"}, Of("id_", {"schema_name", "object_name", "statistics_name"}))
Drop_symmetric_keyContext == Named({"id_"}, {}, Of("id_", {"symmetric_key_name"}))
Drop_synonymContext == Named({}, {"id_"}, Of("id_", {"schema", "synonym_name"}))
Drop_userContext == Named({"id_"}, {}, Of("id_", {"user_name"}))
Drop_workload_groupContext == Named({"id_"}, {}, Of("id_", {"group_name"}))
Drop_xml_schema_collectionContext ==
    Named({}, {"id_"}, Of("id_", {"relational_schema", "sql_identifier"}))

\* Mutant: the name of the schema may be left out.
drop_schema_OptionalName == T("DROP SCHEMA") & T("IF EXISTS")^# & Id("schema_name")^#

drop_schema == T("DROP SCHEMA") & T("IF EXISTS")^# & Id("schema_name")

DropRules == [
    drop_certificate |-> Drop_certificateContext ::=
        T("DROP CERTIFICATE") & Id("certificate_name"),
    drop_column_encryption_key |-> Drop_column_encryption_keyContext ::=
        T("DROP COLUMN ENCRYPTION KEY") & Id("key_name"),
    drop_column_master_key |-> Drop_column_master_keyContext ::=
        T("DROP COLUMN MASTER KEY") & Id("key_name"),
    drop_contract |-> Drop_contractContext ::= T("DROP CONTRACT") & Id("dropped_contract_name"),
    drop_credential |-> Drop_credentialContext ::= T("DROP CREDENTIAL") & Id("credential_name"),
    drop_cryptograhic_provider |-> Drop_cryptograhic_providerContext ::=
        T("DROP CRYPTOGRAPHIC PROVIDER") & Id("provider_name"),
    drop_database |-> Drop_databaseContext ::=
        T("DROP DATABASE") & T("IF EXISTS")^#
        & (T(",")^# & Id("database_name_or_database_snapshot_name"))^+,
    drop_database_audit_specification |-> Drop_database_audit_specificationContext ::=
        T("DROP DATABASE AUDIT SPECIFICATION") & Id("audit_specification_name"),
    drop_database_scoped_credential |-> Drop_database_scoped_credentialContext ::=
        T("DROP DATABASE SCOPED CREDENTIAL") & Id("credential_name"),
    drop_default |-> Drop_defaultContext ::=
        T("DROP DEFAULT") & T("IF EXISTS")^# & T(",")^# & (Id("schema_name") & T("."))^#
        & Id("default_name"),
    drop_endpoint |-> Drop_endpointContext ::= T("DROP ENDPOINT") & Id("endPointName"),
    drop_external_data_source |-> Drop_external_data_sourceContext ::=
        T("DROP EXTERNAL DATA SOURCE") & Id("external_data_source_name"),
    drop_external_file_format |-> Drop_external_file_formatContext ::=
        T("DROP EXTERNAL FILE FORMAT") & Id("external_file_format_name"),
    drop_external_library |-> Drop_external_libraryContext ::=
        T("DROP EXTERNAL LIBRARY") & Id("library_name")
        & (T("AUTHORIZATION") & Id("owner_name"))^#,
    drop_external_resource_pool |-> Drop_external_resource_poolContext ::=
        T("DROP EXTERNAL RESOURCE POOL") & Id("pool_name"),
    drop_external_table |-> Drop_external_tableContext ::=
        T("DROP EXTERNAL TABLE") & (Id("database_name") & T("."))^#
        & (Id("schema_name") & T("."))^# & Id("table"),
    drop_event_notifications |-> Drop_event_notificationsContext ::=
        T("DROP EVENT NOTIFICATION") & (T(",")^# & Id("notification_name"))^+ & T("ON")
        & (T("SERVER") | T("DATABASE") | (T("QUEUE") & Id("queue_name"))),
    drop_event_session |-> Drop_event_sessionContext ::=
        T("DROP EVENT SESSION") & Id("event_session_name") & T("ON SERVER"),
    drop_fulltext_catalog |-> Drop_fulltext_catalogContext ::=
        T("DROP FULLTEXT CATALOG") & Id("catalog_name"),
    drop_fulltext_index |-> Drop_fulltext_indexContext ::=
        T("DROP FULLTEXT INDEX ON") & (Id("schema") & T("."))^# & Id("table"),
    drop_fulltext_stoplist |-> Drop_fulltext_stoplistContext ::=
        T("DROP FULLTEXT STOPLIST") & Id("stoplist_name"),
    drop_login |-> Drop_loginContext ::= T("DROP LOGIN") & Id("login_name"),
    drop_message_type |-> Drop_message_typeContext ::=
        T("DROP MESSAGE TYPE") & Id("message_type_name"),
    drop_partition_function |-> Drop_partition_functionContext ::=
        T("DROP PARTITION FUNCTION") & Id("partition_function_name"),
    drop_partition_scheme |-> Drop_partition_schemeContext ::=
        T("DROP PARTITION SCHEME") & Id("partition_scheme_name"),
    drop_queue |-> Drop_queueContext ::=
        T("DROP QUEUE") & (Id("database_name") & T("."))^# & (Id("schema_name") & T("."))^#
        & Id("queue_name"),
    drop_remote_service_binding |-> Drop_remote_service_bindingContext ::=
        T("DROP REMOTE SERVICE BINDING") & Id("binding_name"),
    drop_resource_pool |-> Drop_resource_poolContext ::=
        T("DROP RESOURCE POOL") & Id("pool_name"),
    drop_db_role |-> Drop_db_roleContext ::=
        T("DROP ROLE") & T("IF EXISTS")^# & Id("role_name"),
    drop_route |-> Drop_routeContext ::= T("DROP ROUTE") & Id("route_name"),
    drop_rule |-> Drop_ruleContext ::=
        T("DROP RULE") & T("IF EXISTS")^#
        & (T(",")^# & (Id("schema_name") & T("."))^# & Id("rule_name"))^#,
    drop_schema |-> Drop_schemaContext ::= drop_schema,
    drop_search_property_list |-> Drop_search_property_listContext ::=
        T("DROP SEARCH PROPERTY LIST") & Id("property_list_name"),
    drop_security_policy |-> Drop_security_policyContext ::=
        T("DROP SECURITY POLICY") & T("IF EXISTS")^# & (Id("schema_name") & T("."))^#
        & Id("security_policy_name"),
    drop_sequence |-> Drop_sequenceContext ::=
        T("DROP SEQUENCE") & T("IF EXISTS")^#
        & (T(",")^# & (Id("database_name") & T("."))^# & (Id("schema_name") & T("."))^#
           & Id("sequence_name"))^#,
    drop_server_audit |-> Drop_server_auditContext ::=
        T("DROP SERVER AUDIT") & Id("audit_name"),
    drop_server_audit_specification |-> Drop_server_audit_specificationContext ::=
        T("DROP SERVER AUDIT SPECIFICATION") & Id("audit_specification_name"),
    drop_server_role |-> Drop_server_roleContext ::= T("DROP SERVER ROLE") & Id("role_name"),
    drop_service |-> Drop_serviceContext ::= T("DROP SERVICE") & Id("dropped_service_name"),
    drop_signature |-> Drop_signatureContext ::=
        T("DROP") & T("COUNTER")^# & T("SIGNATURE FROM") & (Id("schema_name") & T("."))^#
        & Id("module_name") & T("BY")
        & ((T(",")^# & T("CERTIFICATE") & Id("cert_name"))
           | (T(",")^# & T("ASYMMETRIC KEY") & Id("Asym_key_name")))^+,
    drop_statistics_name_azure_dw_and_pdw |-> Drop_statistics_name_azure_dw_and_pdwContext ::=
        T("DROP STATISTICS") & (Id("schema_name") & T("."))^# & Id("object_name") & T(".")
        & Id("statistics_name"),
    drop_symmetric_key |-> Drop_symmetric_keyContext ::=
        T("DROP SYMMETRIC KEY") & Id("symmetric_key_name") & T("REMOVE PROVIDER KEY")^#,
    drop_synonym |-> Drop_synonymContext ::=
        T("DROP SYNONYM") & T("IF EXISTS")^# & (Id("schema") & T("."))^# & Id("synonym_name"),
    drop_user |-> Drop_userContext ::= T("DROP USER") & T("IF EXISTS")^# & Id("user_name"),
    drop_workload_group |-> Drop_workload_groupContext ::=
        T("DROP WORKLOAD GROUP") & Id("group_name"),
    drop_xml_schema_collection |-> Drop_xml_schema_collectionContext ::=
        T("DROP XML SCHEMA COLLECTION") & (Id("relational_schema") & T("."))^#
        & Id("sql_identifier")]

Disable_triggerContext ==
    Named({}, {"id_"}, Of("id_", {"schema_name", "trigger_name", "schema_id", "object_name"}))
Enable_triggerContext ==
    Named({}, {"id_"}, Of("id_", {"schema_name", "trigger_name", "schema_id", "object_name"}))
Lock_tableContext == Named({"table_name", "DECIMAL"}, {}, Of("Token", {"seconds"}))
Truncate_tableContext == Plain({"table_name"}, {"DECIMAL"})

TriggerSwitchRules == [
    disable_trigger |-> Disable_triggerContext ::=
        T("DISABLE TRIGGER")
        & ((T(",")^# & (Id("schema_name") & T("."))^# & Id("trigger_name"))^+ | T("ALL"))
        & T("ON")
        & (((Id("schema_id") & T("."))^# & Id("object_name")) | T("DATABASE") | T("ALL SERVER")),
    enable_trigger |-> Enable_triggerContext ::=
        T("ENABLE TRIGGER")
        & ((T(",")^# & (Id("schema_name") & T("."))^# & Id("trigger_name"))^+ | T("ALL"))
        & T("ON")
        & (((Id("schema_id") & T("."))^# & Id("object_name")) | T("DATABASE") | T("ALL SERVER")),
    lock_table |-> Lock_tableContext ::=
        T("LOCK TABLE") & N("table_name") & T("IN") & OneOf({"SHARE", "EXCLUSIVE"}) & T("MODE")
        & ((T("WAIT") & Num("seconds")) | T("NOWAIT"))^# & T(";")^#,
    truncate_table |-> Truncate_tableContext ::=
        T("TRUNCATE TABLE") & N("table_name")
        & (T("WITH ( PARTITIONS (")
           & (T(",")^# & (T("DECIMAL") | (T("DECIMAL") & T("TO") & T("DECIMAL"))))^+
           & T(") )"))^#]
=============================================================================
