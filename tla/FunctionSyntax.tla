--------------------------- MODULE FunctionSyntax ---------------------------
(***************************************************************************)
(* Function calls and the built-in functions, one class per labelled       *)
(* alternative. Rules in the order of TSqlParser.g4, each with its class   *)
(* of TSqlParser.h.                                                        *)
(***************************************************************************)
EXTENDS RuleNotation

RANKING_WINDOWED_FUNCContext == Plain({"ranking_windowed_function"}, {})
AGGREGATE_WINDOWED_FUNCContext == Plain({"aggregate_windowed_function"}, {})
ANALYTIC_WINDOWED_FUNCContext == Plain({"analytic_windowed_function"}, {})
BUILT_IN_FUNCContext == Plain({"built_in_functions"}, {})
SCALAR_FUNCTIONContext == Plain({"scalar_function_name", "expression_list_"}, {})
FREE_TEXTContext == Plain({"freetext_function"}, {})
PARTITION_FUNCContext == Plain({"partition_function"}, {})
HIERARCHYID_METHODContext == Plain({"hierarchyid_static_method"}, {})
Partition_functionContext ==
    Named({"expression"}, {"id_"}, Of("id_", {"database", "func_name"}))
Freetext_functionContext == Plain({"table_name"}, {"expression", "full_column_name"})
Freetext_predicateContext == Plain({"table_name"}, {"expression", "full_column_name"})
Json_key_valueContext ==
    Named({}, {"expression"}, Of("expression", {"json_key_name", "value_expression"}))

CallRules == [
    RANKING_WINDOWED_FUNC |-> RANKING_WINDOWED_FUNCContext ::= N("ranking_windowed_function"),
    AGGREGATE_WINDOWED_FUNC |-> AGGREGATE_WINDOWED_FUNCContext ::=
        N("aggregate_windowed_function"),
    ANALYTIC_WINDOWED_FUNC |-> ANALYTIC_WINDOWED_FUNCContext ::=
        N("analytic_windowed_function"),
    BUILT_IN_FUNC |-> BUILT_IN_FUNCContext ::= N("built_in_functions"),
    SCALAR_FUNCTION |-> SCALAR_FUNCTIONContext ::=
        N("scalar_function_name") & T("(") & N("expression_list_")^# & T(")"),
    FREE_TEXT |-> FREE_TEXTContext ::= N("freetext_function"),
    PARTITION_FUNC |-> PARTITION_FUNCContext ::= N("partition_function"),
    HIERARCHYID_METHOD |-> HIERARCHYID_METHODContext ::= N("hierarchyid_static_method"),
    function_call |-> NoClass ::=
        Choice(<<N("RANKING_WINDOWED_FUNC"), N("AGGREGATE_WINDOWED_FUNC"),
                 N("ANALYTIC_WINDOWED_FUNC"), N("BUILT_IN_FUNC"), N("SCALAR_FUNCTION"),
                 N("FREE_TEXT"), N("PARTITION_FUNC"), N("HIERARCHYID_METHOD")>>),
    partition_function |-> Partition_functionContext ::=
        (Id("database") & T("."))^# & T("$PARTITION .") & Id("func_name") & T("(")
        & N("expression") & T(")"),
    freetext_function |-> Freetext_functionContext ::=
        (OneOf({"CONTAINSTABLE", "FREETEXTTABLE"}) & T("(") & N("table_name") & T(",")
         & (N("full_column_name") | (T("(") & List(N("full_column_name")) & T(")")) | T("*"))
         & T(",") & N("expression") & (T(", LANGUAGE") & N("expression"))^#
         & (T(",") & N("expression"))^# & T(")"))
        | (OneOf({"SEMANTICSIMILARITYTABLE", "SEMANTICKEYPHRASETABLE"}) & T("(")
           & N("table_name") & T(",")
           & (N("full_column_name") | (T("(") & List(N("full_column_name")) & T(")")) | T("*"))
           & T(",") & N("expression") & T(")"))
        | (T("SEMANTICSIMILARITYDETAILSTABLE (") & N("table_name") & T(",")
           & N("full_column_name") & T(",") & N("expression") & T(",") & N("full_column_name")
           & T(",") & N("expression") & T(")")),
    freetext_predicate |-> Freetext_predicateContext ::=
        (T("CONTAINS (")
         & (N("full_column_name")
            | (T("(") & List(N("full_column_name")) & T(")")) | T("*")
            | (T("PROPERTY (") & N("full_column_name") & T(",") & N("expression") & T(")")))
         & T(",") & N("expression") & T(")"))
        | (T("FREETEXT (") & (N("table_name") & T(","))^#
           & (N("full_column_name") | (T("(") & List(N("full_column_name")) & T(")")) | T("*"))
           & T(",") & N("expression") & (T(", LANGUAGE") & N("expression"))^# & T(")")),
    json_key_value |-> Json_key_valueContext ::=
        Expr("json_key_name") & T(":") & Expr("value_expression")]

APPLOCK_MODEContext ==
    Named({}, {"expression"},
          Of("expression", {"database_principal", "resource_name", "lock_owner"}))
APPLOCK_TESTContext ==
    Named({}, {"expression"},
          Of("expression", {"database_principal", "resource_name", "lock_mode", "lock_owner"}))
ASSEMBLYPROPERTYContext ==
    Named({}, {"expression"}, Of("expression", {"assembly_name", "property_name"}))
COL_LENGTHContext == Named({}, {"expression"}, Of("expression", {"table", "column"}))
COL_NAMEContext == Named({}, {"expression"}, Of("expression", {"table_id", "column_id"}))
COLUMNPROPERTYContext ==
    Named({}, {"expression"}, Of("expression", {"id", "column", "property"}))
DATABASEPROPERTYEXContext ==
    Named({}, {"expression"}, Of("expression", {"database", "property"}))
DB_IDContext == Named({"expression"}, {}, Of("expression", {"database_name"}))
DB_NAMEContext == Named({"expression"}, {}, Of("expression", {"database_id"}))
FILE_IDContext == Named({"expression"}, {}, Of("expression", {"file_name"}))
FILE_IDEXContext == Named({"expression"}, {}, Of("expression", {"file_name"}))
FILE_NAMEContext == Named({"expression"}, {}, Of("expression", {"file_id"}))
FILEGROUP_IDContext == Named({"expression"}, {}, Of("expression", {"filegroup_name"}))
FILEGROUP_NAMEContext == Named({"expression"}, {}, Of("expression", {"filegroup_id"}))
FILEGROUPPROPERTYContext ==
    Named({}, {"expression"}, Of("expression", {"filegroup_name", "property"}))
FILEPROPERTYContext == Named({}, {"expression"}, Of("expression", {"file_name", "property"}))
FILEPROPERTYEXContext == Named({}, {"expression"}, Of("expression", {"name", "property"}))
FULLTEXTCATALOGPROPERTYContext ==
    Named({}, {"expression"}, Of("expression", {"catalog_name", "property"}))
FULLTEXTSERVICEPROPERTYContext == Named({"expression"}, {}, Of("expression", {"property"}))
INDEX_COLContext ==
    Named({}, {"expression"}, Of("expression", {"table_or_view_name", "index_id", "key_id"}))
INDEXKEY_PROPERTYContext ==
    Named({}, {"expression"}, Of("expression", {"object_id", "index_id", "key_id", "property"}))
INDEXPROPERTYContext ==
    Named({}, {"expression"},
          Of("expression", {"object_id", "index_or_statistics_name", "property"}))
NEXT_VALUE_FORContext ==
    Named({"table_name", "order_by_clause"}, {}, Of("table_name", {"sequence_name"}))
OBJECT_DEFINITIONContext == Named({"expression"}, {}, Of("expression", {"object_id"}))
OBJECT_IDContext == Named({}, {"expression"}, Of("expression", {"object_name", "object_type"}))
OBJECT_NAMEContext == Named({}, {"expression"}, Of("expression", {"object_id", "database_id"}))
OBJECT_SCHEMA_NAMEContext ==
    Named({}, {"expression"}, Of("expression", {"object_id", "database_id"}))
OBJECTPROPERTYContext == Named({}, {"expression"}, Of("expression", {"id", "property"}))
OBJECTPROPERTYEXContext == Named({}, {"expression"}, Of("expression", {"id", "property"}))
PARSENAMEContext == Named({}, {"expression"}, Of("expression", {"object_name", "object_piece"}))
SCHEMA_IDContext == Named({"expression"}, {}, Of("expression", {"schema_name"}))
SCHEMA_NAMEContext == Named({"expression"}, {}, Of("expression", {"schema_id"}))
SERVERPROPERTYContext == Named({"expression"}, {}, Of("expression", {"property"}))
STATS_DATEContext == Named({}, {"expression"}, Of("expression", {"object_id", "stats_id"}))
TYPE_IDContext == Named({"expression"}, {}, Of("expression", {"type_name"}))
TYPE_NAMEContext == Named({"expression"}, {}, Of("expression", {"type_id"}))
TYPEPROPERTYContext == Named({}, {"expression"}, Of("expression", {"type", "property"}))

MetadataFunctions == [
    APPLOCK_MODE |-> APPLOCK_MODEContext ::=
        T("APPLOCK_MODE (") & Expr("database_principal") & T(",") & Expr("resource_name")
        & T(",") & Expr("lock_owner") & T(")"),
    APPLOCK_TEST |-> APPLOCK_TESTContext ::=
        T("APPLOCK_TEST (") & Expr("database_principal") & T(",") & Expr("resource_name")
        & T(",") & Expr("lock_mode") & T(",") & Expr("lock_owner") & T(")"),
    ASSEMBLYPROPERTY |-> ASSEMBLYPROPERTYContext ::=
        T("ASSEMBLYPROPERTY (") & Expr("assembly_name") & T(",") & Expr("property_name")
        & T(")"),
    COL_LENGTH |-> COL_LENGTHContext ::=
        T("COL_LENGTH (") & Expr("table") & T(",") & Expr("column") & T(")"),
    COL_NAME |-> COL_NAMEContext ::=
        T("COL_NAME (") & Expr("table_id") & T(",") & Expr("column_id") & T(")"),
    COLUMNPROPERTY |-> COLUMNPROPERTYContext ::=
        T("COLUMNPROPERTY (") & Expr("id") & T(",") & Expr("column") & T(",") & Expr("property")
        & T(")"),
    DATABASEPROPERTYEX |-> DATABASEPROPERTYEXContext ::=
        T("DATABASEPROPERTYEX (") & Expr("database") & T(",") & Expr("property") & T(")"),
    DB_ID |-> DB_IDContext ::= T("DB_ID (") & Expr("database_name")^# & T(")"),
    DB_NAME |-> DB_NAMEContext ::= T("DB_NAME (") & Expr("database_id")^# & T(")"),
    FILE_ID |-> FILE_IDContext ::= T("FILE_ID (") & Expr("file_name") & T(")"),
    FILE_IDEX |-> FILE_IDEXContext ::= T("FILE_IDEX (") & Expr("file_name") & T(")"),
    FILE_NAME |-> FILE_NAMEContext ::= T("FILE_NAME (") & Expr("file_id") & T(")"),
    FILEGROUP_ID |-> FILEGROUP_IDContext ::=
        T("FILEGROUP_ID (") & Expr("filegroup_name") & T(")"),
    FILEGROUP_NAME |-> FILEGROUP_NAMEContext ::=
        T("FILEGROUP_NAME (") & Expr("filegroup_id") & T(")"),
    FILEGROUPPROPERTY |-> FILEGROUPPROPERTYContext ::=
        T("FILEGROUPPROPERTY (") & Expr("filegroup_name") & T(",") & Expr("property") & T(")"),
    FILEPROPERTY |-> FILEPROPERTYContext ::=
        T("FILEPROPERTY (") & Expr("file_name") & T(",") & Expr("property") & T(")"),
    FILEPROPERTYEX |-> FILEPROPERTYEXContext ::=
        T("FILEPROPERTYEX (") & Expr("name") & T(",") & Expr("property") & T(")"),
    FULLTEXTCATALOGPROPERTY |-> FULLTEXTCATALOGPROPERTYContext ::=
        T("FULLTEXTCATALOGPROPERTY (") & Expr("catalog_name") & T(",") & Expr("property")
        & T(")"),
    FULLTEXTSERVICEPROPERTY |-> FULLTEXTSERVICEPROPERTYContext ::=
        T("FULLTEXTSERVICEPROPERTY (") & Expr("property") & T(")"),
    INDEX_COL |-> INDEX_COLContext ::=
        T("INDEX_COL (") & Expr("table_or_view_name") & T(",") & Expr("index_id") & T(",")
        & Expr("key_id") & T(")"),
    INDEXKEY_PROPERTY |-> INDEXKEY_PROPERTYContext ::=
        T("INDEXKEY_PROPERTY (") & Expr("object_id") & T(",") & Expr("index_id") & T(",")
        & Expr("key_id") & T(",") & Expr("property") & T(")"),
    INDEXPROPERTY |-> INDEXPROPERTYContext ::=
        T("INDEXPROPERTY (") & Expr("object_id") & T(",") & Expr("index_or_statistics_name")
        & T(",") & Expr("property") & T(")"),
    NEXT_VALUE_FOR |-> NEXT_VALUE_FORContext ::=
        T("NEXT VALUE FOR") & L("sequence_name", N("table_name"))
        & (T("OVER (") & N("order_by_clause") & T(")"))^#,
    OBJECT_DEFINITION |-> OBJECT_DEFINITIONContext ::=
        T("OBJECT_DEFINITION (") & Expr("object_id") & T(")"),
    OBJECT_ID |-> OBJECT_IDContext ::=
        T("OBJECT_ID (") & Expr("object_name") & (T(",") & Expr("object_type"))^# & T(")"),
    OBJECT_NAME |-> OBJECT_NAMEContext ::=
        T("OBJECT_NAME (") & Expr("object_id") & (T(",") & Expr("database_id"))^# & T(")"),
    OBJECT_SCHEMA_NAME |-> OBJECT_SCHEMA_NAMEContext ::=
        T("OBJECT_SCHEMA_NAME (") & Expr("object_id") & (T(",") & Expr("database_id"))^#
        & T(")"),
    OBJECTPROPERTY |-> OBJECTPROPERTYContext ::=
        T("OBJECTPROPERTY (") & Expr("id") & T(",") & Expr("property") & T(")"),
    OBJECTPROPERTYEX |-> OBJECTPROPERTYEXContext ::=
        T("OBJECTPROPERTYEX (") & Expr("id") & T(",") & Expr("property") & T(")"),
    PARSENAME |-> PARSENAMEContext ::=
        T("PARSENAME (") & Expr("object_name") & T(",") & Expr("object_piece") & T(")"),
    SCHEMA_ID |-> SCHEMA_IDContext ::= T("SCHEMA_ID (") & Expr("schema_name")^# & T(")"),
    SCHEMA_NAME |-> SCHEMA_NAMEContext ::= T("SCHEMA_NAME (") & Expr("schema_id")^# & T(")"),
    SERVERPROPERTY |-> SERVERPROPERTYContext ::=
        T("SERVERPROPERTY (") & Expr("property") & T(")"),
    STATS_DATE |-> STATS_DATEContext ::=
        T("STATS_DATE (") & Expr("object_id") & T(",") & Expr("stats_id") & T(")"),
    TYPE_ID |-> TYPE_IDContext ::= T("TYPE_ID (") & Expr("type_name") & T(")"),
    TYPE_NAME |-> TYPE_NAMEContext ::= T("TYPE_NAME (") & Expr("type_id") & T(")"),
    TYPEPROPERTY |-> TYPEPROPERTYContext ::=
        T("TYPEPROPERTY (") & Expr("type") & T(",") & Expr("property") & T(")")]

ASCIIContext == Named({"expression"}, {}, Of("expression", {"character_expression"}))
CHARContext == Named({"expression"}, {}, Of("expression", {"integer_expression"}))
CHARINDEXContext ==
    Named({}, {"expression"},
          Of("expression", {"expressionToFind", "expressionToSearch", "start_location"}))
CONCATContext ==
    Class({}, {"expression"}, Of("expression", {"string_value_1", "string_value_2"}),
          Of("expression", {"string_value_n"}))
CONCAT_WSContext ==
    Class({}, {"expression"}, Of("expression", {"separator", "argument_1", "argument_2"}),
          Of("expression", {"argument_n"}))
DIFFERENCEContext ==
    Named({}, {"expression"},
          Of("expression", {"character_expression_1", "character_expression_2"}))
FORMATContext == Named({}, {"expression"}, Of("expression", {"value", "format", "culture"}))
LEFTContext ==
    Named({}, {"expression"}, Of("expression", {"character_expression", "integer_expression"}))
LENContext == Named({"expression"}, {}, Of("expression", {"string_expression"}))
LOWERContext == Named({"expression"}, {}, Of("expression", {"character_expression"}))
LTRIMContext == Named({"expression"}, {}, Of("expression", {"character_expression"}))
NCHARContext == Named({"expression"}, {}, Of("expression", {"integer_expression"}))
PATINDEXContext == Named({}, {"expression"}, Of("expression", {"pattern", "string_expression"}))
QUOTENAMEContext ==
    Named({}, {"expression"}, Of("expression", {"character_string", "quote_character"}))
REPLACEContext == Named({}, {"expression"}, Of("expression", {"input", "replacing", "with"}))
REPLICATEContext ==
    Named({}, {"expression"}, Of("expression", {"string_expression", "integer_expression"}))
REVERSEContext == Named({"expression"}, {}, Of("expression", {"string_expression"}))
RIGHTContext ==
    Named({}, {"expression"}, Of("expression", {"character_expression", "integer_expression"}))
RTRIMContext == Named({"expression"}, {}, Of("expression", {"character_expression"}))
SOUNDEXContext == Named({"expression"}, {}, Of("expression", {"character_expression"}))
SPACEContext == Named({"expression"}, {}, Of("expression", {"integer_expression"}))
STRContext ==
    Named({}, {"expression"},
          Of("expression", {"float_expression", "length_expression", "decimal"}))
STRINGAGGContext ==
    Named({"order_by_clause"}, {"expression"}, Of("expression", {"expr", "separator"}))
STRING_ESCAPEContext == Named({}, {"expression"}, Of("expression", {"text_", "type_"}))
STUFFContext == Named({}, {"expression"}, Of("expression", {"str", "from", "to", "str_with"}))
SUBSTRINGContext ==
    Named({}, {"expression"}, Of("expression", {"string_expression", "start_", "length"}))
TRANSLATEContext ==
    Named({}, {"expression"}, Of("expression", {"inputString", "characters", "translations"}))
TRIMContext == Named({}, {"expression"}, Of("expression", {"characters", "string_"}))
UNICODEContext == Named({"expression"}, {}, Of("expression", {"ncharacter_expression"}))
UPPERContext == Named({"expression"}, {}, Of("expression", {"character_expression"}))

StringFunctions == [
    ASCII |-> ASCIIContext ::= T("ASCII (") & Expr("character_expression") & T(")"),
    CHAR |-> CHARContext ::= T("CHAR (") & Expr("integer_expression") & T(")"),
    CHARINDEX |-> CHARINDEXContext ::=
        T("CHARINDEX (") & Expr("expressionToFind") & T(",") & Expr("expressionToSearch")
        & (T(",") & Expr("start_location"))^# & T(")"),
    CONCAT |-> CONCATContext ::=
        T("CONCAT (") & Expr("string_value_1") & T(",") & Expr("string_value_2")
        & (T(",") & V("string_value_n", N("expression")))^* & T(")"),
    CONCAT_WS |-> CONCAT_WSContext ::=
        T("CONCAT_WS (") & Expr("separator") & T(",") & Expr("argument_1") & T(",")
        & Expr("argument_2") & (T(",") & V("argument_n", N("expression")))^* & T(")"),
    DIFFERENCE |-> DIFFERENCEContext ::=
        T("DIFFERENCE (") & Expr("character_expression_1") & T(",")
        & Expr("character_expression_2") & T(")"),
    FORMAT |-> FORMATContext ::=
        T("FORMAT (") & Expr("value") & T(",") & Expr("format") & (T(",") & Expr("culture"))^#
        & T(")"),
    LEFT |-> LEFTContext ::=
        T("LEFT (") & Expr("character_expression") & T(",") & Expr("integer_expression")
        & T(")"),
    LEN |-> LENContext ::= T("LEN (") & Expr("string_expression") & T(")"),
    LOWER |-> LOWERContext ::= T("LOWER (") & Expr("character_expression") & T(")"),
    LTRIM |-> LTRIMContext ::= T("LTRIM (") & Expr("character_expression") & T(")"),
    NCHAR |-> NCHARContext ::= T("NCHAR (") & Expr("integer_expression") & T(")"),
    PATINDEX |-> PATINDEXContext ::=
        T("PATINDEX (") & Expr("pattern") & T(",") & Expr("string_expression") & T(")"),
    QUOTENAME |-> QUOTENAMEContext ::=
        T("QUOTENAME (") & Expr("character_string") & (T(",") & Expr("quote_character"))^#
        & T(")"),
    REPLACE |-> REPLACEContext ::=
        T("REPLACE (") & Expr("input") & T(",") & Expr("replacing") & T(",") & Expr("with")
        & T(")"),
    REPLICATE |-> REPLICATEContext ::=
        T("REPLICATE (") & Expr("string_expression") & T(",") & Expr("integer_expression")
        & T(")"),
    REVERSE |-> REVERSEContext ::= T("REVERSE (") & Expr("string_expression") & T(")"),
    RIGHT |-> RIGHTContext ::=
        T("RIGHT (") & Expr("character_expression") & T(",") & Expr("integer_expression")
        & T(")"),
    RTRIM |-> RTRIMContext ::= T("RTRIM (") & Expr("character_expression") & T(")"),
    SOUNDEX |-> SOUNDEXContext ::= T("SOUNDEX (") & Expr("character_expression") & T(")"),
    SPACE |-> SPACEContext ::= T("SPACE_KEYWORD (") & Expr("integer_expression") & T(")"),
    STR |-> STRContext ::=
        T("STR (") & Expr("float_expression")
        & (T(",") & Expr("length_expression") & (T(",") & Expr("decimal"))^#)^# & T(")"),
    STRINGAGG |-> STRINGAGGContext ::=
        T("STRING_AGG (") & Expr("expr") & T(",") & Expr("separator") & T(")")
        & (T("WITHIN GROUP (") & N("order_by_clause") & T(")"))^#,
    STRING_ESCAPE |-> STRING_ESCAPEContext ::=
        T("STRING_ESCAPE (") & Expr("text_") & T(",") & Expr("type_") & T(")"),
    STUFF |-> STUFFContext ::=
        T("STUFF (") & Expr("str") & T(",") & Expr("from") & T(",") & Expr("to") & T(",")
        & Expr("str_with") & T(")"),
    SUBSTRING |-> SUBSTRINGContext ::=
        T("SUBSTRING (") & Expr("string_expression") & T(",") & Expr("start_") & T(",")
        & Expr("length") & T(")"),
    TRANSLATE |-> TRANSLATEContext ::=
        T("TRANSLATE (") & Expr("inputString") & T(",") & Expr("characters") & T(",")
        & Expr("translations") & T(")"),
    TRIM |-> TRIMContext ::=
        T("TRIM (") & (Expr("characters") & T("FROM"))^# & Expr("string_") & T(")"),
    UNICODE |-> UNICODEContext ::= T("UNICODE (") & Expr("ncharacter_expression") & T(")"),
    UPPER |-> UPPERContext ::= T("UPPER (") & Expr("character_expression") & T(")")]

BINARY_CHECKSUMContext == Named({}, {"expression"}, Of("Token", {"star"}))
CHECKSUMContext == Named({}, {"expression"}, Of("Token", {"star"}))
COMPRESSContext == Named({"expression"}, {}, Of("expression", {"expr"}))
CONNECTIONPROPERTYContext == Named({"STRING"}, {}, Of("Token", {"property"}))
DECOMPRESSContext == Named({"expression"}, {}, Of("expression", {"expr"}))
FORMATMESSAGEContext ==
    Named({"DECIMAL", "STRING", "LOCAL_ID"}, {"expression"},
          Of("Token", {"msg_number", "msg_string", "msg_variable"}))
GETANSINULLContext == Named({"STRING"}, {}, Of("Token", {"database"}))
ISNULLContext == Named({}, {"expression"}, Of("expression", {"left", "right"}))
ISNUMERICContext == Plain({"expression"}, {})
SESSION_CONTEXTContext == Named({"STRING"}, {}, Of("Token", {"key"}))

SystemFunctions == [
    BINARY_CHECKSUM |-> BINARY_CHECKSUMContext ::=
        T("BINARY_CHECKSUM (") & (L("star", T("*")) | List(N("expression"))) & T(")"),
    CHECKSUM |-> CHECKSUMContext ::=
        T("CHECKSUM (") & (L("star", T("*")) | List(N("expression"))) & T(")"),
    COMPRESS |-> COMPRESSContext ::= T("COMPRESS (") & Expr("expr") & T(")"),
    CONNECTIONPROPERTY |-> CONNECTIONPROPERTYContext ::=
        T("CONNECTIONPROPERTY (") & Str("property") & T(")"),
    DECOMPRESS |-> DECOMPRESSContext ::= T("DECOMPRESS (") & Expr("expr") & T(")"),
    FORMATMESSAGE |-> FORMATMESSAGEContext ::=
        T("FORMATMESSAGE (")
        & (Num("msg_number") | Str("msg_string") | L("msg_variable", T("LOCAL_ID"))) & T(",")
        & List(N("expression")) & T(")"),
    GETANSINULL |-> GETANSINULLContext ::= T("GETANSINULL (") & Str("database")^# & T(")"),
    ISNULL |-> ISNULLContext ::= T("ISNULL (") & Expr("left") & T(",") & Expr("right") & T(")"),
    ISNUMERIC |-> ISNUMERICContext ::= T("ISNUMERIC (") & N("expression") & T(")"),
    SESSION_CONTEXT |-> SESSION_CONTEXTContext ::= T("SESSION_CONTEXT (") & Str("key") & T(")")]

CASTContext == Plain({"expression", "data_type"}, {})
TRY_CASTContext == Plain({"expression", "data_type"}, {})
CONVERTContext ==
    Named({"data_type"}, {"expression"},
          Of("data_type", {"convert_data_type"})
          @@ Of("expression", {"convert_expression", "style"}))
COALESCEContext == Plain({"expression_list_"}, {})
CURSOR_STATUSContext ==
    Named({"STRING", "expression"}, {}, Of("Token", {"scope"}) @@ Of("expression", {"cursor"}))
CERT_IDContext == Named({"expression"}, {}, Of("expression", {"cert_name"}))
DATALENGTHContext == Plain({"expression"}, {})
IDENT_CURRENTContext == Named({"expression"}, {}, Of("expression", {"table_or_view"}))
IDENT_INCRContext == Named({"expression"}, {}, Of("expression", {"table_or_view"}))
IDENT_SEEDContext == Named({"expression"}, {}, Of("expression", {"table_or_view"}))
IDENTITYContext ==
    Named({"data_type"}, {"DECIMAL"},
          Of("data_type", {"datatype"}) @@ Of("Token", {"seed", "increment"}))
SQL_VARIANT_PROPERTYContext ==
    Named({"expression", "STRING"}, {}, Of("expression", {"expr"}) @@ Of("Token", {"property"}))

ConversionFunctions == [
    CAST |-> CASTContext ::= T("CAST (") & N("expression") & T("AS") & N("data_type") & T(")"),
    TRY_CAST |-> TRY_CASTContext ::=
        T("TRY_CAST (") & N("expression") & T("AS") & N("data_type") & T(")"),
    CONVERT |-> CONVERTContext ::=
        T("CONVERT (") & L("convert_data_type", N("data_type")) & T(",")
        & Expr("convert_expression") & (T(",") & Expr("style"))^# & T(")"),
    COALESCE |-> COALESCEContext ::= T("COALESCE (") & N("expression_list_") & T(")"),
    CURSOR_STATUS |-> CURSOR_STATUSContext ::=
        T("CURSOR_STATUS (") & Str("scope") & T(",") & Expr("cursor") & T(")"),
    CERT_ID |-> CERT_IDContext ::= T("CERT_ID (") & Expr("cert_name") & T(")"),
    DATALENGTH |-> DATALENGTHContext ::= T("DATALENGTH (") & N("expression") & T(")"),
    IDENT_CURRENT |-> IDENT_CURRENTContext ::=
        T("IDENT_CURRENT (") & Expr("table_or_view") & T(")"),
    IDENT_INCR |-> IDENT_INCRContext ::= T("IDENT_INCR (") & Expr("table_or_view") & T(")"),
    IDENT_SEED |-> IDENT_SEEDContext ::= T("IDENT_SEED (") & Expr("table_or_view") & T(")"),
    IDENTITY |-> IDENTITYContext ::=
        (T("IDENTITY (") & L("datatype", N("data_type"))
         & (T(",") & Num("seed") & T(",") & Num("increment"))^# & T(")"))
        | (T("IDENTITY (") & N("data_type") & (T(",") & Num("seed"))^#
           & (T(",") & Num("increment"))^# & T(")")),
    SQL_VARIANT_PROPERTY |-> SQL_VARIANT_PROPERTYContext ::=
        T("SQL_VARIANT_PROPERTY (") & Expr("expr") & T(",") & Str("property") & T(")")]

DATE_BUCKETContext ==
    Named({"dateparts_9"}, {"expression"},
          Of("dateparts_9", {"datepart"}) @@ Of("expression", {"number", "date", "origin"}))
DATEADDContext ==
    Named({"dateparts_12"}, {"expression"},
          Of("dateparts_12", {"datepart"}) @@ Of("expression", {"number", "date"}))
DATEDIFFContext ==
    Named({"dateparts_12"}, {"expression"},
          Of("dateparts_12", {"datepart"}) @@ Of("expression", {"date_first", "date_second"}))
DATEDIFF_BIGContext ==
    Named({"dateparts_12"}, {"expression"},
          Of("dateparts_12", {"datepart"}) @@ Of("expression", {"startdate", "enddate"}))
DATEFROMPARTSContext == Named({}, {"expression"}, Of("expression", {"year", "month", "day"}))
DATENAMEContext ==
    Named({"dateparts_15", "expression"}, {},
          Of("dateparts_15", {"datepart"}) @@ Of("expression", {"date"}))
DATEPARTContext ==
    Named({"dateparts_15", "expression"}, {},
          Of("dateparts_15", {"datepart"}) @@ Of("expression", {"date"}))
DATETIME2FROMPARTSContext ==
    Named({}, {"expression"},
          Of("expression", {"year", "month", "day", "hour", "minute", "seconds", "fractions",
                            "precision"}))
DATETIMEFROMPARTSContext ==
    Named({}, {"expression"},
          Of("expression", {"year", "month", "day", "hour", "minute", "seconds", "milliseconds"}))
DATETIMEOFFSETFROMPARTSContext ==
    Named({"DECIMAL"}, {"expression"},
          Of("expression", {"year", "month", "day", "hour", "minute", "seconds", "fractions",
                            "hour_offset", "minute_offset"})
          @@ Of("Token", {"precision"}))
DATETRUNCContext ==
    Named({"dateparts_datetrunc", "expression"}, {},
          Of("dateparts_datetrunc", {"datepart"}) @@ Of("expression", {"date"}))
DAYContext == Named({"expression"}, {}, Of("expression", {"date"}))
EOMONTHContext == Named({}, {"expression"}, Of("expression", {"start_date", "month_to_add"}))
ISDATEContext == Plain({"expression"}, {})
MONTHContext == Named({"expression"}, {}, Of("expression", {"date"}))
SMALLDATETIMEFROMPARTSContext ==
    Named({}, {"expression"}, Of("expression", {"year", "month", "day", "hour", "minute"}))
SWITCHOFFSETContext ==
    Named({}, {"expression"},
          Of("expression", {"datetimeoffset_expression", "timezoneoffset_expression"}))
TIMEFROMPARTSContext ==
    Named({"DECIMAL"}, {"expression"},
          Of("expression", {"hour", "minute", "seconds", "fractions"})
          @@ Of("Token", {"precision"}))
TODATETIMEOFFSETContext ==
    Named({}, {"expression"},
          Of("expression", {"datetime_expression", "timezoneoffset_expression"}))
YEARContext == Named({"expression"}, {}, Of("expression", {"date"}))

DateFunctions == [
    DATE_BUCKET |-> DATE_BUCKETContext ::=
        T("DATE_BUCKET (") & L("datepart", N("dateparts_9")) & T(",") & Expr("number") & T(",")
        & Expr("date") & (T(",") & Expr("origin"))^# & T(")"),
    DATEADD |-> DATEADDContext ::=
        T("DATEADD (") & L("datepart", N("dateparts_12")) & T(",") & Expr("number") & T(",")
        & Expr("date") & T(")"),
    DATEDIFF |-> DATEDIFFContext ::=
        T("DATEDIFF (") & L("datepart", N("dateparts_12")) & T(",") & Expr("date_first")
        & T(",") & Expr("date_second") & T(")"),
    DATEDIFF_BIG |-> DATEDIFF_BIGContext ::=
        T("DATEDIFF_BIG (") & L("datepart", N("dateparts_12")) & T(",") & Expr("startdate")
        & T(",") & Expr("enddate") & T(")"),
    DATEFROMPARTS |-> DATEFROMPARTSContext ::=
        T("DATEFROMPARTS (") & Expr("year") & T(",") & Expr("month") & T(",") & Expr("day")
        & T(")"),
    DATENAME |-> DATENAMEContext ::=
        T("DATENAME (") & L("datepart", N("dateparts_15")) & T(",") & Expr("date") & T(")"),
    DATEPART |-> DATEPARTContext ::=
        T("DATEPART (") & L("datepart", N("dateparts_15")) & T(",") & Expr("date") & T(")"),
    DATETIME2FROMPARTS |-> DATETIME2FROMPARTSContext ::=
        T("DATETIME2FROMPARTS (") & Expr("year") & T(",") & Expr("month") & T(",") & Expr("day")
        & T(",") & Expr("hour") & T(",") & Expr("minute") & T(",") & Expr("seconds") & T(",")
        & Expr("fractions") & T(",") & Expr("precision") & T(")"),
    DATETIMEFROMPARTS |-> DATETIMEFROMPARTSContext ::=
        T("DATETIMEFROMPARTS (") & Expr("year") & T(",") & Expr("month") & T(",") & Expr("day")
        & T(",") & Expr("hour") & T(",") & Expr("minute") & T(",") & Expr("seconds") & T(",")
        & Expr("milliseconds") & T(")"),
    DATETIMEOFFSETFROMPARTS |-> DATETIMEOFFSETFROMPARTSContext ::=
        T("DATETIMEOFFSETFROMPARTS (") & Expr("year") & T(",") & Expr("month") & T(",")
        & Expr("day") & T(",") & Expr("hour") & T(",") & Expr("minute") & T(",")
        & Expr("seconds") & T(",") & Expr("fractions") & T(",") & Expr("hour_offset") & T(",")
        & Expr("minute_offset") & T(",") & Num("precision") & T(")"),
    DATETRUNC |-> DATETRUNCContext ::=
        T("DATETRUNC (") & L("datepart", N("dateparts_datetrunc")) & T(",") & Expr("date")
        & T(")"),
    DAY |-> DAYContext ::= T("DAY (") & Expr("date") & T(")"),
    EOMONTH |-> EOMONTHContext ::=
        T("EOMONTH (") & Expr("start_date") & (T(",") & Expr("month_to_add"))^# & T(")"),
    ISDATE |-> ISDATEContext ::= T("ISDATE (") & N("expression") & T(")"),
    MONTH |-> MONTHContext ::= T("MONTH (") & Expr("date") & T(")"),
    SMALLDATETIMEFROMPARTS |-> SMALLDATETIMEFROMPARTSContext ::=
        T("SMALLDATETIMEFROMPARTS (") & Expr("year") & T(",") & Expr("month") & T(",")
        & Expr("day") & T(",") & Expr("hour") & T(",") & Expr("minute") & T(")"),
    SWITCHOFFSET |-> SWITCHOFFSETContext ::=
        T("SWITCHOFFSET (") & Expr("datetimeoffset_expression") & T(",")
        & Expr("timezoneoffset_expression") & T(")"),
    TIMEFROMPARTS |-> TIMEFROMPARTSContext ::=
        T("TIMEFROMPARTS (") & Expr("hour") & T(",") & Expr("minute") & T(",") & Expr("seconds")
        & T(",") & Expr("fractions") & T(",") & Num("precision") & T(")"),
    TODATETIMEOFFSET |-> TODATETIMEOFFSETContext ::=
        T("TODATETIMEOFFSET (") & Expr("datetime_expression") & T(",")
        & Expr("timezoneoffset_expression") & T(")"),
    YEAR |-> YEARContext ::= T("YEAR (") & Expr("date") & T(")")]

NULLIFContext == Named({}, {"expression"}, Of("expression", {"left", "right"}))
PARSEContext == Named({"data_type"}, {"expression"}, Of("expression", {"str", "culture"}))
XML_DATA_TYPE_FUNCContext == Plain({"xml_data_type_methods"}, {})
IIFContext ==
    Named({"search_condition"}, {"expression"},
          Of("search_condition", {"cond"}) @@ Of("expression", {"left", "right"}))
ISJSONContext ==
    Named({}, {"expression"}, Of("expression", {"json_expr", "json_type_constraint"}))
JSON_OBJECTContext ==
    Named({"json_null_clause"}, {"json_key_value"}, Of("json_key_value", {"key_value"}))
JSON_ARRAYContext == Plain({"expression_list_", "json_null_clause"}, {})
JSON_VALUEContext == Named({}, {"expression"}, Of("expression", {"expr", "path"}))
JSON_QUERYContext == Named({}, {"expression"}, Of("expression", {"expr", "path"}))
JSON_MODIFYContext == Named({}, {"expression"}, Of("expression", {"expr", "path", "new_value"}))
JSON_PATH_EXISTSContext ==
    Named({}, {"expression"}, Of("expression", {"value_expression", "sql_json_path"}))

XmlAndJsonFunctions == [
    NULLIF |-> NULLIFContext ::= T("NULLIF (") & Expr("left") & T(",") & Expr("right") & T(")"),
    PARSE |-> PARSEContext ::=
        T("PARSE (") & Expr("str") & T("AS") & N("data_type") & (T("USING") & Expr("culture"))^#
        & T(")"),
    XML_DATA_TYPE_FUNC |-> XML_DATA_TYPE_FUNCContext ::= N("xml_data_type_methods"),
    IIF |-> IIFContext ::=
        T("IIF (") & L("cond", N("search_condition")) & T(",") & Expr("left") & T(",")
        & Expr("right") & T(")"),
    ISJSON |-> ISJSONContext ::=
        T("ISJSON (") & Expr("json_expr") & (T(",") & Expr("json_type_constraint"))^# & T(")"),
    JSON_OBJECT |-> JSON_OBJECTContext ::=
        T("JSON_OBJECT (") & List(L("key_value", N("json_key_value")))^#
        & N("json_null_clause")^# & T(")"),
    JSON_ARRAY |-> JSON_ARRAYContext ::=
        T("JSON_ARRAY (") & N("expression_list_")^# & N("json_null_clause")^# & T(")"),
    JSON_VALUE |-> JSON_VALUEContext ::=
        T("JSON_VALUE (") & Expr("expr") & T(",") & Expr("path") & T(")"),
    JSON_QUERY |-> JSON_QUERYContext ::=
        T("JSON_QUERY (") & Expr("expr") & (T(",") & Expr("path"))^# & T(")"),
    JSON_MODIFY |-> JSON_MODIFYContext ::=
        T("JSON_MODIFY (") & Expr("expr") & T(",") & Expr("path") & T(",") & Expr("new_value")
        & T(")"),
    JSON_PATH_EXISTS |-> JSON_PATH_EXISTSContext ::=
        T("JSON_PATH_EXISTS (") & Expr("value_expression") & T(",") & Expr("sql_json_path")
        & T(")")]

ABSContext == Named({"expression"}, {}, Of("expression", {"numeric_expression"}))
ACOSContext == Named({"expression"}, {}, Of("expression", {"float_expression"}))
ASINContext == Named({"expression"}, {}, Of("expression", {"float_expression"}))
ATANContext == Named({"expression"}, {}, Of("expression", {"float_expression"}))
ATN2Context == Named({}, {"expression"}, Of("expression", {"float_expression"}))
CEILINGContext == Named({"expression"}, {}, Of("expression", {"numeric_expression"}))
COSContext == Named({"expression"}, {}, Of("expression", {"float_expression"}))
COTContext == Named({"expression"}, {}, Of("expression", {"float_expression"}))
DEGREESContext == Named({"expression"}, {}, Of("expression", {"numeric_expression"}))
EXPContext == Named({"expression"}, {}, Of("expression", {"float_expression"}))
FLOORContext == Named({"expression"}, {}, Of("expression", {"numeric_expression"}))
LOGContext == Named({}, {"expression"}, Of("expression", {"float_expression", "base"}))
LOG10Context == Named({"expression"}, {}, Of("expression", {"float_expression"}))
POWERContext == Named({}, {"expression"}, Of("expression", {"float_expression", "y"}))
RADIANSContext == Named({"expression"}, {}, Of("expression", {"numeric_expression"}))
RANDContext == Named({"expression"}, {}, Of("expression", {"seed"}))
ROUNDContext ==
    Named({}, {"expression"}, Of("expression", {"numeric_expression", "length", "function"}))
MATH_SIGNContext == Named({"expression"}, {}, Of("expression", {"numeric_expression"}))
SINContext == Named({"expression"}, {}, Of("expression", {"float_expression"}))
SQRTContext == Named({"expression"}, {}, Of("expression", {"float_expression"}))
SQUAREContext == Named({"expression"}, {}, Of("expression", {"float_expression"}))
TANContext == Named({"expression"}, {}, Of("expression", {"float_expression"}))
GREATESTContext == Plain({"expression_list_"}, {})
LEASTContext == Plain({"expression_list_"}, {})

MathFunctions == [
    ABS |-> ABSContext ::= T("ABS (") & Expr("numeric_expression") & T(")"),
    ACOS |-> ACOSContext ::= T("ACOS (") & Expr("float_expression") & T(")"),
    ASIN |-> ASINContext ::= T("ASIN (") & Expr("float_expression") & T(")"),
    ATAN |-> ATANContext ::= T("ATAN (") & Expr("float_expression") & T(")"),
    ATN2 |-> ATN2Context ::=
        T("ATN2 (") & Expr("float_expression") & T(",") & Expr("float_expression") & T(")"),
    CEILING |-> CEILINGContext ::= T("CEILING (") & Expr("numeric_expression") & T(")"),
    COS |-> COSContext ::= T("COS (") & Expr("float_expression") & T(")"),
    COT |-> COTContext ::= T("COT (") & Expr("float_expression") & T(")"),
    DEGREES |-> DEGREESContext ::= T("DEGREES (") & Expr("numeric_expression") & T(")"),
    EXP |-> EXPContext ::= T("EXP (") & Expr("float_expression") & T(")"),
    FLOOR |-> FLOORContext ::= T("FLOOR (") & Expr("numeric_expression") & T(")"),
    LOG |-> LOGContext ::=
        T("LOG (") & Expr("float_expression") & (T(",") & Expr("base"))^# & T(")"),
    LOG10 |-> LOG10Context ::= T("LOG10 (") & Expr("float_expression") & T(")"),
    POWER |-> POWERContext ::=
        T("POWER (") & Expr("float_expression") & T(",") & Expr("y") & T(")"),
    RADIANS |-> RADIANSContext ::= T("RADIANS (") & Expr("numeric_expression") & T(")"),
    RAND |-> RANDContext ::= T("RAND (") & Expr("seed")^# & T(")"),
    ROUND |-> ROUNDContext ::=
        T("ROUND (") & Expr("numeric_expression") & T(",") & Expr("length")
        & (T(",") & Expr("function"))^# & T(")"),
    MATH_SIGN |-> MATH_SIGNContext ::= T("SIGN (") & Expr("numeric_expression") & T(")"),
    SIN |-> SINContext ::= T("SIN (") & Expr("float_expression") & T(")"),
    SQRT |-> SQRTContext ::= T("SQRT (") & Expr("float_expression") & T(")"),
    SQUARE |-> SQUAREContext ::= T("SQUARE (") & Expr("float_expression") & T(")"),
    TAN |-> TANContext ::= T("TAN (") & Expr("float_expression") & T(")"),
    GREATEST |-> GREATESTContext ::= T("GREATEST (") & N("expression_list_") & T(")"),
    LEAST |-> LEASTContext ::= T("LEAST (") & N("expression_list_") & T(")")]

CERTENCODEDContext == Named({"expression"}, {}, Of("expression", {"certid"}))
CERTPRIVATEKEYContext ==
    Named({}, {"expression"},
          Of("expression", {"certid", "encryption_password", "decryption_pasword"}))
DATABASE_PRINCIPAL_IDContext == Named({"expression"}, {}, Of("expression", {"principal_name"}))
HAS_DBACCESSContext == Named({"expression"}, {}, Of("expression", {"database_name"}))
HAS_PERMS_BY_NAMEContext ==
    Named({}, {"expression"},
          Of("expression", {"securable", "securable_class", "permission", "sub_securable",
                            "sub_securable_class"}))
IS_MEMBERContext == Named({"expression"}, {}, Of("expression", {"group_or_role"}))
IS_ROLEMEMBERContext ==
    Named({}, {"expression"}, Of("expression", {"role", "database_principal"}))
IS_SRVROLEMEMBERContext == Named({}, {"expression"}, Of("expression", {"role", "login"}))
LOGINPROPERTYContext ==
    Named({}, {"expression"}, Of("expression", {"login_name", "property_name"}))
PERMISSIONSContext == Named({}, {"expression"}, Of("expression", {"object_id", "column"}))
PWDENCRYPTContext == Named({"expression"}, {}, Of("expression", {"password"}))
PWDCOMPAREContext ==
    Named({}, {"expression"},
          Of("expression", {"clear_text_password", "password_hash", "version"}))
SESSIONPROPERTYContext == Named({"expression"}, {}, Of("expression", {"option_name"}))
SUSER_IDContext == Named({"expression"}, {}, Of("expression", {"login"}))
SUSER_SNAMEContext == Named({"expression"}, {}, Of("expression", {"server_user_sid"}))
SUSER_SIDContext == Named({}, {"expression"}, Of("expression", {"login", "param2"}))
USER_IDContext == Named({"expression"}, {}, Of("expression", {"user"}))
USER_NAMEContext == Named({"expression"}, {}, Of("expression", {"id"}))

SecurityFunctions == [
    CERTENCODED |-> CERTENCODEDContext ::= T("CERTENCODED (") & Expr("certid") & T(")"),
    CERTPRIVATEKEY |-> CERTPRIVATEKEYContext ::=
        T("CERTPRIVATEKEY (") & Expr("certid") & T(",") & Expr("encryption_password")
        & (T(",") & Expr("decryption_pasword"))^# & T(")"),
    DATABASE_PRINCIPAL_ID |-> DATABASE_PRINCIPAL_IDContext ::=
        T("DATABASE_PRINCIPAL_ID (") & Expr("principal_name")^# & T(")"),
    HAS_DBACCESS |-> HAS_DBACCESSContext ::=
        T("HAS_DBACCESS (") & Expr("database_name") & T(")"),
    HAS_PERMS_BY_NAME |-> HAS_PERMS_BY_NAMEContext ::=
        T("HAS_PERMS_BY_NAME (") & Expr("securable") & T(",") & Expr("securable_class") & T(",")
        & Expr("permission")
        & (T(",") & Expr("sub_securable") & (T(",") & Expr("sub_securable_class"))^#)^# & T(")"),
    IS_MEMBER |-> IS_MEMBERContext ::= T("IS_MEMBER (") & Expr("group_or_role") & T(")"),
    IS_ROLEMEMBER |-> IS_ROLEMEMBERContext ::=
        T("IS_ROLEMEMBER (") & Expr("role") & (T(",") & Expr("database_principal"))^# & T(")"),
    IS_SRVROLEMEMBER |-> IS_SRVROLEMEMBERContext ::=
        T("IS_SRVROLEMEMBER (") & Expr("role") & (T(",") & Expr("login"))^# & T(")"),
    LOGINPROPERTY |-> LOGINPROPERTYContext ::=
        T("LOGINPROPERTY (") & Expr("login_name") & T(",") & Expr("property_name") & T(")"),
    PERMISSIONS |-> PERMISSIONSContext ::=
        T("PERMISSIONS (") & (Expr("object_id") & (T(",") & Expr("column"))^#)^# & T(")"),
    PWDENCRYPT |-> PWDENCRYPTContext ::= T("PWDENCRYPT (") & Expr("password") & T(")"),
    PWDCOMPARE |-> PWDCOMPAREContext ::=
        T("PWDCOMPARE (") & Expr("clear_text_password") & T(",") & Expr("password_hash")
        & (T(",") & Expr("version"))^# & T(")"),
    SESSIONPROPERTY |-> SESSIONPROPERTYContext ::=
        T("SESSIONPROPERTY (") & Expr("option_name") & T(")"),
    SUSER_ID |-> SUSER_IDContext ::= T("SUSER_ID (") & Expr("login")^# & T(")"),
    SUSER_SNAME |-> SUSER_SNAMEContext ::=
        (T("SUSER_NAME (") & Expr("server_user_sid")^# & T(")"))
        | (T("SUSER_SNAME (") & Expr("server_user_sid")^# & T(")")),
    SUSER_SID |-> SUSER_SIDContext ::=
        T("SUSER_SID (") & (Expr("login") & (T(",") & Expr("param2"))^#)^# & T(")"),
    USER_ID |-> USER_IDContext ::= T("USER_ID (") & Expr("user")^# & T(")"),
    USER_NAME |-> USER_NAMEContext ::= T("USER_NAME (") & Expr("id")^# & T(")")]

BuiltInRules == [
    built_in_functions |-> NoClass ::=
        Choice(<<N("APP_NAME"), N("APPLOCK_MODE"), N("APPLOCK_TEST"), N("ASSEMBLYPROPERTY"),
                 N("COL_LENGTH"), N("COL_NAME"), N("COLUMNPROPERTY"), N("DATABASEPROPERTYEX"),
                 N("DB_ID"), N("DB_NAME"), N("FILE_ID"), N("FILE_IDEX"), N("FILE_NAME"),
                 N("FILEGROUP_ID"), N("FILEGROUP_NAME"), N("FILEGROUPPROPERTY"),
                 N("FILEPROPERTY"), N("FILEPROPERTYEX"), N("FULLTEXTCATALOGPROPERTY"),
                 N("FULLTEXTSERVICEPROPERTY"), N("INDEX_COL"), N("INDEXKEY_PROPERTY"),
                 N("INDEXPROPERTY"), N("NEXT_VALUE_FOR"), N("OBJECT_DEFINITION"),
                 N("OBJECT_ID"), N("OBJECT_NAME"), N("OBJECT_SCHEMA_NAME"), N("OBJECTPROPERTY"),
                 N("OBJECTPROPERTYEX"), N("ORIGINAL_DB_NAME"), N("PARSENAME"), N("SCHEMA_ID"),
                 N("SCHEMA_NAME"), N("SCOPE_IDENTITY"), N("SERVERPROPERTY"), N("STATS_DATE"),
                 N("TYPE_ID"), N("TYPE_NAME"), N("TYPEPROPERTY"), N("ASCII"), N("CHAR"),
                 N("CHARINDEX"), N("CONCAT"), N("CONCAT_WS"), N("DIFFERENCE"), N("FORMAT"),
                 N("LEFT"), N("LEN"), N("LOWER"), N("LTRIM"), N("NCHAR"), N("PATINDEX"),
                 N("QUOTENAME"), N("REPLACE"), N("REPLICATE"), N("REVERSE"), N("RIGHT"),
                 N("RTRIM"), N("SOUNDEX"), N("SPACE"), N("STR"), N("STRINGAGG"),
                 N("STRING_ESCAPE"), N("STUFF"), N("SUBSTRING"), N("TRANSLATE"), N("TRIM"),
                 N("UNICODE"), N("UPPER"), N("BINARY_CHECKSUM"), N("CHECKSUM"), N("COMPRESS"),
                 N("CONNECTIONPROPERTY"), N("CONTEXT_INFO"), N("CURRENT_REQUEST_ID"),
                 N("CURRENT_TRANSACTION_ID"), N("DECOMPRESS"), N("ERROR_LINE"),
                 N("ERROR_MESSAGE"), N("ERROR_NUMBER"), N("ERROR_PROCEDURE"),
                 N("ERROR_SEVERITY"), N("ERROR_STATE"), N("FORMATMESSAGE"),
                 N("GET_FILESTREAM_TRANSACTION_CONTEXT"), N("GETANSINULL"), N("HOST_ID"),
                 N("HOST_NAME"), N("ISNULL"), N("ISNUMERIC"), N("MIN_ACTIVE_ROWVERSION"),
                 N("NEWID"), N("NEWSEQUENTIALID"), N("ROWCOUNT_BIG"), N("SESSION_CONTEXT"),
                 N("XACT_STATE"), N("CAST"), N("TRY_CAST"), N("CONVERT"), N("COALESCE"),
                 N("CURSOR_ROWS"), N("FETCH_STATUS"), N("CURSOR_STATUS"), N("CERT_ID"),
                 N("DATALENGTH"), N("IDENT_CURRENT"), N("IDENT_INCR"), N("IDENT_SEED"),
                 N("IDENTITY"), N("SQL_VARIANT_PROPERTY"), N("CURRENT_DATE"),
                 N("CURRENT_TIMESTAMP"), N("CURRENT_TIMEZONE"), N("CURRENT_TIMEZONE_ID"),
                 N("DATE_BUCKET"), N("DATEADD"), N("DATEDIFF"), N("DATEDIFF_BIG"),
                 N("DATEFROMPARTS"), N("DATENAME"), N("DATEPART"), N("DATETIME2FROMPARTS"),
                 N("DATETIMEFROMPARTS"), N("DATETIMEOFFSETFROMPARTS"), N("DATETRUNC"), N("DAY"),
                 N("EOMONTH"), N("GETDATE"), N("GETUTCDATE"), N("ISDATE"), N("MONTH"),
                 N("SMALLDATETIMEFROMPARTS"), N("SWITCHOFFSET"), N("SYSDATETIME"),
                 N("SYSDATETIMEOFFSET"), N("SYSUTCDATETIME"), N("TIMEFROMPARTS"),
                 N("TODATETIMEOFFSET"), N("YEAR"), N("NULLIF"), N("PARSE"),
                 N("XML_DATA_TYPE_FUNC"), N("IIF"), N("ISJSON"), N("JSON_OBJECT"),
                 N("JSON_ARRAY"), N("JSON_VALUE"), N("JSON_QUERY"), N("JSON_MODIFY"),
                 N("JSON_PATH_EXISTS"), N("ABS"), N("ACOS"), N("ASIN"), N("ATAN"), N("ATN2"),
                 N("CEILING"), N("COS"), N("COT"), N("DEGREES"), N("EXP"), N("FLOOR"), N("LOG"),
                 N("LOG10"), N("PI"), N("POWER"), N("RADIANS"), N("RAND"), N("ROUND"),
                 N("MATH_SIGN"), N("SIN"), N("SQRT"), N("SQUARE"), N("TAN"), N("GREATEST"),
                 N("LEAST"), N("CERTENCODED"), N("CERTPRIVATEKEY"), N("CURRENT_USER"),
                 N("DATABASE_PRINCIPAL_ID"), N("HAS_DBACCESS"), N("HAS_PERMS_BY_NAME"),
                 N("IS_MEMBER"), N("IS_ROLEMEMBER"), N("IS_SRVROLEMEMBER"), N("LOGINPROPERTY"),
                 N("ORIGINAL_LOGIN"), N("PERMISSIONS"), N("PWDENCRYPT"), N("PWDCOMPARE"),
                 N("SESSION_USER"), N("SESSIONPROPERTY"), N("SUSER_ID"), N("SUSER_SNAME"),
                 N("SUSER_SID"), N("SYSTEM_USER"), N("USER"), N("USER_ID"), N("USER_NAME")>>)]

Xml_data_type_methodsContext ==
    Plain({"value_method", "query_method", "exist_method", "modify_method"}, {})
Dateparts_12Context == Plain({"dateparts_9"}, {})
Dateparts_15Context == Plain({"dateparts_12"}, {})
Dateparts_datetruncContext == Plain({"dateparts_9"}, {})
Value_methodContext ==
    Named({"value_call", "subquery", "LOCAL_ID", "full_column_name", "query_method"}, {},
          Of("Token", {"loc_id", "eventdata"}) @@ Of("full_column_name", {"value_id"})
          @@ Of("query_method", {"query"}) @@ Of("value_call", {"call"}))
Value_callContext == Named({}, {"STRING"}, Of("Token", {"xquery", "sqltype"}))
Query_methodContext ==
    Named({"query_call", "subquery", "LOCAL_ID", "full_column_name"}, {},
          Of("Token", {"loc_id"}) @@ Of("full_column_name", {"value_id"})
          @@ Of("query_call", {"call"}))
Query_callContext == Named({"STRING"}, {}, Of("Token", {"xquery"}))
Exist_methodContext ==
    Named({"exist_call", "subquery", "LOCAL_ID", "full_column_name"}, {},
          Of("Token", {"loc_id"}) @@ Of("full_column_name", {"value_id"})
          @@ Of("exist_call", {"call"}))
Exist_callContext == Named({"STRING"}, {}, Of("Token", {"xquery"}))
Modify_methodContext ==
    Named({"modify_call", "subquery", "LOCAL_ID", "full_column_name"}, {},
          Of("Token", {"loc_id"}) @@ Of("full_column_name", {"value_id"})
          @@ Of("modify_call", {"call"}))
Modify_callContext == Named({"STRING"}, {}, Of("Token", {"xml_dml"}))
Hierarchyid_callContext ==
    Named({}, {"expression"},
          Of("expression", {"n", "child1", "child2", "parent_", "oldroot", "newroot"}))
Hierarchyid_static_methodContext == Named({"expression"}, {}, Of("expression", {"input"}))
Nodes_methodContext ==
    Named({"STRING", "subquery", "LOCAL_ID", "full_column_name"}, {},
          Of("Token", {"loc_id", "xquery"}) @@ Of("full_column_name", {"value_id"}))

MethodRules == [
    xml_data_type_methods |-> Xml_data_type_methodsContext ::=
        Choice(<<N("value_method"), N("query_method"), N("exist_method"), N("modify_method")>>),
    dateparts_12 |-> Dateparts_12Context ::=
        N("dateparts_9") | T("DAYOFYEAR") | T("DAYOFYEAR_ABBR") | T("MICROSECOND")
        | T("MICROSECOND_ABBR") | T("NANOSECOND") | T("NANOSECOND_ABBR"),
    dateparts_15 |-> Dateparts_15Context ::=
        N("dateparts_12") | T("WEEKDAY") | T("WEEKDAY_ABBR") | T("TZOFFSET")
        | T("TZOFFSET_ABBR") | T("ISO_WEEK") | T("ISO_WEEK_ABBR"),
    dateparts_datetrunc |-> Dateparts_datetruncContext ::=
        N("dateparts_9") | T("DAYOFYEAR") | T("DAYOFYEAR_ABBR") | T("MICROSECOND")
        | T("MICROSECOND_ABBR") | T("ISO_WEEK") | T("ISO_WEEK_ABBR"),
    value_method |-> Value_methodContext ::=
        (L("loc_id", T("LOCAL_ID")) | L("value_id", N("full_column_name"))
         | (L("eventdata", T("EVENTDATA")) & T("( )")) | L("query", N("query_method"))
         | (T("(") & N("subquery") & T(")")))
        & T(".") & L("call", N("value_call")),
    value_call |-> Value_callContext ::=
        OneOf({"VALUE", "[VALUE]"}) & T("(") & Str("xquery") & T(",") & Str("sqltype") & T(")"),
    query_method |-> Query_methodContext ::=
        (L("loc_id", T("LOCAL_ID")) | L("value_id", N("full_column_name"))
         | (T("(") & N("subquery") & T(")")))
        & T(".") & L("call", N("query_call")),
    query_call |-> Query_callContext ::=
        OneOf({"QUERY", "[QUERY]"}) & T("(") & Str("xquery") & T(")"),
    exist_method |-> Exist_methodContext ::=
        (L("loc_id", T("LOCAL_ID")) | L("value_id", N("full_column_name"))
         | (T("(") & N("subquery") & T(")")))
        & T(".") & L("call", N("exist_call")),
    exist_call |-> Exist_callContext ::=
        OneOf({"EXIST", "[EXIST]"}) & T("(") & Str("xquery") & T(")"),
    modify_method |-> Modify_methodContext ::=
        (L("loc_id", T("LOCAL_ID")) | L("value_id", N("full_column_name"))
         | (T("(") & N("subquery") & T(")")))
        & T(".") & L("call", N("modify_call")),
    modify_call |-> Modify_callContext ::=
        OneOf({"MODIFY", "[MODIFY]"}) & T("(") & Str("xml_dml") & T(")"),
    hierarchyid_call |-> Hierarchyid_callContext ::=
        (T("GETANCESTOR (") & Expr("n") & T(")"))
        | (T("GETDESCENDANT (") & Expr("child1") & T(",") & Expr("child2") & T(")"))
        | T("GETLEVEL ( )")
        | (T("ISDESCENDANTOF (") & Expr("parent_") & T(")"))
        | (T("GETREPARENTEDVALUE (") & Expr("oldroot") & T(",") & Expr("newroot") & T(")"))
        | T("TOSTRING ( )"),
    hierarchyid_static_method |-> Hierarchyid_static_methodContext ::=
        T("HIERARCHYID ::") & (T("GETROOT ( )") | (T("PARSE (") & Expr("input") & T(")"))),
    nodes_method |-> Nodes_methodContext ::=
        (L("loc_id", T("LOCAL_ID")) | L("value_id", N("full_column_name"))
         | (T("(") & N("subquery") & T(")")))
        & T(". NODES (") & Str("xquery") & T(")")]
=============================================================================
