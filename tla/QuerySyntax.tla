---------------------------- MODULE QuerySyntax -----------------------------
(***************************************************************************)
(* Data statements, expressions, predicates, queries and table sources.    *)
(* Rules in the order of TSqlParser.g4, each with its class of             *)
(* TSqlParser.h.                                                           *)
(***************************************************************************)
EXTENDS RuleNotation

Merge_statementContext ==
    Plain({"ddl_object", "table_sources", "search_condition", "with_expression", "expression",
           "with_table_hints", "as_table_alias", "output_clause", "option_clause"},
          {"when_matches"})
When_matchesContext == Plain({"merge_not_matched"}, {"merge_matched", "search_condition"})
Merge_matchedContext == Plain({}, {"update_elem_merge"})
Merge_not_matchedContext == Plain({"table_value_constructor", "column_name_list"}, {})
Delete_statementContext ==
    Named({"delete_statement_from", "with_expression", "expression", "DECIMAL",
           "with_table_hints", "output_clause", "from_table_sources", "for_clause",
           "option_clause", "search_condition", "cursor_name", "LOCAL_ID"}, {},
          Of("Token", {"cursor_var"}))
Delete_statement_fromContext ==
    Named({"ddl_object", "rowset_function_limited", "LOCAL_ID"}, {}, Of("Token", {"table_var"}))
Insert_statementContext ==
    Plain({"insert_statement_value", "ddl_object", "rowset_function_limited", "with_expression",
           "expression", "with_table_hints", "insert_column_name_list", "output_clause",
           "for_clause", "option_clause"}, {})
Insert_statement_valueContext ==
    Plain({"table_value_constructor", "derived_table", "execute_statement"}, {})
Receive_statementContext ==
    Named({"full_table_name", "top_clause", "id_", "search_condition"},
          {"LOCAL_ID", "expression"},
          Of("id_", {"table_variable"}) @@ Of("search_condition", {"where"}))
Select_statement_standaloneContext == Plain({"select_statement", "with_expression"}, {})
Select_statementContext ==
    Plain({"query_expression", "select_order_by_clause", "for_clause", "option_clause"}, {})
TimeContext == Plain({"LOCAL_ID", "constant"}, {})
Update_statementContext ==
    Named({"ddl_object", "rowset_function_limited", "with_expression", "expression",
           "with_table_hints", "output_clause", "table_sources", "for_clause", "option_clause",
           "search_condition", "cursor_name", "LOCAL_ID"}, {"update_elem"},
          Of("Token", {"cursor_var"}))
Output_clauseContext ==
    Plain({"LOCAL_ID", "table_name", "column_name_list"}, {"output_dml_list_elem"})
Output_dml_list_elemContext == Plain({"expression", "asterisk", "as_column_alias"}, {})

DataRules == [
    merge_statement |-> Merge_statementContext ::=
        N("with_expression")^# & T("MERGE")
        & (T("TOP (") & N("expression") & T(")") & T("PERCENT")^#)^# & T("INTO")^#
        & N("ddl_object") & N("with_table_hints")^# & N("as_table_alias")^# & T("USING")
        & N("table_sources") & T("ON") & N("search_condition") & N("when_matches")^+
        & N("output_clause")^# & N("option_clause")^# & T(";"),
    when_matches |-> When_matchesContext ::=
        (T("WHEN MATCHED") & (T("AND") & N("search_condition"))^# & T("THEN")
         & N("merge_matched"))^+
        | (T("WHEN NOT MATCHED") & T("BY TARGET")^# & (T("AND") & N("search_condition"))^#
           & T("THEN") & N("merge_not_matched"))
        | (T("WHEN NOT MATCHED BY SOURCE") & (T("AND") & N("search_condition"))^# & T("THEN")
           & N("merge_matched"))^+,
    merge_matched |-> Merge_matchedContext ::=
        (T("UPDATE SET") & List(N("update_elem_merge"))) | T("DELETE"),
    merge_not_matched |-> Merge_not_matchedContext ::=
        T("INSERT") & (T("(") & N("column_name_list") & T(")"))^#
        & (N("table_value_constructor") | T("DEFAULT VALUES")),
    delete_statement |-> Delete_statementContext ::=
        N("with_expression")^# & T("DELETE")
        & ((T("TOP (") & N("expression") & T(")") & T("PERCENT")^#)
           | (T("TOP") & T("DECIMAL")))^#
        & T("FROM")^# & N("delete_statement_from") & N("with_table_hints")^#
        & N("output_clause")^# & N("from_table_sources")^#
        & (T("WHERE")
           & (N("search_condition")
              | (T("CURRENT OF")
                 & ((T("GLOBAL")^# & N("cursor_name")) | L("cursor_var", T("LOCAL_ID"))))))^#
        & N("for_clause")^# & N("option_clause")^# & T(";")^#,
    delete_statement_from |-> Delete_statement_fromContext ::=
        N("ddl_object") | N("rowset_function_limited") | L("table_var", T("LOCAL_ID")),
    insert_statement |-> Insert_statementContext ::=
        N("with_expression")^# & T("INSERT")
        & (T("TOP (") & N("expression") & T(")") & T("PERCENT")^#)^# & T("INTO")^#
        & (N("ddl_object") | N("rowset_function_limited")) & N("with_table_hints")^#
        & (T("(") & N("insert_column_name_list") & T(")"))^# & N("output_clause")^#
        & N("insert_statement_value") & N("for_clause")^# & N("option_clause")^# & T(";")^#,
    insert_statement_value |-> Insert_statement_valueContext ::=
        N("derived_table") | N("execute_statement") | T("DEFAULT VALUES"),
    receive_statement |-> Receive_statementContext ::=
        T("(")^# & T("RECEIVE") & (T("ALL") | T("DISTINCT") | N("top_clause") | T("*"))
        & (T("LOCAL_ID") & T("=") & N("expression") & T(",")^#)^* & T("FROM")
        & N("full_table_name")
        & (T("INTO") & Id("table_variable") & T("WHERE") & L("where", N("search_condition")))^#
        & T(")")^#,
    select_statement_standalone |-> Select_statement_standaloneContext ::=
        N("with_expression")^# & N("select_statement"),
    select_statement |-> Select_statementContext ::=
        N("query_expression") & N("select_order_by_clause")^# & N("for_clause")^#
        & N("option_clause")^# & T(";")^#,
    time |-> TimeContext ::= T("LOCAL_ID") | N("constant"),
    update_statement |-> Update_statementContext ::=
        N("with_expression")^# & T("UPDATE")
        & (T("TOP (") & N("expression") & T(")") & T("PERCENT")^#)^#
        & (N("ddl_object") | N("rowset_function_limited")) & N("with_table_hints")^# & T("SET")
        & List(N("update_elem")) & N("output_clause")^# & (T("FROM") & N("table_sources"))^#
        & (T("WHERE")
           & (N("search_condition")
              | (T("CURRENT OF")
                 & ((T("GLOBAL")^# & N("cursor_name")) | L("cursor_var", T("LOCAL_ID"))))))^#
        & N("for_clause")^# & N("option_clause")^# & T(";")^#,
    output_clause |-> Output_clauseContext ::=
        T("OUTPUT") & List(N("output_dml_list_elem"))
        & (T("INTO") & (T("LOCAL_ID") | N("table_name"))
           & (T("(") & N("column_name_list") & T(")"))^#)^#,
    output_dml_list_elem |-> Output_dml_list_elemContext ::=
        (N("expression") | N("asterisk")) & N("as_column_alias")^#]

ExpressionContext ==
    Named({"primitive_expression", "full_column_name", "function_call", "case_expression",
           "bracket_expression", "unary_operator_expression", "over_clause", "value_call",
           "query_call", "exist_call", "modify_call", "hierarchyid_call", "id_", "time_zone"},
          {"expression"}, Of("Token", {"op"}))
Time_zoneContext == Plain({"expression"}, {})
Primitive_expressionContext == Plain({"LOCAL_ID", "primitive_constant"}, {})
Case_expressionContext ==
    Named({}, {"expression", "switch_section", "switch_search_condition_section"},
          Of("expression", {"caseExpr", "elseExpr"}))
Unary_operator_expressionContext == Named({"expression"}, {}, Of("Token", {"op"}))
Bracket_expressionContext == Plain({"expression", "subquery"}, {})
SubqueryContext == Plain({"select_statement"}, {})
With_expressionContext ==
    Class({}, {"common_table_expression"}, <<>>, Of("common_table_expression", {"ctes"}))
Common_table_expressionContext ==
    Named({"id_", "select_statement", "column_name_list"}, {},
          Of("id_", {"expression_name"}) @@ Of("column_name_list", {"columns"})
          @@ Of("select_statement", {"cte_query"}))
Update_elemContext ==
    Named({"LOCAL_ID", "full_column_name", "expression", "assignment_operator",
           "expression_list_"}, {"id_"}, Of("id_", {"udt_column_name", "method_name"}))
Update_elem_mergeContext ==
    Named({"expression", "full_column_name", "LOCAL_ID", "assignment_operator",
           "expression_list_"}, {"id_"}, Of("id_", {"udt_column_name", "method_name"}))
Search_conditionContext == Plain({"predicate"}, {"search_condition"})
PredicateContext ==
    Plain({"subquery", "freetext_predicate", "comparison_operator", "expression_list_",
           "null_notnull"}, {"expression"})

ExpressionRules == [
    expression |-> ExpressionContext ::=
        N("primitive_expression") | N("full_column_name") | N("function_call")
        | (N("expression") & T(".")
           & Choice(<<N("value_call"), N("query_call"), N("exist_call"), N("modify_call")>>))
        | (N("expression") & T(".") & N("hierarchyid_call"))
        | (N("expression") & T("COLLATE") & N("id_")) | N("case_expression")
        | N("bracket_expression") | N("unary_operator_expression")
        | (N("expression") & L("op", OneOf({"*", "/", "%"})) & N("expression"))
        | (N("expression") & L("op", OneOf({"+", "-", "&", "^", "|", "||"})) & N("expression"))
        | (N("expression") & N("time_zone")) | N("over_clause") | T("$ACTION"),
    time_zone |-> Time_zoneContext ::= T("AT_KEYWORD TIME ZONE") & N("expression"),
    primitive_expression |-> Primitive_expressionContext ::=
        T("DEFAULT") | T("NULL_") | T("LOCAL_ID") | N("primitive_constant"),
    case_expression |-> Case_expressionContext ::=
        (T("CASE") & Expr("caseExpr") & N("switch_section")^+ & (T("ELSE") & Expr("elseExpr"))^#
         & T("END"))
        | (T("CASE") & N("switch_search_condition_section")^+ & (T("ELSE") & Expr("elseExpr"))^#
           & T("END")),
    unary_operator_expression |-> Unary_operator_expressionContext ::=
        (T("~") & N("expression")) | (L("op", OneOf({"+", "-"})) & N("expression")),
    bracket_expression |-> Bracket_expressionContext ::=
        (T("(") & N("expression") & T(")")) | (T("(") & N("subquery") & T(")")),
    subquery |-> SubqueryContext ::= N("select_statement"),
    with_expression |-> With_expressionContext ::=
        T("WITH") & List(V("ctes", N("common_table_expression"))),
    common_table_expression |-> Common_table_expressionContext ::=
        Id("expression_name") & (T("(") & L("columns", N("column_name_list")) & T(")"))^#
        & T("AS (") & L("cte_query", N("select_statement")) & T(")"),
    update_elem |-> Update_elemContext ::=
        (T("LOCAL_ID") & T("=") & N("full_column_name") & (T("=") | N("assignment_operator"))
         & N("expression"))
        | ((N("full_column_name") | T("LOCAL_ID")) & (T("=") | N("assignment_operator"))
           & N("expression"))
        | (Id("udt_column_name") & T(".") & Id("method_name") & T("(") & N("expression_list_")
           & T(")")),
    update_elem_merge |-> Update_elem_mergeContext ::=
        ((N("full_column_name") | T("LOCAL_ID")) & (T("=") | N("assignment_operator"))
         & N("expression"))
        | (Id("udt_column_name") & T(".") & Id("method_name") & T("(") & N("expression_list_")
           & T(")")),
    search_condition |-> Search_conditionContext ::=
        (T("NOT")^* & (N("predicate") | (T("(") & N("search_condition") & T(")"))))
        | (N("search_condition") & T("AND") & N("search_condition"))
        | (N("search_condition") & T("OR") & N("search_condition")),
    predicate |-> PredicateContext ::=
        (T("EXISTS (") & N("subquery") & T(")")) | N("freetext_predicate")
        | (N("expression") & N("comparison_operator") & N("expression"))
        | (N("expression") & T("*=") & N("expression"))
        | (N("expression") & N("comparison_operator") & OneOf({"ALL", "SOME", "ANY"}) & T("(")
           & N("subquery") & T(")"))
        | (N("expression") & T("NOT")^* & T("BETWEEN") & N("expression") & T("AND")
           & N("expression"))
        | (N("expression") & T("NOT")^* & T("IN (") & (N("subquery") | N("expression_list_"))
           & T(")"))
        | (N("expression") & T("NOT")^* & T("LIKE") & N("expression")
           & (T("ESCAPE") & N("expression"))^#)
        | (N("expression") & T("IS") & N("null_notnull"))]

Query_expressionContext ==
    Class({"query_specification", "select_order_by_clause"}, {"sql_union", "query_expression"},
          <<>>, Of("sql_union", {"unions"}))
Sql_unionContext ==
    Named({"query_specification", "query_expression"}, {},
          Of("query_specification", {"spec"}) @@ Of("query_expression", {"op"}))
Query_specificationContext ==
    Named({"select_list", "from_table_sources", "group_by_clause", "having_clause",
           "top_clause", "table_name", "search_condition"}, {},
          Of("Token", {"allOrDistinct"}) @@ Of("top_clause", {"top"})
          @@ Of("select_list", {"columns"}) @@ Of("table_name", {"into"})
          @@ Of("search_condition", {"where"}))
Group_by_clauseContext ==
    Class({}, {"grouping_sets_item", "group_by_item"}, Of("Token", {"groupByAll"}),
          Of("group_by_item", {"groupBys"}) @@ Of("grouping_sets_item", {"groupSets"}))
Having_clauseContext == Named({"search_condition"}, {}, Of("search_condition", {"having"}))
From_table_sourcesContext == Named({"table_sources"}, {}, Of("table_sources", {"from"}))
Top_clauseContext == Plain({"top_percent", "top_count"}, {})
Top_percentContext ==
    Named({"REAL", "FLOAT", "DECIMAL", "expression"}, {},
          Of("Token", {"percent_constant"}) @@ Of("expression", {"topper_expression"}))
Top_countContext ==
    Named({"DECIMAL", "expression"}, {},
          Of("Token", {"count_constant"}) @@ Of("expression", {"topcount_expression"}))
Order_by_clauseContext ==
    Class({}, {"order_by_expression"}, <<>>, Of("order_by_expression", {"order_bys"}))
Select_order_by_clauseContext ==
    Named({"order_by_clause"}, {"expression"},
          Of("expression", {"offset_exp", "fetch_exp"})
          @@ Of("Token", {"offset_rows", "fetch_offset", "fetch_rows"}))
For_clauseContext == Plain({}, {"xml_common_directives", "STRING"})
Xml_common_directivesContext == Plain({"STRING"}, {})
Order_by_expressionContext ==
    Named({"expression"}, {},
          Of("expression", {"order_by"}) @@ Of("Token", {"ascending", "descending"}))
Grouping_sets_itemContext ==
    Class({}, {"group_by_item"}, <<>>, Of("group_by_item", {"groupSetItems"}))
Group_by_itemContext == Plain({"expression"}, {})
Option_clauseContext == Class({}, {"option"}, <<>>, Of("option", {"options"}))
OptionContext ==
    Named({"DECIMAL", "STRING"}, {"optimize_for_arg"},
          Of("Token", {"number_rows", "number_of_processors", "number_recursion"}))
Optimize_for_argContext == Plain({"LOCAL_ID", "constant"}, {})
Select_listContext ==
    Class({}, {"select_list_elem"}, <<>>, Of("select_list_elem", {"selectElement"}))
Udt_method_argumentsContext ==
    Class({}, {"execute_var_string"}, <<>>, Of("execute_var_string", {"argument"}))
AsteriskContext == Plain({"table_name"}, {})
Udt_elemContext ==
    Named({"udt_method_arguments", "as_column_alias"}, {"id_"},
          Of("id_", {"udt_column_name", "non_static_attr", "static_attr"}))
Expression_elemContext ==
    Named({"column_alias", "expression", "as_column_alias"}, {},
          Of("column_alias", {"leftAlias"}) @@ Of("Token", {"eq"})
          @@ Of("expression", {"leftAssignment", "expressionAs"}))
Select_list_elemContext ==
    Plain({"asterisk", "udt_elem", "LOCAL_ID", "expression", "assignment_operator",
           "expression_elem"}, {})

SelectRules == [
    query_expression |-> Query_expressionContext ::=
        (N("query_specification") & N("select_order_by_clause")^#
         & V("unions", N("sql_union"))^*)
        | (T("(") & N("query_expression") & T(")")
           & (T("UNION") & T("ALL")^# & N("query_expression"))^#),
    sql_union |-> Sql_unionContext ::=
        ((T("UNION") & T("ALL")^#) | T("EXCEPT") | T("INTERSECT"))
        & (L("spec", N("query_specification"))
           | (T("(") & L("op", N("query_expression")) & T(")"))),
    query_specification |-> Query_specificationContext ::=
        T("SELECT") & L("allOrDistinct", OneOf({"ALL", "DISTINCT"}))^#
        & L("top", N("top_clause"))^# & L("columns", N("select_list"))
        & (T("INTO") & L("into", N("table_name")))^# & N("from_table_sources")^#
        & (T("WHERE") & L("where", N("search_condition")))^# & N("group_by_clause")^#
        & N("having_clause")^#,
    group_by_clause |-> Group_by_clauseContext ::=
        T("GROUP BY")
        & ((L("groupByAll", T("ALL"))^# & List(V("groupBys", N("group_by_item"))))
           | (T("GROUPING SETS (") & List(V("groupSets", N("grouping_sets_item"))) & T(")"))),
    having_clause |-> Having_clauseContext ::= T("HAVING") & L("having", N("search_condition")),
    from_table_sources |-> From_table_sourcesContext ::=
        T("FROM") & L("from", N("table_sources")),
    top_clause |-> Top_clauseContext ::=
        T("TOP") & (N("top_percent") | N("top_count")) & T("WITH TIES")^#,
    top_percent |-> Top_percentContext ::=
        (L("percent_constant", OneOf({"REAL", "FLOAT", "DECIMAL"})) & T("PERCENT"))
        | (T("(") & Expr("topper_expression") & T(") PERCENT")),
    top_count |-> Top_countContext ::=
        Num("count_constant") | (T("(") & Expr("topcount_expression") & T(")")),
    order_by_clause |-> Order_by_clauseContext ::=
        T("ORDER BY") & List(V("order_bys", N("order_by_expression"))),
    select_order_by_clause |-> Select_order_by_clauseContext ::=
        N("order_by_clause")
        & (T("OFFSET") & Expr("offset_exp") & L("offset_rows", OneOf({"ROW", "ROWS"}))
           & (T("FETCH") & L("fetch_offset", OneOf({"FIRST", "NEXT"})) & Expr("fetch_exp")
              & L("fetch_rows", OneOf({"ROW", "ROWS"})) & T("ONLY"))^#)^#,
    for_clause |-> For_clauseContext ::=
        T("FOR BROWSE")
        | (T("FOR XML") & ((T("RAW") & (T("(") & T("STRING") & T(")"))^#) | T("AUTO"))
           & N("xml_common_directives")^*
           & (T(",") & (T("XMLDATA") | (T("XMLSCHEMA") & (T("(") & T("STRING") & T(")"))^#)))^#
           & (T(", ELEMENTS") & OneOf({"XSINIL", "ABSENT"})^#)^#)
        | (T("FOR XML EXPLICIT") & N("xml_common_directives")^* & T(", XMLDATA")^#)
        | (T("FOR XML PATH") & (T("(") & T("STRING") & T(")"))^# & N("xml_common_directives")^*
           & (T(", ELEMENTS") & OneOf({"XSINIL", "ABSENT"})^#)^#)
        | (T("FOR JSON") & OneOf({"AUTO", "PATH"})
           & (T(",")
              & ((T("ROOT (") & T("STRING") & T(")")) | T("INCLUDE_NULL_VALUES")
                 | T("WITHOUT_ARRAY_WRAPPER")))^*),
    xml_common_directives |-> Xml_common_directivesContext ::=
        T(",")
        & (T("BINARY_KEYWORD BASE64") | T("TYPE")
           | (T("ROOT") & (T("(") & T("STRING") & T(")"))^#)),
    order_by_expression |-> Order_by_expressionContext ::=
        Expr("order_by") & (L("ascending", T("ASC")) | L("descending", T("DESC")))^#,
    grouping_sets_item |-> Grouping_sets_itemContext ::=
        (T("(")^# & List(V("groupSetItems", N("group_by_item"))) & T(")")^#) | T("( )"),
    group_by_item |-> Group_by_itemContext ::= N("expression"),
    option_clause |-> Option_clauseContext ::=
        T("OPTION (") & List(V("options", N("option"))) & T(")"),
    option |-> OptionContext ::=
        (T("FAST") & Num("number_rows"))
        | (OneOf({"HASH", "ORDER"}) & T("GROUP"))
        | (OneOf({"MERGE", "HASH", "CONCAT"}) & T("UNION"))
        | (OneOf({"LOOP", "MERGE", "HASH"}) & T("JOIN")) | T("EXPAND VIEWS") | T("FORCE ORDER")
        | T("IGNORE_NONCLUSTERED_COLUMNSTORE_INDEX") | T("KEEP PLAN") | T("KEEPFIXED PLAN")
        | (T("MAXDOP") & Num("number_of_processors"))
        | (T("MAXRECURSION") & Num("number_recursion"))
        | (T("OPTIMIZE FOR (") & List(N("optimize_for_arg")) & T(")"))
        | T("OPTIMIZE FOR UNKNOWN")
        | (T("PARAMETERIZATION") & OneOf({"SIMPLE", "FORCED"})) | T("RECOMPILE")
        | T("ROBUST PLAN")
        | (T("USE PLAN") & T("STRING")),
    optimize_for_arg |-> Optimize_for_argContext ::=
        T("LOCAL_ID") & (T("UNKNOWN") | (T("=") & (N("constant") | T("NULL_")))),
    select_list |-> Select_listContext ::= List(V("selectElement", N("select_list_elem"))),
    udt_method_arguments |-> Udt_method_argumentsContext ::=
        T("(") & List(V("argument", N("execute_var_string"))) & T(")"),
    asterisk |-> AsteriskContext ::=
        ((N("table_name") & T("."))^# & T("*")) | (OneOf({"INSERTED", "DELETED"}) & T(". *")),
    udt_elem |-> Udt_elemContext ::=
        (Id("udt_column_name") & T(".") & Id("non_static_attr") & N("udt_method_arguments")
         & N("as_column_alias")^#)
        | (Id("udt_column_name") & T("::") & Id("static_attr") & N("udt_method_arguments")^#
           & N("as_column_alias")^#),
    expression_elem |-> Expression_elemContext ::=
        (L("leftAlias", N("column_alias")) & L("eq", T("=")) & Expr("leftAssignment"))
        | (Expr("expressionAs") & N("as_column_alias")^#),
    select_list_elem |-> Select_list_elemContext ::=
        N("asterisk") | N("udt_elem")
        | (T("LOCAL_ID") & (N("assignment_operator") | T("=")) & N("expression"))
        | N("expression_elem")]

Table_sourcesContext ==
    Class({"non_ansi_join"}, {"table_source"}, <<>>, Of("table_source", {"source"}))
Table_sourceContext ==
    Class({"table_source_item"}, {"join_part"}, <<>>, Of("join_part", {"joins"}))
Table_source_itemContext ==
    Named({"full_table_name", "deprecated_table_hint", "as_table_alias", "with_table_hints",
           "sybase_legacy_hints", "rowset_function", "derived_table", "column_alias_list",
           "change_table", "nodes_method", "function_call", "LOCAL_ID", "open_xml", "open_json",
           "table_source"}, {},
          Of("Token", {"loc_id", "loc_id_call"})
          @@ Of("function_call", {"loc_fcall", "oldstyle_fcall"}))
Open_xmlContext == Plain({"schema_declaration", "as_table_alias"}, {"expression"})
Open_jsonContext == Plain({"json_declaration", "as_table_alias"}, {"expression"})
Json_declarationContext ==
    Class({}, {"json_column_declaration"}, <<>>, Of("json_column_declaration", {"json_col"}))
Json_column_declarationContext == Plain({"column_declaration"}, {})
Schema_declarationContext ==
    Class({}, {"column_declaration"}, <<>>, Of("column_declaration", {"xml_col"}))
Column_declarationContext == Plain({"id_", "data_type", "STRING"}, {})
Change_tableContext == Plain({"change_table_changes", "change_table_version"}, {})
Change_table_changesContext ==
    Named({"table_name", "DECIMAL", "LOCAL_ID"}, {},
          Of("table_name", {"changetable"}) @@ Of("Token", {"changesid"}))
Change_table_versionContext ==
    Named({"table_name", "full_column_name_list", "select_list"}, {},
          Of("table_name", {"versiontable"}) @@ Of("full_column_name_list", {"pk_columns"})
          @@ Of("select_list", {"pk_values"}))
Join_partContext == Plain({"join_on", "cross_join", "apply_", "pivot", "unpivot"}, {})
Join_onContext ==
    Named({"table_source", "search_condition"}, {},
          Of("Token", {"inner", "join_type", "outer", "join_hint"})
          @@ Of("table_source", {"source"}) @@ Of("search_condition", {"cond"}))
Cross_joinContext == Plain({"table_source_item"}, {})
Apply_Context ==
    Named({"table_source_item"}, {},
          Of("Token", {"apply_style"}) @@ Of("table_source_item", {"source"}))
PivotContext == Plain({"pivot_clause", "as_table_alias"}, {})
UnpivotContext == Plain({"unpivot_clause", "as_table_alias"}, {})
Pivot_clauseContext ==
    Plain({"aggregate_windowed_function", "full_column_name", "column_alias_list"}, {})
Unpivot_clauseContext ==
    Named({"full_column_name", "full_column_name_list", "expression"}, {},
          Of("expression", {"unpivot_exp"}))
Full_column_name_listContext ==
    Class({}, {"full_column_name"}, <<>>, Of("full_column_name", {"column"}))
Rowset_functionContext ==
    Named({"id_"}, {"STRING", "bulk_option"},
          Of("Token", {"provider_name", "connectionString", "sql", "data_file"}))
Bulk_optionContext ==
    Named({"id_", "DECIMAL", "STRING"}, {}, Of("Token", {"bulk_option_value"}))
Derived_tableContext == Plain({"table_value_constructor"}, {"subquery"})

SourceRules == [
    table_sources |-> Table_sourcesContext ::= List(V("source", N("table_source"))),
    table_source |-> Table_sourceContext ::=
        N("table_source_item") & V("joins", N("join_part"))^*,
    table_source_item |-> Table_source_itemContext ::=
        (N("full_table_name") & N("deprecated_table_hint") & N("as_table_alias"))
        | (N("full_table_name") & N("as_table_alias")^#
           & (N("with_table_hints") | N("deprecated_table_hint") | N("sybase_legacy_hints"))^#)
        | (N("rowset_function") & N("as_table_alias")^#)
        | (T("(") & N("derived_table") & T(")")
           & (N("as_table_alias") & N("column_alias_list")^#)^#)
        | (N("change_table") & N("as_table_alias")^#)
        | (N("nodes_method") & (N("as_table_alias") & N("column_alias_list")^#)^#)
        | (N("function_call") & (N("as_table_alias") & N("column_alias_list")^#)^#)
        | (L("loc_id", T("LOCAL_ID")) & N("as_table_alias")^#)
        | (L("loc_id_call", T("LOCAL_ID")) & T(".") & L("loc_fcall", N("function_call"))
           & (N("as_table_alias") & N("column_alias_list")^#)^#)
        | N("open_xml") | N("open_json")
        | (T("::") & L("oldstyle_fcall", N("function_call")) & N("as_table_alias")^#)
        | (T("(") & N("table_source") & T(")")),
    open_xml |-> Open_xmlContext ::=
        T("OPENXML (") & N("expression") & T(",") & N("expression")
        & (T(",") & N("expression"))^# & T(")")
        & (T("WITH (") & N("schema_declaration") & T(")"))^# & N("as_table_alias")^#,
    open_json |-> Open_jsonContext ::=
        T("OPENJSON (") & N("expression") & (T(",") & N("expression"))^# & T(")")
        & (T("WITH (") & N("json_declaration") & T(")"))^# & N("as_table_alias")^#,
    json_declaration |-> Json_declarationContext ::=
        List(V("json_col", N("json_column_declaration"))),
    json_column_declaration |-> Json_column_declarationContext ::=
        N("column_declaration") & T("AS JSON")^#,
    schema_declaration |-> Schema_declarationContext ::=
        List(V("xml_col", N("column_declaration"))),
    column_declaration |-> Column_declarationContext ::=
        N("id_") & N("data_type") & T("STRING")^#,
    change_table |-> Change_tableContext ::=
        N("change_table_changes") | N("change_table_version"),
    change_table_changes |-> Change_table_changesContext ::=
        T("CHANGETABLE ( CHANGES") & L("changetable", N("table_name")) & T(",")
        & L("changesid", OneOf({"NULL_", "DECIMAL", "LOCAL_ID"})) & T(")"),
    change_table_version |-> Change_table_versionContext ::=
        T("CHANGETABLE ( VERSION") & L("versiontable", N("table_name")) & T(",")
        & L("pk_columns", N("full_column_name_list")) & T(",")
        & L("pk_values", N("select_list")) & T(")"),
    join_part |-> Join_partContext ::=
        Choice(<<N("join_on"), N("cross_join"), N("apply_"), N("pivot"), N("unpivot")>>),
    join_on |-> Join_onContext ::=
        (L("inner", T("INNER"))^#
         | (L("join_type", OneOf({"LEFT", "RIGHT", "FULL"})) & L("outer", T("OUTER"))^#))
        & L("join_hint", OneOf({"LOOP", "HASH", "MERGE", "REMOTE"}))^# & T("JOIN")
        & L("source", N("table_source")) & T("ON") & L("cond", N("search_condition")),
    cross_join |-> Cross_joinContext ::= T("CROSS JOIN") & N("table_source_item"),
    apply_ |-> Apply_Context ::=
        L("apply_style", OneOf({"CROSS", "OUTER"})) & T("APPLY")
        & L("source", N("table_source_item")),
    pivot |-> PivotContext ::= T("PIVOT") & N("pivot_clause") & N("as_table_alias"),
    unpivot |-> UnpivotContext ::= T("UNPIVOT") & N("unpivot_clause") & N("as_table_alias"),
    pivot_clause |-> Pivot_clauseContext ::=
        T("(") & N("aggregate_windowed_function") & T("FOR") & N("full_column_name") & T("IN")
        & N("column_alias_list") & T(")"),
    unpivot_clause |-> Unpivot_clauseContext ::=
        T("(") & Expr("unpivot_exp") & T("FOR") & N("full_column_name") & T("IN (")
        & N("full_column_name_list") & T(") )"),
    full_column_name_list |-> Full_column_name_listContext ::=
        List(V("column", N("full_column_name"))),
    rowset_function |-> Rowset_functionContext ::=
        (T("OPENROWSET (") & Str("provider_name") & T(",") & Str("connectionString") & T(",")
         & Str("sql") & T(")"))
        | (T("OPENROWSET ( BULK") & Str("data_file") & T(",")
           & (List(N("bulk_option")) | N("id_")) & T(")")),
    bulk_option |-> Bulk_optionContext ::=
        N("id_") & T("=") & L("bulk_option_value", OneOf({"DECIMAL", "STRING"})),
    derived_table |-> Derived_tableContext ::=
        N("subquery")
        | (T("(") & N("subquery") & (T("UNION ALL") & N("subquery"))^* & T(")"))
        | N("table_value_constructor")
        | (T("(") & N("table_value_constructor") & T(")"))]
=============================================================================
