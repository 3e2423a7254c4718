---------------------------- MODULE QueryGrammar ----------------------------
(***************************************************************************)
(* Queries: the rules of TSqlParser.g4 from select_statement_standalone to *)
(* table sources, aliases and expressions.  An alternative that needs a    *)
(* token the model does not have is left out: it can match no stream over  *)
(* the modelled tokens, so no parse of such a stream changes.              *)
(*                                                                         *)
(* Predicate stands for a predicate of a kind that is not modelled,        *)
(* DIVIDE for / and %, PLUS and MINUS also for the operators of their      *)
(* precedence.  The methods of XML and hierarchy values, OVER clauses,     *)
(* hints and $ACTION need tokens that the model does not have.             *)
(***************************************************************************)
EXTENDS NameGrammar

Semi == T("SEMI")^#

select_statement_standalone == N("with_expression")^# & N("select_statement")

with_expression == T("WITH") & CommaList(N("common_table_expression"))

common_table_expression ==
    N("id_") & (T("LP") & N("column_name_list") & T("RP"))^#
    & T("AS") & T("LP") & N("select_statement") & T("RP")

select_statement == N("query_expression") & N("select_order_by_clause")^# & Semi

query_expression ==
    (N("query_specification") & N("select_order_by_clause")^# & N("sql_union")^*)
    | (T("LP") & N("query_expression") & T("RP")
        & (T("UNION") & T("ALL")^# & N("query_expression"))^#)

sql_union ==
    T("UNION") & T("ALL")^#
    & (N("query_specification") | (T("LP") & N("query_expression") & T("RP")))

query_specification ==
    T("SELECT") & T("ALL")^# & N("select_list") & (T("INTO") & N("table_name"))^#
    & N("from_table_sources")^# & (T("WHERE") & N("search_condition"))^#

select_order_by_clause == T("OrderBy") & CommaList(N("expression"))

from_table_sources == T("FROM") & N("table_sources")

select_list == CommaList(N("select_list_elem"))

select_list_elem ==
    N("asterisk")
    | N("udt_elem")
    | (T("LOCAL_ID") & T("EQUAL") & N("expression"))
    | N("expression_elem")

asterisk ==
    ((N("table_name") & T("DOT"))^# & T("STAR"))
    | (OneOf({"INSERTED", "DELETED"}) & T("DOT") & T("STAR"))

udt_elem ==
    N("id_") & T("DOT") & N("id_") & N("udt_method_arguments") & N("as_column_alias")^#

udt_method_arguments == T("LP") & CommaList(N("execute_var_string")) & T("RP")

expression_elem ==
    (N("column_alias") & T("EQUAL") & N("expression"))
    | (N("expression") & N("as_column_alias")^#)

as_column_alias == T("AS")^# & N("column_alias")

column_alias == N("id_") | T("STRING")

column_alias_list == T("LP") & CommaList(N("column_alias")) & T("RP")

as_table_alias == T("AS")^# & N("table_alias")

table_alias == N("id_")

table_sources == CommaList(N("table_source"))

\* Mutant: a loop whose body may match nothing.
table_source_EmptyLoop == N("table_source_item") & N("join_part")^#^*

table_source == N("table_source_item") & N("join_part")^*

table_source_item ==
    (N("full_table_name") & N("as_table_alias")^#)
    | (T("LP") & N("derived_table") & T("RP")
        & (N("as_table_alias") & N("column_alias_list")^#)^#)
    | (N("function_call") & (N("as_table_alias") & N("column_alias_list")^#)^#)
    | (T("LOCAL_ID") & N("as_table_alias")^#)
    | (T("LOCAL_ID") & T("DOT") & N("function_call")
        & (N("as_table_alias") & N("column_alias_list")^#)^#)
    | (T("LP") & N("table_source") & T("RP"))

derived_table ==
    N("subquery") | (T("LP") & N("subquery") & (T("UNION") & T("ALL") & N("subquery"))^* & T("RP"))

join_part == N("join_on") | N("cross_join") | N("apply_")

\* Mutant: a join without ON is admitted as a second form.
join_on_TwoForms ==
    (T("JOIN") & N("table_source") & T("ON") & N("search_condition"))
    | (T("JOIN") & N("table_source"))

join_on == T("JOIN") & N("table_source") & T("ON") & N("search_condition")

cross_join == T("CROSS") & T("JOIN") & N("table_source_item")

apply_ == T("CROSS") & T("APPLY") & N("table_source_item")

subquery == N("select_statement")

function_call ==
    N("scalar_function_name") & T("LP") & N("expression_list_")^# & T("RP")

scalar_function_name == N("func_proc_name_server_database_schema")

expression_list_ == CommaList(N("expression"))

(***************************************************************************)
(* ANTLR turns a left-recursive rule into a loop with precedences: an      *)
(* alternative that stands earlier binds tighter, and the right operand is *)
(* read at the precedence above that of its operator.  The precedence is a *)
(* parameter of the rule function; the precedences at which expression is  *)
(* called are 0, 5 and 6, and those of search_condition 0, 2 and 3, with a *)
(* rule for each.  ANTLR wraps every operator with its operands in a       *)
(* context of its own; here they are children of one node, and the left    *)
(* operand of an operator is all that this node has before it.             *)
(***************************************************************************)
primary ==
    N("primitive_expression") | N("full_column_name") | N("function_call")
    | N("case_expression") | N("bracket_expression") | N("unary_operator_expression")

collate == T("COLLATE") & N("id_")

\* Mutant: the right operand is read at the precedence of the operator.
multiply_Right == OneOf({"STAR", "DIVIDE"}) & N("expression_5")

multiply == OneOf({"STAR", "DIVIDE"}) & N("expression_6")

add == OneOf({"PLUS", "MINUS"}) & N("expression_5")

expression == primary & (collate | multiply | add | N("time_zone"))^*

expression_5 == primary & (collate | multiply)^*

expression_6 == primary & collate^*

time_zone == T("AT_KEYWORD") & T("TIME") & T("ZONE") & N("expression")

case_expression ==
    (T("CASE") & N("expression") & N("switch_section")^+
     & (T("ELSE") & N("expression"))^# & T("END"))
    | (T("CASE") & N("switch_search_condition_section")^+
       & (T("ELSE") & N("expression"))^# & T("END"))

switch_section == T("WHEN") & N("expression") & T("THEN") & N("expression")

switch_search_condition_section ==
    T("WHEN") & N("search_condition") & T("THEN") & N("expression")

\* Mutant: the operand is read as that of a multiplication.
unary_operator_expression_Tight == OneOf({"TILDE", "PLUS", "MINUS"}) & N("expression_6")

unary_operator_expression == OneOf({"TILDE", "PLUS", "MINUS"}) & N("expression")

bracket_expression ==
    (T("LP") & N("expression") & T("RP")) | (T("LP") & N("subquery") & T("RP"))

condition ==
    T("NOT")^* & (N("predicate") | (T("LP") & N("search_condition") & T("RP")))

\* Mutant: AND and OR are one operator.
search_condition_OneLevel ==
    condition & (OneOf({"AND", "OR"}) & N("search_condition_3"))^*

search_condition ==
    condition & ((T("AND") & N("search_condition_3")) | (T("OR") & N("search_condition_2")))^*

search_condition_2 == condition & (T("AND") & N("search_condition_3"))^*

search_condition_3 == condition

predicate ==
    T("Predicate")
    | (N("expression") & T("EQUAL") & N("expression"))
    | (N("expression") & T("EQUAL") & T("ALL") & T("LP") & N("subquery") & T("RP"))
    | (N("expression") & T("NOT")^* & T("BETWEEN") & N("expression") & T("AND")
       & N("expression"))

execute_var_string ==
    LET tail == (T("PLUS") & T("LOCAL_ID") & (T("PLUS") & N("execute_var_string"))^#)^#
    IN  (T("LOCAL_ID") & T("OUTPUT")^# & tail) | (T("STRING") & tail)

QueryRules ==
    [select_statement_standalone |-> select_statement_standalone,
     with_expression |-> with_expression,
     common_table_expression |-> common_table_expression,
     select_statement |-> select_statement, query_expression |-> query_expression,
     sql_union |-> sql_union, query_specification |-> query_specification,
     select_order_by_clause |-> select_order_by_clause,
     from_table_sources |-> from_table_sources, select_list |-> select_list,
     select_list_elem |-> select_list_elem, asterisk |-> asterisk, udt_elem |-> udt_elem,
     udt_method_arguments |-> udt_method_arguments, expression_elem |-> expression_elem,
     as_column_alias |-> as_column_alias, column_alias |-> column_alias,
     column_alias_list |-> column_alias_list, as_table_alias |-> as_table_alias,
     table_alias |-> table_alias, table_sources |-> table_sources,
     table_source |-> table_source, table_source_item |-> table_source_item,
     derived_table |-> derived_table, join_part |-> join_part, join_on |-> join_on,
     cross_join |-> cross_join, apply_ |-> apply_, subquery |-> subquery,
     function_call |-> function_call, scalar_function_name |-> scalar_function_name,
     expression_list_ |-> expression_list_, expression |-> expression,
     expression_5 |-> expression_5, expression_6 |-> expression_6, time_zone |-> time_zone,
     case_expression |-> case_expression, switch_section |-> switch_section,
     switch_search_condition_section |-> switch_search_condition_section,
     unary_operator_expression |-> unary_operator_expression,
     bracket_expression |-> bracket_expression, search_condition |-> search_condition,
     search_condition_2 |-> search_condition_2, search_condition_3 |-> search_condition_3,
     predicate |-> predicate, execute_var_string |-> execute_var_string]
=============================================================================
