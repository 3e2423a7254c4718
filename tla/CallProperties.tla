--------------------------- MODULE CallProperties ---------------------------
(***************************************************************************)
(* Procedure calls: which argument lists the grammar admits, with EXECUTE  *)
(* (execute_body) and without it at the start of a batch                   *)
(* (execute_body_batch), and which argument node every argument becomes.   *)
(* The streams are one call each: EXECUTE or nothing, a name, arguments    *)
(* separated by commas.                                                    *)
(***************************************************************************)
EXTENDS Phrases

IsCall == ReadAs \in {"EXECUTE", "ID"}
WithExecute == ReadAs = "EXECUTE"

FirstArg == IF WithExecute THEN 3 ELSE 2

\* The positions at which an argument starts; EOF ends the list.
ArgStarts ==
    {p \in FirstArg .. Len(input) - 1 : p = FirstArg \/ input[p - 1] = "COMMA"}

IsNamed(p) == input[p + 1] = "EQUAL"

(***************************************************************************)
(* An EXECUTE takes a list whose first argument is positional, or a list   *)
(* of named arguments only; once a positional argument has opened the list *)
(* names and positions may mix in any order.  A call without EXECUTE takes *)
(* any mixture, because execute_body_batch repeats the whole argument      *)
(* list.                                                                   *)
(***************************************************************************)
CallTakesArguments ==
    IsCall /\ Finished =>
        (status = "accepted" <=>
            (WithExecute => \/ \E p \in ArgStarts : p = FirstArg /\ ~IsNamed(p)
                            \/ \A p \in ArgStarts : IsNamed(p)))

\* The node that an argument starting at p becomes.
ArgNode(p, rule) == \E n \in DOMAIN nodes : NodeAt(n, rule, p)

(***************************************************************************)
(* A named argument is never read as a positional one, nor the other way   *)
(* round, although both may begin with a variable and the lists nest.      *)
(***************************************************************************)
ArgumentsKeepTheirKind ==
    IsCall /\ status = "accepted" => \A p \in ArgStarts :
        /\ ArgNode(p, "execute_statement_arg_named") <=> IsNamed(p)
        /\ ArgNode(p, "execute_statement_arg_unnamed") <=> ~IsNamed(p)

(***************************************************************************)
(* "Named can only be continued by unnamed", the comment on                *)
(* execute_statement_arg: behind a named argument of an EXECUTE there is   *)
(* no other named one.                                                     *)
(***************************************************************************)
NamedContinuedByUnnamed ==
    status = "accepted" /\ WithExecute =>
        \A p, q \in ArgStarts : p < q /\ IsNamed(p) => ~IsNamed(q)
=============================================================================
