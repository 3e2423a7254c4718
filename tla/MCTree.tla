------------------------------- MODULE MCTree -------------------------------
(***************************************************************************)
(* The parse tree and the end of the parse, on short streams over tokens   *)
(* that exercise every kind of item of the grammar.                        *)
(***************************************************************************)
EXTENDS SqlProperties, SequencesExt

MCGrammar == SqlRules
MCItems == GrammarItems(MCGrammar)

\* The grammar is of the kind for which the theorems of PairingProofs hold.
Parts == [it \in MCItems |-> ItemsOf(<<it>>)]
ASSUME BlockAssumption == TryGrammar(Parts)
ASSUME JoinAssumption == JoinGrammar(Parts)

(***************************************************************************)
(* It is also of the kind for which those of StatementProofs hold.  The    *)
(* traits are the least ones: from the items that have a trait by what     *)
(* they are to those that have it by an expansion.                         *)
(***************************************************************************)
RECURSIVE Least(_, _)
Least(traits, exceptions) ==
    LET has(it, P(_)) == \E e \in Expansions(it) : P(e)
        next == [traits EXCEPT
            !.empty = @ \cup {it \in Items : has(it, LAMBDA e : AllIn(e, traits.empty))},
            !.last = @ \cup {it \in Items : has(it, LAMBDA e : MayEnd(e, traits))},
            !.first = @ \cup {it \in Items \ exceptions : has(it, LAMBDA e : MayBegin(e, traits))}]
    IN  IF next = traits THEN traits ELSE Least(next, exceptions)

Traits(last, first, single) == [empty |-> {}, last |-> last, first |-> first, single |-> single]

Names ==
    References("id_") \cup References("keyword") \cup ItemsOf(Grammar["id_"]) \cup ItemsOf(Grammar["keyword"])
GoTraits == Least(Traits(Readers("SEMI"), Readers("GO"), Names), References("go_statement"))
ASSUME GoGrammarAssumption == GoGrammar(GoTraits)

ClauseTraits ==
    Least(Traits(UNION {References(rule) : rule \in Terminated}, References("sql_clauses"), {}), ClauseLoops)
SemiTraits == Least(Traits({}, Readers("SEMI"), {}), {})
ASSUME SemicolonAssumption ==
    LET rules == Terminated \cup {"create_or_alter_procedure", "create_view"}
        semi == Semi[1].alts[1][1]
        optional == Semi[1]
        loop == (N("sql_clauses")^*)[1]
        endings == {semi, optional, loop} \cup UNION {References(rule) : rule \in rules}
                   \cup {Grammar["sql_clauses"][1], Grammar["batch_level_statement"][1]}
    IN  SemicolonGrammar(ClauseTraits, SemiTraits, rules, endings, semi)

RECURSIVE Around(_)
Around(rules) ==
    LET next == rules \cup {rule \in DOMAIN Grammar :
                   \E it \in ItemsIn(Parts, rule) : it.k = "rule" /\ it.sym \in rules}
    IN  IF next = rules THEN rules ELSE Around(next)
ASSUME IfAssumption ==
    LET if == Grammar["if_statement"]
        x == [if |-> if[1], condition |-> if[2], clause |-> if[3], otherwise |-> if[4],
              else |-> if[4].alts[1][1], end |-> if[5], semi |-> if[5].alts[1][1]]
    IN  IfGrammar(Parts, x, Around({"if_statement"}))

\* Prediction is exact, here at every position of three files, for an item
\* within a caller's IF and in front of the rest of a file.
ExactFiles ==
    {<<"IF", "Predicate", "USE", "ID", "SEMI", "ELSE", "USE", "ID", "EOF">>,
     <<"ID", "COLON", "SEMI", "GO", "DECIMAL", "EOF">>,
     <<"BEGIN", "SEMI", "SELECT", "ID", "END", "GO", "EOF">>}
ExactWords ==
    LET if == Grammar["if_statement"]
    IN  {<<>>, <<if[4]>>, <<if[5]>>, <<if[4], if[5]>>, N("go_statement")^# \o T("EOF"), T("COLON")}
ExactLists == {<<>>} \cup {<<u>> : u \in ExactWords} \cup {<<u, v>> : u, v \in ExactWords}
ASSUME PredictionAssumption ==
    \A w \in ExactFiles : \A t \in {Lookahead(w)} : \A p \in 1 .. Len(w) + 1 :
        ExactAt(w, t, p, ExactWords, ExactLists)

\* The pieces streams are made of, and how many a stream has at most.
Pieces ==
    {<<"GO">>, <<"SEMI">>, <<"ID", "COMMA">>, <<"SELECT", "ID">>, <<"BEGIN">>, <<"END">>,
     <<"IF", "Predicate">>, <<"FROM", "ID", "DOT", "ID">>}
MaxPieces == 3
MCInputs == {FlattenSeq(w) \o <<"EOF">> : w \in BoundedSeq(Pieces, MaxPieces)}
=============================================================================
