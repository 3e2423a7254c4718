----------------------------- MODULE MCNesting ------------------------------
(***************************************************************************)
(* Constructs that nest in themselves and are told apart by the tokens     *)
(* that continue or close them: IF and ELSE, BEGIN and END, TRY and CATCH, *)
(* JOIN and ON.                                                            *)
(***************************************************************************)
EXTENDS SqlProperties, SequencesExt

MCGrammar == SqlRules
MCItems == GrammarItems(MCGrammar)

\* Streams of up to max pieces between a head and a tail.
Streams(head, pieces, max, tail) ==
    {head \o FlattenSeq(w) \o Append(tail, "EOF") : w \in BoundedSeq(pieces, max)}

\* How many of a stream's constructs are opened and not closed.
Count(w, tokens) == Len(SelectSeq(w, LAMBDA t : t \in tokens))
Left(w, opening, closing) == Count(w, opening) - Count(w, closing)

\* IFs with and without ELSE, and with semicolons between any two pieces; one
\* ELSE at least, and one too many at most.
MaxIf == 5
IfStreams ==
    {w \in Streams(<<"IF", "Predicate">>,
                   {<<"IF", "Predicate">>, <<"ELSE">>, <<"USE", "ID">>, <<"SEMI">>},
                   MaxIf, <<"USE", "ID">>) :
        Count(w, {"ELSE"}) > 0 /\ Left(w, {"IF"}, {"ELSE"}) >= -1}

\* IFs around TRY statements and inside them, on either side of the CATCH.
MaxIfTry == 4
IfTryStreams ==
    Streams(<<"IF", "Predicate", "BEGIN", "TRY">>,
            {<<"IF", "Predicate", "USE", "ID">>, <<"ELSE", "USE", "ID">>,
             <<"END", "TRY", "BEGIN", "CATCH">>, <<"END", "CATCH">>, <<"WHILE", "Predicate">>},
            MaxIfTry, <<"ELSE", "USE", "ID">>)

\* Blocks and CASE expressions, with the BEGINs and ENDs of other statements
\* and a label that looks like one of them in between, and with one BEGIN or
\* CASE too many.
Dialog == <<"BEGIN", "DIALOG", "LOCAL_ID", "FROM", "SERVICE", "ID", "TO", "SERVICE", "ID",
            "ON", "CONTRACT", "ID", "WITH">>
MaxBlock == 4
BlockStreams ==
    {w \in Streams(<<"BEGIN">>,
                   {<<"BEGIN">>, <<"END">>, <<"SEMI">>, <<"BEGIN", "TRAN">>,
                    <<"END", "CONVERSATION", "LOCAL_ID">>, <<"CONVERSATION", "COLON">>, Dialog,
                    <<"RETURN", "CASE", "WHEN", "Predicate", "THEN", "ID">>},
                   MaxBlock, <<"END">>) :
        Left(w, {"BEGIN", "CASE", "LOCAL_ID"}, {"END", "TRAN", "SERVICE"}) \in 0 .. 1}

\* TRY ... CATCH statements with blocks inside; every BEGIN has its END,
\* and CATCH stands as often as TRY, or once in the place of TRY.
MaxTry == 4
TryStreams ==
    {w \in Streams(<<"BEGIN", "TRY">>,
                   {<<"BEGIN", "TRY">>, <<"END", "TRY">>, <<"BEGIN", "CATCH">>, <<"END", "CATCH">>,
                    <<"BEGIN">>, <<"END">>, <<"SEMI">>, <<"USE", "ID">>},
                   MaxTry, <<"END", "CATCH">>) :
        Left(w, {"BEGIN"}, {"END"}) = 0 /\ Left(w, {"TRY"}, {"CATCH"}) \in {0, -2}}

\* Joins nested to the right and to the left, cross joins, table lists, with
\* an ON for every JOIN, or one less.
MaxJoin == 5
JoinStreams ==
    {w \in Streams(<<"SELECT", "ID", "FROM", "ID", "JOIN", "ID">>,
                   {<<"JOIN", "ID">>, <<"CROSS", "JOIN", "ID">>, <<"ON", "Predicate">>,
                    <<"COMMA", "LOCAL_ID", "DOT", "ID", "LP", "RP">>},
                   MaxJoin, <<>>) :
        Left(w, {"JOIN"}, {"ON", "CROSS"}) \in 0 .. 1}

MCInputs == IfStreams \cup IfTryStreams \cup BlockStreams \cup TryStreams \cup JoinStreams
=============================================================================
