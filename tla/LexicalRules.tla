---------------------------- MODULE LexicalRules ----------------------------
(***************************************************************************)
(* The rules of TSqlLexer.g4 that are not plain keywords, and how the      *)
(* generated lexer chooses between them: the longest match wins, and of    *)
(* equally long ones the rule listed first.  A text is a sequence of       *)
(* characters.  Two words stand for the keywords, all of which are fixed   *)
(* words listed before ID: GO, and N, which is a keyword of one letter.    *)
(* $PARTITION, $ACTION, @@CURSOR_ROWS, "NULL", [VALUE] and their like are  *)
(* fixed words too and are left out.                                       *)
(***************************************************************************)
EXTENDS Integers, Sequences, SequencesExt

(***************************************************************************)
(* Characters.  The grammar ignores case, so upper case stands for both;   *)
(* the lower-case n is there because STRING alone looks at the case of its *)
(* prefix.                                                                 *)
(***************************************************************************)
Letters == {"A", "E", "G", "N", "O", "X", "n"}
DEC_DIGIT == {"0", "1"}
HEX_DIGIT == DEC_DIGIT \cup {"A", "E"}
Blanks == {" ", "\n"}
NameStart == Letters \cup {"_", "#"}
NamePart == NameStart \cup DEC_DIGIT \cup {"$", "@"}
DoubleQuote == "\""
Others ==
    {"'", DoubleQuote, "[", "]", "\\", "/", "*", "+", "-", "=", "<", ">", "!", "%", "&", "^", "|", "~",
     ".", ",", ";", ":", "(", ")", "?"}
Characters == NamePart \cup Blanks \cup Others

Words ==
    [GO |-> {<<"G", "O">>}, MINUTE_ABBR |-> {<<"N">>, <<"n">>}]

Symbols ==
    [BACKSLASH |-> <<"\\">>, DOUBLE_BACK_SLASH |-> <<"\\", "\\">>,
     DOUBLE_FORWARD_SLASH |-> <<"/", "/">>, SINGLE_QUOTE |-> <<"'">>, EQUAL |-> <<"=">>,
     GREATER |-> <<">">>, LESS |-> <<"<">>, EXCLAMATION |-> <<"!">>, PLUS_ASSIGN |-> <<"+", "=">>,
     MINUS_ASSIGN |-> <<"-", "=">>, MULT_ASSIGN |-> <<"*", "=">>, DIV_ASSIGN |-> <<"/", "=">>, MOD_ASSIGN |-> <<"%", "=">>,
     AND_ASSIGN |-> <<"&", "=">>, XOR_ASSIGN |-> <<"^", "=">>, OR_ASSIGN |-> <<"|", "=">>,
     DOUBLE_BAR |-> <<"|", "|">>, DOT |-> <<".">>, UNDERLINE |-> <<"_">>, AT |-> <<"@">>,
     SHARP |-> <<"#">>, DOLLAR |-> <<"$">>, LR_BRACKET |-> <<"(">>, RR_BRACKET |-> <<")">>,
     COMMA |-> <<",">>, SEMI |-> <<";">>, COLON |-> <<":">>, DOUBLE_COLON |-> <<":", ":">>,
     STAR |-> <<"*">>, DIVIDE |-> <<"/">>, PLUS |-> <<"+">>,
     MINUS |-> <<"-">>, BIT_NOT |-> <<"~">>, BIT_OR |-> <<"|">>, BIT_AND |-> <<"&">>,
     BIT_XOR |-> <<"^">>, PLACEHOLDER |-> <<"?">>]

\* Every character of w is in the class.
All(w, class) == \A i \in DOMAIN w : w[i] \in class
Some(w, class) == w # <<>> /\ All(w, class)

Between(w, first, last) == Len(w) >= 2 /\ Head(w) = first /\ Last(w) = last
Inner(w) == SubSeq(w, 2, Len(w) - 1)

\* Mutant: nothing in w is doubled.
Doubled_Never(w, c) == \A i \in DOMAIN w : w[i] # c

\* In w the character c occurs in pairs only: (~c | c c)*.
Doubled(w, c) ==
    \A i, j \in DOMAIN w :
        /\ \A k \in i .. j : w[k] = c
        /\ i = 1 \/ w[i - 1] # c
        /\ j = Len(w) \/ w[j + 1] # c
        => i > j \/ (j - i) % 2 = 1

DEC_DOT_DEC(w) ==
    \E i \in DOMAIN w :
        w[i] = "." /\ Len(w) > 1 /\ \A j \in DOMAIN w \ {i} : w[j] \in DEC_DIGIT

DECIMAL(w) == Some(w, DEC_DIGIT)

REAL(w) ==
    \E i \in DOMAIN w :
        LET mantissa == SubSeq(w, 1, i - 1)
            exponent == SubSeq(w, i + 1, Len(w))
        IN  /\ w[i] = "E"
            /\ DECIMAL(mantissa) \/ DEC_DOT_DEC(mantissa)
            /\ \/ DECIMAL(exponent)
               \/ exponent # <<>> /\ Head(exponent) \in {"+", "-"} /\ DECIMAL(Tail(exponent))

IPV4_ADDR(w) ==
    LET dots == {i \in DOMAIN w : w[i] = "."}
    IN  /\ \E i, j, k \in dots : i < j /\ j < k /\ dots = {i, j, k}
        /\ \A i \in DOMAIN w : w[i] \in DEC_DIGIT \cup {"."}
        /\ \A i \in dots : i > 1 /\ i < Len(w) /\ w[i - 1] # "." /\ w[i + 1] # "."

STRING_(w) ==
    LET quoted == IF Head(w) = "N" THEN Tail(w) ELSE w
    IN  Between(quoted, "'", "'") /\ Doubled(Inner(quoted), "'")

ID(w) == Head(w) \in NameStart /\ All(w, NamePart)

LINE_COMMENT(w) ==
    Len(w) >= 2 /\ w[1] = "-" /\ w[2] = "-" /\ \A i \in DOMAIN w : w[i] # "\n"

\* The word w matches the rule; COMMENT is below.
Matches(rule, w) ==
    CASE rule \in DOMAIN Words -> w \in Words[rule]
      [] rule = "DISK_DRIVE" -> Len(w) = 2 /\ w[1] \in Letters /\ w[2] = ":"
      [] rule = "IPV4_ADDR" -> IPV4_ADDR(w)
      [] rule = "SPACE" -> Len(w) = 1 /\ w[1] \in Blanks
      [] rule = "COMMENT" -> FALSE
      [] rule = "LINE_COMMENT" -> LINE_COMMENT(w)
      [] rule = "DOUBLE_QUOTE_ID" ->
            /\ Between(w, DoubleQuote, DoubleQuote)
            /\ Len(w) > 2
            /\ \A i \in 2 .. Len(w) - 1 : w[i] # DoubleQuote
      [] rule = "DOUBLE_QUOTE_BLANK" -> w = <<DoubleQuote, DoubleQuote>>
      [] rule = "SQUARE_BRACKET_ID" -> Between(w, "[", "]") /\ Doubled(Inner(w), "]")
      [] rule = "LOCAL_ID" -> Head(w) = "@" /\ All(w, NamePart)
      [] rule = "TEMP_ID" -> Head(w) = "#" /\ All(w, NamePart)
      [] rule = "DECIMAL" -> DECIMAL(w)
      [] rule = "ID" -> ID(w)
      [] rule = "STRING" -> STRING_(w)
      [] rule = "BINARY" -> Len(w) >= 2 /\ w[1] = "0" /\ w[2] = "X" /\ All(SubSeq(w, 3, Len(w)), HEX_DIGIT)
      [] rule = "FLOAT" -> DEC_DOT_DEC(w)
      [] rule = "REAL" -> REAL(w)
      [] rule = "MODULE" -> w = <<"%">>
      [] OTHER -> w = Symbols[rule]

(***************************************************************************)
(* COMMENT: '/*' (COMMENT | .)*? '*/'.  The lexer follows all readings of  *)
(* the text at once, the preferred one first.  A reading knows how many    *)
(* comments are open and where it stands: behind the slash that may open a *)
(* comment, in the body of one, or behind the star that may close it.  The *)
(* loop is not greedy: in a body, leaving the loop is tried first, then a  *)
(* nested comment, then any character.                                     *)
(***************************************************************************)
Reading(depth, at) == [depth |-> depth, at |-> at]

\* Mutant: comments do not nest.
Readings_Flat(r, c) ==
    CASE r.at = "slash" -> IF c = "*" THEN <<Reading(r.depth, "body")>> ELSE <<>>
      [] r.at = "star" -> IF c = "/" THEN <<Reading(r.depth - 1, "body")>> ELSE <<>>
      [] r.at = "body" /\ r.depth = 0 -> <<>>
      [] OTHER ->
            (IF c = "*" THEN <<Reading(r.depth, "star")>> ELSE <<>>)
            \o <<Reading(r.depth, "body")>>

Readings(r, c) ==
    CASE r.at = "slash" -> IF c = "*" THEN <<Reading(r.depth, "body")>> ELSE <<>>
      [] r.at = "star" -> IF c = "/" THEN <<Reading(r.depth - 1, "body")>> ELSE <<>>
      [] r.at = "body" /\ r.depth = 0 -> <<>>
      [] OTHER ->
            (IF c = "*" THEN <<Reading(r.depth, "star")>> ELSE <<>>)
            \o (IF c = "/" THEN <<Reading(r.depth + 1, "slash")>> ELSE <<>>)
            \o <<Reading(r.depth, "body")>>

\* The readings that are less preferred than a complete one are given up.
Pruned(rs) ==
    LET complete == {i \in DOMAIN rs : rs[i].depth = 0}
    IN  IF complete = {}
        THEN rs
        ELSE SubSeq(rs, 1, CHOOSE i \in complete : \A j \in complete : i <= j)

\* Where a comment that starts at p can end, according to the readings.
CommentEnds(text, p) ==
    LET rs[i \in p .. Len(text)] ==
            IF i = p
            THEN IF text[p] = "/" THEN <<Reading(1, "slash")>> ELSE <<>>
            ELSE LET before == rs[i - 1]
                 IN  Pruned(FlattenSeq([k \in DOMAIN before |-> Readings(before[k], text[i])]))
    IN  {i \in p .. Len(text) : LET now == rs[i] IN \E k \in DOMAIN now : now[k].depth = 0}

\* The rules in the order of the grammar.
RuleOrder ==
    <<"BACKSLASH", "DOUBLE_BACK_SLASH", "DOUBLE_FORWARD_SLASH", "GO", "MINUTE_ABBR",
      "DISK_DRIVE", "IPV4_ADDR", "SPACE", "COMMENT", "LINE_COMMENT", "DOUBLE_QUOTE_ID", "DOUBLE_QUOTE_BLANK", "SINGLE_QUOTE", "SQUARE_BRACKET_ID", "LOCAL_ID",
      "TEMP_ID", "DECIMAL", "ID", "STRING", "BINARY", "FLOAT", "REAL", "EQUAL", "GREATER",
      "LESS", "EXCLAMATION", "PLUS_ASSIGN", "MINUS_ASSIGN", "MULT_ASSIGN", "DIV_ASSIGN",
      "MOD_ASSIGN", "AND_ASSIGN", "XOR_ASSIGN", "OR_ASSIGN", "DOUBLE_BAR", "DOT", "UNDERLINE",
      "AT", "SHARP", "DOLLAR", "LR_BRACKET", "RR_BRACKET", "COMMA", "SEMI", "COLON",
      "DOUBLE_COLON", "STAR", "DIVIDE", "MODULE", "PLUS", "MINUS", "BIT_NOT", "BIT_OR",
      "BIT_AND", "BIT_XOR", "PLACEHOLDER">>

\* Where a match of the rule that starts at p can end.
Ends(text, rule, p) ==
    IF rule = "COMMENT"
    THEN CommentEnds(text, p)
    ELSE {e \in p .. Len(text) : Matches(rule, SubSeq(text, p, e))}

\* Where the longest match from p on ends; p - 1 if there is none.
LongestEnd(text, p) ==
    LET ends == UNION {Ends(text, RuleOrder[i], p) : i \in DOMAIN RuleOrder}
    IN  IF \E e \in ends : \A f \in ends : f <= e
        THEN CHOOSE e \in ends : \A f \in ends : f <= e
        ELSE p - 1

\* Of the rules that match up to e, the first.
TokenType(text, p, e) ==
    LET found == {i \in DOMAIN RuleOrder : e \in Ends(text, RuleOrder[i], p)}
    IN  RuleOrder[CHOOSE i \in found : \A j \in found : i <= j]

(***************************************************************************)
(* How far the lexer has read when it finds that no rule matches: an       *)
(* opening double quote or bracket is followed to the end of the text in   *)
(* search of the closing one, any other character is refused at once.      *)
(***************************************************************************)
Reached(text, p) == IF text[p] \in {DoubleQuote, "["} THEN Len(text) ELSE p - 1
=============================================================================
