----------------------------- MODULE Statements ------------------------------
(***************************************************************************)
(* Where a statement ends: the separator of batches behind a semicolon,    *)
(* the semicolon behind a statement, and the ELSE behind nested IFs.  Next *)
(* to what the tree must say of them stand the conditions on a grammar     *)
(* and on the prediction from which it follows for every stream.           *)
(***************************************************************************)
EXTENDS Pairing

Parent(n) == nodes[n].parent
NodesOf(rule) == {n \in DOMAIN nodes : nodes[n].rule = rule}
TokensOf(token) == {p \in DOMAIN owner : input[p] = token}

-----------------------------------------------------------------------------
IsSeparator(p) == RuleAt(p) = "go_statement"

\* A GO that follows a semicolon separates two batches: terminating the last
\* statement is what protects the separator.
GoAfterSemicolonSeparates ==
    Accepted => \A p \in TokensOf("GO") :
        p > 1 /\ input[p - 1] = "SEMI" /\ input[p + 1] # "COLON" => IsSeparator(p)

-----------------------------------------------------------------------------
IsEmptyClause(n) ==
    nodes[n].rule = "sql_clauses" /\ nodes[n].start = nodes[n].stop /\ input[nodes[n].start] = "SEMI"

\* The rules after which a semicolon would be an empty statement.
Terminated == {"sql_clauses", "execute_body_batch", "batch_level_statement"}

(***************************************************************************)
(* A semicolon directly behind a statement terminates that statement: it   *)
(* is never read as an empty statement, so counting the clauses of a batch *)
(* counts its statements.                                                  *)
(***************************************************************************)
SemicolonTerminates ==
    Accepted => \A n \in DOMAIN nodes : IsEmptyClause(n) =>
        \A rule \in Terminated : \A m \in NodesOf(rule) :
            nodes[m].stop = nodes[n].start - 1 => input[nodes[m].stop] = "SEMI"

-----------------------------------------------------------------------------
HasElse(n) == \E p \in TokensOf("ELSE") : owner[p] = n

\* The statements with blocks inside, which an IF cannot reach out of.
Blocks == {"block_statement", "try_catch_statement"}

\* The IF of node m was ended before position p, by a semicolon of its own or
\* by the end of a block around it, within the statement n that owns the ELSE
\* at p.
Ended(m, n, p) ==
    \/ \E q \in TokensOf("SEMI") : q < p /\ owner[q] = m
    \/ \E rule \in Blocks : \E b \in NodesOf(rule) :
          n < b /\ b < m /\ nodes[m].start <= nodes[b].stop /\ nodes[b].stop < p

(***************************************************************************)
(* An ELSE belongs to the nearest IF that is still open: an IF between the *)
(* ELSE and its own IF has an ELSE already or has been ended explicitly.   *)
(***************************************************************************)
ElseBelongsToNearestIf ==
    Accepted => \A p \in TokensOf("ELSE") :
        \A m \in NodesOf("if_statement") :
            owner[p] < m /\ nodes[m].start < p => HasElse(m) \/ Ended(m, owner[p], p)

-----------------------------------------------------------------------------
(***************************************************************************)
(* What an item may be replaced by: a reference by the right-hand side of  *)
(* the rule, a decision by one of its branches.                            *)
(***************************************************************************)
Expansions(it) ==
    CASE it.k = "rule" -> {Grammar[it.sym]}
      [] it.k = "alt" -> {it.alts[n] : n \in DOMAIN it.alts}
      [] it.k = "opt" -> {<<>>, it.alts[1]}
      [] it.k = "star" -> {<<>>, Append(it.alts[1], it)}
      [] OTHER -> {}

\* g[i] is what is left of the sequences of rests behind the first i.
Concatenates(rests, g) ==
    /\ DOMAIN g = 0 .. Len(rests)
    /\ g[Len(rests)] = <<>>
    /\ \A i \in 1 .. Len(rests) : g[i - 1] = rests[i] \o g[i]

(***************************************************************************)
(* Full-context prediction is exact: the tokens from p on match what is    *)
(* left to match if and only if they do so after one step of a derivation, *)
(* wherever the step is made.  t is what prediction knows of the stream w; *)
(* words are the sequences of items, and lists the sequences of those, of  *)
(* which this is said.                                                     *)
(***************************************************************************)
Matches(t, v, p) == Viable(t, <<v>>, p)

ExactAt(w, t, p, words, lists) ==
    /\ Matches(t, <<>>, p)
    /\ \A it \in Items, v \in words : it.k = "tok" =>
          (Matches(t, <<it>> \o v, p) <=> p <= Len(w) /\ w[p] \in it.set /\ Matches(t, v, p + 1))
    /\ \A it \in Items, u, v \in words : it.k # "tok" =>
          (Matches(t, u \o (<<it>> \o v), p) <=> \E e \in Expansions(it) : Matches(t, u \o (e \o v), p))
    /\ \A rests \in lists : \A g \in [0 .. Len(rests) -> words] : Concatenates(rests, g) =>
          (Viable(t, rests, p) <=> Matches(t, g[0], p))

ExactPrediction ==
    \A w \in Inputs : \A p \in 1 .. Len(w) + 1 :
        ExactAt(w, Lookahead(w), p, Seq(Items), Seq(Seq(Items)))

-----------------------------------------------------------------------------
(***************************************************************************)
(* Which items may stand next to each other.  traits.empty has the items   *)
(* that may match nothing, traits.last and traits.first those that may end *)
(* with, or begin with, something particular, traits.single those that     *)
(* match one token.  A label is a single token before a colon.             *)
(***************************************************************************)
AllIn(e, S) == \A i \in DOMAIN e : e[i] \in S

Labelled(e, j, traits) ==
    e[j] \in traits.single /\ j < Len(e) /\ e[j + 1].k = "tok" /\ e[j + 1].set = {"COLON"}

MayBegin(e, traits) ==
    \E j \in DOMAIN e :
        /\ e[j] \in traits.first /\ ~Labelled(e, j, traits)
        /\ \A k \in 1 .. j - 1 : e[k] \in traits.empty

MayEnd(e, traits) ==
    \E i \in DOMAIN e : e[i] \in traits.last /\ \A k \in i + 1 .. Len(e) : e[k] \in traits.empty

\* Nothing that is among the first comes right behind one of the last.
Apart(e, traits) ==
    \A i, j \in DOMAIN e :
        /\ i < j /\ e[i] \in traits.last /\ e[j] \in traits.first
        /\ \A k \in i + 1 .. j - 1 : e[k] \in traits.empty
        => Labelled(e, j, traits)

\* The traits are those of this grammar: an item has what an expansion of it
\* has, the exceptions apart.
Describes(traits, exceptions) ==
    \A it \in Items : \A e \in Expansions(it) :
        /\ Apart(e, traits)
        /\ AllIn(e, traits.empty) => it \in traits.empty
        /\ MayEnd(e, traits) => it \in traits.last
        /\ MayBegin(e, traits) => it \in traits.first \cup exceptions
        /\ it \in traits.single => Len(e) = 1 /\ e[1] \in traits.single

References(rule) == {it \in Items : it.k = "rule" /\ it.sym = rule}
Readers(token) == {it \in Items : it.k = "tok" /\ token \in it.set}

(***************************************************************************)
(* Nothing that may begin with a GO, the separator and labels apart,       *)
(* stands behind something that may end with a semicolon.                  *)
(***************************************************************************)
GoGrammar(traits) ==
    /\ Describes(traits, References("go_statement"))
    /\ Apart(Grammar[StartRule], traits)
    /\ Readers("SEMI") \subseteq traits.last
    /\ Readers("GO") \subseteq traits.first
    /\ "go_statement" \in DOMAIN Grammar
    /\ Grammar["go_statement"] # <<>> /\ Grammar["go_statement"][1].k = "tok"

-----------------------------------------------------------------------------
\* A loop over clauses.
ClauseLoops ==
    {it \in Items : it.k = "star" /\ \E clause \in References("sql_clauses") : it.alts[1] = <<clause>>}

LastIn(e, S) == e # <<>> /\ e[Len(e)] \in S

(***************************************************************************)
(* What stands last in one of the rules: the semicolon semi, an optional   *)
(* one, a loop over clauses, another of the rules, or a decision between   *)
(* such endings.                                                           *)
(***************************************************************************)
Closing(rules, endings, semi) ==
    /\ semi \in endings
    /\ \A rule \in rules \cap DOMAIN Grammar : LastIn(Grammar[rule], endings)
    /\ \A it \in endings :
          \/ it = semi
          \/ it.k = "rule" /\ it.sym \in rules
          \/ it.k = "opt" /\ it.alts[1] = <<semi>>
          \/ it \in ClauseLoops
          \/ it.k = "alt" /\ \A n \in DOMAIN it.alts : LastIn(it.alts[n], endings)

(***************************************************************************)
(* A clause is never empty and never begins with a semicolon, unless it is *)
(* one, and every rule it may be the end of ends with an optional          *)
(* semicolon or with more clauses.  Behind such a rule a clause comes only *)
(* in a loop over clauses.  traits is about what ends with a statement and *)
(* begins with a clause, semis about what begins with a semicolon.         *)
(***************************************************************************)
SemicolonGrammar(traits, semis, rules, endings, semi) ==
    /\ Describes(traits, ClauseLoops)
    /\ Describes(semis, {})
    /\ semis.empty = traits.empty /\ semis.single = {} /\ traits.single = {}
    /\ Apart(Grammar[StartRule], traits)
    /\ Readers("SEMI") \subseteq semis.first
    /\ References("sql_clauses") \subseteq traits.first
    /\ \A rule \in Terminated :
          /\ References(rule) \subseteq traits.last
          /\ rule \in DOMAIN Grammar => ~AllIn(Grammar[rule], traits.empty)
    /\ Terminated \subseteq rules
    /\ Closing(rules, endings, semi)
    /\ semi \in Items /\ semi.k = "tok" /\ semi.set = {"SEMI"}
    /\ Len(Grammar["sql_clauses"]) = 1
    /\ LET clause == Grammar["sql_clauses"][1]
       IN  /\ clause.k = "alt"
           /\ \E n \in DOMAIN clause.alts : clause.alts[n] = <<semi>>
           /\ \A n \in DOMAIN clause.alts :
                 \/ clause.alts[n] = <<semi>>
                 \/ ~MayBegin(clause.alts[n], semis) /\ ~AllIn(clause.alts[n], semis.empty)

-----------------------------------------------------------------------------
(***************************************************************************)
(* The rule of IF: its items are those of the record x.                    *)
(***************************************************************************)
IsIf(x) ==
    /\ Grammar["if_statement"] = <<x.if, x.condition, x.clause, x.otherwise, x.end>>
    /\ x.if.k = "tok" /\ x.condition.k = "rule" /\ x.clause.k = "rule"
    /\ x.otherwise.k = "opt" /\ x.otherwise.alts[1] = <<x.else, x.clause>>
    /\ x.else.k = "tok" /\ x.else.set = {"ELSE"}
    /\ x.end.k = "opt" /\ x.end.alts[1] = <<x.semi>>
    /\ x.semi.k = "tok" /\ x.semi.set = {"SEMI"}

\* The rules that an IF may go through on the way to one inside it.
Carriers == {"if_statement", "while_statement", "sql_clauses", "cfl_statement"}

(***************************************************************************)
(* An IF goes to one inside it through carriers or through a block, and    *)
(* behind the reference that leads there a carrier has at most its own     *)
(* ELSE and its own semicolon.  around has the rules that may have an IF   *)
(* inside; of those only IF itself reads an ELSE.                          *)
(***************************************************************************)
Leads(parts, it, around) == \E y \in parts[it] : y.k = "rule" /\ y.sym \in around

LeadsLast(parts, e, around, options) ==
    \A i, j \in DOMAIN e : i < j /\ Leads(parts, e[i], around) => e[j] \in options

IfGrammar(parts, x, around) ==
    /\ AreParts(parts)
    /\ IsIf(x)
    /\ "if_statement" \in around
    /\ \A rule \in DOMAIN Grammar : \A it \in ItemsIn(parts, rule) :
          it.k = "rule" /\ it.sym \in around => rule \in around
    /\ ReadBy(parts, {"ELSE"}) \cap around \subseteq {"if_statement"}
    /\ \A rule \in Carriers \cap DOMAIN Grammar :
          /\ \A it \in ItemsIn(parts, rule) :
                /\ it.k = "rule" /\ it.sym \in around => it.sym \in Carriers \cup Blocks
                /\ it.k = "star" => ~Leads(parts, it, around)
          /\ \A e \in SequencesIn(parts, rule) : LeadsLast(parts, e, around, {x.otherwise, x.end})
=============================================================================
