------------------------------ MODULE Pairing -------------------------------
(***************************************************************************)
(* Tokens that pair up like brackets: BEGIN and CASE with END, JOIN with   *)
(* ON.  What the tree must say of them is stated over the token stream,    *)
(* next to the conditions on a grammar from which it follows for every     *)
(* stream and every prediction.                                            *)
(***************************************************************************)
EXTENDS ParserCore, FiniteSetsExt

Accepted == status = "accepted"

RuleAt(p) == nodes[owner[p]].rule

\* How many brackets the tokens of q .. p leave open.
Balance(opens, closes, q, p) ==
    Cardinality(opens \cap q .. p) - Cardinality(closes \cap q .. p)

\* The bracket that the one at p closes when brackets nest.
Partner(opens, closes, p) ==
    Max({q \in opens : q <= p /\ Balance(opens, closes, q, p) = 0})

\* Every bracket is closed, and by a token of the node that has opened it.
PairUp(opens, closes) ==
    /\ \A p \in closes :
          /\ Balance(opens, closes, 1, p) >= 0
          /\ owner[Partner(opens, closes, p)] = owner[p]
    /\ Balance(opens, closes, 1, Len(owner)) = 0

(***************************************************************************)
(* Which tokens are brackets is read off the tokens alone: the word behind *)
(* them tells, unless that word is used as a name.                         *)
(***************************************************************************)
Announces(p, words) == input[p + 1] \in words /\ RuleAt(p + 1) # "keyword"

Statements == {"TRAN", "DISTRIBUTED", "CONVERSATION", "DIALOG"}

Opens(p) ==
    \/ input[p] = "CASE"
    \/ input[p] = "BEGIN" /\ ~Announces(p, Statements)
Closes(p) == input[p] = "END" /\ ~Announces(p, {"CONVERSATION"})

Openings == {p \in DOMAIN owner : Opens(p)}
Closings == {p \in DOMAIN owner : Closes(p)}

(***************************************************************************)
(* BEGIN, CASE and END pair up like brackets, whatever BEGIN TRANSACTION,  *)
(* BEGIN or END CONVERSATION stand between them: every block is closed,    *)
(* and the END that closes it is attached to the statement that owns the   *)
(* matching BEGIN.                                                         *)
(***************************************************************************)
BlocksPairUp ==
    Accepted =>
        /\ PairUp(Openings, Closings)
        /\ \A p \in DOMAIN owner :
              input[p] = "END" /\ ~Closes(p) => RuleAt(p) = "end_conversation"

(***************************************************************************)
(* A BEGIN TRY is always answered by its own CATCH: the four bracket words *)
(* of a TRY statement belong to one node, and TRY and CATCH blocks never   *)
(* close each other.                                                       *)
(***************************************************************************)
TryHasItsCatch ==
    Accepted => \A p \in DOMAIN owner : RuleAt(p) = "try_catch_statement" =>
        /\ Opens(p) /\ input[p + 1] = "TRY" =>
              \E q \in DOMAIN owner : q > p /\ Opens(q) /\ input[q + 1] = "CATCH" /\ owner[q] = owner[p]
        /\ Closes(p) => input[p + 1] = input[Partner(Openings, Closings, p) + 1]

-----------------------------------------------------------------------------
\* A CROSS JOIN takes no ON, and a conversation has ONs of its own.
JoinOpenings == {p \in DOMAIN owner : input[p] = "JOIN" /\ (p > 1 => input[p - 1] # "CROSS")}
JoinClosings ==
    {p \in DOMAIN owner : input[p] = "ON" /\ ~Announces(p, {"CONTRACT", "CONVERSATION"})}

\* Every JOIN has its ON, and an ON belongs to the nearest JOIN before it
\* that has no ON yet.
OnBelongsToNearestJoin == Accepted => PairUp(JoinOpenings, JoinClosings)

-----------------------------------------------------------------------------
(***************************************************************************)
(* Conditions on a grammar.  parts[it] has the item it and every item      *)
(* inside it.                                                              *)
(***************************************************************************)
AreParts(parts) ==
    \A it \in Items :
        /\ it \in parts[it]
        /\ \A n \in DOMAIN it.alts : \A i \in DOMAIN it.alts[n] : it.alts[n][i] \in parts[it]
        /\ parts[it] \subseteq Items
        /\ \A x \in parts[it] : parts[x] \subseteq parts[it]

\* The items of a rule, and the sequences that are made of them.
ItemsIn(parts, rule) == UNION {parts[Grammar[rule][i]] : i \in DOMAIN Grammar[rule]}
SequencesIn(parts, rule) ==
    {Grammar[rule]} \cup UNION {{it.alts[n] : n \in DOMAIN it.alts} : it \in ItemsIn(parts, rule)}

Reads(it, words) == it.k = "tok" /\ it.set \cap words # {}

\* The rules that read one of the words, and all words there are.
ReadBy(parts, words) ==
    {rule \in DOMAIN Grammar : \E it \in ItemsIn(parts, rule) : Reads(it, words)}
Words == UNION {it.set : it \in Items}

(***************************************************************************)
(* Outside the rules, one of the words is followed at once by one of next. *)
(***************************************************************************)
FollowedIn(e, words, next) ==
    \A i \in DOMAIN e : Reads(e[i], words) =>
        i < Len(e) /\ e[i + 1].k = "tok" /\ e[i + 1].set \subseteq next

Followed(parts, words, next, rules) ==
    \A rule \in DOMAIN Grammar \ rules :
        \A e \in SequencesIn(parts, rule) : FollowedIn(e, words, next)

(***************************************************************************)
(* Outside the rules, one of the words comes right behind one of before:   *)
(* it, or the block or the decision that begins with it, stands behind     *)
(* that token.                                                             *)
(***************************************************************************)
BeginsWith(it, words) ==
    \/ Reads(it, words)
    \/ \E n \in DOMAIN it.alts : it.alts[n] # <<>> /\ Reads(it.alts[n][1], words)

PrecededIn(e, words, before) ==
    \A i \in DOMAIN e : i > 1 /\ BeginsWith(e[i], words) =>
        e[i - 1].k = "tok" /\ e[i - 1].set \subseteq before

Preceded(parts, words, before, rules) ==
    \A rule \in DOMAIN Grammar \ rules :
        /\ Grammar[rule] # <<>> => ~BeginsWith(Grammar[rule][1], words)
        /\ \A e \in SequencesIn(parts, rule) : PrecededIn(e, words, before)
        /\ \A it \in ItemsIn(parts, rule) :
              /\ it.k = "star" => ~BeginsWith(it, words)
              /\ \A n \in DOMAIN it.alts :
                    it.alts[n] # <<>> /\ BeginsWith(it.alts[n][1], words) => Reads(it.alts[n][1], words)

(***************************************************************************)
(* In e, of which open brackets have been opened before, brackets open and *)
(* close in turn, and the last one is closed.                              *)
(***************************************************************************)
Weight(it, opening, closing) ==
    IF Reads(it, opening) THEN 1 ELSE IF Reads(it, closing) THEN -1 ELSE 0

InTurn(e, opening, closing, open) ==
    \E s \in [1 .. Len(e) + 1 -> 0 .. 1] :
        /\ s[1] = open
        /\ \A i \in 1 .. Len(e) : s[i + 1] = s[i] + Weight(e[i], opening, closing)
        /\ s[Len(e) + 1] = 0

\* Brackets stand directly in e, not in its blocks.
OnTheSurface(parts, e, words) ==
    \A i \in DOMAIN e : e[i].k # "tok" => \A it \in parts[e[i]] : ~Reads(it, words)

\* The alternatives of a right-hand side that is one decision.
Alternatives(rule) ==
    IF Len(Grammar[rule]) = 1 /\ Grammar[rule][1].k = "alt"
    THEN {Grammar[rule][1].alts[n] : n \in DOMAIN Grammar[rule][1].alts}
    ELSE {Grammar[rule]}

\* Each of the rules opens and closes its brackets in turn.
Brackets(parts, rules, opening, closing) ==
    /\ opening \cap closing = {}
    /\ \A rule \in rules :
          /\ \A it \in ItemsIn(parts, rule) : \A words \in {opening, closing} :
                Reads(it, words) => it.set \subseteq words
          /\ \A e \in Alternatives(rule) :
                InTurn(e, opening, closing, 0) /\ OnTheSurface(parts, e, opening \cup closing)

(***************************************************************************)
(* The words on the surface of e are those of pairs, in their order, each  *)
(* with the word that stands right behind it: the one of pairs[k] is at    *)
(* a[k].                                                                   *)
(***************************************************************************)
Places(e, a, words, pairs) ==
    /\ a \in [DOMAIN pairs -> DOMAIN e]
    /\ \A k \in DOMAIN pairs :
          /\ e[a[k]].k = "tok" /\ e[a[k]].set = {pairs[k].word}
          /\ a[k] + 1 \in DOMAIN e
          /\ e[a[k] + 1].k = "tok" /\ e[a[k] + 1].set = {pairs[k].behind}
    /\ \A k, m \in DOMAIN pairs : k < m => a[k] < a[m]
    /\ \A i \in DOMAIN e : Reads(e[i], words) => \E k \in DOMAIN pairs : a[k] = i

Skeleton(parts, e, words, pairs) ==
    /\ OnTheSurface(parts, e, words)
    /\ \E a \in [DOMAIN pairs -> DOMAIN e] : Places(e, a, words, pairs)

BlockRules == {"block_statement", "try_catch_statement", "case_expression"}

BlockGrammar(parts) ==
    /\ ReadsWholeStream
    /\ AreParts(parts)
    /\ Brackets(parts, BlockRules, {"BEGIN", "CASE"}, {"END"})
    /\ ReadBy(parts, {"CASE"}) \subseteq BlockRules
    /\ ReadBy(parts, {"END"}) \subseteq BlockRules \cup {"end_conversation"}
    /\ ReadBy(parts, Statements) \cap BlockRules = {}
    /\ "keyword" \notin ReadBy(parts, {"BEGIN", "END"})
    /\ Followed(parts, {"BEGIN"}, Statements, BlockRules)
    /\ Followed(parts, {"END"}, {"CONVERSATION"}, BlockRules)
    /\ Preceded(parts, Statements, Words, {"keyword"})

TryPairs ==
    <<[word |-> "BEGIN", behind |-> "TRY"], [word |-> "END", behind |-> "TRY"],
      [word |-> "BEGIN", behind |-> "CATCH"], [word |-> "END", behind |-> "CATCH"]>>

TryGrammar(parts) ==
    /\ BlockGrammar(parts)
    /\ Skeleton(parts, Grammar["try_catch_statement"], {"BEGIN", "CASE", "END"}, TryPairs)

JoinGrammar(parts) ==
    /\ ReadsWholeStream
    /\ AreParts(parts)
    /\ Brackets(parts, {"join_on"}, {"JOIN"}, {"ON"})
    /\ ReadBy(parts, {"CROSS", "CONTRACT", "CONVERSATION"}) \cap {"join_on"} = {}
    /\ "keyword" \notin ReadBy(parts, {"ON"})
    /\ Followed(parts, {"CROSS"}, {"JOIN", "APPLY"}, {})
    /\ Preceded(parts, {"JOIN"}, {"CROSS"}, {"join_on"})
    /\ Followed(parts, {"ON"}, {"CONTRACT", "CONVERSATION"}, {"join_on"})
    /\ Preceded(parts, {"CONTRACT", "CONVERSATION"}, Words, {"keyword"})
=============================================================================
