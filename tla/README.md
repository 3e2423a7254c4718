# A TLA+ model of tsql-parser

tsql-parser is a parser for Transact-SQL: two ANTLR grammars (`TSqlLexer.g4`,
`TSqlParser.g4`), the Go code generated from them, a small hand-written Go base
for the lexer, a Python script that generates a table for it, and a C++ port of
the generated code. This directory models the parts that decide something: the
parser the grammar denotes and the shape of the trees it builds, the context classes
through which a client sees them, the lexer and the driver that feeds it, the
keyword table and the tools around it, and the concurrent initialization of the
lexers.

## 1. Inventory

| Component | State it keeps | Operations | Interacts with |
|---|---|---|---|
| Lexical grammar, `TSqlLexer.g4` | position in the text | next token | parser, through the token stream |
| Parser grammar, `TSqlParser.g4` | none: it is the program ANTLR compiles | about 450 rules | the generated parser |
| Generated parser (ANTLR's Go code and runtime; the generated parser file is not in the repository) | current token, call stack of rule functions, current context, parse tree | one function per rule: enter, match, predict, exit; syntax errors go to a listener | client (`parser_test.go`), token stream |
| Keyword table: `generate_keyword_golang_map.py`, `keyword_map.go`, `tsql_base_lexer.go`, `build.sh` | the files, the script's buffer, the compiled package | edit, build, generate, compile; `IsID_`, `IsKeyword` | repeats rule `id_` of the grammar |
| Go lexer, `tsql_lexer.go` | one package-level struct and a `sync.Once` | `TSqlLexerInit`, `NewTSqlLexer` | all goroutines of a process |
| C++ lexer, `port/cpp/TSqlLexer.cpp` | a pointer to the static data, shared or thread-local, and a `once_flag` | constructor, `initialize`, accessors | all threads of a process |
| C++ parser header, `port/cpp/TSqlParser.h` | per rule a context: children, label fields | accessors; fields assigned by the rule functions | clients of the tree; generated from an older grammar |
| C++ driver, `port/cpp/parser_test.cpp` | an input stream, the text | read line by line, lex, parse, print | C++ lexer and parser |
| Listeners and visitors, Go and C++ | none | empty generated methods | clients |

What is hard here, and hard to test:

* The grammar is **ambiguous by design**. Most keywords are identifiers too
  (`id_ : ... | keyword`), optional semicolons stand at three levels of nesting,
  `IF ... ELSE`, `BEGIN ... END`, `JOIN ... ON` and argument lists are recursive.
  ANTLR resolves every ambiguity silently by the order of the alternatives, and the
  repository's test only counts syntax errors: a file that is parsed into the
  wrong tree passes. Properties of *trees* are therefore what is worth checking.
* What a client gets of a tree are **accessors and label fields**. A label in a loop
  keeps its last match only, two optional labels in a row are told apart by their
  order alone, and the header of the port is older than the grammar beside it.
* The **lexer never stops**: an unclosed quote or comment changes what all the
  following text is read as, and recovery must come to the end of the text exactly.
* The same fact, which tokens are identifiers, is kept in **two artefacts**
  generated by different tools, one of which scans the grammar as text and
  truncates its output before it knows that it has something to write.
* The lexers' **static data** is created lazily and concurrently, in place (Go), or
  behind a pointer with two build configurations and exceptions (C++). The Go test
  runs its cases with `t.Parallel()`.

`PROJECT.json` lists the hazards at their lines, with the properties aimed at them.

## 2. Modules

```
Ebnf             notation of .g4 right-hand sides
 |- NameGrammar -> QueryGrammar -> StatementGrammar     the rules that parses go through
ParserCore       the generated recursive-descent parser, for any grammar
 |- Prediction   the decisions of adaptive prediction (TLC only: RECURSIVE)
 |- ParserCoreProofs             the tree, and that it is a derivation
 |- Pairing      brackets in the token stream and in the tree, conditions on grammars
     |- PairingProofs, on ParserCoreProofs
     |- Statements  where a statement ends: GO, semicolon, ELSE; what exact prediction is
         |- StatementProofs, on PairingProofs
SqlProperties    Statements + Prediction + StatementGrammar
 |- MCTree MCNesting MCBatches
Phrases          the same, for calls of single rules
 |- CallProperties NameProperties ExpressionProperties -> MCPhrases
RuleNotation     Ebnf with labels and context classes
 |- FileSyntax ObjectSyntax ServerSyntax TableSyntax CommandSyntax
 |  ColumnSyntax QuerySyntax FunctionSyntax NameSyntax  every rule, every class
RuleContext      one call of one rule function, for any grammar
 |- ContextProperties, with all the Syntax modules (its own run), and the rules in
                     which the C++ port differs
LexicalRules     the rules of TSqlLexer.g4, longest match
 |- Driver       the C++ driver and Lexer::nextToken -> DriverProofs
     |- LexerProperties -> MCDriver, LexerProofs
KeywordMap       the keyword table and its tools
 |- KeywordMapProofs, MCKeywordMap
LazyInit         abstract: data made once, lexers built on complete data
 |- GoLexerInit  -> GoLexerInitProofs
 |- CppLexerInit -> CppLexerInitProofs
```

### The grammar

`NameGrammar`, `QueryGrammar` and `StatementGrammar` hold one definition per rule
of `TSqlParser.g4`, under the rule's own name, written with the operators of
`Ebnf`: `x & y` is juxtaposition, `x | y` an ordered alternative, `x^#` is `x?`, `x^*`
and `x^+` are the loops, `T` and `N` refer to tokens and rules. A rule keeps every
alternative and optional part over the modelled tokens, in the order of the
source. Alternatives that need a token outside the modelled set (methods of XML values,
`OVER` clauses, hints, the options behind the `WITH` of `BEGIN DIALOG`) are left out; they
can match no stream over that set, so no parse of such a stream changes. Tokens
in mixed case (`Predicate`, `Ddl`, `Dml`, `Head`, `View`, `OrderBy`) each stand for a
construct whose inside does not interact with the structure around it.

The left-recursive rules `expression` and `search_condition` are written as ANTLR
compiles them, as a loop over operators whose right operand is read at a higher
precedence. The precedence is a parameter of the generated function; the model has
one rule for each value it is called with (`expression`, `expression_5`,
`expression_6`, `search_condition`, `_2`, `_3`).

### All rules and their contexts

The Syntax modules hold the whole of `TSqlParser.g4`, every rule that matches more
than keywords (720, the labelled alternatives of `built_in_functions` counted
one by one), each paired with the class of `TSqlParser.h` that represents it:

    drop_schema |-> Drop_schemaContext ::= drop_schema

A class lists the children with a plain accessor, those with a vector accessor, and
the label fields with their types. Classes are read from the header and right-hand
sides from the grammar, so that the two can disagree. Runs of keywords are one terminal, and
accessors of keywords are left out: such a terminal has no value. `ContextProperties` has the
eight rules in which the automaton of the port (`TSqlParser.interp`) differs.

`RuleContext` is one call of one rule function; `code` and `context` are the right-hand
side and the context class of its rule, taken from the grammar at entry. `AddChild` is `match` or the call of
another rule function, with the assignment to the label; `ExitRule` completes the
context. The client's interest is a variable, `watch`: one accessor, one label, or
`Readings`, for which the model follows two readings of the same children
(`AddChildTwice`) and keeps in `apart` the labels that they assigned differently. While a
label is watched, `got` has the children it marked, each with its kind and how it was kept,
and `besides` the kinds of child that came without the label, so that a property can tell
whether a match that the field has lost is still found among the children of its kind. So the
state does not hold the children, only what is watched of them, and every rule of the
grammar fits in one run.

### The parser

`ParserCore` is the code ANTLR generates and the part of its runtime that this code
calls, for an arbitrary grammar. It is external code in the sense that neither the
generated parser nor the runtime is in the repository; it is modelled from the
calls that the generated lexer, the listener and visitor interfaces and the
tests make.

| Variable | Code |
|---|---|
| `input`, `pos` | the `CommonTokenStream` and the index of `LT(1)` |
| `stack` | the active rule functions, each with its node and the items still to match |
| `ctx` | the parser's `_ctx` |
| `nodes` | the rule contexts in the order of their creation: rule, parent, start, stop |
| `owner` | to which context each consumed token was added |
| `table` | what prediction knows of the stream (a constant operator's value) |
| `status` | not called, parsing, accepted, or stopped by a syntax error |

| Action | Code |
|---|---|
| `Call` | the client calls the start rule |
| `EnterRule` | call of another rule function (`EnterRule`) |
| `Match` | `Match`, `Consume`: the token is attached to the context |
| `Choose`, `EnterOptional`, `Iterate` | `AdaptivePredict` at alternatives, `?`, and `*` |
| `ExitRule` | `ExitRule`: stop token, parent becomes the context |
| `SyntaxError` | the listener counts an error; recovery after it is not modelled |
| `Keep` | the client keeps the finished tree |

A decision takes the first alternative that *fits*: one that, followed by
everything the callers still expect, agrees with the tokens. In `ParserCore` this is
the parameter `Viable`; `Prediction` computes it exactly, as full-context prediction
does. On a stream with an error, the model reports the error at the first decision
without a viable alternative, ANTLR possibly some tokens later; no property speaks of
the place of an error.

### The lexer and the driver

`LexicalRules` defines what each lexical rule matches, the longest match, and the
choice of the first rule among equals. Comments are followed as the lexer's automaton does, by an
ordered list of readings of which those less preferred than a complete one are given up;
all other rules are predicates on words. Two words stand for the keywords (`GO`, and `N`, the
keyword of one letter that a string prefix competes with), and a few letters, digits and
blanks for theirs; all punctuation is there.

| Action of `Driver` | Code |
|---|---|
| `GetLine` | `std::getline` finds a newline; the line and `"\n"` are appended |
| `GetLastLine` | it meets the end of the file; `eof()` becomes true and `"\n"` is appended all the same |
| `ReadFails` | a read fails: reported as the end of the file, or as `badbit` alone, depending on the standard library |
| `GetNothing` | `getline` on a stream with `badbit`: an empty line is appended, the loop goes on |
| `Close` | the loop is left, lexer and token stream are built on the text |
| `Emit` | `Lexer::nextToken`: the longest match becomes a token |
| `Recover` | no rule matches: the error listener is called, `recover` consumes one character where the simulator has stopped |
| `EmitEOF` | the token stream is full |

### The keyword table

`KeywordMap` follows a maintainer. `Edit` changes the text of the rule `keyword`,
`Build` is `build.sh`, the script is the steps `Scan` (read the grammar, look for the line
`: ABORT`, take lines until one ends with `;`), `OpenMap` (`open(..., "w")` truncates),
`WriteMap`, `NameError` (the rule was not found, `buffer` is unbound) and `Interrupt`;
`Compile` is `go build`, which refuses an unclosed literal, an unknown name and a
duplicate key. A line of the grammar is a record of what the two readers look at.
The readers differ: `Keywords` (ANTLR) takes every name up to the closing `;`,
`extract_keyword_candidates` takes the first name of a line that begins with `:` or `|`.
`WellLaidOut` is the layout on which they coincide; the committed rule has it.

### The lexers' static data

`LazyInit` says what a client may rely on: the data is made once, and a lexer is
constructed only on complete data. `GoLexerInit` models `NewTSqlLexer` and
`TSqlLexerInit` with the in-place assignments of `tsqllexerLexerInit` one by one
and `sync.Once` from its contract. `CppLexerInit` models the constructor,
`TSqlLexer::initialize` and `tsqllexerLexerInitialize` in the build with a shared
pointer and `call_once` and, where `threadLocal` is true from the start, in the build
with `ANTLR4_USE_THREAD_LOCAL_CACHE`; building the data and constructing the interpreter
may throw, and `call_once` then leaves the flag to the next thread.

## 3. Runs

| Run | Checks | Shows |
|---|---|---|
| `tree` | `ContextFollowsCalls`, `IntervalsNest`, `TokensHangInnermost`, `AcceptedIsComplete`, `TreeOnlyGrows`, `Termination` | at every step of every parse the tree is well formed: the context is the innermost active function's, nodes lie within their parents and siblings do not overlap, every consumed token is attached at the innermost node around it; an accepted parse has read the whole stream; a step never changes a node that was closed, or moves a token, so that a listener may keep what it was given; every parse ends |
| `nesting` | `ElseBelongsToNearestIf`, `BlocksPairUp`, `TryHasItsCatch`, `OnBelongsToNearestJoin` | the optional semicolons inside and outside an `IF`, and the blocks around it, never give an `ELSE` to an outer `IF` while an inner one is open, that is, has neither an `ELSE` nor a semicolon of its own nor an ended block around it; `BEGIN` and `CASE` pair with `END` like brackets through transactions and conversations, and `TRY` and `CATCH` halves go together; an `ON` belongs to the nearest `JOIN` without one |
| `batches` | `GoAfterSemicolonSeparates`, `GoIsLostOnlyToOpenTails`, `SemicolonTerminates` | a `GO` behind a semicolon is safe; a `GO` that is not a separator was taken by one of seven kinds of open tail; a semicolon behind a statement is never an empty statement |
| `phrases` | `CallTakesArguments`, `ArgumentsKeepTheirKind` | the exact language of argument lists, with and without `EXECUTE`, and the node each argument becomes |
| | `RewriteKeepsNames`, `ColumnIsLastPart` | the rewritten `full_table_name` loses no name of the rule it replaces and gains only plain ones of five or more parts; the column is the last part |
| | `OperandsFollowStrength`, `UnaryTakesTheRest`, `AndBeforeOr` | multiplication before addition, both to the left, `AND` before `OR`, the `AND` of a `BETWEEN` apart; but a unary operator, and `AT TIME ZONE`, take the whole rest of the expression: `-a + b` is `-(a + b)` |
| `rule_contexts` | `AccessorsReachEveryChild`, `FieldsKeepTheirMatch`, `ChildrenDetermineFields`, `GoIsTakenOnlyByOpenTails` | for every rule: the accessors of the header reach every child, for the port's grammar without exception and for the current one except for eight kinds of child of five rewritten rules; label fields have the type of what they mark, and every match is in the field or, for 16 labels, among the children of its kind, except for 84 labels of 31 rules; children determine every field but 16 of 6 rules; at the end of a batch only 23 rules can take a `GO` as a name |
| `driver` | `TypeOK`, `ContentIsFile`, `EveryCharacterOnce`, `EveryStepAdvances` | the text is the file and one more newline, or what was read before a failure; tokens and errors partition it; every step advances unless a read has failed as `badbit` |
| | `ClosedTextIsReadAsEnclosed`, `UnclosedCommentFallsBack`, `UnclosedQuoteTakesTheRest` | in a text in which everything is closed, strings, comments and quoted names are where a one-pass scanner finds them, except behind `//`; an unclosed inner comment ends the outer one earlier; an unclosed `"` or `[` drops the rest of the text |
| `keyword_map` | `NoEmptyMap`, `RegeneratedAgrees` | no failure of the script reaches a compiled package as an empty map; after both tools ran to their end, `IsID_` and `id_` agree |
| `go_lexer_init` | `NoWriteWhileRead`, `LazilyInitialized`, `EveryCallReturns` | `LazyInit` is implemented, reads of the struct do not race, no call waits for ever |
| `cpp_lexer_init` | `AssertionHolds`, `DereferencesAreSafe`, `LazilyInitialized`, `EveryCallReturns` | in both builds the assertion holds after any pattern of exceptions, no null pointer is dereferenced, a throwing thread strands nobody |

The properties of trees are stated against a reading of the bare token stream that
does not use the grammar: counting brackets, the nearest unmatched `JOIN`, the
positions of commas, strengths of operators, a scanner with one state per enclosure.
That is what makes them independent of the rules they check.

The exceptions of `rule_contexts` are lists in `ContextProperties`, and each is a result. They
name single labels or kinds of child, so that the rest of a listed rule is still checked:

* `Repeated`: labels whose field keeps the last of several matches (`DROP ASSEMBLY a, b` keeps
  `b`). For these the run shows where a client finds the others: the vector accessor of their
  kind has every match and nothing else. A qualifier added to the names of `DROP ASSEMBLY`
  would break that, and is the property's mutant.
* `Lost`: labels for which this does not hold, because other children of the kind stand among
  the matches, or because there is no vector accessor for it. No field or
  accessor tells their earlier matches from other children.
* `Undetermined`: labels that two readings of the same children assign differently. `DROP QUEUE
  dbo.q` puts `dbo` into `database_name`; the run shows that `queue_name` is certain all the
  same, and that no reading moves a label outside the list.
* `Unreached`: the children for which the port's header is out of date. Of `tsql_file` it is the
  batches; the separators and the end of the file are still within reach.
* `OpenTails`: rules that need a semicolon before `GO`.

A change of the grammar that adds a label or a rule to one of these kinds fails the run.

`EveryStepAdvances` is the driver's termination without fairness: every step decreases a
measure (phase, end of file seen, characters left), the model has no deadlock, so a
driver that keeps running ends. It is stated with the one exception that the code has: after
`badbit` the loop `while (!test_file.eof())` never ends.

Each property has a mutant: a plausible slip in a rule or a step (a swapped
alternative, a dropped guard, a flag set too early) under which TLC finds it violated.

### Disagreements

Three runs state what a comment, an example or the README says and end with a
counterexample.

| Run | Statement | What the code does |
|---|---|---|
| `separators` | `examples/dml_select.sql:36`, "Select with Multiple Batch Separators": a `GO` behind a complete piece of a file separates | the second of two `GO`s is parsed as a call of a procedure named `GO` (`execute_body_batch`) |
| `calls_comment` | `TSqlParser.g4:2961`, "Named can only be continued by unnamed" | a named argument is continued by named ones only |
| `keyword_map_readme` | `README.md:20`, after a change of the grammar "run `./build.sh` to generate the parser code." | `keyword_map.go` stays behind, and `IsID_` disagrees with `id_` |

### Bounds

* Streams are all sequences of up to `MaxPieces` pieces; a piece is one or a few
  tokens that belong together (`SELECT x`, `BEGIN TRAN`). The bounds are chosen so that
  the ambiguity in question occurs nested and repeated. `nesting` is five families of
  streams, of which only those are kept that have the construct in question and whose words
  balance, or miss balance by one (the second family is kept whole): five pieces between an `IF` and a last statement, room for two
  nested `IF`s with an `ELSE` each, or one `ELSE` with a semicolon on either side of it; four pieces between an
  `IF` whose statement is a `BEGIN TRY` and a last `ELSE`, so that an inner `IF` stands in either half of
  the `TRY`, with a loop around it or without, and the `ELSE` before or behind the end of the block; four
  pieces within `BEGIN` and `END`, a block inside a block or a `CASE` in a `RETURN` with a foreign
  `BEGIN` or `END` beside it, and a label with the name of one; four pieces within `BEGIN TRY` and
  `END CATCH`, with a `CATCH` in the place of a `TRY`; five pieces behind `FROM x JOIN y`, a second
  join in either nesting, with both `ON`s. `batches`: four pieces, a statement, a `GO`,
  and what follows, without the streams that have neither a `GO` nor a semicolon. `phrases`: calls with
  three arguments, so that each order of named and positional ones occurs; names of nine
  tokens, one dotted part more than the largest name of the original rule, as a table
  name and as a column name; chains of three operands of every kind (signed, bracketed,
  collated, `CASE`) and of four simple ones, with every choice of operators, and the same for
  conditions: three operators are the least in which a strong one stands between two weak ones.
  `tree`: three pieces over tokens that reach every kind of grammar item.
* `rule_contexts`: no bound. A call of a rule is followed through its loops without limit;
  of the children watched for, the first two are kept, which is what tells one from several.
* `driver`: every text of up to eight characters over `/`, `*` and a letter (a comment within a
  comment, and each way of leaving one open); five over quotes and brackets; four over
  the characters of numbers; five over a letter and newline, for which reads may fail at every
  place; four delimiters of all kinds. `MaxBlanks = 2` caps the lines that the endless
  loop after `badbit` appends. The theorems have no such bounds.
* `keyword_map`: keyword rules of up to three lines in every layout of `First`,
  `Middle` and `Close`, so that each of the script's assumptions is broken at least once;
  the number of edits and tool runs is not bounded.
* Lexers: three threads, so that one initializes while two wait; `MaxThrows = 2`, so
  that an exception follows an exception. The theorems have no such bounds.

The caps on counters are `MaxBlanks` and `MaxThrows`. The latter is also an assumption of
`EveryCallReturns` in C++: if initialization throws for ever, each constructor still
throws in its turn, but a waiting thread may be overtaken each time.

### Fairness

* `tree`: `WF_vars(Step)`, the parser is one goroutine that takes its next step.
  Nothing is assumed about the client, who may never call.
* Lexers: `WF_vars(Run(t))` for each thread: a goroutine or thread that can run is
  eventually run. Nothing is assumed about calls. `sync.Once` and `call_once` release
  waiting threads, so weak fairness is enough: a waiting step, once enabled, stays so.

The other runs check safety only and state no fairness.

## 4. Proofs

All theorems hold for every value of the constants that satisfies the named
assumptions. The type invariants of the parser, of the keyword table and of the lexers' initialization are
proved only (`TypeCorrect` in each proof module), not checked by runs as well.

**ParserCoreProofs**: for every grammar whose items are well formed
(`ItemsAssumption`, `GrammarAssumption`), every set of streams that end in `EOF`
(`InputsAssumption`) and *every* prediction. `TypeCorrect`, `ContextCorrect`,
`IntervalsCorrect` and `TokensCorrect` are `Spec => []P` for the four tree invariants.
None is inductive alone: that a new node lies within its parent needs to know
that the parent is open, which needs the call stack; that a token's owner is
innermost needs the intervals of the nodes closed before. The inductive invariant
is `TreeInv`: the four together with `Bookkeeping` (what the status says about the
stack; no node starts behind the current token, and a closed one ends before it). The proof has one lemma per action (`MatchKeeps`, `EnterKeeps`,
`ExitKeeps`, ...); the three decisions share one, because they change only what is
still to be matched.

`AcceptedCorrect` needs one assumption more, `ReadsWholeStream`: every alternative of
the start rule ends with `EOF`, and `EOF` stands only at the end of a stream. TLC evaluates
it for `tsql_file` (`TsqlFileAssumption`). The invariant behind it, `EofInv`, says that
what the function of the start rule has still to match ends with `EOF`, or that `EOF` has
been consumed. `GrowthCorrect` is the action property `TreeOnlyGrows`.

The module also proves that the tree of an accepted parse is a derivation of the stream, for every
grammar and every prediction (`DerivationCorrect`): the children of every node, in their order, spell a
right-hand side of its rule over exactly the tokens from its first to its last, and the
root spans the stream. `Forms(rule)` are the right-hand sides that the EBNF of a
rule stands for, the least set that has the rule itself and is closed under
the replacement of a decision by one of its branches; being a least *set*, it needs no recursive
operator, and a fact about all forms is proved by naming a set that is closed. `Spells` says which item stands for which token or child. The
inductive invariant `DerivationInv` says the same of the parse underway: every closed
node is derived, and what an active function has done, followed by what it has still
to match, is a form of its rule. `Forms` is infinite, so this theorem has no run; TLC checks
its consequences (`tree`, `nesting`).

**PairingProofs**: `BlocksCorrect`, `JoinsCorrect` and `TryCorrect`, the properties
`BlocksPairUp`, `OnBelongsToNearestJoin` and `TryHasItsCatch` of the run `nesting`, for streams of any
length and for every prediction. That the prediction does not matter is what the proofs show: whichever way
the ambiguities are decided, brackets cannot go wrong, for a reason that lies in
the right-hand sides alone. The reason is stated in `Pairing` as conditions on a grammar:

* `Brackets`: in the rules that have them, brackets open and close in turn and stand on the
  surface, outside blocks that may be left out or repeated; so a call in between
  begins and ends with a bracket open or with none.
* `ReadBy`, `Followed`, `Preceded`: no other rule reads the words, except where the word right behind
  tells (`BEGIN TRANSACTION`, `END CONVERSATION`, `ON CONTRACT`, `CROSS JOIN`), and that word, if
  it is not a `keyword` used as a name, is read nowhere but behind another token of the same rule.
  That is how a property that looks at bare tokens can know which `BEGIN` is a bracket.
* `Skeleton`: the bracket words of `try_catch_statement`, and the words behind them, are the four
  of `TryPairs`.

`BlockGrammar`, `TryGrammar` and `JoinGrammar` collect them. They are hypotheses of the theorems
and not assumed of the model: `MCTree` evaluates them on all modelled rules (`BlockAssumption`,
`JoinAssumption`). A change of the grammar that gives `END` to a new rule fails there, on no
stream in particular.

The properties speak of accepted parses and are far from inductive. The invariants, `BlockInv` and
`JoinInv`, follow the parse:

* `PairsInv` cuts the tokens at the call stack. A map `m` gives for each active function the place
  behind the last bracket that it or a caller has open; it differs from the caller's exactly if the
  function has a bracket of its own open, and what stands between open brackets is balanced
  (`Hanging`). What the function has still to match goes on from there in turn (`InTune`). Every closing
  bracket has already found its partner in its own node (`Matched`).
* `TokensInv`, `FollowInv` and `PrecedeInv` say of the tokens read what `ReadBy`, `Followed` and
  `Preceded` say of the right-hand sides.

What a function has still to match is never a right-hand side itself but what decisions have
made of one. Such sequences are unboundedly many, so each part of the invariant names a set of
them for each rule (`OverItems`, `FollowedRests`, `PrecededRests`, `Ready`) and shows it closed under
the steps of the parser (`ClosedUnderSteps`); `StepKeepsRests` does the rest for all of them.

`TryCorrect` is about the order of four words in one node, and rests on `DerivationCorrect`: all forms of
a rule have its skeleton (`SkeletonForms`, by naming a closed set that lies within `Forms`), so the
tokens of a node have it (`SkeletonTokens`), children reaching no further than their intervals
(`EndsInv`); `Matched` then leaves one partner for each `END`.

**StatementProofs**: where a statement ends, for streams of any length. The proofs read the parse as a
leftmost derivation: `Agenda(f)` gives for each active function what it and its callers have
still to match, and a step of the parser either consumes the first item of `Left(f)` or replaces
it by one of its `Expansions` (lemmas `AgendaMatch`, `AgendaDecide`, `AgendaEnter`, `AgendaExit`).

* `GoAfterSemicolonCorrect`: `GoAfterSemicolonSeparates`, for every prediction. `GoGrammar(traits)` names the
  items that may be empty, may end with a semicolon, may begin with a `GO`, and asks that in no
  right-hand side one of the latter stands right behind one of the former, `go_statement` and
  labels apart. The invariant `GoInv` says that the same is true of the agenda.

The other theorems need the prediction to be the right one. `ExactPrediction` is what full-context
prediction promises: the tokens match what is left if and only if they do so after one
step of a derivation, at whatever place the step is made. It is a hypothesis on the constants
`Viable` and `Lookahead`, and it is not what is being proved: it speaks of one decision
on one list of items, and says nothing of parses, statements, or nearest `IF`s.

* `VerdictCorrect`: with an exact prediction a stream is accepted only if the grammar
  derives it, and rejected only if it does not. The parser never takes a decision back, so what
  has to be kept is that, while it runs, `Left(f)` matches the tokens ahead exactly if the start
  rule derives the stream (`VerdictInv`).
* `SemicolonCorrect`: `SemicolonTerminates`, under `SemicolonGrammar`. The grammar is ambiguous here: a
  semicolon behind a statement may be the statement's, that of a rule around it, or a clause. The
  decisions are greedy, but a greedy decision is one about an *option*; that there has been one is what
  the grammar has to guarantee (`Closing`: a rule that a statement may be the end of ends with an
  optional semicolon or in a loop over clauses) and the invariant to remember. `TopHasSemi` says that
  where such a function is about to end without a semicolon, the tokens do not match one;
  `SemiAhead` carries this through the callers, by `NoClauseNext` or `ClauseNext`, to the place where a clause could begin.
* `ElseCorrect`: `ElseBelongsToNearestIf`, under `IfGrammar`. Here greed alone is not the reason
  either: an inner `IF` does leave an `ELSE` alone when the rest of the stream would not fit. The theorem
  holds because then no outer `IF` can have it. The heart of the invariant `ElseInv` is `Rivals`: as
  long as there is a `Loose` `IF`, one that has passed the place of its `ELSE` and has neither an
  `ELSE` nor a semicolon, inside another that could still take one, all that is left to match up to
  the outer one is options, and the tokens match neither an `ELSE` nor, but for the one that may end
  the loose `IF`, a semicolon here. It needs to know how an outer
  `IF` reaches an inner one (`ChainInv`, `AroundInv`: through a block, or through four rules that keep only
  their own options behind the call; that is what `IfGrammar` asks for) and what a function of `IF` may have
  left to match (`IfRests`). A loose `IF` stops being a rival when its block ends, when it gets its
  semicolon, or when the outer one passes on as well; `ElseRead` collects these for the `ELSE`s read.

`GoGrammar`, `SemicolonGrammar` and `IfGrammar` are hypotheses as those of `Pairing` are, and `MCTree`
evaluates them on all modelled rules, with the least traits (`GoGrammarAssumption`,
`SemicolonAssumption`, `IfAssumption`). A rule that ends with an optional alias and gets a semicolon before it
fails there. `ExactPrediction` is quantified over all sequences of items, which TLC cannot
enumerate; `PredictionAssumption` evaluates it for the operators of `Prediction` at every
position of three files, for every item in front of a sample of rests. For all others it remains an
assumption about the model of `AdaptivePredict`.

**DriverProofs**: for every set of files over the modelled characters, every choice of those
with failing reads and every `MaxBlanks`. `TypeCorrect`, `ContentCorrect`,
`PiecesCorrect` and `ProgressCorrect`. The invariant `IInv` joins `TypeOK` and
`EveryCharacterOnce` with `ReadSoFar`, which says what the text is *while* it is read: the
characters read so far, with a newline more once the end or a failure has been met. The facts about the
lexer that the proof needs are few: an end of a match lies within the text (`EndsWithin`), so does the
longest (`LongestWithin`), and where there is one, some rule is the first to reach it
(`TypeOfMatch`, which needs the least-number principle, lemma `LeastNumber`).

**LexerProofs**: what the tokens are, for every file.

* `LongestMatchCorrect`: every token is the longest match of any rule, typed by the first rule
  that reaches so far, and an error stands only where no rule matches (`PiecesFollowRules`).
* `UnclosedQuoteCorrect`: a double quote or bracket that is closed somewhere begins a match
  (`ClosedIsMatched`: up to the *first* closing one it is a word of its rule), and the last
  character of the text is the driver's newline, which is never an error; so an error
  reaches the end exactly from an unclosed quote or bracket.
* `CommentCorrect`: the lexer follows an unbounded list of readings of a comment, the scanner
  of `LexerProperties` counts depth. The proof relates the two at every place
  (`ReadingsFollowScan`): the reading that is preferred most is the scanner's, or the next
  character refuses it and the second one is (`HalfHead`, `BodyHead`). Where the scanner leaves the
  comment that reading is complete, all others are given up, and no end follows (`ScanEndsLast`).
  If the scanner does not leave it, any `*/` still ends the comment, because the reading that takes
  everything for text stays in the list until a complete one replaces it (`AnyEndEnds`).
* `ClosedTextCorrect`: in a text in which everything is closed, strings, comments and quoted names are
  where the one-pass scanner finds them, up to the first `//` that is read as a division sign. By induction over the tokens: where a token
  ends, the scanner is outside of every enclosure (`PiecesAgree`). For one token (`PieceAgrees`), the
  cases are the characters it may begin with. Where nothing opens, the longest match is a word
  without a character that could open anything (`PlainPiece`); where something does, the word that the
  scanner takes is one of the enclosing rule, and no rule has a longer one: in a string or a bracketed
  name the closing character stands in pairs only (`EnclosedIsDoubled`, `LongerIsNotDoubled`, over runs of
  it, `RunAlternates`), and for a comment by the argument above.

The recursive functions of the model are shown to exist first (`RecursionExists`); induction is
over sets of numbers (`IntervalInduction`), as the library's induction theorems cannot be used.

**KeywordMapProofs**: for every set of revisions, tokens and keywords.
`EmptyMapNeverCompiled` and `RegenerationIsEnough`, from the invariant `MapInv`, which
says that a file written to its closing brace, and the script's buffer once the rule was
found, hold the first keyword, and that a tool counts as run only while its output is that
of the current grammar. The lemma
`ExtractionIsExact` is the heart of it: on a well laid out revision the script's scan
and ANTLR's reading yield the same keywords.

**GoLexerInitProofs**: `ReadsDoNotRace` and the refinement `GoImplementsLazyInit`,
for any set of goroutines. `OnceInv` adds that only one goroutine is inside the
initialization, while the once is running, and that the struct is full once it is done.

**CppLexerInitProofs**: `AssertionNeverFails`, `NoNullDereference` and the refinement
`CppImplementsLazyInit`, for any set of threads, any bound on the exceptions and
both builds. `CppInv` relates each thread's position, the flag and the pointers; in the
shared build the pointer is one, so all copies of it agree.

Left to TLC:

* The liveness properties, `Termination` and `EveryCallReturns`: liveness under fairness is out of the prover's reach.
* `ExactPrediction` for the operators of `Prediction`: these are recursive (`CanMatch` follows the grammar to a
  fixed point), and what a recursive operator computes for every input is out of reach as well.
* `GoIsLostOnlyToOpenTails`, `CallTakesArguments`, `ArgumentsKeepTheirKind`, `RewriteKeepsNames`, `ColumnIsLastPart`,
  `UnaryTakesTheRest`, `OperandsFollowStrength` and `AndBeforeOr`: each names the rules that decide, in
  terms of the concrete right-hand sides, and sits in a module that uses `Prediction`. A theorem would be about
  one grammar and not about a kind of grammars.
* The properties of `ContextProperties`: its run is exhaustive already, `rule_contexts` has no bound.

## 5. Not modelled, and why

* Error recovery (`Sync`, single-token insertion and deletion): a file with an error is
  rejected by the only client; the model stops at the first error.
* Parses through DML and DDL statements: in the parses a statement of this kind is one token.
  Their rules are all modelled, but one call at a time; a parse through all of them is
  beyond exact prediction in TLC.
* Listeners and visitors: generated empty methods.
* Accessors of keywords and punctuation in `TSqlParser.h`, and its constructors and dispatch methods.
* Data of tokens (line, column, channel) and the generated tables of the automata. The rules of
  `LexicalRules` were compared with the shipped automaton by hand-made simulation, not here.
* In the driver, the missing file (it returns 1), printing and timing.

## 6. Plan

Done: the parser core with its proofs; the name, query and statement grammars as far as
blocks, batches, calls, joins, names, expressions and conditions go; blocks, joins, separators of batches,
semicolons and the `ELSE` of an `IF` proved for every stream; all rules with their
context classes, in the current grammar and in that of the port; the lexical grammar and the C++
driver with its proofs; the keyword table; both lexers' initialization.

Next, in this order:

1. `ExactPrediction` from a definition of `Viable` as the least relation with its four clauses, and
   the operators of `Prediction` shown by TLC to compute that relation.
2. Shadowing: alternatives of the full grammar that an earlier one takes on every stream
   (`table_hint`, `query_hint`, the built-in functions, whose names are keywords and
   identifiers at once).
3. Error recovery (`Sync`, single-token deletion and insertion) in `ParserCore`, and the
   composition of `Driver` and `ParserCore` over one token stream.
