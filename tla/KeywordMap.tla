----------------------------- MODULE KeywordMap -----------------------------
(***************************************************************************)
(* Which tokens may be used as identifiers is stated twice: by rule id_ of *)
(* TSqlParser.g4, from which build.sh has ANTLR generate the parser, and   *)
(* by the method IsID_ of the lexer's base type, which looks keywords up   *)
(* in keyword_map.go.  That file is written by a script that scans the     *)
(* text of the grammar line by line.  The module follows a maintainer who  *)
(* edits the keyword rule, runs the tools in any order, and compiles.      *)
(*                                                                         *)
(* A line of the grammar is abstracted to what the script or ANTLR looks   *)
(* at:                                                                     *)
(*   mark    its first character, if that is ":" or "|", else ""           *)
(*   names   the tokens it names, in order, comments left out              *)
(*   closes  it holds the ";" that ends the rule                           *)
(*   ends    its very last character is ";"                                *)
(***************************************************************************)
EXTENDS Naturals, Sequences

CONSTANTS
    Tokens,     \* the lexer's tokens
    Plain,      \* the tokens id_ lists itself: ID, TEMP_ID, quoted ones, RAW
    Abort,      \* the token ABORT
    Revisions   \* the texts of the keyword rule, from its first alternative
                \* on, with the rules that follow it

Line == [mark : {":", "|", ""}, names : Seq(STRING), closes : BOOLEAN, ends : BOOLEAN]

ASSUME TokensAssumption == Abort \in Tokens /\ Plain \subseteq Tokens

\* The rule, and every text a maintainer leaves behind, is closed somewhere.
ASSUME RevisionsAssumption ==
    \A g \in Revisions : g \in Seq(Line) /\ \E i \in DOMAIN g : g[i].closes

VARIABLES
    grammar,    \* TSqlParser.g4
    parser,     \* the keywords of the generated parser
    mapFile,    \* keyword_map.go: written to its closing brace, and its keys
    script,     \* generate_keyword_golang_map.py: "idle", "scanned" or "opened"
    buffer,     \* the lines the script has scanned
    found,      \* the script has found the rule
    steps,      \* the tools run to their end since the last edit
    package     \* the compiled package

vars == <<grammar, parser, mapFile, script, buffer, found, steps, package>>

NamesIn(f) == {f[i] : i \in DOMAIN f}

-----------------------------------------------------------------------------
\* The script's scan: the lines before the first one that ends with ";".
Scanned(g) ==
    [i \in {i \in DOMAIN g : \A j \in 1 .. i : ~g[j].ends} |-> g[i]]

\* The script knows the rule by a first line that ends with ": ABORT".
Found(g) == g # <<>> /\ g[1].mark = ":" /\ g[1].names = <<Abort>> /\ ~g[1].ends

\* Mutant: only the first alternative counts.
IsAlternative_ColonOnly(line) == line.mark = ":" /\ line.names # <<>>

IsAlternative(line) == line.mark \in {":", "|"} /\ line.names # <<>>

\* The first name of every line that begins with ":" or "|", by line.
extract_keyword_candidates(lines) ==
    [i \in {i \in DOMAIN lines : IsAlternative(lines[i])} |-> lines[i].names[1]]

\* What ANTLR reads: every name up to the ";" that closes the rule.
Keywords(g) ==
    UNION {NamesIn(g[i].names) : i \in {i \in DOMAIN g : \A j \in 1 .. i - 1 : ~g[j].closes}}

(***************************************************************************)
(* The layout the committed rule has: one alternative to a line, and the   *)
(* closing ";" alone on a line of its own, with nothing behind it.         *)
(***************************************************************************)
WellLaidOut(g) ==
    /\ Found(g)
    /\ \A i \in DOMAIN g :
          /\ g[i].closes <=> g[i].ends
          /\ g[i].closes => g[i].names = <<>>
          /\ g[i].names # <<>> => g[i].mark \in {":", "|"} /\ Len(g[i].names) = 1

-----------------------------------------------------------------------------
Init ==
    /\ grammar \in Revisions
    /\ WellLaidOut(grammar)
    /\ parser = Keywords(grammar)
    /\ mapFile = [whole |-> TRUE, keys |-> extract_keyword_candidates(Scanned(grammar))]
    /\ script = "idle"
    /\ buffer = <<>>
    /\ found = FALSE
    /\ steps = {"build", "generate"}
    /\ package = [parser |-> parser, keys |-> NamesIn(mapFile.keys), steps |-> steps, tidy |-> TRUE]

\* The maintainer edits the grammar.  A script that is running has read it.
Edit ==
    /\ grammar' \in Revisions
    /\ steps' = {}
    /\ UNCHANGED <<parser, mapFile, script, buffer, found, package>>

\* build.sh
Build ==
    /\ parser' = Keywords(grammar)
    /\ steps' = steps \cup {"build"}
    /\ UNCHANGED <<grammar, mapFile, script, buffer, found, package>>

\* The script reads the grammar and looks for the rule.
Scan ==
    /\ script = "idle"
    /\ script' = "scanned"
    /\ found' = Found(grammar)
    /\ buffer' = IF Found(grammar) THEN Scanned(grammar) ELSE <<>>
    /\ UNCHANGED <<grammar, parser, mapFile, steps, package>>

\* Mutant: the closing brace is written together with the heading.
OpenMap_BraceFirst ==
    /\ script = "scanned"
    /\ script' = "opened"
    /\ mapFile' = [whole |-> TRUE, keys |-> <<>>]
    /\ UNCHANGED <<grammar, parser, buffer, found, steps, package>>

\* The script opens keyword_map.go, which empties it, and writes the heading.
OpenMap ==
    /\ script = "scanned"
    /\ script' = "opened"
    /\ mapFile' = [whole |-> FALSE, keys |-> <<>>]
    /\ UNCHANGED <<grammar, parser, buffer, found, steps, package>>

\* The script's process ends.
Exit == script' = "idle" /\ buffer' = <<>> /\ found' = FALSE

(***************************************************************************)
(* It writes one key per candidate and the closing brace.  The run counts  *)
(* for the current grammar only if what it scanned is still there.         *)
(***************************************************************************)
WriteMap ==
    /\ script = "opened"
    /\ found
    /\ Exit
    /\ mapFile' = [whole |-> TRUE, keys |-> extract_keyword_candidates(buffer)]
    /\ steps' = IF Found(grammar) /\ buffer = Scanned(grammar)
                THEN steps \cup {"generate"} ELSE steps
    /\ UNCHANGED <<grammar, parser, package>>

\* The rule was not found: the variable buffer is unbound, and the script dies
\* after it has emptied the file.
NameError ==
    /\ script = "opened"
    /\ ~found
    /\ Exit
    /\ UNCHANGED <<grammar, parser, mapFile, steps, package>>

\* The script is interrupted.
Interrupt ==
    /\ script # "idle"
    /\ Exit
    /\ UNCHANGED <<grammar, parser, mapFile, steps, package>>

(***************************************************************************)
(* go build.  It refuses a map literal without its closing brace, a key    *)
(* that is not a token of the lexer, and a key that occurs twice.          *)
(***************************************************************************)
Compile ==
    /\ mapFile.whole
    /\ NamesIn(mapFile.keys) \subseteq Tokens
    /\ \A i, j \in DOMAIN mapFile.keys : mapFile.keys[i] = mapFile.keys[j] => i = j
    /\ package' = [parser |-> parser, keys |-> NamesIn(mapFile.keys), steps |-> steps,
                   tidy |-> WellLaidOut(grammar)]
    /\ UNCHANGED <<grammar, parser, mapFile, script, buffer, found, steps>>

Next ==
    \/ Edit \/ Build \/ Scan \/ OpenMap \/ WriteMap \/ NameError \/ Interrupt \/ Compile

Spec == Init /\ [][Next]_vars

-----------------------------------------------------------------------------
\* The methods of the lexer's base type, in the compiled package.
IsKeyword(t) == t \in package.keys
IsID_(t) == t \in Plain \/ IsKeyword(t)

\* Rule id_ of the compiled package.
id_(t) == t \in Plain \/ t \in package.parser

Agree == \A t \in Tokens : IsID_(t) <=> id_(t)

\* Every variable has its type.
TypeOK ==
    /\ grammar \in Revisions
    /\ script \in {"idle", "scanned", "opened"}
    /\ \A i \in DOMAIN buffer : buffer[i] \in Line
    /\ found \in BOOLEAN
    /\ mapFile.whole \in BOOLEAN
    /\ steps \subseteq {"build", "generate"}
    /\ package.steps \subseteq {"build", "generate"}

(***************************************************************************)
(* A script that dies or is interrupted never reaches a program: the map   *)
(* of a compiled package has at least the rule's first keyword, so it is   *)
(* never the emptied file.                                                 *)
(***************************************************************************)
NoEmptyMap == Abort \in package.keys

(***************************************************************************)
(* When both tools were run to their end after the last edit, and the rule *)
(* keeps its layout, IsID_ and id_ agree on every token.                   *)
(***************************************************************************)
RegeneratedAgrees == package.steps = {"build", "generate"} /\ package.tidy => Agree

(***************************************************************************)
(* README, "Manually change the grammar file in this project": "run        *)
(* ./build.sh to generate the parser code" is all there is to do.          *)
(***************************************************************************)
BuildIsEnough == "build" \in package.steps /\ package.tidy => Agree
=============================================================================
