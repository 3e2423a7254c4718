-------------------------- MODULE LexerProperties ---------------------------
(***************************************************************************)
(* Comments, strings and quoted names in the token stream, against a       *)
(* scanner that goes through the text once, character by character, and    *)
(* knows only what encloses the place where it is.                         *)
(***************************************************************************)
EXTENDS Driver

Code == [kind |-> "code", depth |-> 0, half |-> FALSE]
Enclosed(kind) == [Code EXCEPT !.kind = kind]
Comment(depth) == [kind |-> "comment", depth |-> depth, half |-> TRUE]

(***************************************************************************)
(* What encloses the place behind the character c, if m enclosed the place *)
(* before it and d comes next.  half: c was the first of two characters    *)
(* that belong together.                                                   *)
(***************************************************************************)
Beyond(m, c, d) ==
    CASE m.half ->
            IF m.kind = "comment" /\ m.depth = 0 THEN Code ELSE [m EXCEPT !.half = FALSE]
      [] ~m.half /\ m.kind = "code" ->
            CASE c = "'" -> Enclosed("string")
              [] c = DoubleQuote -> Enclosed("quotes")
              [] c = "[" -> Enclosed("brackets")
              [] c = "-" /\ d = "-" -> Enclosed("line")
              [] c = "/" /\ d = "*" -> Comment(1)
              [] OTHER -> Code
      [] ~m.half /\ m.kind = "comment" ->
            CASE c = "*" /\ d = "/" -> Comment(m.depth - 1)
              [] c = "/" /\ d = "*" -> Comment(m.depth + 1)
              [] OTHER -> m
      [] ~m.half /\ m.kind = "line" -> IF d = "\n" THEN Code ELSE m
      [] OTHER ->
            LET close == CASE m.kind = "string" -> "'"
                           [] m.kind = "quotes" -> DoubleQuote
                           [] m.kind = "brackets" -> "]"
            IN  IF c # close THEN m
                ELSE IF d = close /\ m.kind # "quotes" THEN [m EXCEPT !.half = TRUE]
                ELSE Code

\* What encloses the place behind i, for a scanner that starts at p in code.
Scan(p) ==
    LET scan[i \in p - 1 .. Len(content)] ==
            IF i < p
            THEN Code
            ELSE LET m == scan[i - 1]
                 IN  Beyond(m, content[i], IF i < Len(content) THEN content[i + 1] ELSE "\n")
    IN  scan

Quoting ==
    {"STRING", "COMMENT", "LINE_COMMENT", "DOUBLE_QUOTE_ID", "DOUBLE_QUOTE_BLANK",
     "SQUARE_BRACKET_ID"}

\* The piece t is what the scanner finds at its place.
Agrees(t, outside) ==
    /\ {t.start - 1, t.stop} \subseteq outside
    /\ \A i \in t.start .. t.stop - 1 :
          i \in outside <=>
            t.type \notin Quoting \/ (i = t.start /\ t.type = "STRING" /\ content[i] = "N")

(***************************************************************************)
(* In a text in which everything that is opened is closed, a token is a    *)
(* string, a comment or a quoted name exactly where the scanner finds one: *)
(* what stands in one of them is never read as code, nor code as one of    *)
(* them.  Only DOUBLE_FORWARD_SLASH stands in the way, which takes the     *)
(* slash of a comment directly behind a division sign.                     *)
(***************************************************************************)
ClosedTextIsReadAsEnclosed ==
    phase = "done" =>
        LET scan == Scan(1)
            outside == {i \in 0 .. Len(content) : scan[i] = Code}
        IN  Len(content) \in outside =>
                \A n \in DOMAIN pieces :
                    \/ Agrees(pieces[n], outside)
                    \/ \E m \in 1 .. n : pieces[m].type = "DOUBLE_FORWARD_SLASH"

(***************************************************************************)
(* A comment ends where the last of the comments nested in it is closed.   *)
(* If one of them is not, an earlier end is taken all the same and the     *)
(* rest is code; only without any end is the opening read as operators.    *)
(***************************************************************************)
EndsComment(e) == content[e - 1] = "*" /\ content[e] = "/"

UnclosedCommentFallsBack ==
    phase = "done" =>
        \A n \in DOMAIN pieces :
            LET p == pieces[n].start
                scan == Scan(p)
            IN  /\ pieces[n].type = "COMMENT" =>
                      \A e \in p .. Len(content) :
                          scan[e] = Code /\ (\A i \in p .. e - 1 : scan[i] # Code)
                              => pieces[n].stop = e
                /\ pieces[n].type = "DIVIDE" /\ content[p + 1] = "*" =>
                      \A e \in p + 3 .. Len(content) : ~EndsComment(e)

(***************************************************************************)
(* A double quote or a bracket that is not closed takes the rest of the    *)
(* text with it, and that is the only way to lose more than a character;   *)
(* a single quote that is not closed is a token, and what follows is code. *)
(***************************************************************************)
UnclosedQuoteTakesTheRest ==
    phase = "done" =>
        \A n \in DOMAIN pieces :
            LET t == pieces[n]
                close == IF content[t.start] = "[" THEN "]" ELSE DoubleQuote
                open == \A i \in t.start + 1 .. Len(content) : content[i] # close
            IN  content[t.start] \in {DoubleQuote, "["} /\ open /\ t.type = "error" <=>
                    t.stop = Len(content) /\ t.type = "error"
=============================================================================
