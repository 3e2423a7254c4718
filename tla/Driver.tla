------------------------------- MODULE Driver -------------------------------
(***************************************************************************)
(* The C++ driver up to the parser: it reads a file line by line and hands *)
(* the text to the lexer, whose nextToken runs until the end of the text.  *)
(***************************************************************************)
EXTENDS LexicalRules

CONSTANTS
    Files,      \* the files, sequences of characters
    Faulty,     \* those of them of which a read may fail
    MaxBlanks   \* how many lines read from a failed stream are followed

ASSUME FilesAssumption == Files \subseteq Seq(Characters)
ASSUME BlanksAssumption == MaxBlanks \in Nat

VARIABLES
    file,      \* the characters of the file
    at,        \* how many of them have been read
    eof,       \* the stream's eofbit, which the reading loop tests
    fault,     \* a read failed: "none", "ended" (seen as the end), "stuck"
    content,   \* file_content, later the text of the lexer
    phase,     \* "reading", "lexing" or "done"
    index,     \* the lexer's position in the text
    pieces     \* the tokens and the errors: type, first, last character

vars == <<file, at, eof, fault, content, phase, index, pieces>>

Piece(type, start, stop) == [type |-> type, start |-> start, stop |-> stop]

Init ==
    /\ file \in Files
    /\ at = 0
    /\ eof = FALSE
    /\ fault = "none"
    /\ content = <<>>
    /\ phase = "reading"
    /\ index = 1
    /\ pieces = <<>>

\* The end of the current line: its newline, or the end of the file.
NewlineAt(q) == q \in at + 1 .. Len(file) /\ file[q] = "\n"
LineEnd(q) == NewlineAt(q) /\ \A r \in at + 1 .. q - 1 : file[r] # "\n"
LastLine == \A q \in at + 1 .. Len(file) : file[q] # "\n"

\* The loop is entered again: eofbit is not set.
Looping == phase = "reading" /\ ~eof

\* getline finds a newline; the line and "\n" are appended.
GetLine ==
    /\ Looping
    /\ fault = "none"
    /\ \E q \in at + 1 .. Len(file) :
          /\ LineEnd(q)
          /\ at' = q
          /\ content' = content \o SubSeq(file, at + 1, q - 1) \o <<"\n">>
    /\ UNCHANGED <<file, eof, fault, phase, index, pieces>>

\* Mutant: nothing is appended for the line that the end of the file ends.
GetLastLine_Dropped ==
    /\ Looping
    /\ fault = "none"
    /\ LastLine
    /\ at' = Len(file)
    /\ eof' = TRUE
    /\ UNCHANGED <<file, fault, content, phase, index, pieces>>

\* Mutant: the end of the file is not noticed.
GetLastLine_NoEof ==
    /\ Looping
    /\ fault = "none"
    /\ LastLine
    /\ at' = Len(file)
    /\ content' = content \o SubSeq(file, at + 1, Len(file)) \o <<"\n">>
    /\ UNCHANGED <<file, eof, fault, phase, index, pieces>>

(***************************************************************************)
(* getline meets the end of the file, perhaps with nothing before it.  The *)
(* driver does not ask whether a line was read and appends "\n" anyway.    *)
(***************************************************************************)
GetLastLine ==
    /\ Looping
    /\ fault = "none"
    /\ LastLine
    /\ at' = Len(file)
    /\ eof' = TRUE
    /\ content' = content \o SubSeq(file, at + 1, Len(file)) \o <<"\n">>
    /\ UNCHANGED <<file, fault, phase, index, pieces>>

(***************************************************************************)
(* A read fails within a line.  One standard library reports the failure   *)
(* as the end of the file (libc++), another sets badbit and leaves eofbit  *)
(* alone (libstdc++).                                                      *)
(***************************************************************************)
ReadFails ==
    /\ Looping
    /\ fault = "none"
    /\ file \in Faulty
    /\ \E k \in at .. Len(file) :
          /\ \A r \in at + 1 .. k : file[r] # "\n"
          /\ at' = k
          /\ content' = content \o SubSeq(file, at + 1, k) \o <<"\n">>
    /\ \/ eof' = TRUE /\ fault' = "ended"
       \/ eof' = FALSE /\ fault' = "stuck"
    /\ UNCHANGED <<file, phase, index, pieces>>

\* getline on a stream with badbit returns at once; the loop goes on.
GetNothing ==
    /\ Looping
    /\ fault = "stuck"
    /\ content' = IF Len(content) < at + MaxBlanks THEN Append(content, "\n") ELSE content
    /\ UNCHANGED <<file, at, eof, fault, phase, index, pieces>>

\* The loop is left, the stream closed, and the lexer built on the text.
Close ==
    /\ phase = "reading"
    /\ eof
    /\ phase' = "lexing"
    /\ UNCHANGED <<file, at, eof, fault, content, index, pieces>>

-----------------------------------------------------------------------------
(***************************************************************************)
(* Lexer::nextToken                                                        *)
(***************************************************************************)

AtText == phase = "lexing" /\ index <= Len(content)

\* The simulator accepts the longest match, and a token is emitted.
Emit ==
    /\ AtText
    /\ LET e == LongestEnd(content, index)
       IN  /\ e >= index
           /\ index' = e + 1
           /\ pieces' = Append(pieces, Piece(TokenType(content, index, e), index, e))
    /\ UNCHANGED <<file, at, eof, fault, content, phase>>

\* Mutant: recovery goes on behind the character that started the token.
Recover_One ==
    /\ AtText
    /\ LongestEnd(content, index) < index
    /\ index' = index + 1
    /\ pieces' = Append(pieces, Piece("error", index, index))
    /\ UNCHANGED <<file, at, eof, fault, content, phase>>

\* Mutant: recovery consumes a character even at the end of the text.
Recover_BeyondEnd ==
    /\ AtText
    /\ LongestEnd(content, index) < index
    /\ LET last == Reached(content, index) + 1
       IN  /\ index' = last + 1
           /\ pieces' = Append(pieces, Piece("error", index, last))
    /\ UNCHANGED <<file, at, eof, fault, content, phase>>

\* Mutant: the error is reported for all the lexer has read, but the stream is
\* set back behind the first character.
Recover_SetsBack ==
    /\ AtText
    /\ LongestEnd(content, index) < index
    /\ index' = index + 1
    /\ pieces' = Append(pieces, Piece("error", index, Reached(content, index)))
    /\ UNCHANGED <<file, at, eof, fault, content, phase>>

(***************************************************************************)
(* No rule matches: the error is reported, and recover consumes one more   *)
(* character where the simulator has stopped, unless that is the end.      *)
(***************************************************************************)
Recover ==
    /\ AtText
    /\ LongestEnd(content, index) < index
    /\ LET reached == Reached(content, index)
           last == IF reached < Len(content) THEN reached + 1 ELSE reached
       IN  /\ index' = last + 1
           /\ pieces' = Append(pieces, Piece("error", index, last))
    /\ UNCHANGED <<file, at, eof, fault, content, phase>>

\* The lexer has hit the end of the text and emits EOF.
EmitEOF ==
    /\ phase = "lexing"
    /\ index > Len(content)
    /\ phase' = "done"
    /\ UNCHANGED <<file, at, eof, fault, content, index, pieces>>

\* The token stream is complete.
Done == phase = "done" /\ UNCHANGED vars

Next ==
    \/ GetLine
    \/ GetLastLine
    \/ ReadFails
    \/ GetNothing
    \/ Close
    \/ Emit
    \/ Recover
    \/ EmitEOF
    \/ Done

Spec == Init /\ [][Next]_vars

-----------------------------------------------------------------------------
Types == {RuleOrder[i] : i \in DOMAIN RuleOrder} \cup {"error"}

\* Every variable has its type.
TypeOK ==
    /\ file \in Seq(Characters)
    /\ at \in 0 .. Len(file)
    /\ eof \in BOOLEAN
    /\ fault \in {"none", "ended", "stuck"}
    /\ content \in Seq(Characters)
    /\ phase \in {"reading", "lexing", "done"}
    /\ index \in 1 .. Len(content) + 1
    /\ pieces \in Seq([type : Types, start : Nat, stop : Nat])

(***************************************************************************)
(* The text that is lexed is the file and one more newline, whether or not *)
(* the file ends with one; after a failed read it is what had been read,   *)
(* and one more newline.                                                   *)
(***************************************************************************)
ContentIsFile ==
    phase # "reading" =>
        /\ content = Append(SubSeq(file, 1, at), "\n")
        /\ fault = "none" => at = Len(file)

(***************************************************************************)
(* The tokens and the errors follow each other without gap or overlap, so  *)
(* that in the end every character of the text has been read exactly once. *)
(***************************************************************************)
EveryCharacterOnce ==
    /\ \A i \in DOMAIN pieces :
          /\ pieces[i].start <= pieces[i].stop
          /\ pieces[i].start = IF i = 1 THEN 1 ELSE pieces[i - 1].stop + 1
    /\ index = IF pieces = <<>> THEN 1 ELSE pieces[Len(pieces)].stop + 1
    /\ phase = "done" => index = Len(content) + 1

(***************************************************************************)
(* Every step of the driver brings it nearer to the end of the token       *)
(* stream: it leaves a phase, sees the end of the file, reads more of the  *)
(* file, or more of the text.  Since it never blocks, it comes to the end, *)
(* unless a read has failed in the way that the loop does not notice.      *)
(***************************************************************************)
Advances ==
    \/ phase = "reading" /\ phase' = "lexing"
    \/ phase = "lexing" /\ phase' = "done"
    \/ phase' = phase /\ ~eof /\ eof'
    \/ phase' = phase /\ eof' = eof /\ at < at' /\ at' <= Len(file)
    \/ phase' = phase /\ content' = content /\ index < index' /\ index' <= Len(content) + 1

EveryStepAdvances == [][Advances \/ fault' = "stuck"]_vars
=============================================================================
