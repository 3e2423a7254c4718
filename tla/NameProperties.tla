--------------------------- MODULE NameProperties ---------------------------
(***************************************************************************)
(* Dotted names.  The streams are sequences of identifiers and dots, read  *)
(* as a table name or as a column name up to the end of the stream.        *)
(***************************************************************************)
EXTENDS Phrases

Shape == SubSeq(input, 2, Len(input) - 1)

(***************************************************************************)
(* full_table_name as it was before the rewrite; the commented-out rule    *)
(* derives these six shapes: table, schema.table, database.schema.table,   *)
(* database..table, server.database.schema.table, server..schema.table.    *)
(***************************************************************************)
OriginalShapes ==
    LET i == <<"ID">>
        d == <<"DOT">>
    IN  {i, i \o d \o i, i \o d \o i \o d \o i, i \o d \o d \o i,
         i \o d \o i \o d \o i \o d \o i, i \o d \o d \o i \o d \o i}

\* Parts separated by single dots.
Parts(w) == (Len(w) + 1) \div 2
PlainDotted(w) == w # <<>> /\ \A p \in DOMAIN w : w[p] = IF p % 2 = 1 THEN "ID" ELSE "DOT"

(***************************************************************************)
(* The rewrite of full_table_name loses no name that the original rule     *)
(* accepts, and what it accepts beyond them are plain dotted names of five *)
(* parts or more.                                                          *)
(***************************************************************************)
RewriteKeepsNames ==
    ReadAs = "Table" /\ Finished =>
        (status = "accepted" <=>
            Shape \in OriginalShapes \/ (PlainDotted(Shape) /\ Parts(Shape) >= 5))

(***************************************************************************)
(* In a dotted column name the last part, and only the last part, is the   *)
(* column: full_table_name, which could go on with it, stops before the    *)
(* last dot.                                                               *)
(***************************************************************************)
ColumnIsLastPart ==
    ReadAs = "Column" /\ status = "accepted" =>
        LET last == Len(input) - 1
        IN  /\ nodes[nodes[owner[last]].parent].rule = "full_column_name"
            /\ \A n \in DOMAIN nodes :
                  nodes[n].rule = "full_table_name" => nodes[n].stop = last - 2
=============================================================================
