------------------------- MODULE MCXlideFileSystem -------------------------
(* Texts: "b2" is "b" with blank lines above it, which the engine drops. *)
EXTENDS XlideFileSystem

MCTexts == {"a", "b", "b2"}
MCStored == [t \in MCTexts |-> IF t = "b2" THEN "b" ELSE t]

\* Lengths no fake of one of which is another, and lengths that are equal.
Apart == [a |-> 10, b |-> 20, b2 |-> 22]
Alike == [a |-> 10, b |-> 10, b2 |-> 12]

=============================================================================
