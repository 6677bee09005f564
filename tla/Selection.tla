------------------------------- MODULE Selection -------------------------------
(***************************************************************************)
(* The rows of a table a condition selects, in the table's order: what a   *)
(* WHERE clause is to the sequences that stand for tables.  It is          *)
(* SelectSeq with a set for the test, by a recursive function that proofs  *)
(* can expand.                                                             *)
(***************************************************************************)
EXTENDS Integers, Sequences

where(s, T) ==
  LET upTo[n \in 0 .. Len(s)] ==
        IF n = 0 THEN << >>
        ELSE IF s[n] \in T THEN Append(upTo[n - 1], s[n])
        ELSE upTo[n - 1]
  IN  upTo[Len(s)]
=============================================================================
