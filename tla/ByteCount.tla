----------------------------- MODULE ByteCount ------------------------------
(***************************************************************************)
(* Totals of byte counts: how the properties of the switches add up what   *)
(* their counters should say.                                              *)
(***************************************************************************)
EXTENDS Integers, FiniteSets

\* The total of f over S, counted as the set of its single bytes.
BytesOf(f, S) == Cardinality(UNION {{x} \X (1 .. f[x]) : x \in S})

=============================================================================
