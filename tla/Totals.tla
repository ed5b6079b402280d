------------------------------- MODULE Totals -------------------------------
(***************************************************************************)
(* The byte sums the program computes with `used += size` loops.  A sum is *)
(* the number of byte cells its members occupy, so that it needs no        *)
(* recursion and the theorems of TotalsTheorems follow from the library's  *)
(* facts about cardinalities.  Saturation at 2^63-1 is left out: the       *)
(* configuration keeps every sum below 2 * 10 GiB.                         *)
(***************************************************************************)
EXTENDS Integers, FiniteSets

\* The bytes of the members of S, where w[x] is the size of x.
Cells(S, w) == UNION {{x} \X (1 .. w[x]) : x \in S}

\* The sum of w[x] over S.
Total(S, w) == Cardinality(Cells(S, w))
=============================================================================
