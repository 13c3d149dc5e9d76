------------------------------ MODULE RowSums ------------------------------
(***************************************************************************)
(* Sums over the rows of a table.  The column is a function, so that a sum  *)
(* over one column can be compared with the same sum after a step.          *)
(***************************************************************************)
EXTENDS Integers, FiniteSets, Functions

\* SUM(f) over the rows of S.
SumOf(f, S) == SumFunctionOnSet(f, S)

=============================================================================
