------------------------------ MODULE CentSums ------------------------------
(***************************************************************************)
(* Sums of amounts of cents over a finite set of rows, as the backend      *)
(* computes them with func.sum(column).  A row x with f[x] cents stands    *)
(* for f[x] distinct coins, and the sum is the number of coins: the facts  *)
(* about finite cardinalities are then facts about sums, with no recursion *)
(* over the rows.                                                          *)
(***************************************************************************)
EXTENDS Integers, FiniteSets

\* The coins of the rows of S: f[x] of them for the row x.
Coins(f, S) == UNION {{x} \X (1 .. f[x]) : x \in S}

\* The sum of f over the rows of S.
SumOver(f, S) == Cardinality(Coins(f, S))
=============================================================================
