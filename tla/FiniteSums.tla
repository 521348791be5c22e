----------------------------- MODULE FiniteSums -----------------------------
(***************************************************************************)
(* Sums over database rows whose ids are 1..n, the way an SQL SUM(...)     *)
(* walks a table.  The partial sums are a recursive function (not a        *)
(* RECURSIVE operator) so that FiniteSumsProofs can reason about them.     *)
(***************************************************************************)
EXTENDS Integers

\* The partial sums 0, f[1], f[1] + f[2], ... of a function on 1..n.
PartialSums(f, n) ==
    LET sum[i \in 0..n] == IF i = 0 THEN 0 ELSE sum[i - 1] + f[i]
    IN  sum

\* SUM(f) over the rows 1..n; an empty table sums to 0.
Total(f, n) == PartialSums(f, n)[n]

=============================================================================
