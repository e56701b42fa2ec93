-------------------------------- MODULE Sums --------------------------------
(***************************************************************************)
(* The sum and the product of f[1], ..., f[n], as recursive functions of   *)
(* the prefixes, which can be proved about where folds cannot.             *)
(***************************************************************************)
EXTENDS Integers

SumTo(f, n) ==
  LET upTo[k \in 0 .. n] == IF k = 0 THEN 0 ELSE upTo[k - 1] + f[k]
  IN  upTo[n]

ProductTo(f, n) ==
  LET upTo[k \in 0 .. n] == IF k = 0 THEN 1 ELSE upTo[k - 1] * f[k]
  IN  upTo[n]
=============================================================================
