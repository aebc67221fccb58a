--------------------------------- MODULE Sums ---------------------------------
(* Totals of money and units, as the SQL aggregates of the queries give them. *)
EXTENDS Integers

\* f[1] + ... + f[n].
SumTo(n, f) ==
  LET sum[k \in 0 .. n] == IF k = 0 THEN 0 ELSE sum[k - 1] + f[k] IN sum[n]
=============================================================================
