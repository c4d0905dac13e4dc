------------------------------- MODULE Total -------------------------------
(* The sum of a sequence of numbers.                                       *)
EXTENDS Naturals, Sequences

Total(a) ==
    LET sum[i \in 0..Len(a)] == IF i = 0 THEN 0 ELSE sum[i - 1] + a[i]
    IN  sum[Len(a)]
=============================================================================
