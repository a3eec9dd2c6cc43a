------------------------------- MODULE GoSort -------------------------------
(***************************************************************************)
(* sort.Search of the Go library: binary search for the least index in     *)
(* 0..n at which P[i] holds, given that P is monotone (n if nowhere).      *)
(***************************************************************************)
EXTENDS Integers

Search(n, P) ==
    LET from[i \in 0..n, j \in 0..n] ==
            IF i >= j THEN i
            ELSE LET h == (i + j) \div 2
                 IN  IF P[h] THEN from[i, h] ELSE from[h + 1, j]
    IN  from[0, n]
=============================================================================
