---------------------------- MODULE MCCollector ----------------------------
(* Small instances of Collector: two object trees.                         *)
EXTENDS Collector, TLC

CONSTANTS a, r   \* object keys, as model values

\* A directory and a blob.
Pair == {r, a}
PairChildren == (r :> {a}) @@ (a :> {})

\* One blob.
Single == {a}
SingleChildren == (a :> {})

Symmetry == Permutations(Clients) \cup Permutations(Names)

=============================================================================
