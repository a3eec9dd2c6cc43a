-------------------------- MODULE MCRefDurability --------------------------
(* A small instance of RefDurability: a file node and its blob.            *)
EXTENDS RefDurability, TLC

CONSTANTS a, b   \* object keys, as model values

Pair         == {a, b}
PairChildren == (a :> {b}) @@ (b :> {})

=============================================================================
