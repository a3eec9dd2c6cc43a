---------------------------- MODULE MCServerRefs ----------------------------
(* A small instance of ServerRefs: two requests for one name.              *)
EXTENDS ServerRefs, TLC

CONSTANTS c1, c2, n1   \* requests and a name, as model values

Shared == (c1 :> n1) @@ (c2 :> n1)

=============================================================================
