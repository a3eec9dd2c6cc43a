------------------------------ MODULE MCServer ------------------------------
(***************************************************************************)
(* A small instance of the server's two request paths that share no state  *)
(* but the promise of WaitFor: the inbox (Inbox) and the reference         *)
(* handlers (ServerRefs).  part says which of them this behaviour runs.    *)
(***************************************************************************)
EXTENDS Inbox, ServerRefs, TLC

CONSTANTS q1, q2, n1, n2   \* PUT requests and names, as model values

Distinct == (q1 :> n1) @@ (q2 :> n2)

VARIABLE part

ServerInit == part \in {"inbox", "refs"} /\ Init /\ RefsInit

ServerNext ==
    /\ \/ part = "inbox" /\ Next /\ UNCHANGED refsVars
       \/ part = "refs" /\ RefsNext /\ UNCHANGED vars
    /\ UNCHANGED part

ServerSpec == /\ ServerInit /\ [][ServerNext]_<<vars, refsVars, part>>
              /\ Fairness /\ RefsFairness

\* Nobody on the server waits for ever: packs are processed, PUTs get through the
\* inbox's barrier, Close returns, and a wipe that waits for PUTs ends.
NobodyWaits == InboxProgress /\ WipeEnds

=============================================================================
