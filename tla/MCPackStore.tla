---------------------------- MODULE MCPackStore ----------------------------
(* Small instances of PackStore.                                           *)
EXTENDS PackStore

\* Two concurrent batches with power losses and failing system calls, and one
\* batch at a time with kills and failing unlinks.
PowerOrKill == {[faults |-> {"power", "io"}, batches |-> 2],
                [faults |-> {"kill", "unlink"}, batches |-> 1]}

KillThenPower == {[faults |-> {"kill", "power"}, batches |-> 1]}

Symmetry == Permutations(Keys) \cup Permutations(Clients)

=============================================================================
