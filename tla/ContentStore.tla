---------------------------- MODULE ContentStore ----------------------------
(***************************************************************************)
(* What an Amber store promises its clients, with no locks, no collector   *)
(* phases and no segments: named references to trees of objects, a         *)
(* reference is only ever published onto a complete tree, and only objects *)
(* that no reference reaches are ever collected.                           *)
(***************************************************************************)
EXTENDS Trees

CONSTANTS
    Names,   \* reference names
    None     \* "this name has no reference"

ASSUME NoneAssumption == None \notin Keys

VARIABLES
    store,   \* keys of the objects present
    refs     \* refs[n]: the root the reference n names, or None

csVars == <<store, refs>>

\* The root keys named by some reference in r.
RootsOf(r) == {r[n] : n \in Names} \ {None}

\* Every object some reference reaches.
Live == UNION {Reach(k) : k \in RootsOf(refs)}

CSTypeOK == /\ store \in SUBSET Keys
            /\ refs \in [Names -> Keys \cup {None}]

CSInit == /\ store = {}
          /\ refs = [n \in Names |-> None]

AddObject == /\ \E k \in Keys : store' = store \cup {k}
             /\ UNCHANGED refs

\* A reference is published only onto a tree that is complete.
Publish == /\ \E n \in Names, k \in Keys :
                 /\ Reach(k) \subseteq store
                 /\ refs' = [refs EXCEPT ![n] = k]
           /\ UNCHANGED store

Unpublish == /\ \E n \in Names : refs' = [refs EXCEPT ![n] = None]
             /\ UNCHANGED store

UnpublishAll == /\ refs' = [n \in Names |-> None]
                /\ UNCHANGED store

\* Only garbage is collected; when nothing is referenced, all of it may go.
Collect == /\ \E D \in SUBSET (store \ Live) : store' = store \ D
           /\ UNCHANGED refs

CSNext == AddObject \/ Publish \/ Unpublish \/ UnpublishAll \/ Collect

CSSpec == CSInit /\ [][CSNext]_csVars

(***************************************************************************)
(* No reference dangles: every object reachable from a published root is   *)
(* in the store.  ("An accepted reference never dangles",                  *)
(* architecture/mark-sweep-gc.md; fstree.CheckComplete gates every PUT.)   *)
(***************************************************************************)
NoDangling == Live \subseteq store

=============================================================================
