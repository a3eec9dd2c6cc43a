------------------------------- MODULE Trees -------------------------------
(***************************************************************************)
(* Content-addressed object trees (package fstree).  An object is known    *)
(* here only by its key and by the keys its payload references: Blob and   *)
(* XattrSet objects reference nothing, FileNode, DirNode and DirLeaf       *)
(* objects reference their children.  The payload of a key never changes,  *)
(* so the child relation is a constant.                                    *)
(***************************************************************************)

CONSTANTS
    Keys,      \* the object keys in play
    Children   \* Children[k]: what fstree.ChildKeys returns for k's payload

ASSUME ChildrenAssumption == Children \in [Keys -> SUBSET Keys]

\* A set of keys that contains every child of every member.
Closed(S) == \A k \in S : Children[k] \subseteq S

\* The keys reachable from root: the least closed set that holds it.
Reach(root) == {k \in Keys :
                    \A S \in SUBSET Keys : (root \in S /\ Closed(S)) => k \in S}

=============================================================================
