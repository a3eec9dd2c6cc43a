------------------------------- MODULE Remote -------------------------------
(***************************************************************************)
(* The server as a syncing client sees it: an object store, an inbox of    *)
(* accepted packs, and one reference to the root of one tree.  Its own     *)
(* concurrency is the subject of Inbox, Collector and ServerRefs; here a   *)
(* request takes effect in one step.                                       *)
(***************************************************************************)
EXTENDS Integers, FiniteSets, Sequences

CONSTANTS
    Location,    \* the tree's objects, in the order they lie on the local disk
    Kids,        \* object -> the set of objects it names
    Root,
    AtFirst,     \* what the server may have of the tree at first: sets of objects
    MaxChanges   \* bound on collections and reference deletions

VARIABLES
    remote,      \* the objects in the server's store
    inbox,       \* packs (sets of objects) accepted and not yet processed
    ref,         \* whether the reference exists
    changes

remoteVars == <<remote, inbox, ref, changes>>

Objects == {Location[i] : i \in 1..Len(Location)}

RemoteInit ==
    /\ remote \in AtFirst
    /\ inbox = {} /\ ref = FALSE /\ changes = 0

\* An inbox worker stores a pack's objects.
Process(pack) ==
    /\ pack \in inbox
    /\ inbox' = inbox \ {pack}
    /\ remote' = remote \cup pack
    /\ UNCHANGED <<ref, changes>>

\* The collector drops objects, which no reference reaches.
Sweep(dropped) ==
    /\ ~ref /\ dropped # {} /\ changes < MaxChanges
    /\ remote' = remote \ dropped
    /\ changes' = changes + 1
    /\ UNCHANGED <<inbox, ref>>

\* deleteRef
DeleteRef ==
    /\ ref /\ changes < MaxChanges
    /\ ref' = FALSE /\ changes' = changes + 1
    /\ UNCHANGED <<remote, inbox>>

\* postObjects: the pack is staged and committed to the inbox.
AcceptPack(pack) ==
    /\ inbox' = inbox \cup {pack}
    /\ UNCHANGED <<remote, ref, changes>>


\* putRef: waits for the inbox (WaitFor), then refuses an incomplete tree.
PutRef(accepted) ==
    /\ inbox = {}
    /\ accepted = (Objects \subseteq remote)
    /\ ref' = (ref \/ accepted)
    /\ UNCHANGED <<remote, inbox, changes>>

RemoteNext ==
    \/ \E pack \in inbox : Process(pack)
    \/ \E dropped \in SUBSET remote : Sweep(dropped)
    \/ DeleteRef
=============================================================================
