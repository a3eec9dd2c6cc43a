------------------------------- MODULE Leases -------------------------------
(***************************************************************************)
(* What a reference count or a gate around a shared resource promises: a   *)
(* resource that somebody is using stays alive.  Scrub implements it for   *)
(* the memory maps of the sealed segments (package packstore), Mount for   *)
(* the memory files behind the open handles of the FUSE mount.             *)
(***************************************************************************)

CONSTANTS Resources, Users

VARIABLES
    live,   \* the resources that exist
    held    \* held[u]: the resources u may touch

leaseVars == <<live, held>>

\* Resources come and go, but not from under a user.
Turnover ==
    /\ live' \in SUBSET Resources
    /\ \A u \in Users : held'[u] \subseteq live'

\* u starts to use resources.
Acquire(u) ==
    /\ held[u] = {}
    /\ \E S \in SUBSET Resources : held' = [held EXCEPT ![u] = S]
    /\ Turnover

\* u is done with all it uses.
Return(u) ==
    /\ held' = [held EXCEPT ![u] = {}]
    /\ Turnover

LeaseInit ==
    /\ live \in SUBSET Resources
    /\ held = [u \in Users |-> {}]

LeaseNext ==
    \/ \E u \in Users : Acquire(u) \/ Return(u)
    \/ Turnover /\ UNCHANGED held

LeaseSpec == LeaseInit /\ [][LeaseNext]_leaseVars

=============================================================================
