------------------------------- MODULE MCSync -------------------------------
(***************************************************************************)
(* Small instances of Push and Pull against one server: pushes alone,      *)
(* pulls alone, and one push beside one pull.  who says which.             *)
(***************************************************************************)
EXTENDS Push, Pull, TLC

\* r names b and c, and c names a; they lie on disk in this order.
OnDisk == <<"a", "b", "c", "r">>
Names  == ("a" :> {}) @@ ("b" :> {}) @@ ("c" :> {"a"}) @@ ("r" :> {"b", "c"})
Stored == ("a" :> 1) @@ ("b" :> 2) @@ ("c" :> 1) @@ ("r" :> 2)

VARIABLE who

syncVars == <<pushVars, pullVars, remoteVars, who>>

\* Pulls alone start with the tree on the server.
SyncInit ==
    /\ who \in {{"push"}, {"pull"}, {"push", "pull"}}
    /\ PushInit /\ PullInit
    /\ inbox = {}
    /\ IF "push" \in who
       THEN remote \in AtFirst /\ ref = FALSE /\ changes = MaxChanges - 1
       ELSE remote = Objects /\ ref = TRUE /\ changes = 0 /\ jobs = 1
    /\ "pull" \notin who => local = {} /\ embedded

\* A push beside a pull is one push, one pull and no error of disk or network.
Together ==
    /\ pushes' <= 1 /\ faults' = 0
    /\ pulls' <= 1 /\ cuts' = 0

SyncNext ==
    /\ \/ "push" \in who /\ (BeginPush \/ PushStep) /\ UNCHANGED pullVars
       \/ "pull" \in who /\ (BeginPull \/ PullStep \/ LocalSweep) /\ UNCHANGED pushVars
       \/ RemoteNext /\ UNCHANGED <<pushVars, pullVars>>
    /\ who = {"push", "pull"} => Together
    /\ UNCHANGED who

SyncSpec == SyncInit /\ [][SyncNext]_syncVars /\ PushFairness /\ PullFairness

\* Every push and every pull comes to an end (remotesync.Push, remotesync.Pull).
SyncEnds == PushEnds /\ PullEnds

=============================================================================
