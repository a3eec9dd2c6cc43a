-------------------------------- MODULE Pull --------------------------------
(***************************************************************************)
(* remotesync.Pull followed by the local reference (embedded.Store.Pull,   *)
(* the daemon's remotePull), from the server of module Remote.  The list   *)
(* of reachable keys is not trusted: rounds of parallel pack fetches       *)
(* alternate with a walk of the local tree until the walk finds no hole.   *)
(***************************************************************************)
EXTENDS Remote, Batching

CONSTANTS
    PullSize,    \* object -> size estimated from the key (PullSizer)
    PullJobs,
    MaxPulls,    \* bound on runs
    MaxCuts      \* bound on network errors

VARIABLES
    pulling,     \* idle, listing, fetching, walking, pulled, ok, failed
    local,       \* the objects in the local store
    localRef,
    toFetch,     \* the batches of this round
    fetch,       \* batch number -> todo, asked, done, stopped
    asked,       \* history: the keys of this pull's earlier rounds
    embedded,    \* embedded store (no collector) or daemon
    pulls, cuts

pullVars == <<pulling, local, localRef, toFetch, fetch, asked, embedded, pulls, cuts>>

PullInit ==
    /\ pulling = "idle" /\ local \in AtFirst /\ localRef = FALSE
    /\ toFetch = <<>> /\ fetch = <<>> /\ asked = {}
    /\ embedded \in BOOLEAN /\ pulls = 0 /\ cuts = 0

Keys(batch) == {batch[i] : i \in DOMAIN batch}

AllKeys == UNION {Keys(toFetch[b]) : b \in DOMAIN toFetch}

\* fetchAll's batches of a set of keys.
Round(keys) ==
    /\ toFetch' = Batches(SelectSeq(Location, LAMBDA k : k \in keys), PullSize)
    /\ fetch' = [b \in DOMAIN toFetch' |-> "todo"]

\* rc.GetRef finds the reference.
BeginPull ==
    /\ pulling \in {"idle", "failed"} /\ pulls < MaxPulls /\ ref
    /\ pulling' = "listing" /\ pulls' = pulls + 1
    /\ toFetch' = <<>> /\ fetch' = <<>> /\ asked' = {}
    /\ UNCHANGED <<local, localRef, embedded, cuts, remoteVars>>

\* rc.ReachableKeys and store.Missing.  This server walks the whole tree or
\* refuses; the client puts up with a list that leaves keys out.
Listed ==
    /\ pulling = "listing" /\ Objects \subseteq remote
    /\ \E keys \in SUBSET Objects : Round(keys \ local)
    /\ pulling' = "fetching"
    /\ UNCHANGED <<local, localRef, asked, embedded, pulls, cuts, remoteVars>>

\* postObjectsReachable met a hole, or the network failed.
ListFails ==
    /\ pulling = "listing"
    /\ IF Objects \subseteq remote THEN cuts < MaxCuts /\ cuts' = cuts + 1 ELSE UNCHANGED cuts
    /\ pulling' = "failed"
    /\ UNCHANGED <<local, localRef, toFetch, fetch, asked, embedded, pulls, remoteVars>>

\* rc.FetchObjects: postObjectsGet checks every key before it streams.
FetchBegin(b) ==
    /\ pulling = "fetching" /\ fetch[b] = "todo"
    /\ \A a \in 1..(b - 1) : fetch[a] # "todo"
    /\ Cardinality({a \in DOMAIN fetch : fetch[a] = "asked"}) < PullJobs
    /\ fetch' = [fetch EXCEPT ![b] = IF Keys(toFetch[b]) \subseteq remote
                                     THEN "asked" ELSE "stopped"]
    /\ UNCHANGED <<pulling, local, localRef, toFetch, asked, embedded, pulls, cuts, remoteVars>>

\* The whole signed pack arrived and every object was verified and stored.
Fetched(b) ==
    /\ fetch[b] = "asked" /\ Keys(toFetch[b]) \subseteq remote
    /\ local' = local \cup Keys(toFetch[b])
    /\ fetch' = [fetch EXCEPT ![b] = "done"]
    /\ UNCHANGED <<pulling, localRef, toFetch, asked, embedded, pulls, cuts, remoteVars>>

\* The stream was cut (an object went after the check, or the network failed,
\* or another batch's error cancelled this one): it carries no signature and
\* nothing of it is stored.
FetchCut(b) ==
    /\ fetch[b] = "asked"
    /\ IF Keys(toFetch[b]) \subseteq remote /\ \A a \in DOMAIN fetch : fetch[a] # "stopped"
       THEN cuts < MaxCuts /\ cuts' = cuts + 1 ELSE UNCHANGED cuts
    /\ fetch' = [fetch EXCEPT ![b] = "stopped"]
    /\ UNCHANGED <<pulling, local, localRef, toFetch, asked, embedded, pulls, remoteVars>>

\* fetchAll returns.
RoundDone ==
    /\ pulling = "fetching"
    /\ \A b \in DOMAIN fetch : fetch[b] \in {"done", "stopped"}
    /\ pulling' = IF \E b \in DOMAIN fetch : fetch[b] = "stopped" THEN "failed" ELSE "walking"
    /\ asked' = asked \cup AllKeys
    /\ UNCHANGED <<local, localRef, toFetch, fetch, embedded, pulls, cuts, remoteVars>>

\* The objects a walk over the local store visits within n levels of the root.
Visited[n \in 0..Len(Location)] ==
    IF n = 0 THEN {Root}
    ELSE Visited[n - 1] \cup UNION {Kids[k] : k \in Visited[n - 1] \cap local}

\* localMissing: what the walk met and the store lacks.
LocalMissing == Visited[Len(Location)] \ local

Walked ==
    /\ pulling = "walking"
    /\ Round(LocalMissing)
    /\ pulling' = IF LocalMissing = {} THEN "pulled" ELSE "fetching"
    /\ UNCHANGED <<local, localRef, asked, embedded, pulls, cuts, remoteVars>>

\* The local collector takes unreferenced objects, but not within the daemon's
\* write span around Pull; the embedded store runs none.
LocalSweep ==
    /\ ~embedded /\ ~localRef /\ pulling \in {"pulled", "failed"} /\ local # {}
    /\ \E dropped \in SUBSET local : dropped # {} /\ local' = local \ dropped
    /\ UNCHANGED <<pulling, localRef, toFetch, fetch, asked, embedded, pulls, cuts, remoteVars>>

\* Mutant: the daemon just writes the reference too.
MutantLocalPut ==
    /\ pulling = "pulled"
    /\ localRef' = TRUE
    /\ pulling' = "ok"
    /\ UNCHANGED <<local, toFetch, fetch, asked, embedded, pulls, cuts, remoteVars>>

\* The daemon prepares the reference (another walk) and may refuse; the
\* embedded store just writes it.
LocalPut ==
    /\ pulling = "pulled"
    /\ localRef' = (embedded \/ LocalMissing = {})
    /\ pulling' = IF localRef' THEN "ok" ELSE "failed"
    /\ UNCHANGED <<local, toFetch, fetch, asked, embedded, pulls, cuts, remoteVars>>

PullStep ==
    \/ Listed \/ ListFails
    \/ \E b \in DOMAIN fetch : FetchBegin(b) \/ Fetched(b) \/ FetchCut(b)
    \/ RoundDone \/ Walked \/ LocalPut

PullNext == BeginPull \/ PullStep \/ LocalSweep \/ (RemoteNext /\ UNCHANGED pullVars)

PullFairness == WF_<<pullVars, remoteVars>>(PullStep)

----------------------------------------------------------------------------
(* Properties. *)

\* The local reference is written only over a complete local tree, whatever
\* the server's list left out, wherever streams were cut, and although the
\* daemon's collector may run between the pull and the reference.
PulledIsComplete == localRef => Objects \subseteq local

\* The fixpoint makes progress: a round never asks for a key an earlier round
\* of the same pull asked for, because a round that went well stored it.
NeverAsksTwice == pulling = "fetching" => AllKeys \cap asked = {}

\* A pull ends with a complete tree, by rounds that each make progress.
PullSound == PulledIsComplete /\ NeverAsksTwice

\* Every pull ends.
PullEnds ==
    (pulling \in {"listing", "fetching", "walking", "pulled"}) ~> (pulling \in {"ok", "failed"})
=============================================================================
