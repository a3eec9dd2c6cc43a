------------------------------ MODULE Registry ------------------------------
(***************************************************************************)
(* remotes.Registry and embedded.RemoteClient:                              *)
(* the map from remote names to what was confirmed for them, its file, and *)
(* the clients built from it.  A configuration stands for a URL and the    *)
(* pinned server key that the user confirmed for it.  The process may be   *)
(* killed at any point.                                                    *)
(***************************************************************************)
EXTENDS Integers, FiniteSets

CONSTANTS
    RemoteNames,
    Configs,
    Callers,      \* concurrent users of RemoteClient
    MaxEdits,     \* bound on the calls that change the registry
    NoConfig      \* not a configuration: an unregistered name

ASSUME RegistryAssumption == NoConfig \notin Configs \cup RemoteNames

VARIABLES
    remotes,      \* Registry.remotes: name -> configuration
    remotesFile,  \* the remotes file: what Open would load
    remotesTmp,   \* the temporary file
    change,       \* the Add or Remove that holds mu, if any
    clients,      \* Store.clients: name -> the configuration it was built from
    caller,       \* caller -> what it resolved and the client it was given
    edits

registryVars == <<remotes, remotesFile, remotesTmp, change, clients, caller, edits>>

EmptyMap == [n \in RemoteNames |-> NoConfig]
NoChange == [name |-> NoConfig, old |-> NoConfig]
IdleCaller == [at |-> "idle", name |-> NoConfig, config |-> NoConfig, client |-> NoConfig]

RegistryInit ==
    /\ remotes = EmptyMap /\ remotesFile = EmptyMap /\ remotesTmp = EmptyMap
    /\ change = NoChange /\ clients = EmptyMap /\ edits = 0
    /\ caller = [c \in Callers |-> IdleCaller]

\* Add refuses a name that is taken, Remove one that is not; under mu, the map
\* is changed before it is saved
Edit(n, new) ==
    /\ remotes' = [remotes EXCEPT ![n] = new]
    /\ change' = [name |-> n, old |-> remotes[n]]
    /\ edits' = edits + 1
    /\ UNCHANGED <<remotesFile, remotesTmp, clients, caller>>

AddRemote(n, config) ==
    /\ change = NoChange /\ edits < MaxEdits /\ remotes[n] = NoConfig
    /\ Edit(n, config)

RemoveRemote(n) ==
    /\ change = NoChange /\ edits < MaxEdits /\ remotes[n] # NoConfig
    /\ Edit(n, NoConfig)

\* save: the temporary file, then the rename, after which the call is answered
SaveTmp ==
    /\ change # NoChange /\ remotesTmp # remotes
    /\ remotesTmp' = remotes
    /\ UNCHANGED <<remotes, remotesFile, change, clients, caller, edits>>

SaveRename ==
    /\ change # NoChange /\ remotesTmp = remotes
    /\ remotesFile' = remotesTmp /\ change' = NoChange
    /\ UNCHANGED <<remotes, remotesTmp, clients, caller, edits>>

\* writing or renaming fails: the map is restored and the call answers an error
SaveFails ==
    /\ change # NoChange
    /\ remotes' = [remotes EXCEPT ![change.name] = change.old]
    /\ change' = NoChange
    /\ UNCHANGED <<remotesFile, remotesTmp, clients, caller, edits>>

\* the process is killed and started again: Open loads the file
Reopen ==
    /\ remotes' = remotesFile /\ change' = NoChange /\ clients' = EmptyMap
    /\ caller' = [c \in Callers |-> IdleCaller]
    /\ UNCHANGED <<remotesFile, remotesTmp, edits>>

\* Resolve, under mu: the named remote, or the only one there is
Registered == {n \in RemoteNames : remotes[n] # NoConfig}

Resolve(c, n, named) ==
    /\ caller[c].at = "idle" /\ change = NoChange
    /\ n \in Registered /\ (named = FALSE => Registered = {n})
    /\ caller' = [caller EXCEPT ![c] = [at |-> "resolved", name |-> n,
                                        config |-> remotes[n], client |-> NoConfig]]
    /\ UNCHANGED <<remotes, remotesFile, remotesTmp, change, clients, edits>>

\* Mutant: clients are cached by name alone.
MutantClientFor(name, config) == IF clients[name] # NoConfig THEN clients[name] ELSE config

\* RemoteClient under Store.mu: the cached client if its URL and pinned key are
\* those just resolved, a new one otherwise
ClientFor(name, config) == IF clients[name] = config THEN clients[name] ELSE config

RemoteClient(c) ==
    /\ caller[c].at = "resolved"
    /\ LET client == ClientFor(caller[c].name, caller[c].config)
       IN  /\ clients' = [clients EXCEPT ![caller[c].name] = client]
           /\ caller' = [caller EXCEPT ![c].at = "using", ![c].client = client]
    /\ UNCHANGED <<remotes, remotesFile, remotesTmp, change, edits>>

CallDone(c) ==
    /\ caller[c].at = "using"
    /\ caller' = [caller EXCEPT ![c] = IdleCaller]
    /\ UNCHANGED <<remotes, remotesFile, remotesTmp, change, clients, edits>>

RegistryNext ==
    \/ \E n \in RemoteNames, config \in Configs : AddRemote(n, config)
    \/ \E n \in RemoteNames : RemoveRemote(n)
    \/ SaveTmp \/ SaveRename \/ SaveFails \/ Reopen
    \/ \E c \in Callers, n \in RemoteNames, named \in BOOLEAN : Resolve(c, n, named)
    \/ \E c \in Callers : RemoteClient(c) \/ CallDone(c)

RegistrySpec == RegistryInit /\ [][RegistryNext]_registryVars

-----------------------------------------------------------------------------
\* Whenever no call is in progress the file holds what the map holds: a save
\* that failed was undone in memory, and a process killed at any point comes
\* back with every change it answered and none it refused.
RegistrySaved == change = NoChange => remotes = remotesFile

\* A caller is given a client for the very configuration it resolved, although
\* clients are cached by name and a name may be removed and added again with
\* another URL or key: the cache never lends out a client of the old one.
NoStaleClient == \A c \in Callers : caller[c].at = "using" => caller[c].client = caller[c].config

\* Both: the file follows the registry, and clients follow it too.
RegistrySound == RegistrySaved /\ NoStaleClient
=============================================================================
