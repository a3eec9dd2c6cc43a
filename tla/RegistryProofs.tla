--------------------------- MODULE RegistryProofs ---------------------------
(***************************************************************************)
(* For any names, configurations and callers: the remotes file holds what  *)
(* the registry answered, and no caller is given a client of another       *)
(* configuration.  The first needs to know what the file holds while a     *)
(* call is in progress: the map with that call's change undone.            *)
(***************************************************************************)
EXTENDS Registry, TLAPS

Entries == Configs \cup {NoConfig}
Maps    == [RemoteNames -> Entries]
CallerStates == [at : {"idle", "resolved", "using"}, name : RemoteNames \cup {NoConfig},
                 config : Entries, client : Entries]

\* The map, the file, the cache and the callers have their types.
RegistryTypeOK ==
    /\ remotes \in Maps /\ remotesFile \in Maps /\ remotesTmp \in Maps /\ clients \in Maps
    /\ caller \in [Callers -> CallerStates]

\* While a call holds mu, the file is the map without its change.
FileBehindMap ==
    IF change = NoChange THEN remotes = remotesFile
    ELSE /\ change.name \in RemoteNames /\ change.old \in Entries
         /\ remotesFile = [remotes EXCEPT ![change.name] = change.old]

RegistryIInv == RegistryTypeOK /\ FileBehindMap /\ NoStaleClient

\* The registry starts with the invariant.
LEMMA RegistryStarts == RegistryInit => RegistryIInv
  BY DEF RegistryInit, RegistryIInv, RegistryTypeOK, FileBehindMap, NoStaleClient, EmptyMap,
         IdleCaller, Maps, Entries, CallerStates

\* A configuration is never taken for the name of a call in progress.
LEMMA EditIsNoted ==
    ASSUME NEW n \in RemoteNames, NEW old
    PROVE  [name |-> n, old |-> old] # NoChange
  <1>1. n # NoConfig
    BY RegistryAssumption
  <1>2. [name |-> n, old |-> old].name # NoChange.name
    BY <1>1 DEF NoChange
  <1> QED
    BY <1>2

\* Every step of the registry keeps the invariant.
LEMMA RegistryKeeps == RegistryIInv /\ [RegistryNext]_registryVars => RegistryIInv'
  <1> SUFFICES ASSUME RegistryIInv, [RegistryNext]_registryVars
               PROVE  RegistryIInv'
    OBVIOUS
  <1> USE DEF RegistryIInv, Maps, Entries
  <1>1. ASSUME NEW n \in RemoteNames, NEW new \in Entries, change = NoChange, Edit(n, new)
        PROVE  RegistryIInv'
    <2>1. RegistryTypeOK' /\ NoStaleClient'
      BY <1>1 DEF Edit, RegistryTypeOK, NoStaleClient
    <2>2. change' # NoChange /\ change'.name = n /\ change'.old = remotes[n]
      BY <1>1, EditIsNoted DEF Edit
    <2>3. remotesFile' = [remotes' EXCEPT ![n] = remotes[n]]
      BY <1>1 DEF Edit, FileBehindMap, RegistryTypeOK
    <2> QED
      BY <2>1, <2>2, <2>3 DEF FileBehindMap, RegistryTypeOK
  <1>2. ASSUME NEW n \in RemoteNames, NEW config \in Configs, AddRemote(n, config)
        PROVE  RegistryIInv'
    BY <1>1, <1>2 DEF AddRemote
  <1>3. ASSUME NEW n \in RemoteNames, RemoveRemote(n)
        PROVE  RegistryIInv'
    BY <1>1, <1>3 DEF RemoveRemote
  <1>4. CASE SaveTmp
    BY <1>4 DEF SaveTmp, RegistryTypeOK, FileBehindMap, NoStaleClient
  <1>5. CASE SaveRename
    BY <1>5 DEF SaveRename, RegistryTypeOK, FileBehindMap, NoStaleClient
  <1>6. CASE SaveFails
    <2>1. remotes' = remotesFile
      BY <1>6 DEF SaveFails, FileBehindMap
    <2> QED
      BY <1>6, <2>1 DEF SaveFails, RegistryTypeOK, FileBehindMap, NoStaleClient
  <1>7. CASE Reopen
    BY <1>7 DEF Reopen, RegistryTypeOK, FileBehindMap, NoStaleClient, EmptyMap, IdleCaller,
                CallerStates
  <1>8. ASSUME NEW c \in Callers, NEW n \in RemoteNames, NEW named \in BOOLEAN,
               Resolve(c, n, named)
        PROVE  RegistryIInv'
    BY <1>8 DEF Resolve, RegistryTypeOK, FileBehindMap, NoStaleClient, CallerStates
  <1>9. ASSUME NEW c \in Callers, RemoteClient(c)
        PROVE  RegistryIInv'
    <2> DEFINE client == ClientFor(caller[c].name, caller[c].config)
    <2>1. client = caller[c].config
      BY DEF ClientFor
    <2>2. /\ clients' = [clients EXCEPT ![caller[c].name] = client]
          /\ caller' = [caller EXCEPT ![c].at = "using", ![c].client = client]
          /\ UNCHANGED <<remotes, remotesFile, remotesTmp, change>>
      BY <1>9 DEF RemoteClient
    <2>3. client \in Entries
      BY <2>1 DEF RegistryTypeOK, CallerStates
    <2> HIDE DEF client
    <2> DEFINE using == [caller[c] EXCEPT !.at = "using", !.client = client]
    <2>5. caller' = [caller EXCEPT ![c] = using]
      BY <2>2
    <2>6. using \in CallerStates /\ using.client = using.config
      BY <2>1, <2>3, ZenonT(30) DEF RegistryTypeOK, CallerStates
    <2> HIDE DEF using
    <2>4. RegistryTypeOK' /\ NoStaleClient'
      BY <2>2, <2>3, <2>5, <2>6, ZenonT(30) DEF RegistryTypeOK, NoStaleClient
    <2> QED
      BY <2>2, <2>4 DEF FileBehindMap
  <1>10. ASSUME NEW c \in Callers, CallDone(c)
         PROVE  RegistryIInv'
    BY <1>10 DEF CallDone, RegistryTypeOK, FileBehindMap, NoStaleClient, IdleCaller, CallerStates
  <1>11. CASE UNCHANGED registryVars
    BY <1>11 DEF registryVars, RegistryTypeOK, FileBehindMap, NoStaleClient
  <1> QED
    BY <1>2, <1>3, <1>4, <1>5, <1>6, <1>7, <1>8, <1>9, <1>10, <1>11 DEF RegistryNext

\* remotes.Registry and embedded.RemoteClient: what was answered is in the file
\* whenever no call is in progress, across failed saves and kills, and a cached
\* client is lent out only for the configuration the caller resolved.
THEOREM RegistrySafe == RegistrySpec => []RegistrySound
  <1>1. RegistryIInv => RegistrySound
    BY DEF RegistryIInv, FileBehindMap, RegistrySaved, RegistrySound
  <1> QED
    BY <1>1, RegistryStarts, RegistryKeeps, PTL DEF RegistrySpec
=============================================================================
