---------------------------- MODULE MCProcesses ----------------------------
(***************************************************************************)
(* Small instances of the components that live in one process or start and *)
(* stop it, and that share no state: the memory maps (Scrub), the FUSE     *)
(* file cache (Mount), the ingest command (Ingest), start and stop         *)
(* (Lifecycle), the remotes registry (Registry) and the copier's throttle  *)
(* (Throttle).  part says which of them this behaviour runs; the others    *)
(* stay as they start.                                                     *)
(***************************************************************************)
EXTENDS Scrub, Mount, Ingest, Lifecycle, Registry, Throttle, TLC

CONSTANTS f1, f2   \* files of the mount, as model values

FileSize == (f1 :> 1) @@ (f2 :> 2)

\* A directory of a file, a directory of two files, and a file.
IngestTree == [n \in 1..6 |-> CASE n = 1 -> <<2, 3, 6>> [] n = 3 -> <<4, 5>> [] OTHER -> <<>>]

VARIABLE part

ProcessesInit ==
    /\ part \in {"scrub", "mount", "ingest", "lifecycle", "registry", "throttle"}
    /\ ScrubInit /\ MountInit /\ IngestInit /\ LifeInit /\ RegistryInit
    /\ ThrottleInit
    /\ part # "scrub" => sealed = {}
    /\ part # "lifecycle" => \A p \in Processes : proc[p].program = "daemon"
    /\ part # "throttle" => \A r \in Rates : rate <= r

ProcessesNext ==
    /\ \/ /\ part = "scrub" /\ ScrubNext
          /\ UNCHANGED <<mountVars, ingestVars, lifeVars, registryVars, throttleVars>>
       \/ /\ part = "mount" /\ MountNext
          /\ UNCHANGED <<scrubVars, ingestVars, lifeVars, registryVars, throttleVars>>
       \/ /\ part = "ingest" /\ IngestNext
          /\ UNCHANGED <<scrubVars, mountVars, lifeVars, registryVars, throttleVars>>
       \/ /\ part = "lifecycle" /\ LifeNext
          /\ UNCHANGED <<scrubVars, mountVars, ingestVars, registryVars, throttleVars>>
       \/ /\ part = "registry" /\ RegistryNext
          /\ UNCHANGED <<scrubVars, mountVars, ingestVars, lifeVars, throttleVars>>
       \/ /\ part = "throttle" /\ ThrottleNext
          /\ UNCHANGED <<scrubVars, mountVars, ingestVars, lifeVars, registryVars>>
    /\ UNCHANGED part

allVars == <<scrubVars, mountVars, ingestVars, lifeVars, registryVars, throttleVars, part>>

\* In an ingest every goroutine that can go on does, and the daemon answers.
ProcessesSpec ==
    /\ ProcessesInit /\ [][ProcessesNext]_allVars
    /\ ScrubFairness /\ LifeFairness
    /\ WF_ingestVars(part = "ingest" /\ IngestNext)

=============================================================================
