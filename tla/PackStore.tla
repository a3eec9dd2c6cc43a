----------------------------- MODULE PackStore -----------------------------
(***************************************************************************)
(* The object store on disk (package packstore): one active segment that   *)
(* is appended to, sealed segments that never change, batches that are     *)
(* acknowledged after an fsync, sealing, recovery, compaction and the wipe,*)
(* with a crash possible between any two system calls.                     *)
(*                                                                         *)
(* A segment file is the sequence of what was written to it: the header,   *)
(* records (a record is its key), the footer.  synced[f] is how much of it *)
(* an fsync has made durable; name is the directory as the process sees    *)
(* it, dirs what the disk may hold of it.  A power loss keeps one of those *)
(* and a prefix of each file; a kill takes the process and leaves the page *)
(* cache.                                                                  *)
(***************************************************************************)
EXTENDS Naturals, Sequences, FiniteSets, SequencesExt

CONSTANTS
    Keys,         \* object keys
    Clients,      \* concurrent WriteBatch / WriteParallel calls
    MaxFiles,     \* bound: segment files ever created
    SegmentSize,  \* records after which the active segment is sealed
    Regimes,      \* records [faults, batches]: what may go wrong in a behaviour, and
                  \* how many batches run at once.  Faults: the machine loses power
                  \* ("power"), the process is killed and the page cache stays ("kill"),
                  \* a system call fails ("io"), unlinking an active segment fails
                  \* ("unlink")
    GC,           \* the caller of Compact
    None          \* nobody, nothing

ASSUME PackStoreAssumption ==
    /\ MaxFiles \in Nat /\ SegmentSize \in Nat \ {0}
    /\ Regimes \subseteq [faults : SUBSET {"power", "kill", "io", "unlink"},
                           batches : Nat]
    /\ GC \notin Clients /\ None \notin Clients \cup Keys \cup {GC}
    /\ Keys \cap {"magic", "hole", "footer"} = {}

Files == 1..MaxFiles

VARIABLES
    regime,   \* this behaviour's member of Regimes
    name,     \* name[f]: the directory entry, as the process sees it
    dirs,     \* the directories the disk may hold: those since the last fsync of it
    data,     \* data[f]: what has been written to the file
    synced,   \* synced[f]: length of the prefix that is on disk
    torn,     \* files with bytes of a failed write past their last record
    nextID,   \* Store.nextID
    up,       \* "down", "renamed" (inside Open), or "open"
    active,   \* Store.active's id, or 0
    index,    \* the active segment's in-memory index
    sealed,   \* Store.sealed: the segments that are probed
    failed,   \* Store.failed: the write path is poisoned
    step,     \* program point under appendMu
    holder,   \* who holds appendMu
    pc,       \* pc[c]: program point of writer c
    cur,      \* the key its holder is appending: cur[c], cur[GC]
    yielded,  \* yielded[c]: keys this batch has taken from its iterator
    gc,       \* program point of Compact
    live,     \* the keys this Compact must keep
    doomed,   \* victims of Compact, or files of Wipe, still to be unlinked
    acked     \* keys some batch has reported durable, and nobody has dropped

disk    == <<name, dirs, data, synced, torn, nextID>>
memory  == <<up, active, index, sealed, failed>>
writers == <<pc, yielded>>
compact == <<gc, live, doomed>>
vars    == <<regime, disk, memory, step, holder, cur, writers, compact, acked>>

Faults == regime.faults

-----------------------------------------------------------------------------
(* Files. *)

RecordsOf(f) == ToSet(data[f]) \cap Keys

\* Has: the active index, then every sealed segment.
Visible == index \cup UNION {RecordsOf(f) : f \in sealed}

\* fsync of a file, and of the directory.
SyncFile(f) == synced' = [synced EXCEPT ![f] = Len(data[f])]
SyncDir     == dirs' = {name}

\* A directory operation; the disk gets them in order, but not at once.
SetName(f, n) == /\ name' = [name EXCEPT ![f] = n]
                 /\ dirs' = dirs \cup {name'}

\* What no directory on disk refers to any more is gone.
Reclaim == /\ data'   = [f \in Files |-> IF name[f] = "none" THEN <<>> ELSE data[f]]
           /\ synced' = [f \in Files |-> IF name[f] = "none" THEN 0 ELSE synced[f]]
           /\ torn'   = {f \in torn : name[f] # "none"}

\* A failed fsync may have dropped the dirty pages.
DropPages(f) == data' = [data EXCEPT ![f] =
                   [i \in 1..Len(@) |-> IF i <= synced[f] THEN @[i] ELSE "hole"]]

\* scanActive: how many leading items parse, and whether a footer ends them.
ValidPrefix(s) ==
    IF s = <<>> \/ s[1] # "magic" THEN 0
    ELSE Max({n \in 1..Len(s) : \A i \in 2..n : s[i] \in Keys})

HasFooter(f) == /\ f \notin torn
                /\ data[f] # <<>>
                /\ ValidPrefix(data[f]) = Len(data[f]) - 1
                /\ Last(data[f]) = "footer"

-----------------------------------------------------------------------------
(* Leaving the append path: success and failure, for a batch and for GC. *)

Release == step' = "free" /\ holder' = None

CompactEnds == gc' = "idle" /\ live' = {} /\ doomed' = {}

AppendDone ==
    /\ Release
    /\ cur' = [cur EXCEPT ![holder] = None]
    /\ IF holder = GC
       THEN UNCHANGED writers
       ELSE /\ pc' = [pc EXCEPT ![holder] = "run"]
            /\ yielded' = [yielded EXCEPT ![holder] = @ \cup {cur[holder]}]
    /\ UNCHANGED compact

AppendError ==
    /\ Release
    /\ cur' = [cur EXCEPT ![holder] = None]
    /\ IF holder = GC
       THEN CompactEnds /\ UNCHANGED pc
       ELSE /\ pc' = [pc EXCEPT ![holder] = "fail"]
            /\ UNCHANGED compact
    /\ UNCHANGED yielded

-----------------------------------------------------------------------------
(* WriteBatch and WriteParallel. *)

\* The collector's gate keeps batches and Compact apart (Collector).
Begin(c) ==
    /\ up = "open" /\ gc = "idle" /\ pc[c] = "idle"
    /\ Cardinality({d \in Clients : pc[d] # "idle"}) < regime.batches
    /\ pc' = [pc EXCEPT ![c] = "run"]
    /\ UNCHANGED <<disk, memory, step, holder, cur, yielded, compact, acked>>

\* The next object: skipped when Has finds it, else encoded to be appended.
Take(c) ==
    /\ up = "open" /\ pc[c] = "run"
    /\ \E k \in Keys \ yielded[c] :
          IF k \in Visible
          THEN /\ yielded' = [yielded EXCEPT ![c] = @ \cup {k}]
               /\ UNCHANGED <<pc, cur>>
          ELSE /\ cur' = [cur EXCEPT ![c] = k]
               /\ pc' = [pc EXCEPT ![c] = "append"]
               /\ UNCHANGED yielded
    /\ UNCHANGED <<disk, memory, step, holder, compact, acked>>

\* appendMu is taken; a poisoned store refuses, a missing active is created.
AppendLocked(who) ==
    /\ holder' = who
    /\ IF active = 0
       THEN /\ nextID \in Files
            /\ SetName(nextID, "active")
            /\ data' = [data EXCEPT ![nextID] = <<"magic">>]
            /\ nextID' = nextID + 1
            /\ step' = "create"
            /\ UNCHANGED <<synced, torn>>
       ELSE /\ step' = "record"
            /\ UNCHANGED disk
    /\ UNCHANGED memory

AppendObject(c) ==
    /\ up = "open" /\ pc[c] = "append" /\ step = "free" /\ gc = "idle"
    /\ IF failed
       THEN /\ pc' = [pc EXCEPT ![c] = "fail"]
            /\ UNCHANGED <<disk, memory, step, holder>>
       ELSE AppendLocked(c) /\ UNCHANGED pc
    /\ UNCHANGED <<cur, yielded, compact, acked>>

\* createActive: the header and the directory entry become durable ...
CreateSync ==
    /\ step = "create"
    /\ LET f == nextID - 1 IN
          /\ SyncFile(f)
          /\ SyncDir
          /\ active' = f
    /\ index' = {}
    /\ step' = "record"
    /\ UNCHANGED <<name, data, torn, nextID, up, sealed, failed, holder, cur,
                   writers, compact, acked>>

\* ... or the file is removed again, and the store is not poisoned.
CreateFails ==
    /\ Faults \cap {"io", "unlink"} # {}
    /\ step = "create"
    /\ \/ SetName(nextID - 1, "none")
       \/ "unlink" \in Faults /\ UNCHANGED <<name, dirs>>
    /\ AppendError
    /\ UNCHANGED <<data, synced, torn, nextID, memory, acked>>

\* The record is written and published, unless another batch got there first;
\* a segment that is full goes on to be sealed.
WriteRecord ==
    /\ step = "record"
    /\ IF cur[holder] \in index
       THEN AppendDone /\ UNCHANGED <<data, index>>
       ELSE LET s == Append(data[active], cur[holder]) IN
            /\ data' = [data EXCEPT ![active] = s]
            /\ index' = index \cup {cur[holder]}
            /\ IF Len(s) > SegmentSize
               THEN step' = "footer" /\ UNCHANGED <<holder, cur, writers, compact>>
               ELSE AppendDone
    /\ UNCHANGED <<name, dirs, synced, torn, nextID, up, active, sealed, failed, acked>>

\* WriteAt failed part way: the bytes stay past the end of the records.
WriteTears ==
    /\ "io" \in Faults
    /\ step = "record"
    /\ cur[holder] \notin index
    /\ torn' = torn \cup {active}
    /\ AppendError
    /\ UNCHANGED <<name, dirs, data, synced, nextID, memory, acked>>

-----------------------------------------------------------------------------
(* sealActiveLocked: footer, fsync, rename, directory fsync, swap. *)

\* Truncate drops a torn tail, because the footer is located from the end.
SealFooter ==
    /\ step = "footer"
    /\ data' = [data EXCEPT ![active] = Append(@, "footer")]
    /\ torn' = torn \ {active}
    /\ step' = "footerSync"
    /\ UNCHANGED <<name, dirs, synced, nextID, memory, holder, cur, writers, compact,
                   acked>>

\* Mutant: the footer is not fsynced before the rename.
MutantSealSync ==
    /\ step = "footerSync"
    /\ step' = "rename"
    /\ UNCHANGED <<disk, memory, holder, cur, writers, compact, acked>>

SealSync ==
    /\ step = "footerSync"
    /\ SyncFile(active)
    /\ step' = "rename"
    /\ UNCHANGED <<name, dirs, data, torn, nextID, memory, holder, cur, writers, compact,
                   acked>>

SealRename ==
    /\ step = "rename"
    /\ SetName(active, "sealed")
    /\ step' = "dirSync"
    /\ UNCHANGED <<data, synced, torn, nextID, memory, holder, cur, writers, compact,
                   acked>>

SealDirSync ==
    /\ step = "dirSync"
    /\ SyncDir
    /\ step' = "publish"
    /\ UNCHANGED <<name, data, synced, torn, nextID, memory, holder, cur, writers, compact,
                   acked>>

\* Mutant: the sealed segment is not added to the probe list.
MutantSealPublish ==
    /\ step = "publish"
    /\ HasFooter(active)
    /\ active' = 0
    /\ index' = {}
    /\ AppendDone
    /\ UNCHANGED <<disk, up, sealed, failed, acked>>

\* openSealed parses the footer; the mmap replaces the active segment.  When
\* closing the old descriptor fails, the store is poisoned after the swap.
SealPublish ==
    /\ step = "publish"
    /\ HasFooter(active)
    /\ sealed' = sealed \cup {active}
    /\ active' = 0
    /\ index' = {}
    /\ \/ AppendDone /\ UNCHANGED failed
       \/ "io" \in Faults /\ AppendError /\ failed' = TRUE
    /\ UNCHANGED <<disk, up, acked>>

\* Any of these calls fails: the write path is poisoned.
SealFails ==
    /\ "io" \in Faults
    /\ step \in {"footer", "footerSync", "rename", "dirSync", "publish"}
    /\ failed' = TRUE
    /\ IF step = "footerSync" THEN DropPages(active) ELSE UNCHANGED data
    /\ AppendError
    /\ UNCHANGED <<name, dirs, synced, torn, nextID, up, active, index, sealed, acked>>

-----------------------------------------------------------------------------
(* syncActive: after batchSize bytes, at the end of a batch, after an error. *)

\* The fsync; a batch that ends well reports all it was given as durable.
SyncActive(c) ==
    /\ up = "open" /\ step = "free" /\ gc = "idle"
    /\ pc[c] \in {"run", "fail"}
    /\ ~failed
    /\ IF active = 0 THEN UNCHANGED synced ELSE SyncFile(active)
    /\ \/ UNCHANGED <<pc, yielded, acked>>
       \/ /\ pc' = [pc EXCEPT ![c] = "idle"]
          /\ yielded' = [yielded EXCEPT ![c] = {}]
          /\ acked' = IF pc[c] = "run" THEN acked \cup yielded[c] ELSE acked
    /\ UNCHANGED <<name, dirs, data, torn, nextID, memory, step, holder, cur, gc,
                   live, doomed>>

\* The store is poisoned, or this fsync fails and poisons it.
SyncFails(c) ==
    /\ up = "open" /\ step = "free" /\ gc = "idle"
    /\ pc[c] \in {"run", "fail"}
    /\ failed \/ ("io" \in Faults /\ active # 0)
    /\ failed' = TRUE
    /\ IF failed THEN UNCHANGED data ELSE DropPages(active)
    /\ pc' = [pc EXCEPT ![c] = "idle"]
    /\ yielded' = [yielded EXCEPT ![c] = {}]
    /\ UNCHANGED <<name, dirs, synced, torn, nextID, up, active, index, sealed, step,
                   holder, cur, compact, acked>>

\* The iterator fails, or Has or the encoder does: the batch goes to its error path.
BatchFails(c) ==
    /\ pc[c] = "run"
    /\ pc' = [pc EXCEPT ![c] = "fail"]
    /\ UNCHANGED <<disk, memory, step, holder, cur, yielded, compact, acked>>

\* A WriteBatch that has appended nothing returns its error without an fsync.
BatchReturns(c) ==
    /\ pc[c] = "fail"
    /\ pc' = [pc EXCEPT ![c] = "idle"]
    /\ yielded' = [yielded EXCEPT ![c] = {}]
    /\ UNCHANGED <<disk, memory, step, holder, cur, compact, acked>>

-----------------------------------------------------------------------------
(* Compact, under appendMu throughout and with no batch in flight. *)

\* The caller gives up every key it does not call live; a non-empty active
\* segment is sealed first.
CompactBegin ==
    /\ up = "open" /\ step = "free" /\ gc = "idle" /\ ~failed
    /\ \A c \in Clients : pc[c] = "idle"
    /\ \E L \in SUBSET Keys : /\ live' = L
                              /\ acked' = acked \cap L
    /\ gc' = "select"
    /\ IF index # {} THEN step' = "footer" /\ holder' = GC
                     ELSE UNCHANGED <<step, holder>>
    /\ UNCHANGED <<disk, memory, cur, writers, doomed>>

\* selectVictims: some of the segments that hold a dead record, or none.
SelectVictims ==
    /\ gc = "select" /\ step = "free"
    /\ \E V \in SUBSET {f \in sealed : RecordsOf(f) \ live # {}} :
          IF V = {} THEN CompactEnds
          ELSE doomed' = V /\ gc' = "copy" /\ UNCHANGED live
    /\ UNCHANGED <<disk, memory, step, holder, cur, writers, acked>>

\* copyLive: live records of the victims with no copy in a surviving segment.
ToCopy == {k \in live \cap UNION {RecordsOf(f) : f \in doomed} :
              k \notin index \cup UNION {RecordsOf(f) : f \in sealed \ doomed}}

CopyLive ==
    /\ gc = "copy" /\ step = "free"
    /\ \E k \in ToCopy : cur' = [cur EXCEPT ![GC] = k]
    /\ AppendLocked(GC)
    /\ UNCHANGED <<writers, compact, acked>>

\* A record that does not verify, or a copy that fails, ends the pass.
CopyFails ==
    /\ "io" \in Faults
    /\ gc = "copy" /\ step = "free"
    /\ CompactEnds
    /\ UNCHANGED <<disk, memory, step, holder, cur, writers, acked>>

\* Mutant: the victims go before the copies are durable.
MutantCompactSync ==
    /\ gc = "copy" /\ step = "free"
    /\ ToCopy = {}
    /\ gc' = "detach"
    /\ UNCHANGED <<disk, memory, step, holder, cur, writers, live, doomed, acked>>

\* The copies are durable before a victim goes.
CompactSync ==
    /\ gc = "copy" /\ step = "free"
    /\ ToCopy = {}
    /\ \/ /\ IF active = 0 THEN UNCHANGED synced ELSE SyncFile(active)
          /\ gc' = "detach"
          /\ UNCHANGED <<data, failed, live, doomed>>
       \/ /\ "io" \in Faults /\ active # 0
          /\ DropPages(active)
          /\ failed' = TRUE
          /\ CompactEnds
          /\ UNCHANGED synced
    /\ UNCHANGED <<name, dirs, torn, nextID, up, active, index, sealed, step, holder,
                   cur, writers, acked>>

\* removeVictims: out of the probe list under mu, then unlinked one by one.
DetachVictims ==
    /\ gc = "detach"
    /\ sealed' = sealed \ doomed
    /\ gc' = "unlink"
    /\ UNCHANGED <<disk, up, active, index, failed, step, holder, cur, writers, live,
                   doomed, acked>>

\* os.Remove of one file; one that fails leaves the file where it is.
Unlink ==
    \E f \in doomed :
        /\ doomed' = doomed \ {f}
        /\ \/ SetName(f, "none")
           \/ /\ (IF name[f] = "sealed" THEN "io" ELSE "unlink") \in Faults
              /\ UNCHANGED <<name, dirs>>
        /\ UNCHANGED <<data, synced, torn, nextID>>

UnlinkVictim ==
    /\ gc = "unlink"
    /\ Unlink
    /\ UNCHANGED <<memory, step, holder, cur, writers, gc, live, acked>>

CompactDone ==
    /\ gc = "unlink" /\ doomed = {}
    /\ \/ SyncDir /\ Reclaim
       \/ "io" \in Faults /\ UNCHANGED <<dirs, data, synced, torn>>
    /\ CompactEnds
    /\ UNCHANGED <<name, nextID, memory, step, holder, cur, writers,
                   acked>>

-----------------------------------------------------------------------------
(* Wipe and Close. *)

\* Everything is detached at once; what batches in flight had stored is gone.
Wipe ==
    /\ up = "open" /\ step = "free" /\ gc = "idle"
    /\ doomed' = sealed \cup ({active} \ {0})
    /\ active' = 0
    /\ index' = {}
    /\ sealed' = {}
    /\ failed' = FALSE
    /\ yielded' = [c \in Clients |-> {}]
    /\ acked' = {}
    /\ step' = "wipe"
    /\ UNCHANGED <<disk, up, holder, cur, pc, gc, live>>

WipeUnlink ==
    /\ step = "wipe"
    /\ Unlink
    /\ UNCHANGED <<memory, step, holder, cur, writers, gc, live, acked>>

WipeDone ==
    /\ step = "wipe" /\ doomed = {}
    /\ \/ SyncDir /\ Reclaim
       \/ "io" \in Faults /\ UNCHANGED <<dirs, data, synced, torn>>
    /\ step' = "free"
    /\ UNCHANGED <<name, nextID, memory, holder, cur, writers, compact,
                   acked>>

-----------------------------------------------------------------------------
(* Close, crashes, Open. *)

\* The process is gone, and with it everything in memory.
Stop ==
    /\ up' = "down"
    /\ active' = 0 /\ index' = {} /\ sealed' = {} /\ failed' = FALSE
    /\ step' = "free" /\ holder' = None
    /\ pc' = [c \in Clients |-> "idle"]
    /\ cur' = [c \in Clients \cup {GC} |-> None]
    /\ yielded' = [c \in Clients |-> {}]
    /\ CompactEnds

\* Close fsyncs the active segment and leaves it unsealed.
Close ==
    /\ up = "open" /\ step = "free" /\ gc = "idle"
    /\ Stop
    /\ \/ UNCHANGED synced
       \/ active # 0 /\ SyncFile(active)
    /\ UNCHANGED <<name, dirs, data, torn, nextID, acked>>

Kill ==
    /\ "kill" \in Faults
    /\ up \in {"open", "renamed"}
    /\ Stop
    /\ UNCHANGED <<disk, acked>>

Unsynced == {f \in Files : synced[f] < Len(data[f])}

\* The directory as it was at some moment since its last fsync, and of every
\* file in it a prefix that holds all that was synced.
PowerLoss ==
    /\ "power" \in Faults
    /\ Stop
    /\ \E n \in dirs, cut \in [Unsynced -> 0..(Cardinality(Keys) + 2)] :
       LET len == [f \in Files |-> IF n[f] = "none" THEN 0
                                   ELSE IF f \in Unsynced THEN cut[f] ELSE synced[f]] IN
          /\ \A f \in Unsynced : cut[f] \in synced[f]..(IF n[f] = "none" THEN synced[f] ELSE Len(data[f]))
          /\ name' = n /\ dirs' = {n}
          /\ data' = [f \in Files |-> SubSeq(data[f], 1, len[f])]
          /\ synced' = len
          /\ torn' = {f \in torn : n[f] # "none"}
    /\ UNCHANGED <<nextID, acked>>

Actives == {f \in Files : name[f] = "active"}
Sealeds == {f \in Files : name[f] = "sealed"}

\* load aborts Open on a sealed segment that does not parse and on a second
\* active segment.
Loadable == /\ \A f \in Sealeds : HasFooter(f)
            /\ Cardinality(Actives) < 2

\* recoverActive: cut the active segment back to what parses, or start it over.
Open ==
    /\ up = "down" /\ Loadable
    /\ \A f \in Actives : ~HasFooter(f)
    /\ sealed' = Sealeds
    /\ up' = "open"
    /\ IF Actives = {}
       THEN UNCHANGED <<active, index, data, synced, torn>>
       ELSE LET f == CHOOSE g \in Actives : TRUE
                n == ValidPrefix(data[f])
                s == IF n = 0 THEN <<"magic">> ELSE SubSeq(data[f], 1, n) IN
            /\ active' = f
            /\ index' = ToSet(s) \cap Keys
            /\ data' = [data EXCEPT ![f] = s]
            /\ synced' = [synced EXCEPT ![f] = Min({@, n})]
            /\ torn' = torn \ {f}
    /\ UNCHANGED <<name, dirs, nextID, failed, step, holder, cur, writers, compact,
                   acked>>

\* recoverActive finds a whole footer: it completes the rename ...
OpenRename ==
    /\ up = "down" /\ Loadable
    /\ \E f \in Actives : /\ HasFooter(f)
                          /\ SetName(f, "sealed")
    /\ up' = "renamed"
    /\ UNCHANGED <<data, synced, torn, nextID, active, index, sealed, failed,
                   step, holder, cur, writers, compact, acked>>

\* ... and fsyncs the directory.
OpenRenamed ==
    /\ up = "renamed"
    /\ SyncDir
    /\ sealed' = Sealeds
    /\ up' = "open"
    /\ UNCHANGED <<name, data, synced, torn, nextID, active, index, failed, step,
                   holder, cur, writers, compact, acked>>

-----------------------------------------------------------------------------
Init ==
    /\ regime \in Regimes
    /\ name = [f \in Files |-> "none"] /\ dirs = {name}
    /\ data = [f \in Files |-> <<>>]
    /\ synced = [f \in Files |-> 0]
    /\ torn = {} /\ nextID = 1
    /\ up = "down" /\ active = 0 /\ index = {} /\ sealed = {} /\ failed = FALSE
    /\ step = "free" /\ holder = None
    /\ pc = [c \in Clients |-> "idle"]
    /\ cur = [c \in Clients \cup {GC} |-> None]
    /\ yielded = [c \in Clients |-> {}]
    /\ gc = "idle" /\ live = {} /\ doomed = {} /\ acked = {}

BatchStep(c) ==
    \/ Begin(c) \/ Take(c) \/ AppendObject(c)
    \/ SyncActive(c) \/ SyncFails(c) \/ BatchFails(c) \/ BatchReturns(c)

AppendStep == CreateSync \/ CreateFails \/ WriteRecord \/ WriteTears

SealStep == \/ SealFooter \/ SealSync \/ SealRename \/ SealDirSync \/ SealPublish
            \/ SealFails

CompactStep == \/ CompactBegin \/ SelectVictims \/ CopyLive \/ CopyFails
               \/ CompactSync \/ DetachVictims \/ UnlinkVictim \/ CompactDone

\* An active segment that could not be unlinked keeps Open from ever returning.
OpenRefuses ==
    /\ up = "down" /\ ~Loadable
    /\ UNCHANGED vars

Next == /\ \/ \E c \in Clients : BatchStep(c)
           \/ AppendStep \/ SealStep \/ CompactStep
           \/ Wipe \/ WipeUnlink \/ WipeDone
           \/ Close \/ Kill \/ PowerLoss
           \/ Open \/ OpenRename \/ OpenRenamed \/ OpenRefuses
        /\ UNCHANGED regime

Spec == Init /\ [][Next]_vars

-----------------------------------------------------------------------------
Items == Keys \cup {"magic", "hole", "footer"}

\* The disk, the memory and the program points keep their types; a file is a
\* header, records and at most one footer, which is its end.
TypeOK ==
    /\ regime \in Regimes
    /\ name \in [Files -> {"none", "active", "sealed"}]
    /\ name \in dirs /\ dirs \subseteq [Files -> {"none", "active", "sealed"}]
    /\ DOMAIN data = Files
    /\ \A f \in Files : /\ ToSet(data[f]) \subseteq Items
                        /\ \A i \in 1..(Len(data[f]) - 1) : data[f][i] # "footer"
                        /\ synced[f] \in 0..Len(data[f])
                        /\ Len(data[f]) <= Cardinality(Keys) + 2
    /\ torn \subseteq Files /\ nextID \in 1..(MaxFiles + 1)
    /\ up \in {"down", "renamed", "open"}
    /\ active \in Files \cup {0} /\ index \subseteq Keys /\ sealed \subseteq Files
    /\ failed \in BOOLEAN
    /\ step \in {"free", "create", "record", "footer", "footerSync", "rename",
                 "dirSync", "publish", "wipe"}
    /\ holder \in Clients \cup {GC, None}
    /\ pc \in [Clients -> {"idle", "run", "append", "fail"}]
    /\ cur \in [Clients \cup {GC} -> Keys \cup {None}]
    /\ yielded \in [Clients -> SUBSET Keys]
    /\ gc \in {"idle", "select", "copy", "detach", "unlink"}
    /\ live \subseteq Keys /\ doomed \subseteq Files /\ acked \subseteq Keys

\* What a batch reported durable is readable whenever the store is open, after
\* any crash, failed fsync, seal or compaction, until it is collected or wiped
\* (WriteBatch: "on return, all yielded objects are durable").
AckedStaysReadable == up = "open" => acked \subseteq Visible

\* No crash and no failure leaves a directory that Open refuses (a sealed
\* segment that does not parse, or two active segments), except a failure to
\* unlink the active segment that createSegment or Wipe gives up.
OpensCleanly == up = "down" => Loadable \/ "unlink" \in Faults

\* A segment named .seg is wholly on disk ("Sealing = append footer, fsync,
\* rename to .seg (atomic), fsync directory"), unless the process was killed
\* before the fsync and the next Open completed the rename.
SealedIsDurable ==
    \A f \in Sealeds : HasFooter(f) /\ (synced[f] = Len(data[f]) \/ "kill" \in Faults)

\* The files are sound at every moment, after every power loss: Open accepts the
\* directory, and a segment under its sealed name is whole.
FilesAreSound == TypeOK /\ OpensCleanly /\ SealedIsDurable

\* While the store is open, a reader that has found an object finds it again:
\* neither the swap of a seal nor a compaction hides a record, except a dead
\* one when the victims are detached.
NothingVanishes ==
    [][up = "open" /\ up' = "open" /\ step' # "wipe"
          => Visible \cap (IF gc = "detach" THEN live ELSE Keys) \subseteq Visible']_vars
=============================================================================
