----------------------------- MODULE Collector -----------------------------
(***************************************************************************)
(* The mark-and-sweep collector (package gc) against everything that runs  *)
(* beside it: object-write spans (daemon ingests, remote pulls, inbox      *)
(* drains), reference PUTs and DELETEs, and the server's store wipe.       *)
(*                                                                         *)
(* refLock (a sync.RWMutex) is not a variable of its own.  Its shared      *)
(* holders are the clients in a program point of SpanPoints or PutPoints,  *)
(* and the cycle owns it exclusively at "snapshot" and "sweep".  A writer  *)
(* that waits blocks new readers, and Unlock admits every reader that      *)
(* waited before the next writer can get in (Admit), as Go's RWMutex does. *)
(* The lock of the wipe (wipeMu) and cycleMu are held at program points in *)
(* the same way.                                                           *)
(***************************************************************************)
EXTENDS ContentStore

CONSTANTS
    Clients,   \* concurrent request handlers and inbox workers
    HasWipe    \* the wipe endpoint exists: TRUE for serve, FALSE for daemon

ASSUME HasWipeAssumption == HasWipe \in BOOLEAN

VARIABLES
    capturing,  \* packstore.Store.capturing: the write barrier is on
    grey,       \* packstore.Store.grey: keys observed since BeginBarrier
    pc,         \* pc[c]: program point of client c
    cur,        \* cur[c]: key being written, or root being published
    dest,       \* dest[c]: reference name being PUT
    visited,    \* visited[c]: keys CheckComplete has found so far
    frontier,   \* frontier[c]: keys of the next breadth-first level
    written,    \* written[c]: keys stored or dedup-hit in the open span
    cycle,      \* program point of gc.Collector.Run
    cancelled,  \* the cycle's context has been cancelled
    roots,      \* the cycle's snapshot of the reference roots
    snap,       \* keys of the store snapshot the MarkSet was built on
    marked,     \* keys marked in the MarkSet
    pending,    \* keys still to be visited by the mark
    wipe        \* program point of server.postWipe

storeVars  == <<store, refs>>
barrier    == <<capturing, grey>>
clientVars == <<pc, cur, dest, visited, frontier, written>>
markVars   == <<roots, snap, marked, pending>>
cycleVars  == <<cycle, cancelled, markVars>>

vars == <<storeVars, barrier, clientVars, cycleVars, wipe>>

-----------------------------------------------------------------------------
(* Locks, as program points. *)

SpanPoints == {"span", "write"}              \* refLock shared: BeginWrite
PutPoints  == {"walk", "prepared"}           \* refLock shared: PrepareRef
Waiting    == {"spanWait", "walkWait"}       \* blocked in refLock.RLock
Putting    == PutPoints \cup {"walkWait"}    \* wipeMu shared: server.putRef

CycleWaits == {"snapWait", "sweepWait"}      \* blocked in refLock.Lock
CycleOwns  == {"snapshot", "sweep"}          \* refLock exclusive
WipeOwns   == {"cancel", "cycleMu", "refs", "objects"}   \* wipeMu exclusive

ClientPoints == {"idle"} \cup SpanPoints \cup PutPoints \cup Waiting
CyclePoints  == {"idle", "start", "newMark", "mark", "abort"}
                    \cup CycleWaits \cup CycleOwns
WipePoints   == {"idle", "wipeMu"} \cup WipeOwns

\* Mutant: a waiting writer does not hold new readers back.
MutantRLockFree == cycle \notin CycleOwns

\* RLock goes through at once unless a writer holds the lock or waits for it.
RLockFree == cycle \notin CycleWaits \cup CycleOwns

Readers == {c \in Clients : pc[c] \in SpanPoints \cup PutPoints}

\* Mutant: the writer does not wait for reference PUTs.
MutantLockFree == \A c \in Clients : pc[c] \notin SpanPoints

\* Lock goes through once the last reader is out.
LockFree == Readers = {}

\* Unlock: every reader that waited now holds the lock shared.
Admit(p) == [c \in Clients |-> CASE p[c] = "spanWait" -> "span"
                                 [] p[c] = "walkWait" -> "walk"
                                 [] OTHER             -> p[c]]

\* The client's handler returns; its locals are gone.
Return(c) ==
    /\ pc' = [pc EXCEPT ![c] = "idle"]
    /\ cur' = [cur EXCEPT ![c] = None]
    /\ dest' = [dest EXCEPT ![c] = None]
    /\ visited' = [visited EXCEPT ![c] = {}]
    /\ frontier' = [frontier EXCEPT ![c] = {}]
    /\ written' = [written EXCEPT ![c] = {}]

\* Run returns: cancelCycle is dropped, cycleMu is free.
EndCycle ==
    /\ cycle' = "idle"
    /\ cancelled' = FALSE
    /\ roots' = {}
    /\ snap' = {}
    /\ marked' = {}
    /\ pending' = {}

\* packstore AbortBarrier and takeGrey: the capture ends.
EndCapture == /\ capturing' = FALSE
              /\ grey' = {}

\* packstore observe / ObserveKeys: a no-op unless the barrier is on.
Observe(S) == grey' = IF capturing THEN grey \cup S ELSE grey

-----------------------------------------------------------------------------
(* Object-write spans: BeginWrite, then packstore.WriteParallel, then done. *)

SpanBegin(c) ==
    /\ pc[c] = "idle"
    /\ pc' = [pc EXCEPT ![c] = IF RLockFree THEN "span" ELSE "spanWait"]
    /\ UNCHANGED <<storeVars, barrier, cur, dest, visited, frontier, written,
                   cycleVars, wipe>>

\* runWriter takes one object of the stream and observes it.
WriteObserve(c) ==
    /\ pc[c] = "span"
    /\ \E k \in Keys : /\ cur' = [cur EXCEPT ![c] = k]
                       /\ Observe({k})
    /\ pc' = [pc EXCEPT ![c] = "write"]
    /\ UNCHANGED <<storeVars, capturing, dest, visited, frontier, written,
                   cycleVars, wipe>>

\* ... and then appends it, or skips it because the store has it already.
WriteObject(c) ==
    /\ pc[c] = "write"
    /\ store' = store \cup {cur[c]}
    /\ written' = [written EXCEPT ![c] = @ \cup {cur[c]}]
    /\ pc' = [pc EXCEPT ![c] = "span"]
    /\ UNCHANGED <<refs, barrier, cur, dest, visited, frontier, cycleVars, wipe>>

\* The stream ended, was malformed, or failed verification: release the gate.
SpanEnd(c) ==
    /\ pc[c] \in SpanPoints
    /\ Return(c)
    /\ UNCHANGED <<storeVars, barrier, cycleVars, wipe>>

-----------------------------------------------------------------------------
(* Reference PUTs: wipeMu shared, PrepareRef, refs.Put, commit or abort. *)

PutBegin(c) ==
    /\ pc[c] = "idle"
    /\ wipe = "idle"
    /\ \E n \in Names, k \in Keys :
          /\ cur' = [cur EXCEPT ![c] = k]
          /\ dest' = [dest EXCEPT ![c] = n]
          /\ frontier' = [frontier EXCEPT ![c] = {k}]
    /\ visited' = [visited EXCEPT ![c] = {}]
    /\ pc' = [pc EXCEPT ![c] = IF RLockFree THEN "walk" ELSE "walkWait"]
    /\ UNCHANGED <<storeVars, barrier, written, cycleVars, wipe>>

\* One breadth-first level of CheckComplete: every object of it is there.
WalkLevel(c) ==
    /\ pc[c] = "walk"
    /\ frontier[c] # {}
    /\ frontier[c] \subseteq store
    /\ LET seen == visited[c] \cup frontier[c] IN
          /\ visited' = [visited EXCEPT ![c] = seen]
          /\ frontier' = [frontier EXCEPT ![c] =
                             (UNION {Children[k] : k \in @}) \ seen]
    /\ UNCHANGED <<storeVars, barrier, pc, cur, dest, written, cycleVars, wipe>>

\* An object of the level is missing (the 404), or cannot be read or decoded.
WalkFails(c) ==
    /\ pc[c] = "walk"
    /\ frontier[c] # {}
    /\ Return(c)
    /\ UNCHANGED <<storeVars, barrier, cycleVars, wipe>>

\* The walk is complete: hand the closure to the barrier.
WalkDone(c) ==
    /\ pc[c] = "walk"
    /\ frontier[c] = {}
    /\ Observe(visited[c])
    /\ pc' = [pc EXCEPT ![c] = "prepared"]
    /\ UNCHANGED <<storeVars, capturing, cur, dest, visited, frontier, written,
                   cycleVars, wipe>>

\* refs.Put, then commit releases the lock.
RefPut(c) ==
    /\ pc[c] = "prepared"
    /\ refs' = [refs EXCEPT ![dest[c]] = cur[c]]
    /\ Return(c)
    /\ UNCHANGED <<store, barrier, cycleVars, wipe>>

\* refs.Put failed: abort releases the lock.
RefPutFails(c) ==
    /\ pc[c] = "prepared"
    /\ Return(c)
    /\ UNCHANGED <<storeVars, barrier, cycleVars, wipe>>

\* deleteRef takes no part in the reference lock, only in wipeMu.
DeleteRef ==
    /\ wipe \notin WipeOwns
    /\ \E n \in Names : /\ refs[n] # None
                        /\ refs' = [refs EXCEPT ![n] = None]
    /\ UNCHANGED <<store, barrier, clientVars, cycleVars, wipe>>

-----------------------------------------------------------------------------
(* One collection cycle: Run and cycle. *)

\* cycleMu.TryLock succeeds: no other cycle runs and no wipe holds it.
CycleRun ==
    /\ cycle = "idle"
    /\ wipe \notin {"refs", "objects"}
    /\ cycle' = "start"
    /\ UNCHANGED <<storeVars, barrier, clientVars, cancelled, markVars, wipe>>

\* cancelCycle is registered; the cycle then asks for the reference lock.
CycleRegister ==
    /\ cycle = "start"
    /\ cycle' = "snapWait"
    /\ UNCHANGED <<storeVars, barrier, clientVars, cancelled, markVars, wipe>>

\* The caller's context ends, or Wipe or Close calls cancelCycle.
CycleCancel ==
    /\ cycle \notin {"idle", "start"}
    /\ ~cancelled
    /\ cancelled' = TRUE
    /\ UNCHANGED <<storeVars, barrier, clientVars, cycle, markVars, wipe>>

\* refLock.Lock returns; BeginBarrier.
BeginBarrier ==
    /\ cycle = "snapWait"
    /\ LockFree
    /\ capturing' = TRUE
    /\ grey' = {}
    /\ cycle' = "snapshot"
    /\ UNCHANGED <<storeVars, clientVars, cancelled, markVars, wipe>>

\* c.roots() succeeds or fails, then refLock.Unlock.
SnapshotRoots ==
    /\ cycle = "snapshot"
    /\ \/ /\ roots' = RootsOf(refs)
          /\ cycle' = "newMark"
       \/ /\ roots' = roots
          /\ cycle' = "abort"
    /\ pc' = Admit(pc)
    /\ UNCHANGED <<storeVars, barrier, cur, dest, visited, frontier, written,
                   cancelled, snap, marked, pending, wipe>>

\* NewMarkSet: a snapshot of the store, taken after the lock was released.
NewMarkSet ==
    /\ cycle = "newMark"
    /\ snap' = store
    /\ marked' = {}
    /\ pending' = roots
    /\ cycle' = "mark"
    /\ UNCHANGED <<storeVars, barrier, clientVars, cancelled, roots, wipe>>

\* One key of markFrom's stack: missing aborts the cycle, marked prunes.
MarkStep ==
    /\ cycle = "mark"
    /\ \E k \in pending :
          IF k \notin snap \cap store
          THEN /\ cycle' = "abort"
               /\ UNCHANGED <<marked, pending>>
          ELSE /\ marked' = marked \cup {k}
               /\ pending' = (pending \ {k}) \cup
                                (IF k \in marked THEN {} ELSE Children[k])
               /\ UNCHANGED cycle
    /\ UNCHANGED <<storeVars, barrier, clientVars, cancelled, roots, snap, wipe>>

\* The context, looked at every 1024 keys, is cancelled, or a payload cannot be
\* read or decoded.
MarkFails ==
    /\ cycle = "mark"
    /\ cycle' = "abort"
    /\ UNCHANGED <<storeVars, barrier, clientVars, cancelled, markVars, wipe>>

\* AbortBarrier, without the reference lock; then cycleMu is released.
AbortBarrier ==
    /\ cycle = "abort"
    /\ EndCapture
    /\ EndCycle
    /\ UNCHANGED <<storeVars, clientVars, wipe>>

\* The mark is complete; the cycle asks for the reference lock again.
MarkDone ==
    /\ cycle = "mark"
    /\ pending = {}
    /\ cycle' = "sweepWait"
    /\ UNCHANGED <<storeVars, barrier, clientVars, cancelled, markVars, wipe>>

\* refLock.Lock returns.
SweepLock ==
    /\ cycle = "sweepWait"
    /\ LockFree
    /\ cycle' = "sweep"
    /\ UNCHANGED <<storeVars, barrier, clientVars, cancelled, markVars, wipe>>

\* ctx.Err() after the lock: AbortBarrier, Unlock.
SweepCancelled ==
    /\ cycle = "sweep"
    /\ cancelled
    /\ EndCapture
    /\ pc' = Admit(pc)
    /\ EndCycle
    /\ UNCHANGED <<storeVars, cur, dest, visited, frontier, written, wipe>>

\* Mutant: the grey set is not kept.
MutantIsLive(k) == k \in marked

\* Compact's live(k): grey, or in the mark set.
IsLive(k) == k \in grey \/ k \in marked

\* packstore.Compact consumes the grey set and drops the dead records of the
\* victims.  Which sealed segments are old and dead enough to be victims is
\* left open, so any set of dead keys may go; a Compact that fails drops none.
Compact ==
    /\ cycle = "sweep"
    /\ ~cancelled
    /\ \E D \in SUBSET {k \in store : ~IsLive(k)} : store' = store \ D
    /\ EndCapture
    /\ pc' = Admit(pc)
    /\ EndCycle
    /\ UNCHANGED <<refs, cur, dest, visited, frontier, written, wipe>>

-----------------------------------------------------------------------------
(* The server's wipe: wipeMu, cancelCycle, cycleMu, references, objects. *)

WipeBegin ==
    /\ HasWipe
    /\ wipe = "idle"
    /\ wipe' = "wipeMu"
    /\ UNCHANGED <<storeVars, barrier, clientVars, cycleVars>>

WipeLock ==
    /\ wipe = "wipeMu"
    /\ \A c \in Clients : pc[c] \notin Putting
    /\ wipe' = "cancel"
    /\ UNCHANGED <<storeVars, barrier, clientVars, cycleVars>>

\* A cycle that has not registered its cancel function yet is not cancelled.
WipeCancel ==
    /\ wipe = "cancel"
    /\ cancelled' = (cancelled \/ cycle \notin {"idle", "start"})
    /\ wipe' = "cycleMu"
    /\ UNCHANGED <<storeVars, barrier, clientVars, cycle, markVars>>

WipeCycleMu ==
    /\ wipe = "cycleMu"
    /\ cycle = "idle"
    /\ wipe' = "refs"
    /\ UNCHANGED <<storeVars, barrier, clientVars, cycleVars>>

\* refs.Wipe is one batch: it deletes every reference, or fails and ends the wipe.
WipeRefs ==
    /\ wipe = "refs"
    /\ \/ /\ refs' = [n \in Names |-> None]
          /\ wipe' = "objects"
       \/ /\ UNCHANGED refs
          /\ wipe' = "idle"
    /\ UNCHANGED <<store, barrier, clientVars, cycleVars>>

\* packstore Wipe empties the store under every reader; an open span's objects
\* are gone too, so the span no longer counts on them.
WipeObjects ==
    /\ wipe = "objects"
    /\ store' = {}
    /\ written' = [c \in Clients |-> {}]
    /\ wipe' = "idle"
    /\ UNCHANGED <<refs, barrier, pc, cur, dest, visited, frontier, cycleVars>>

-----------------------------------------------------------------------------
Init ==
    /\ CSInit
    /\ capturing = FALSE
    /\ grey = {}
    /\ pc = [c \in Clients |-> "idle"]
    /\ cur = [c \in Clients |-> None]
    /\ dest = [c \in Clients |-> None]
    /\ visited = [c \in Clients |-> {}]
    /\ frontier = [c \in Clients |-> {}]
    /\ written = [c \in Clients |-> {}]
    /\ cycle = "idle"
    /\ cancelled = FALSE
    /\ roots = {}
    /\ snap = {}
    /\ marked = {}
    /\ pending = {}
    /\ wipe = "idle"

ClientStep(c) ==
    \/ SpanBegin(c) \/ WriteObserve(c) \/ WriteObject(c) \/ SpanEnd(c)
    \/ PutBegin(c) \/ WalkLevel(c) \/ WalkFails(c) \/ WalkDone(c)
    \/ RefPut(c) \/ RefPutFails(c)

CycleStep ==
    \/ CycleRegister \/ BeginBarrier \/ SnapshotRoots \/ NewMarkSet
    \/ MarkStep \/ MarkFails \/ MarkDone \/ AbortBarrier
    \/ SweepLock \/ SweepCancelled \/ Compact

WipeStep == WipeLock \/ WipeCancel \/ WipeCycleMu \/ WipeRefs \/ WipeObjects

Next == \/ \E c \in Clients : ClientStep(c)
        \/ DeleteRef
        \/ CycleRun \/ CycleCancel \/ CycleStep
        \/ WipeBegin \/ WipeStep

Spec == Init /\ [][Next]_vars

-----------------------------------------------------------------------------
(* Safety.  NoDangling is stated in ContentStore; CSSpec, the abstract      *)
(* specification, is what the collector and its clients implement together. *)

\* Every variable keeps its type, and the program points are the named ones.
TypeOK ==
    /\ CSTypeOK
    /\ capturing \in BOOLEAN
    /\ grey \in SUBSET Keys
    /\ pc \in [Clients -> ClientPoints]
    /\ cur \in [Clients -> Keys \cup {None}]
    /\ dest \in [Clients -> Names \cup {None}]
    /\ visited \in [Clients -> SUBSET Keys]
    /\ frontier \in [Clients -> SUBSET Keys]
    /\ written \in [Clients -> SUBSET Keys]
    /\ cycle \in CyclePoints
    /\ cancelled \in BOOLEAN
    /\ roots \in SUBSET Keys
    /\ snap \in SUBSET Keys
    /\ marked \in SUBSET Keys
    /\ pending \in SUBSET Keys
    /\ wipe \in WipePoints

\* While a write span is open, every object it has stored or skipped as a
\* duplicate is still in the store: "a dedup hit against a record in a
\* condemned pack" never loses the record (Collector.BeginWrite).
SpanKeepsItsObjects == \A c \in Clients : written[c] \subseteq store

\* A PUT that has passed CheckComplete writes its reference onto a tree that
\* is still complete: nothing it walked is gone by the time of refs.Put.
PreparedStaysComplete ==
    \A c \in Clients : pc[c] = "prepared" => Reach(cur[c]) \subseteq store

\* The mark never runs into a missing object, so no cycle aborts with
\* "object missing from store": what the root snapshot reaches is in the
\* (later) store snapshot and stays in the store while it is walked.
MarkFindsEveryObject == cycle = "mark" => pending \subseteq snap \cap store

\* What somebody counts on is never collected: the objects of an open write span,
\* the tree of a prepared PUT, and what the mark has yet to read.
CountedOnStays ==
    /\ SpanKeepsItsObjects
    /\ PreparedStaysComplete
    /\ MarkFindsEveryObject

-----------------------------------------------------------------------------
(* The inductive invariant: why the properties above hold. *)

\* refLock excludes: the cycle owns it only when no client holds it shared.
RefLockExcludes == cycle \in CycleOwns => Readers = {}

\* wipeMu and cycleMu exclude, and the wipe deletes references before objects.
WipeExcludes ==
    /\ wipe \in {"refs", "objects"} => cycle = "idle"
    /\ wipe \in WipeOwns => \A c \in Clients : pc[c] \notin Putting
    /\ wipe = "objects" => \A n \in Names : refs[n] = None

\* The barrier is on from the root snapshot to the end of the cycle.
BarrierOn ==
    cycle \in {"newMark", "mark", "abort"} \cup CycleOwns \cup {"sweepWait"}
        => capturing

\* Only an open span has written objects.
WrittenInSpan == \A c \in Clients : pc[c] \notin SpanPoints => written[c] = {}

\* A completeness walk: what it has visited is in the store, and what that
\* references is visited or next; once prepared, the barrier knows all of it.
WalkSound ==
    \A c \in Clients :
        /\ pc[c] = "write" => cur[c] \in Keys
        /\ pc[c] \in Putting =>
              /\ cur[c] \in visited[c] \cup frontier[c]
              /\ cur[c] \in Keys
              /\ dest[c] \in Names
              /\ visited[c] \subseteq store
              /\ \A k \in visited[c] : Children[k] \subseteq visited[c] \cup frontier[c]
        /\ pc[c] = "walkWait" => visited[c] = {}
        /\ pc[c] = "prepared" => /\ frontier[c] = {}
                                 /\ capturing => visited[c] \subseteq grey

\* A reference either was in the cycle's snapshot or is wholly grey, and what
\* the snapshot reaches stays in the store until the sweep.
RootsCovered ==
    cycle \in {"newMark", "mark", "sweepWait", "sweep"} =>
        /\ \A n \in Names :
              refs[n] # None => refs[n] \in roots \/ Reach(refs[n]) \subseteq grey
        /\ \A k \in roots : Reach(k) \subseteq store

\* The mark is a closure computation: marked keys only reference marked or
\* pending keys, and every pending key is reachable from the snapshot.
MarkSound ==
    /\ cycle \in {"mark", "sweepWait", "sweep"} =>
          /\ roots \subseteq marked \cup pending
          /\ \A k \in marked : Children[k] \subseteq marked \cup pending
          /\ \A k \in pending : \E q \in roots : k \in Reach(q)
          /\ \A q \in roots : Reach(q) \subseteq snap
    /\ cycle \in {"sweepWait", "sweep"} => pending = {}

\* The inductive invariant of the collector: each conjunct above, together
\* with the properties they protect.
IInv == /\ TypeOK
        /\ RefLockExcludes
        /\ WipeExcludes
        /\ BarrierOn
        /\ WrittenInSpan
        /\ WalkSound
        /\ RootsCovered
        /\ MarkSound
        /\ SpanKeepsItsObjects
        /\ NoDangling

-----------------------------------------------------------------------------
(* Liveness, when handlers, the cycle and the wipe keep running.  cycleMu   *)
(* is a sync.Mutex: in starvation mode it is handed to the waiting wipe and *)
(* TryLock fails, so the wipe gets it if it becomes free again and again.   *)

Fairness ==
    /\ \A c \in Clients : /\ WF_vars(SpanEnd(c))
                          /\ WF_vars(WalkLevel(c) \/ WalkFails(c) \/ WalkDone(c))
                          /\ WF_vars(RefPut(c) \/ RefPutFails(c))
    /\ WF_vars(CycleStep)
    /\ WF_vars(WipeStep)
    /\ SF_vars(WipeCycleMu)

LiveSpec == Spec /\ Fairness

\* A cycle that starts comes to an end: refLock is never withheld from it for
\* ever, however many uploads and PUTs keep arriving.
CycleEnds == cycle # "idle" ~> cycle = "idle"

\* A client blocked in refLock.RLock gets in, however often cycles run.
ReadersGetIn == \A c \in Clients : pc[c] \in Waiting ~> pc[c] \notin Waiting

\* A wipe comes to an end: it waits for the PUTs in flight and for the cycle,
\* and neither waits for it.
WipeEnds == wipe # "idle" ~> wipe = "idle"

\* Nobody starves on refLock, cycleMu and wipeMu: neither a cycle, nor a client
\* blocked by one, nor a wipe.
NobodyStarves == CycleEnds /\ ReadersGetIn /\ WipeEnds

=============================================================================
