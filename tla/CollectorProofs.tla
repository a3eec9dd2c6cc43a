-------------------------- MODULE CollectorProofs --------------------------
(***************************************************************************)
(* Proofs about Collector, for every set of keys, every child relation,     *)
(* every set of names and clients, with or without the wipe.                *)
(***************************************************************************)
EXTENDS Collector, TLAPS

-----------------------------------------------------------------------------
(* Reachability.                                                            *)

(* The least closed set: any closed set of keys that holds the root holds   *)
(* everything reachable from it.  This is what makes a finished             *)
(* CheckComplete walk, or a finished mark, cover a whole tree.              *)
LEMMA ReachLeast ==
    ASSUME NEW k, NEW S \in SUBSET Keys, k \in S, Closed(S)
    PROVE  Reach(k) \subseteq S
BY DEF Reach

(* Reach itself is such a set: it holds its root and all children of its    *)
(* members, so the mark never leaves what the snapshot reaches.             *)
LEMMA ReachClosed ==
    ASSUME NEW k \in Keys
    PROVE  /\ k \in Reach(k)
           /\ Reach(k) \subseteq Keys
           /\ \A x \in Reach(k) : Children[x] \subseteq Reach(k)
<1>1. k \in Reach(k) /\ Reach(k) \subseteq Keys
  BY DEF Reach
<1>2. ASSUME NEW x \in Reach(k), NEW y \in Children[x]
      PROVE  y \in Reach(k)
  <2>1. x \in Keys /\ y \in Keys
    BY <1>2, <1>1, ChildrenAssumption
  <2>2. ASSUME NEW S \in SUBSET Keys, k \in S, Closed(S) PROVE y \in S
    BY <1>2, <2>2 DEF Reach, Closed
  <2> QED BY <2>1, <2>2 DEF Reach
<1> QED BY <1>1, <1>2

(* No reference dangles, name by name.                                      *)
LEMMA NoDanglingByName ==
    NoDangling <=> \A n \in Names : refs[n] # None => Reach(refs[n]) \subseteq store
BY DEF NoDangling, Live, RootsOf

-----------------------------------------------------------------------------
(* The invariant is inductive: one lemma per action.                        *)

USE DEF storeVars, barrier, clientVars, markVars, cycleVars

(* The empty store with no cycle, no client and no wipe satisfies IInv.     *)
LEMMA InitIInv == Init => IInv
BY NoDanglingByName, ZenonT(30)
   DEF Init, CSInit, IInv, TypeOK, CSTypeOK, RefLockExcludes, WipeExcludes, BarrierOn,
       WrittenInSpan, WalkSound, RootsCovered, MarkSound, SpanKeepsItsObjects,
       ClientPoints, CyclePoints, WipePoints, CycleOwns, WipeOwns, CycleWaits,
       SpanPoints, PutPoints, Putting, Waiting

(* BeginWrite takes refLock shared only when no cycle owns or awaits it.    *)
LEMMA SpanBeginIInv ==
    ASSUME IInv, NEW c \in Clients, SpanBegin(c) PROVE IInv'
<1>1. TypeOK'
  BY DEF IInv, SpanBegin, TypeOK, CSTypeOK, ClientPoints, SpanPoints, PutPoints, Waiting
<1>2. RefLockExcludes' /\ WipeExcludes' /\ BarrierOn'
  BY DEF IInv, SpanBegin, TypeOK, RefLockExcludes, WipeExcludes, BarrierOn, Readers,
         CycleOwns, WipeOwns, SpanPoints, PutPoints, Putting, Waiting, RLockFree,
         CycleWaits
<1>3. WrittenInSpan' /\ SpanKeepsItsObjects' /\ WalkSound'
  BY DEF IInv, SpanBegin, TypeOK, CSTypeOK, WrittenInSpan, SpanKeepsItsObjects,
         WalkSound, SpanPoints, PutPoints, Putting, Waiting
<1>4. RootsCovered' /\ MarkSound' /\ NoDangling'
  BY DEF IInv, SpanBegin, RootsCovered, MarkSound, NoDangling, Live, RootsOf
<1> QED BY <1>1, <1>2, <1>3, <1>4 DEF IInv

(* Observing the next object of a span only adds to the grey set.           *)
LEMMA WriteObserveIInv ==
    ASSUME IInv, NEW c \in Clients, WriteObserve(c) PROVE IInv'
<1>1. TypeOK'
  BY DEF IInv, WriteObserve, Observe, TypeOK, CSTypeOK, ClientPoints, SpanPoints,
         PutPoints, Waiting
<1>2. RefLockExcludes' /\ WipeExcludes' /\ BarrierOn'
  BY DEF IInv, WriteObserve, Observe, TypeOK, RefLockExcludes, WipeExcludes,
         BarrierOn, Readers, CycleOwns, WipeOwns, SpanPoints, PutPoints, Putting,
         Waiting
<1>3. WrittenInSpan' /\ SpanKeepsItsObjects' /\ WalkSound'
  BY DEF IInv, WriteObserve, Observe, TypeOK, CSTypeOK, WrittenInSpan,
         SpanKeepsItsObjects, WalkSound, SpanPoints, PutPoints, Putting, Waiting
<1>4. RootsCovered' /\ MarkSound' /\ NoDangling'
  BY DEF IInv, WriteObserve, Observe, RootsCovered, MarkSound, NoDangling, Live, RootsOf
<1> QED BY <1>1, <1>2, <1>3, <1>4 DEF IInv

(* An append keeps every object, so it breaks no tree that was complete.    *)
LEMMA WriteObjectIInv ==
    ASSUME IInv, NEW c \in Clients, WriteObject(c) PROVE IInv'
<1>1. TypeOK'
  BY DEF IInv, WriteObject, TypeOK, CSTypeOK, ClientPoints, SpanPoints, PutPoints,
         Waiting, WalkSound
<1>2. RefLockExcludes' /\ WipeExcludes' /\ BarrierOn'
  BY DEF IInv, WriteObject, TypeOK, RefLockExcludes, WipeExcludes, BarrierOn,
         Readers, CycleOwns, WipeOwns, SpanPoints, PutPoints, Putting, Waiting
<1>3. WrittenInSpan' /\ SpanKeepsItsObjects' /\ WalkSound'
  BY DEF IInv, WriteObject, TypeOK, CSTypeOK, WrittenInSpan, SpanKeepsItsObjects,
         WalkSound, SpanPoints, PutPoints, Putting, Waiting
<1>4. RootsCovered' /\ MarkSound' /\ NoDangling'
  BY DEF IInv, WriteObject, RootsCovered, MarkSound, NoDangling, Live, RootsOf
<1> QED BY <1>1, <1>2, <1>3, <1>4 DEF IInv

(* Ending a span gives up the lock and the claim on its objects.            *)
LEMMA SpanEndIInv ==
    ASSUME IInv, NEW c \in Clients, SpanEnd(c) PROVE IInv'
<1>1. TypeOK'
  BY DEF IInv, SpanEnd, Return, TypeOK, CSTypeOK, ClientPoints, SpanPoints,
         PutPoints, Waiting
<1>2. RefLockExcludes' /\ WipeExcludes' /\ BarrierOn'
  BY DEF IInv, SpanEnd, Return, TypeOK, RefLockExcludes, WipeExcludes, BarrierOn,
         Readers, CycleOwns, WipeOwns, SpanPoints, PutPoints, Putting, Waiting
<1>3. WrittenInSpan' /\ SpanKeepsItsObjects' /\ WalkSound'
  BY DEF IInv, SpanEnd, Return, TypeOK, CSTypeOK, WrittenInSpan,
         SpanKeepsItsObjects, WalkSound, SpanPoints, PutPoints, Putting, Waiting
<1>4. RootsCovered' /\ MarkSound' /\ NoDangling'
  BY DEF IInv, SpanEnd, Return, RootsCovered, MarkSound, NoDangling, Live, RootsOf
<1> QED BY <1>1, <1>2, <1>3, <1>4 DEF IInv

(* A PUT starts its walk from a frontier that is just the root.             *)
LEMMA PutBeginIInv ==
    ASSUME IInv, NEW c \in Clients, PutBegin(c) PROVE IInv'
<1>1. TypeOK'
  BY DEF IInv, PutBegin, TypeOK, CSTypeOK, ClientPoints, SpanPoints, PutPoints, Waiting
<1>2. RefLockExcludes' /\ WipeExcludes' /\ BarrierOn'
  BY DEF IInv, PutBegin, TypeOK, RefLockExcludes, WipeExcludes, BarrierOn, Readers,
         CycleOwns, WipeOwns, SpanPoints, PutPoints, Putting, Waiting, RLockFree,
         CycleWaits
<1>3. WrittenInSpan' /\ SpanKeepsItsObjects' /\ WalkSound'
  BY DEF IInv, PutBegin, TypeOK, CSTypeOK, WrittenInSpan, SpanKeepsItsObjects,
         WalkSound, SpanPoints, PutPoints, Putting, Waiting
<1>4. RootsCovered' /\ MarkSound' /\ NoDangling'
  BY DEF IInv, PutBegin, RootsCovered, MarkSound, NoDangling, Live, RootsOf
<1> QED BY <1>1, <1>2, <1>3, <1>4 DEF IInv

(* A level of CheckComplete keeps visited inside the store, and the children*)
(* of visited keys in visited or the frontier.                              *)
LEMMA WalkLevelIInv ==
    ASSUME IInv, NEW c \in Clients, WalkLevel(c) PROVE IInv'
<1> DEFINE seen == visited[c] \cup frontier[c]
           next == (UNION {Children[k] : k \in frontier[c]}) \ seen
<1>1. visited[c] \subseteq Keys /\ frontier[c] \subseteq Keys /\ next \subseteq Keys
  BY ChildrenAssumption DEF IInv, TypeOK
<1>2. /\ visited' = [visited EXCEPT ![c] = seen]
      /\ frontier' = [frontier EXCEPT ![c] = next]
      /\ UNCHANGED <<pc, cur, dest, written, storeVars, barrier, cycleVars, wipe>>
      /\ pc[c] = "walk"
  BY DEF WalkLevel
<1>3. ASSUME NEW k \in seen PROVE Children[k] \subseteq seen \cup next
  <2>1. CASE k \in frontier[c]
    BY <2>1
  <2>2. CASE k \in visited[c]
    BY <2>2, <1>2 DEF IInv, WalkSound, Putting, PutPoints
  <2> QED BY <1>3, <2>1, <2>2
<1>4. cur[c] \in seen /\ seen \subseteq store
  BY <1>2 DEF IInv, WalkLevel, WalkSound, Putting, PutPoints
<1> HIDE DEF seen, next
<1>5. TypeOK'
  BY <1>1, <1>2 DEF IInv, TypeOK, CSTypeOK, seen
<1>6. WalkSound'
  BY <1>2, <1>3, <1>4 DEF IInv, TypeOK, WalkSound
<1>7. RefLockExcludes' /\ WipeExcludes' /\ BarrierOn' /\ WrittenInSpan'
      /\ SpanKeepsItsObjects' /\ RootsCovered' /\ MarkSound' /\ NoDangling'
  BY <1>2 DEF IInv, RefLockExcludes, WipeExcludes, BarrierOn, WrittenInSpan, Readers,
              SpanKeepsItsObjects, RootsCovered, MarkSound, NoDangling, Live, RootsOf
<1> QED BY <1>5, <1>6, <1>7 DEF IInv

(* A walk that fails gives up the lock and everything it had found.         *)
LEMMA WalkFailsIInv ==
    ASSUME IInv, NEW c \in Clients, WalkFails(c) PROVE IInv'
<1>1. TypeOK'
  BY DEF IInv, WalkFails, Return, TypeOK, CSTypeOK, ClientPoints
<1>2. RefLockExcludes' /\ WipeExcludes' /\ BarrierOn'
  BY DEF IInv, WalkFails, Return, TypeOK, RefLockExcludes, WipeExcludes, BarrierOn,
         Readers, SpanPoints, PutPoints, Putting
<1>3. WrittenInSpan' /\ SpanKeepsItsObjects' /\ WalkSound'
  BY DEF IInv, WalkFails, Return, TypeOK, WrittenInSpan, SpanKeepsItsObjects,
         WalkSound, Putting, PutPoints
<1>4. RootsCovered' /\ MarkSound' /\ NoDangling'
  BY DEF IInv, WalkFails, RootsCovered, MarkSound, NoDangling, Live, RootsOf
<1> QED BY <1>1, <1>2, <1>3, <1>4 DEF IInv

(* A finished walk hands its whole closure to the barrier before refs.Put.  *)
LEMMA WalkDoneIInv ==
    ASSUME IInv, NEW c \in Clients, WalkDone(c) PROVE IInv'
<1>1. TypeOK'
  BY DEF IInv, WalkDone, Observe, TypeOK, CSTypeOK, ClientPoints, SpanPoints,
         PutPoints, Waiting
<1>2. RefLockExcludes' /\ WipeExcludes' /\ BarrierOn'
  BY DEF IInv, WalkDone, Observe, TypeOK, RefLockExcludes, WipeExcludes, BarrierOn,
         Readers, CycleOwns, WipeOwns, SpanPoints, PutPoints, Putting, Waiting
<1>3. WrittenInSpan' /\ SpanKeepsItsObjects' /\ WalkSound'
  BY DEF IInv, WalkDone, Observe, TypeOK, CSTypeOK, WrittenInSpan,
         SpanKeepsItsObjects, WalkSound, SpanPoints, PutPoints, Putting, Waiting
<1>4. RootsCovered' /\ MarkSound' /\ NoDangling'
  BY DEF IInv, WalkDone, Observe, RootsCovered, MarkSound, NoDangling, Live, RootsOf
<1> QED BY <1>1, <1>2, <1>3, <1>4 DEF IInv

(* When a walk has ended, what it visited is closed under children, so it   *)
(* holds the whole tree under the root: all of it is in the store, and all  *)
(* of it is grey if the barrier is on.                                      *)
LEMMA PreparedTree ==
    ASSUME IInv, NEW c \in Clients, pc[c] = "prepared"
    PROVE  /\ Reach(cur[c]) \subseteq store
           /\ capturing => Reach(cur[c]) \subseteq grey
<1>1. /\ visited[c] \in SUBSET Keys
      /\ cur[c] \in visited[c]
      /\ Closed(visited[c])
      /\ visited[c] \subseteq store
      /\ capturing => visited[c] \subseteq grey
  BY DEF IInv, TypeOK, WalkSound, Putting, PutPoints, Closed
<1>2. Reach(cur[c]) \subseteq visited[c]
  BY <1>1, ReachLeast
<1> QED BY <1>1, <1>2

(* refs.Put publishes a complete tree, and a wholly grey one during a cycle.*)
LEMMA RefPutIInv ==
    ASSUME IInv, NEW c \in Clients, RefPut(c) PROVE IInv'
<1>1. TypeOK'
  BY DEF IInv, RefPut, Return, TypeOK, CSTypeOK, ClientPoints, SpanPoints,
         PutPoints, Waiting
<1>2. RefLockExcludes' /\ WipeExcludes' /\ BarrierOn'
  BY DEF IInv, RefPut, Return, TypeOK, RefLockExcludes, WipeExcludes, BarrierOn,
         Readers, CycleOwns, WipeOwns, SpanPoints, PutPoints, Putting, Waiting
<1>3. WrittenInSpan' /\ SpanKeepsItsObjects' /\ WalkSound'
  BY DEF IInv, RefPut, Return, TypeOK, CSTypeOK, WrittenInSpan, SpanKeepsItsObjects,
         WalkSound, SpanPoints, PutPoints, Putting, Waiting
<1>4. cur[c] \in Keys /\ refs' = [refs EXCEPT ![dest[c]] = cur[c]]
  BY DEF IInv, RefPut, WalkSound, Putting, PutPoints
<1>5. RootsCovered'
  <2>1. cycle \in {"newMark", "mark", "sweepWait", "sweep"} => capturing
    BY DEF IInv, BarrierOn, CycleOwns
  <2>2. capturing => Reach(cur[c]) \subseteq grey
    BY PreparedTree DEF RefPut
  <2> QED BY <1>4, <2>1, <2>2 DEF IInv, RefPut, Return, TypeOK, CSTypeOK, RootsCovered
<1>6. NoDangling'
  <2>1. Reach(cur[c]) \subseteq store
    BY PreparedTree DEF RefPut
  <2> QED BY <1>4, <2>1 DEF IInv, RefPut, Return, TypeOK, CSTypeOK, NoDangling, Live, RootsOf
<1>7. MarkSound'
  BY DEF IInv, RefPut, MarkSound
<1> QED BY <1>1, <1>2, <1>3, <1>5, <1>6, <1>7 DEF IInv

(* A PUT whose refs.Put failed changes nothing but its own locals.          *)
LEMMA RefPutFailsIInv ==
    ASSUME IInv, NEW c \in Clients, RefPutFails(c) PROVE IInv'
<1>1. TypeOK'
  BY DEF IInv, RefPutFails, Return, TypeOK, CSTypeOK, ClientPoints, SpanPoints,
         PutPoints, Waiting
<1>2. RefLockExcludes' /\ WipeExcludes' /\ BarrierOn'
  BY DEF IInv, RefPutFails, Return, TypeOK, RefLockExcludes, WipeExcludes,
         BarrierOn, Readers, CycleOwns, WipeOwns, SpanPoints, PutPoints, Putting,
         Waiting
<1>3. WrittenInSpan' /\ SpanKeepsItsObjects' /\ WalkSound'
  BY DEF IInv, RefPutFails, Return, TypeOK, CSTypeOK, WrittenInSpan,
         SpanKeepsItsObjects, WalkSound, SpanPoints, PutPoints, Putting, Waiting
<1>4. RootsCovered' /\ MarkSound' /\ NoDangling'
  BY DEF IInv, RefPutFails, Return, RootsCovered, MarkSound, NoDangling, Live, RootsOf
<1> QED BY <1>1, <1>2, <1>3, <1>4 DEF IInv

(* Deleting a reference takes no lock of the collector and needs none.      *)
LEMMA DeleteRefIInv ==
    ASSUME IInv, DeleteRef PROVE IInv'
<1>1. TypeOK'
  BY DEF IInv, DeleteRef, TypeOK, CSTypeOK
<1>2. RefLockExcludes' /\ WipeExcludes' /\ BarrierOn'
  BY DEF IInv, DeleteRef, TypeOK, RefLockExcludes, WipeExcludes, BarrierOn, Readers,
         CycleOwns, WipeOwns, SpanPoints, PutPoints, Putting, Waiting
<1>3. WrittenInSpan' /\ SpanKeepsItsObjects' /\ WalkSound'
  BY DEF IInv, DeleteRef, TypeOK, CSTypeOK, WrittenInSpan, SpanKeepsItsObjects,
         WalkSound, SpanPoints, PutPoints, Putting, Waiting
<1>4. RootsCovered' /\ MarkSound' /\ NoDangling'
  BY DEF IInv, DeleteRef, RootsCovered, MarkSound, NoDangling, Live, RootsOf
<1> QED BY <1>1, <1>2, <1>3, <1>4 DEF IInv

(* A cycle starts only when neither a cycle nor a wipe holds cycleMu.       *)
LEMMA CycleRunIInv ==
    ASSUME IInv, CycleRun PROVE IInv'
<1>1. TypeOK'
  BY DEF IInv, CycleRun, TypeOK, CSTypeOK, CyclePoints, CycleWaits, CycleOwns
<1>2. RefLockExcludes' /\ WipeExcludes' /\ BarrierOn'
  BY SMTT(30) DEF IInv, CycleRun, TypeOK, RefLockExcludes, WipeExcludes, BarrierOn, Readers,
         CycleOwns, WipeOwns, SpanPoints, PutPoints, Putting, Waiting
<1>3. WrittenInSpan' /\ SpanKeepsItsObjects' /\ WalkSound'
  BY DEF IInv, CycleRun, TypeOK, CSTypeOK, WrittenInSpan, SpanKeepsItsObjects,
         WalkSound, SpanPoints, PutPoints, Putting, Waiting
<1>4. RootsCovered' /\ MarkSound' /\ NoDangling'
  BY DEF IInv, CycleRun, RootsCovered, MarkSound, NoDangling, Live, RootsOf
<1> QED BY <1>1, <1>2, <1>3, <1>4 DEF IInv

(* Registering cancelCycle changes no state the invariant relates.          *)
LEMMA CycleRegisterIInv ==
    ASSUME IInv, CycleRegister PROVE IInv'
<1>1. TypeOK'
  BY DEF IInv, CycleRegister, TypeOK, CSTypeOK, CyclePoints, CycleWaits, CycleOwns
<1>2. RefLockExcludes' /\ WipeExcludes' /\ BarrierOn'
  BY DEF IInv, CycleRegister, TypeOK, RefLockExcludes, WipeExcludes, BarrierOn,
         Readers, CycleOwns, WipeOwns, SpanPoints, PutPoints, Putting, Waiting
<1>3. WrittenInSpan' /\ SpanKeepsItsObjects' /\ WalkSound'
  BY DEF IInv, CycleRegister, TypeOK, CSTypeOK, WrittenInSpan, SpanKeepsItsObjects,
         WalkSound, SpanPoints, PutPoints, Putting, Waiting
<1>4. RootsCovered' /\ MarkSound' /\ NoDangling'
  BY DEF IInv, CycleRegister, RootsCovered, MarkSound, NoDangling, Live, RootsOf
<1> QED BY <1>1, <1>2, <1>3, <1>4 DEF IInv

(* Cancelling a cycle at any moment is safe.                                *)
LEMMA CycleCancelIInv ==
    ASSUME IInv, CycleCancel PROVE IInv'
<1>1. TypeOK'
  BY DEF IInv, CycleCancel, TypeOK, CSTypeOK, CyclePoints, CycleWaits, CycleOwns
<1>2. RefLockExcludes' /\ WipeExcludes' /\ BarrierOn'
  BY SMTT(30) DEF IInv, CycleCancel, TypeOK, RefLockExcludes, WipeExcludes, BarrierOn,
         Readers, CycleOwns, WipeOwns, SpanPoints, PutPoints, Putting, Waiting
<1>3. WrittenInSpan' /\ SpanKeepsItsObjects' /\ WalkSound'
  BY DEF IInv, CycleCancel, TypeOK, CSTypeOK, WrittenInSpan, SpanKeepsItsObjects,
         WalkSound, SpanPoints, PutPoints, Putting, Waiting
<1>4. RootsCovered' /\ MarkSound' /\ NoDangling'
  BY DEF IInv, CycleCancel, RootsCovered, MarkSound, NoDangling, Live, RootsOf
<1> QED BY <1>1, <1>2, <1>3, <1>4 DEF IInv

(* The barrier is armed under the exclusive lock, when nobody is prepared.  *)
LEMMA BeginBarrierIInv ==
    ASSUME IInv, BeginBarrier PROVE IInv'
<1>1. TypeOK'
  BY SMTT(30) DEF IInv, BeginBarrier, LockFree, Readers, TypeOK, CSTypeOK, CyclePoints,
         CycleWaits, CycleOwns
<1>2. RefLockExcludes' /\ WipeExcludes' /\ BarrierOn'
  BY SMTT(30) DEF IInv, BeginBarrier, LockFree, Readers, TypeOK, RefLockExcludes,
         WipeExcludes, BarrierOn, Readers, CycleOwns, WipeOwns, SpanPoints,
         PutPoints, Putting, Waiting
<1>3. WrittenInSpan' /\ SpanKeepsItsObjects' /\ WalkSound'
  BY DEF IInv, BeginBarrier, LockFree, Readers, TypeOK, CSTypeOK, WrittenInSpan,
         SpanKeepsItsObjects, WalkSound, SpanPoints, PutPoints, Putting, Waiting
<1>4. RootsCovered' /\ MarkSound' /\ NoDangling'
  BY DEF IInv, BeginBarrier, LockFree, Readers, RootsCovered, MarkSound, NoDangling,
         Live, RootsOf
<1> QED BY <1>1, <1>2, <1>3, <1>4 DEF IInv

(* The snapshot holds every root, and the readers that waited get in.       *)
LEMMA SnapshotRootsIInv ==
    ASSUME IInv, SnapshotRoots PROVE IInv'
<1>1. TypeOK'
  BY DEF IInv, SnapshotRoots, Admit, TypeOK, CSTypeOK, CyclePoints, CycleWaits,
         CycleOwns, RootsOf, ClientPoints, SpanPoints, PutPoints, Waiting
<1>2. RefLockExcludes' /\ WipeExcludes' /\ BarrierOn'
  BY DEF IInv, SnapshotRoots, Admit, TypeOK, RefLockExcludes, WipeExcludes,
         BarrierOn, Readers, CycleOwns, WipeOwns, SpanPoints, PutPoints, Putting,
         Waiting
<1>3. WrittenInSpan' /\ SpanKeepsItsObjects' /\ WalkSound'
  BY DEF IInv, SnapshotRoots, Admit, TypeOK, CSTypeOK, WrittenInSpan,
         SpanKeepsItsObjects, WalkSound, SpanPoints, PutPoints, Putting, Waiting
<1>4. RootsCovered' /\ MarkSound' /\ NoDangling'
  BY DEF IInv, SnapshotRoots, Admit, RootsCovered, MarkSound, NoDangling, Live, RootsOf
<1> QED BY <1>1, <1>2, <1>3, <1>4 DEF IInv

(* The store snapshot, though taken after the unlock, holds all that the    *)
(* roots reach, because nothing reachable is ever removed outside a sweep.  *)
LEMMA NewMarkSetIInv ==
    ASSUME IInv, NewMarkSet PROVE IInv'
<1>1. TypeOK'
  BY DEF IInv, NewMarkSet, TypeOK, CSTypeOK, CyclePoints, CycleWaits, CycleOwns
<1>2. RefLockExcludes' /\ WipeExcludes' /\ BarrierOn'
  BY SMTT(30) DEF IInv, NewMarkSet, TypeOK, RefLockExcludes, WipeExcludes, BarrierOn,
         Readers, CycleOwns, WipeOwns, SpanPoints, PutPoints, Putting, Waiting
<1>3. WrittenInSpan' /\ SpanKeepsItsObjects' /\ WalkSound'
  BY DEF IInv, NewMarkSet, TypeOK, CSTypeOK, WrittenInSpan, SpanKeepsItsObjects,
         WalkSound, SpanPoints, PutPoints, Putting, Waiting
<1>4. \A k \in roots : k \in Reach(k)
  BY ReachClosed DEF IInv, TypeOK
<1>5. RootsCovered' /\ NoDangling'
  BY DEF IInv, NewMarkSet, RootsCovered, NoDangling, Live, RootsOf
<1>6. MarkSound'
  BY <1>4 DEF IInv, NewMarkSet, RootsCovered, MarkSound
<1> QED BY <1>1, <1>2, <1>3, <1>5, <1>6 DEF IInv

(* Marking a key leaves its children marked or pending.                     *)
LEMMA MarkStepIInv ==
    ASSUME IInv, MarkStep PROVE IInv'
<1>1. TypeOK'
  <2>1. \A k \in pending : Children[k] \in SUBSET Keys /\ k \in Keys
    BY ChildrenAssumption DEF IInv, TypeOK
  <2>2. marked' \in SUBSET Keys /\ pending' \in SUBSET Keys
    BY <2>1 DEF IInv, MarkStep, TypeOK
  <2> QED BY <2>2 DEF IInv, MarkStep, TypeOK, CSTypeOK, CyclePoints, CycleWaits, CycleOwns
<1>2. RefLockExcludes' /\ WipeExcludes' /\ BarrierOn'
  BY SMTT(30) DEF IInv, MarkStep, TypeOK, RefLockExcludes, WipeExcludes, BarrierOn, Readers,
         CycleOwns, WipeOwns, SpanPoints, PutPoints, Putting, Waiting
<1>3. WrittenInSpan' /\ SpanKeepsItsObjects' /\ WalkSound'
  BY DEF IInv, MarkStep, TypeOK, CSTypeOK, WrittenInSpan, SpanKeepsItsObjects,
         WalkSound, SpanPoints, PutPoints, Putting, Waiting
<1>4. RootsCovered' /\ NoDangling'
  BY DEF IInv, MarkStep, RootsCovered, NoDangling, Live, RootsOf
<1>5. PICK k \in pending :
         IF k \notin snap \cap store
         THEN cycle' = "abort" /\ UNCHANGED <<marked, pending>>
         ELSE /\ marked' = marked \cup {k}
              /\ pending' = (pending \ {k}) \cup (IF k \in marked THEN {} ELSE Children[k])
              /\ UNCHANGED cycle
  BY DEF MarkStep
<1>6. UNCHANGED <<roots, snap>> /\ cycle = "mark"
  BY DEF MarkStep
<1>7. \A q \in roots : k \in Reach(q) => Children[k] \subseteq Reach(q)
  BY ReachClosed DEF IInv, TypeOK, Closed
<1>8. MarkSound'
  <2>1. CASE k \notin snap \cap store
    BY <2>1, <1>5 DEF MarkSound
  <2>2. CASE k \in snap \cap store
    <3>1. /\ marked' = marked \cup {k}
          /\ pending' = (pending \ {k}) \cup (IF k \in marked THEN {} ELSE Children[k])
          /\ cycle' = "mark"
      BY <2>2, <1>5, <1>6
    <3>2. /\ roots \subseteq marked \cup pending
          /\ \A j \in marked : Children[j] \subseteq marked \cup pending
          /\ \A j \in pending : \E q \in roots : j \in Reach(q)
          /\ \A q \in roots : Reach(q) \subseteq snap
      BY <1>6 DEF IInv, MarkSound
    <3>3. roots' \subseteq marked' \cup pending'
      BY <1>6, <3>1, <3>2
    <3>4. \A j \in marked' : Children[j] \subseteq marked' \cup pending'
      <4>1. Children[k] \subseteq marked' \cup pending'
        BY <3>1, <3>2
      <4>2. \A j \in marked : Children[j] \subseteq marked' \cup pending'
        BY <3>1, <3>2
      <4> QED BY <3>1, <4>1, <4>2
    <3>5. \A j \in pending' : \E q \in roots' : j \in Reach(q)
      BY <1>6, <1>7, <3>1, <3>2
    <3>6. \A q \in roots' : Reach(q) \subseteq snap'
      BY <1>6, <3>2
    <3> QED BY <3>1, <3>3, <3>4, <3>5, <3>6 DEF MarkSound
  <2> QED BY <2>1, <2>2
<1> QED BY <1>1, <1>2, <1>3, <1>4, <1>8, SMTT(30) DEF IInv

(* A mark that is cancelled or fails only goes to the abort path.           *)
LEMMA MarkFailsIInv ==
    ASSUME IInv, MarkFails PROVE IInv'
<1>1. TypeOK'
  BY DEF IInv, MarkFails, TypeOK, CSTypeOK, CyclePoints, CycleWaits, CycleOwns
<1>2. RefLockExcludes' /\ WipeExcludes' /\ BarrierOn'
  BY SMTT(30) DEF IInv, MarkFails, TypeOK, RefLockExcludes, WipeExcludes, BarrierOn,
         Readers, CycleOwns, WipeOwns, SpanPoints, PutPoints, Putting, Waiting
<1>3. WrittenInSpan' /\ SpanKeepsItsObjects' /\ WalkSound'
  BY SMTT(30) DEF IInv, MarkFails, TypeOK, CSTypeOK, WrittenInSpan, SpanKeepsItsObjects,
         WalkSound, SpanPoints, PutPoints, Putting, Waiting
<1>4. RootsCovered' /\ MarkSound' /\ NoDangling'
  BY DEF IInv, MarkFails, RootsCovered, MarkSound, NoDangling, Live, RootsOf
<1> QED BY <1>1, <1>2, <1>3, <1>4 DEF IInv

(* Disarming the barrier without the lock is safe: nothing will be swept.   *)
LEMMA AbortBarrierIInv ==
    ASSUME IInv, AbortBarrier PROVE IInv'
<1>1. TypeOK'
  BY ZenonT(30) DEF IInv, AbortBarrier, EndCycle, EndCapture, TypeOK, CSTypeOK, CyclePoints,
         CycleWaits, CycleOwns
<1>2. RefLockExcludes' /\ WipeExcludes' /\ BarrierOn'
  BY SMTT(30) DEF IInv, AbortBarrier, EndCycle, EndCapture, TypeOK, RefLockExcludes,
         WipeExcludes, BarrierOn, Readers, CycleOwns, WipeOwns, SpanPoints,
         PutPoints, Putting, Waiting
<1>3. WrittenInSpan' /\ SpanKeepsItsObjects' /\ WalkSound'
  BY SMTT(30) DEF IInv, AbortBarrier, EndCycle, EndCapture, TypeOK, CSTypeOK, WrittenInSpan,
         SpanKeepsItsObjects, WalkSound, SpanPoints, PutPoints, Putting, Waiting
<1>4. RootsCovered' /\ MarkSound' /\ NoDangling'
  BY DEF IInv, AbortBarrier, EndCycle, EndCapture, RootsCovered, MarkSound,
         NoDangling, Live, RootsOf
<1> QED BY <1>1, <1>2, <1>3, <1>4 DEF IInv

(* The mark ends with nothing pending.                                      *)
LEMMA MarkDoneIInv ==
    ASSUME IInv, MarkDone PROVE IInv'
<1>1. TypeOK'
  BY SMTT(30) DEF IInv, MarkDone, TypeOK, CSTypeOK, CyclePoints, CycleWaits, CycleOwns
<1>2. RefLockExcludes' /\ WipeExcludes' /\ BarrierOn'
  BY SMTT(30) DEF IInv, MarkDone, TypeOK, RefLockExcludes, WipeExcludes, BarrierOn, Readers,
         CycleOwns, WipeOwns, SpanPoints, PutPoints, Putting, Waiting
<1>3. WrittenInSpan' /\ SpanKeepsItsObjects' /\ WalkSound'
  BY SMTT(30) DEF IInv, MarkDone, TypeOK, CSTypeOK, WrittenInSpan, SpanKeepsItsObjects,
         WalkSound, SpanPoints, PutPoints, Putting, Waiting
<1>4. RootsCovered' /\ MarkSound' /\ NoDangling'
  BY DEF IInv, MarkDone, RootsCovered, MarkSound, NoDangling, Live, RootsOf
<1> QED BY <1>1, <1>2, <1>3, <1>4 DEF IInv

(* The sweep gets the lock when no span and no PUT is in flight.            *)
LEMMA SweepLockIInv ==
    ASSUME IInv, SweepLock PROVE IInv'
<1>1. TypeOK'
  BY SMTT(30) DEF IInv, SweepLock, LockFree, Readers, TypeOK, CSTypeOK, CyclePoints,
         CycleWaits, CycleOwns
<1>2. RefLockExcludes' /\ WipeExcludes' /\ BarrierOn'
  BY SMTT(30) DEF IInv, SweepLock, LockFree, Readers, TypeOK, RefLockExcludes, WipeExcludes,
         BarrierOn, Readers, CycleOwns, WipeOwns, SpanPoints, PutPoints, Putting,
         Waiting
<1>3. WrittenInSpan' /\ SpanKeepsItsObjects' /\ WalkSound'
  BY DEF IInv, SweepLock, LockFree, Readers, TypeOK, CSTypeOK, WrittenInSpan,
         SpanKeepsItsObjects, WalkSound, SpanPoints, PutPoints, Putting, Waiting
<1>4. RootsCovered' /\ MarkSound' /\ NoDangling'
  BY DEF IInv, SweepLock, LockFree, Readers, RootsCovered, MarkSound, NoDangling,
         Live, RootsOf
<1> QED BY <1>1, <1>2, <1>3, <1>4 DEF IInv

(* A cycle cancelled at the sweep releases everything unswept.              *)
LEMMA SweepCancelledIInv ==
    ASSUME IInv, SweepCancelled PROVE IInv'
<1>1. TypeOK'
  BY DEF IInv, SweepCancelled, EndCycle, EndCapture, Admit, TypeOK, CSTypeOK,
         CyclePoints, CycleWaits, CycleOwns, ClientPoints, SpanPoints, PutPoints,
         Waiting
<1>2. RefLockExcludes' /\ WipeExcludes' /\ BarrierOn'
  BY DEF IInv, SweepCancelled, EndCycle, EndCapture, Admit, TypeOK, RefLockExcludes,
         WipeExcludes, BarrierOn, Readers, CycleOwns, WipeOwns, SpanPoints,
         PutPoints, Putting, Waiting
<1>3. WrittenInSpan' /\ SpanKeepsItsObjects' /\ WalkSound'
  BY DEF IInv, SweepCancelled, EndCycle, EndCapture, Admit, TypeOK, CSTypeOK,
         WrittenInSpan, SpanKeepsItsObjects, WalkSound, SpanPoints, PutPoints,
         Putting, Waiting
<1>4. RootsCovered' /\ MarkSound' /\ NoDangling'
  BY DEF IInv, SweepCancelled, EndCycle, EndCapture, Admit, RootsCovered, MarkSound,
         NoDangling, Live, RootsOf
<1> QED BY <1>1, <1>2, <1>3, <1>4 DEF IInv

(* At the sweep the mark set holds everything the snapshot of the roots     *)
(* reaches, and a reference outside the snapshot is wholly grey: Compact    *)
(* keeps every object that some reference reaches.                          *)
LEMMA LiveIsKept ==
    ASSUME IInv, cycle = "sweep" PROVE \A k \in Live : IsLive(k)
<1>1. marked \in SUBSET Keys /\ Closed(marked) /\ roots \subseteq marked
  BY DEF IInv, TypeOK, MarkSound, Closed
<1>2. \A q \in roots : Reach(q) \subseteq marked
  BY <1>1, ReachLeast
<1>3. \A n \in Names : refs[n] # None => refs[n] \in roots \/ Reach(refs[n]) \subseteq grey
  BY DEF IInv, RootsCovered
<1>4. \A n \in Names : refs[n] # None => Reach(refs[n]) \subseteq grey \cup marked
  BY <1>2, <1>3
<1> QED BY <1>4 DEF Live, RootsOf, IsLive

(* The sweep removes nothing that is live, and no open span or walk sees it.*)
LEMMA CompactIInv ==
    ASSUME IInv, Compact PROVE IInv'
<1>1. TypeOK'
  BY ZenonT(30) DEF IInv, Compact, EndCycle, EndCapture, Admit, IsLive, TypeOK, CSTypeOK,
         CyclePoints, CycleWaits, CycleOwns, ClientPoints, SpanPoints, PutPoints,
         Waiting
<1>2. RefLockExcludes' /\ WipeExcludes' /\ BarrierOn'
  BY DEF IInv, Compact, EndCycle, EndCapture, Admit, IsLive, TypeOK,
         RefLockExcludes, WipeExcludes, BarrierOn, Readers, CycleOwns, WipeOwns,
         SpanPoints, PutPoints, Putting, Waiting
<1>3. WrittenInSpan' /\ SpanKeepsItsObjects' /\ WalkSound'
  <2>1. \A c \in Clients : pc[c] \notin SpanPoints \cup PutPoints /\ written[c] = {}
    BY DEF IInv, Compact, RefLockExcludes, WrittenInSpan, Readers, CycleOwns
  <2>2. WrittenInSpan' /\ SpanKeepsItsObjects'
    BY <2>1 DEF Compact, WrittenInSpan, SpanKeepsItsObjects
  <2>3. ASSUME NEW c \in Clients
        PROVE  /\ pc'[c] \in Putting => pc[c] = "walkWait"
               /\ pc'[c] \notin {"write", "walkWait", "prepared"}
    BY <2>1, SMTT(30) DEF Compact, Admit, SpanPoints, PutPoints, Putting
  <2>4. WalkSound'
    BY <2>3 DEF IInv, Compact, WalkSound, Putting
  <2> QED BY <2>2, <2>4
<1>4. \A k \in Live : IsLive(k)
  BY LiveIsKept DEF Compact
<1>5. NoDangling'
  BY <1>4, SMTT(30) DEF IInv, Compact, NoDangling, Live, RootsOf
<1>6. RootsCovered' /\ MarkSound'
  BY SMTT(30) DEF Compact, EndCycle, RootsCovered, MarkSound
<1> QED BY <1>1, <1>2, <1>3, <1>5, <1>6 DEF IInv

(* A wipe that only asks for wipeMu changes nothing else.                   *)
LEMMA WipeBeginIInv ==
    ASSUME IInv, WipeBegin PROVE IInv'
<1>1. TypeOK'
  BY SMTT(30) DEF IInv, WipeBegin, TypeOK, CSTypeOK, WipePoints, WipeOwns
<1>2. RefLockExcludes' /\ WipeExcludes' /\ BarrierOn'
  BY SMTT(30) DEF IInv, WipeBegin, TypeOK, RefLockExcludes, WipeExcludes, BarrierOn, Readers,
         CycleOwns, WipeOwns, SpanPoints, PutPoints, Putting, Waiting
<1>3. WrittenInSpan' /\ SpanKeepsItsObjects' /\ WalkSound'
  BY SMTT(30) DEF IInv, WipeBegin, TypeOK, CSTypeOK, WrittenInSpan, SpanKeepsItsObjects,
         WalkSound, SpanPoints, PutPoints, Putting, Waiting
<1>4. RootsCovered' /\ MarkSound' /\ NoDangling'
  BY SMTT(30) DEF IInv, WipeBegin, RootsCovered, MarkSound, NoDangling, Live, RootsOf
<1> QED BY <1>1, <1>2, <1>3, <1>4 DEF IInv

(* wipeMu is taken exclusively when no PUT is in flight.                    *)
LEMMA WipeLockIInv ==
    ASSUME IInv, WipeLock PROVE IInv'
<1>1. TypeOK'
  BY SMTT(30) DEF IInv, WipeLock, TypeOK, CSTypeOK, WipePoints, WipeOwns
<1>2. RefLockExcludes' /\ WipeExcludes' /\ BarrierOn'
  BY SMTT(30) DEF IInv, WipeLock, TypeOK, RefLockExcludes, WipeExcludes, BarrierOn, Readers,
         CycleOwns, WipeOwns, SpanPoints, PutPoints, Putting, Waiting
<1>3. WrittenInSpan' /\ SpanKeepsItsObjects' /\ WalkSound'
  BY DEF IInv, WipeLock, TypeOK, CSTypeOK, WrittenInSpan, SpanKeepsItsObjects,
         WalkSound, SpanPoints, PutPoints, Putting, Waiting
<1>4. RootsCovered' /\ MarkSound' /\ NoDangling'
  BY DEF IInv, WipeLock, RootsCovered, MarkSound, NoDangling, Live, RootsOf
<1> QED BY <1>1, <1>2, <1>3, <1>4 DEF IInv

(* The wipe's cancelCycle is a cancellation like any other.                 *)
LEMMA WipeCancelIInv ==
    ASSUME IInv, WipeCancel PROVE IInv'
<1>1. TypeOK'
  BY SMTT(30) DEF IInv, WipeCancel, TypeOK, CSTypeOK, WipePoints, WipeOwns
<1>2. RefLockExcludes' /\ WipeExcludes' /\ BarrierOn'
  BY SMTT(30) DEF IInv, WipeCancel, TypeOK, RefLockExcludes, WipeExcludes, BarrierOn,
         Readers, CycleOwns, WipeOwns, SpanPoints, PutPoints, Putting, Waiting
<1>3. WrittenInSpan' /\ SpanKeepsItsObjects' /\ WalkSound'
  BY DEF IInv, WipeCancel, TypeOK, CSTypeOK, WrittenInSpan, SpanKeepsItsObjects,
         WalkSound, SpanPoints, PutPoints, Putting, Waiting
<1>4. RootsCovered' /\ MarkSound' /\ NoDangling'
  BY DEF IInv, WipeCancel, RootsCovered, MarkSound, NoDangling, Live, RootsOf
<1> QED BY <1>1, <1>2, <1>3, <1>4 DEF IInv

(* The wipe gets cycleMu when no cycle runs.                                *)
LEMMA WipeCycleMuIInv ==
    ASSUME IInv, WipeCycleMu PROVE IInv'
<1>1. TypeOK'
  BY SMTT(30) DEF IInv, WipeCycleMu, TypeOK, CSTypeOK, WipePoints, WipeOwns
<1>2. RefLockExcludes' /\ WipeExcludes' /\ BarrierOn'
  BY SMTT(30) DEF IInv, WipeCycleMu, TypeOK, RefLockExcludes, WipeExcludes, BarrierOn,
         Readers, CycleOwns, WipeOwns, SpanPoints, PutPoints, Putting, Waiting
<1>3. WrittenInSpan' /\ SpanKeepsItsObjects' /\ WalkSound'
  BY DEF IInv, WipeCycleMu, TypeOK, CSTypeOK, WrittenInSpan, SpanKeepsItsObjects,
         WalkSound, SpanPoints, PutPoints, Putting, Waiting
<1>4. RootsCovered' /\ MarkSound' /\ NoDangling'
  BY DEF IInv, WipeCycleMu, RootsCovered, MarkSound, NoDangling, Live, RootsOf
<1> QED BY <1>1, <1>2, <1>3, <1>4 DEF IInv

(* All references go in one batch, or none does.                            *)
LEMMA WipeRefsIInv ==
    ASSUME IInv, WipeRefs PROVE IInv'
<1>1. TypeOK'
  BY DEF IInv, WipeRefs, TypeOK, CSTypeOK, WipePoints, WipeOwns
<1>2. RefLockExcludes' /\ WipeExcludes' /\ BarrierOn'
  BY SMTT(30) DEF IInv, WipeRefs, TypeOK, RefLockExcludes, WipeExcludes, BarrierOn, Readers,
         CycleOwns, WipeOwns, SpanPoints, PutPoints, Putting, Waiting
<1>3. WrittenInSpan' /\ SpanKeepsItsObjects' /\ WalkSound'
  BY DEF IInv, WipeRefs, TypeOK, CSTypeOK, WrittenInSpan, SpanKeepsItsObjects,
         WalkSound, SpanPoints, PutPoints, Putting, Waiting
<1>4. RootsCovered' /\ MarkSound' /\ NoDangling'
  BY DEF IInv, WipeRefs, RootsCovered, MarkSound, NoDangling, Live, RootsOf
<1> QED BY <1>1, <1>2, <1>3, <1>4 DEF IInv

(* The objects go when no reference, no PUT and no cycle is left.           *)
LEMMA WipeObjectsIInv ==
    ASSUME IInv, WipeObjects PROVE IInv'
<1>1. TypeOK'
  BY SMTT(30) DEF IInv, WipeObjects, TypeOK, CSTypeOK, WipePoints, WipeOwns
<1>2. RefLockExcludes' /\ WipeExcludes' /\ BarrierOn'
  BY DEF IInv, WipeObjects, TypeOK, RefLockExcludes, WipeExcludes, BarrierOn,
         Readers, CycleOwns, WipeOwns, SpanPoints, PutPoints, Putting, Waiting
<1>3. WrittenInSpan' /\ SpanKeepsItsObjects' /\ WalkSound'
  <2>1. \A c \in Clients : pc[c] \notin Putting
    BY DEF IInv, WipeObjects, WipeExcludes, WipeOwns
  <2>2. WrittenInSpan' /\ SpanKeepsItsObjects'
    BY DEF WipeObjects, WrittenInSpan, SpanKeepsItsObjects
  <2>3. WalkSound'
    BY <2>1 DEF IInv, WipeObjects, WalkSound, Putting, PutPoints
  <2> QED BY <2>2, <2>3
<1>4. cycle' = "idle" /\ \A n \in Names : refs'[n] = None
  BY DEF IInv, WipeObjects, WipeExcludes
<1>5. RootsCovered' /\ MarkSound' /\ NoDangling'
  BY <1>4, SMTT(30) DEF RootsCovered, MarkSound, NoDangling, Live, RootsOf
<1> QED BY <1>1, <1>2, <1>3, <1>5 DEF IInv


-----------------------------------------------------------------------------
(* The theorems.                                                            *)

(* A stuttering step keeps the invariant.                                   *)
LEMMA StutterIInv == ASSUME IInv, UNCHANGED vars PROVE IInv'
BY SMTT(30)
   DEF IInv, vars, TypeOK, CSTypeOK, RefLockExcludes, WipeExcludes, BarrierOn, Readers,
       WrittenInSpan, WalkSound, RootsCovered, MarkSound, SpanKeepsItsObjects,
       NoDangling, Live, RootsOf

(* IInv is inductive: every step of every client, of the cycle and of the   *)
(* wipe preserves it.                                                       *)
LEMMA NextIInv == ASSUME IInv, [Next]_vars PROVE IInv'
<1>1. ASSUME NEW c \in Clients, ClientStep(c) PROVE IInv'
  BY <1>1, SpanBeginIInv, WriteObserveIInv, WriteObjectIInv, SpanEndIInv,
           PutBeginIInv, WalkLevelIInv, WalkFailsIInv, WalkDoneIInv, RefPutIInv,
           RefPutFailsIInv
     DEF ClientStep
<1>2. CASE DeleteRef \/ CycleRun \/ CycleCancel
  BY <1>2, DeleteRefIInv, CycleRunIInv, CycleCancelIInv
<1>3. CASE CycleStep
  BY <1>3, CycleRegisterIInv, BeginBarrierIInv, SnapshotRootsIInv,
           NewMarkSetIInv, MarkStepIInv, MarkFailsIInv, MarkDoneIInv,
           AbortBarrierIInv, SweepLockIInv, SweepCancelledIInv, CompactIInv
     DEF CycleStep
<1>4. CASE WipeBegin \/ WipeStep
  BY <1>4, WipeBeginIInv, WipeLockIInv, WipeCancelIInv, WipeCycleMuIInv,
           WipeRefsIInv, WipeObjectsIInv
     DEF WipeStep
<1>5. CASE UNCHANGED vars
  BY <1>5, StutterIInv
<1> QED BY <1>1, <1>2, <1>3, <1>4, <1>5 DEF Next

(* The inductive invariant of the collector holds of every behaviour.       *)
THEOREM Invariance == Spec => []IInv
<1>1. Init => IInv
  BY InitIInv
<1>2. IInv /\ [Next]_vars => IInv'
  BY NextIInv
<1> QED BY <1>1, <1>2, PTL DEF Spec

(* Every variable of the collector keeps its type.                          *)
THEOREM TypeCorrect == Spec => []TypeOK
<1>1. IInv => TypeOK
  BY DEF IInv
<1> QED BY <1>1, Invariance, PTL

(* An accepted reference never dangles, whatever cycles, uploads, PUTs,     *)
(* DELETEs and wipes run beside each other.                                 *)
THEOREM NeverDangles == Spec => []NoDangling
<1>1. IInv => NoDangling
  BY DEF IInv
<1> QED BY <1>1, Invariance, PTL

(* No sweep removes an object that an open write span has stored or has     *)
(* skipped as a duplicate; between CheckComplete and refs.Put the tree of a *)
(* PUT stays complete; and no mark meets a missing object, so that no cycle *)
(* aborts with "object missing from store" while the references are sound.  *)
THEOREM WhatIsCountedOnStays == Spec => []CountedOnStays
<1>1. IInv => SpanKeepsItsObjects
  BY DEF IInv
<1>2. IInv => PreparedStaysComplete
  BY PreparedTree DEF PreparedStaysComplete
<1>3. IInv => MarkFindsEveryObject
  BY DEF IInv, MarkFindsEveryObject, MarkSound, RootsCovered
<1>4. IInv => CountedOnStays
  BY <1>1, <1>2, <1>3 DEF CountedOnStays
<1> QED BY <1>4, Invariance, PTL

(* Every step of the collector and its clients is a step of ContentStore,   *)
(* or leaves the store and the references alone.                            *)
LEMMA StepRefines == ASSUME IInv, [Next]_vars PROVE [CSNext]_csVars
<1> USE DEF csVars
<1>1. ASSUME NEW c \in Clients, WriteObject(c) PROVE CSNext
  <2>1. cur[c] \in Keys
    BY <1>1 DEF IInv, WalkSound, WriteObject
  <2> QED BY <1>1, <2>1 DEF WriteObject, CSNext, AddObject
<1>2. ASSUME NEW c \in Clients, RefPut(c) PROVE CSNext
  <2>1. pc[c] = "prepared" /\ cur[c] \in Keys /\ dest[c] \in Names
    BY <1>2 DEF IInv, WalkSound, RefPut, Putting, PutPoints
  <2>2. Reach(cur[c]) \subseteq store
    BY <2>1, PreparedTree
  <2> QED BY <1>2, <2>1, <2>2 DEF RefPut, CSNext, Publish
<1>3. ASSUME NEW c \in Clients, ClientStep(c) PROVE CSNext \/ UNCHANGED csVars
  <2>1. CASE \/ SpanBegin(c) \/ WriteObserve(c) \/ SpanEnd(c) \/ PutBegin(c)
             \/ WalkLevel(c) \/ WalkFails(c) \/ WalkDone(c) \/ RefPutFails(c)
    BY <2>1 DEF SpanBegin, WriteObserve, SpanEnd, PutBegin, WalkLevel, WalkFails, WalkDone,
                RefPutFails
  <2> QED BY <1>1, <1>2, <1>3, <2>1 DEF ClientStep
<1>4. CASE DeleteRef
  BY <1>4, ZenonT(30) DEF DeleteRef, CSNext, Unpublish
<1>5. CASE Compact
  <2>1. \A k \in Live : IsLive(k)
    BY <1>5, LiveIsKept DEF Compact
  <2>2. PICK D \in SUBSET {k \in store : ~IsLive(k)} : store' = store \ D
    BY <1>5 DEF Compact
  <2>3. D \in SUBSET (store \ Live)
    BY <2>1
  <2> QED BY <1>5, <2>2, <2>3 DEF Compact, CSNext, Collect
<1>6. CASE WipeRefs
  BY <1>6 DEF WipeRefs, CSNext, UnpublishAll
<1>7. CASE WipeObjects
  <2>1. Live = {}
    BY <1>7, SMTT(30) DEF IInv, WipeObjects, WipeExcludes, Live, RootsOf
  <2> QED BY <1>7, <2>1 DEF WipeObjects, CSNext, Collect
<1>8. CASE CycleRun \/ CycleCancel \/ CycleStep
  BY <1>5, <1>8 DEF CycleRun, CycleCancel, CycleStep, CycleRegister, BeginBarrier,
       SnapshotRoots, NewMarkSet, MarkStep, MarkFails, MarkDone, AbortBarrier,
       SweepLock, SweepCancelled
<1>9. CASE WipeBegin \/ WipeStep
  BY <1>6, <1>7, <1>9 DEF WipeBegin, WipeStep, WipeLock, WipeCancel, WipeCycleMu
<1>10. CASE UNCHANGED vars
  BY <1>10 DEF vars
<1> QED BY <1>3, <1>4, <1>8, <1>9, <1>10, SMTT(30) DEF Next

(* The collector, the write barrier, the locks and the wipe implement the   *)
(* abstract content store: references are only ever published onto complete *)
(* trees and only garbage is ever collected.                                *)
THEOREM ImplementsContentStore == Spec => CSSpec
<1>1. Init => CSInit
  BY DEF Init
<1>2. IInv /\ [Next]_vars => [CSNext]_csVars
  BY StepRefines
<1> QED BY <1>1, <1>2, Invariance, PTL DEF Spec, CSSpec

=============================================================================
