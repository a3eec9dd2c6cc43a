-------------------------------- MODULE Scrub --------------------------------
(***************************************************************************)
(* The life of a segment's memory map (package packstore).  Point reads    *)
(* hold mu.RLock for as long as they look at a map.  Verify, ScanIndex and *)
(* Record walk it without a lock: they register in scrubN under mu.RLock   *)
(* and the operations that unmap segments (Remove, Compact, Wipe, Close)   *)
(* detach them under mu.Lock, wait for scrubN = 0 and only then unmap.     *)
(* The mark phase of a collection reads the maps of its snapshot with no   *)
(* registration at all; the collector's locks stand in for it.             *)
(*                                                                         *)
(* Nothing in the repository calls Remove; its comment leaves it to a      *)
(* collector that holds a removal lock, so here it does not overlap a mark *)
(* phase.                                                                  *)
(***************************************************************************)
EXTENDS Integers, FiniteSets

CONSTANTS
    Segs,       \* segments; one is sealed at most once
    Walkers,    \* goroutines that read or walk the maps
    Removers    \* goroutines that call Remove

\* The collector's cycle, and the goroutines that wipe and close the store.
Ops == Removers \cup {"cycle", "wipe", "close"}

ASSUME ScrubAssumption ==
    /\ IsFiniteSet(Walkers)
    /\ Walkers \cap Ops = {}
    /\ Removers \cap {"cycle", "wipe", "close"} = {}

VARIABLES
    sealed,     \* s.sealed, the probe list
    mapped,     \* the segments whose map exists
    unused,     \* segments not sealed yet
    closed,     \* s.closed
    scrubN,     \* s.scrubN
    walking,    \* the walkers registered with beginScrub
    reading,    \* the walkers inside a mu.RLock section
    hold,       \* hold[p]: the maps p is looking at
    appendMu,   \* who holds s.appendMu
    cycleMu,    \* who holds the collector's cycleMu
    stopped,    \* the collector is closed
    step,       \* step[o]: where operation o is
    victims     \* victims[o]: the segments o detached

scrubVars == <<sealed, mapped, unused, closed, scrubN, walking, reading, hold,
               appendMu, cycleMu, stopped, step, victims>>

opVars == <<appendMu, cycleMu, stopped, step, victims>>

Free == "free"

\* mu is a sync.RWMutex: a goroutine waiting in Lock keeps new readers out.
RLockable == \A o \in Ops : step[o] # "lock"
Lockable == reading = {}

ScrubInit ==
    /\ sealed \in SUBSET Segs
    /\ mapped = sealed
    /\ unused = Segs \ sealed
    /\ closed = FALSE
    /\ scrubN = 0
    /\ walking = {}
    /\ reading = {}
    /\ hold = [p \in Walkers \cup Ops |-> {}]
    /\ appendMu = Free
    /\ cycleMu = Free
    /\ stopped = FALSE
    /\ step = [o \in Ops |-> "idle"]
    /\ victims = [o \in Ops |-> {}]

-----------------------------------------------------------------------------
(* Readers and walkers.                                                    *)

\* Get, GetRecord, StoredSize, SortByLocation, Has, HasOutside, Segments.
ReadBegin(w) ==
    /\ w \notin walking \cup reading
    /\ RLockable
    /\ ~closed
    /\ reading' = reading \cup {w}
    /\ hold' = [hold EXCEPT ![w] = sealed]
    /\ UNCHANGED <<sealed, mapped, unused, closed, scrubN, walking, opVars>>

ReadEnd(w) ==
    /\ w \in reading
    /\ reading' = reading \ {w}
    /\ hold' = [hold EXCEPT ![w] = {}]
    /\ UNCHANGED <<sealed, mapped, unused, closed, scrubN, walking, opVars>>

\* beginScrub, under mu.RLock and after the closed check.
WalkBegin(w, S) ==
    /\ w \notin walking \cup reading
    /\ RLockable
    /\ ~closed
    /\ scrubN' = scrubN + 1
    /\ walking' = walking \cup {w}
    /\ hold' = [hold EXCEPT ![w] = S]
    /\ UNCHANGED <<sealed, mapped, unused, closed, reading, opVars>>

\* Verify copies the whole probe list; ScanIndex and Record pin one segment.
VerifyBegin(w) == WalkBegin(w, sealed)
PinSegment(w) == \E g \in sealed : WalkBegin(w, {g})

\* endScrub, deferred by all three.
WalkEnd(w) ==
    /\ w \in walking
    /\ scrubN' = scrubN - 1
    /\ walking' = walking \ {w}
    /\ hold' = [hold EXCEPT ![w] = {}]
    /\ UNCHANGED <<sealed, mapped, unused, closed, reading, opVars>>

-----------------------------------------------------------------------------
(* Writers of the probe list.                                              *)

\* Mutant: a walk follows the probe list instead of its own copy.
MutantSealPublished ==
    /\ appendMu = Free
    /\ ~closed
    /\ Lockable
    /\ \E g \in unused :
        /\ unused' = unused \ {g}
        /\ mapped' = mapped \cup {g}
        /\ sealed' = sealed \cup {g}
        /\ hold' = [p \in Walkers \cup Ops |->
                        IF p \in walking THEN hold[p] \cup {g} ELSE hold[p]]
    /\ UNCHANGED <<closed, scrubN, walking, reading, opVars>>

\* sealActiveLocked maps the new segment, then publishes it under mu.Lock.
SealPublished ==
    /\ appendMu = Free
    /\ ~closed
    /\ Lockable
    /\ \E g \in unused :
        /\ unused' = unused \ {g}
        /\ mapped' = mapped \cup {g}
        /\ sealed' = sealed \cup {g}
    /\ UNCHANGED <<closed, scrubN, walking, reading, hold, opVars>>

\* Remove, Wipe and Close take appendMu and ask for mu.
Lock(o) ==
    /\ appendMu = Free
    /\ appendMu' = o
    /\ step' = [step EXCEPT ![o] = "lock"]
    /\ UNCHANGED <<sealed, mapped, unused, closed, scrubN, walking, reading,
                   hold, victims>>

RemoveCall(o) ==
    /\ o \in Removers
    /\ step[o] = "idle"
    /\ step["cycle"] = "idle"
    /\ Lock(o)
    /\ UNCHANGED <<cycleMu, stopped>>

\* Collector.Wipe holds cycleMu, so no cycle runs.
WipeCall ==
    /\ step["wipe"] = "idle"
    /\ cycleMu = Free
    /\ cycleMu' = "wipe"
    /\ Lock("wipe")
    /\ UNCHANGED stopped

\* The collector is closed first: it waits for a running cycle.
CollectorClose ==
    /\ ~stopped
    /\ step["cycle"] = "idle"
    /\ stopped' = TRUE
    /\ UNCHANGED <<sealed, mapped, unused, closed, scrubN, walking, reading,
                   hold, appendMu, cycleMu, step, victims>>

CloseCall ==
    /\ step["close"] = "idle"
    /\ stopped
    /\ ~closed
    /\ Lock("close")
    /\ UNCHANGED <<cycleMu, stopped>>

\* NewMarkSet keeps pointers to the sealed segments; marking reads them.
CycleBegin ==
    /\ step["cycle"] = "idle"
    /\ cycleMu = Free
    /\ ~stopped
    /\ ~closed
    /\ RLockable
    /\ \A o \in Removers : step[o] = "idle"
    /\ cycleMu' = "cycle"
    /\ step' = [step EXCEPT !["cycle"] = "mark"]
    /\ hold' = [hold EXCEPT !["cycle"] = sealed]
    /\ UNCHANGED <<sealed, mapped, unused, closed, scrubN, walking, reading,
                   appendMu, stopped, victims>>

\* The cycle is cancelled or finds nothing to remove.
CycleEnds ==
    /\ step["cycle"] = "mark"
    /\ cycleMu' = Free
    /\ step' = [step EXCEPT !["cycle"] = "idle"]
    /\ hold' = [hold EXCEPT !["cycle"] = {}]
    /\ UNCHANGED <<sealed, mapped, unused, closed, scrubN, walking, reading,
                   appendMu, stopped, victims>>

\* Compact holds appendMu from the choice of its victims to its return; its
\* live test reads the mark set until the victims are copied.
CompactCall ==
    /\ step["cycle"] = "mark"
    /\ Lock("cycle")
    /\ UNCHANGED <<cycleMu, stopped>>

\* The segments each operation takes out of the probe list.
Chosen(o) ==
    CASE o \in {"wipe", "close"} -> {sealed}
      [] o = "cycle" -> SUBSET sealed
      [] OTHER -> {{g} : g \in sealed}

\* Who still holds appendMu after the detach, and after the return.
AppendMuAfterDetach(o) == IF o \in Removers THEN Free ELSE o
CycleMuAfter(o) == IF o \in {"cycle", "wipe"} THEN Free ELSE cycleMu

\* Under mu.Lock: the segments leave the probe list.  Close leaves the list
\* alone and sets closed, which every reader checks.
Detach(o) ==
    /\ step[o] = "lock"
    /\ Lockable
    /\ ~closed
    /\ \E V \in Chosen(o) :
        /\ victims' = [victims EXCEPT ![o] = V]
        /\ sealed' = IF o = "close" THEN sealed ELSE sealed \ V
    /\ closed' = (o = "close")
    /\ appendMu' = AppendMuAfterDetach(o)
    /\ step' = [step EXCEPT ![o] = "wait"]
    /\ hold' = [hold EXCEPT ![o] = {}]
    /\ UNCHANGED <<mapped, unused, scrubN, walking, reading, cycleMu, stopped>>

\* The store is closed, or the segment is not in the list.
DetachRefused(o) ==
    /\ step[o] = "lock"
    /\ Lockable
    /\ closed \/ Chosen(o) = {}
    /\ appendMu' = Free
    /\ cycleMu' = CycleMuAfter(o)
    /\ step' = [step EXCEPT ![o] = "idle"]
    /\ hold' = [hold EXCEPT ![o] = {}]
    /\ UNCHANGED <<sealed, mapped, unused, closed, scrubN, walking, reading,
                   stopped, victims>>

\* Mutant: the gate is not waited for.
MutantWaitScrubs(o) ==
    /\ step[o] = "wait"
    /\ step' = [step EXCEPT ![o] = "unmap"]
    /\ UNCHANGED <<sealed, mapped, unused, closed, scrubN, walking, reading,
                   hold, appendMu, cycleMu, stopped, victims>>

\* Mutant: Signal instead of Broadcast, and of two waiters none gets through.
MutantWaitSignal(o) ==
    /\ step[o] = "wait"
    /\ scrubN = 0
    /\ \A q \in Ops \ {o} : step[q] # "wait"
    /\ step' = [step EXCEPT ![o] = "unmap"]
    /\ UNCHANGED <<sealed, mapped, unused, closed, scrubN, walking, reading,
                   hold, appendMu, cycleMu, stopped, victims>>

\* waitScrubs: woken by the Broadcast of the walk that brings scrubN to 0.
WaitScrubs(o) ==
    /\ step[o] = "wait"
    /\ scrubN = 0
    /\ step' = [step EXCEPT ![o] = "unmap"]
    /\ UNCHANGED <<sealed, mapped, unused, closed, scrubN, walking, reading,
                   hold, appendMu, cycleMu, stopped, victims>>

\* seg.close and os.Remove for each victim, then the locks are released.
Unmap(o) ==
    /\ step[o] = "unmap"
    /\ mapped' = mapped \ victims[o]
    /\ victims' = [victims EXCEPT ![o] = {}]
    /\ sealed' = IF o = "close" THEN {} ELSE sealed
    /\ appendMu' = IF appendMu = o THEN Free ELSE appendMu
    /\ cycleMu' = CycleMuAfter(o)
    /\ step' = [step EXCEPT ![o] = IF o = "close" THEN "done" ELSE "idle"]
    /\ UNCHANGED <<unused, closed, scrubN, walking, reading, hold, stopped>>

-----------------------------------------------------------------------------

WalkStarts == \E w \in Walkers : VerifyBegin(w) \/ PinSegment(w)

ScrubNext ==
    \/ WalkStarts
    \/ \E w \in Walkers : ReadBegin(w) \/ ReadEnd(w) \/ WalkEnd(w)
    \/ SealPublished
    \/ WipeCall \/ CollectorClose \/ CloseCall
    \/ CycleBegin \/ CycleEnds \/ CompactCall
    \/ \E o \in Ops : \/ RemoveCall(o) \/ Detach(o) \/ DetachRefused(o)
                      \/ WaitScrubs(o) \/ Unmap(o)

ScrubSpec == ScrubInit /\ [][ScrubNext]_scrubVars

\* A read or a walk ends and a goroutine that can go on does.  A cycle ends
\* or goes on to compact; nobody has to start anything.
ScrubFairness ==
    /\ \A w \in Walkers : WF_scrubVars(ReadEnd(w)) /\ WF_scrubVars(WalkEnd(w))
    /\ WF_scrubVars(CycleEnds)
    /\ \A o \in Ops :
        /\ WF_scrubVars(Detach(o) \/ DetachRefused(o))
        /\ WF_scrubVars(WaitScrubs(o))
        /\ WF_scrubVars(Unmap(o))

-----------------------------------------------------------------------------

\* Nobody looks at a map that is gone: "munmap under one is an uncatchable
\* SIGSEGV" (gc.go, Remove).  This covers point reads under mu.RLock, the
\* lock-free walks of Verify, ScanIndex and Record, and the mark phase.
NoUnmappedRead == \A p \in Walkers \cup Ops : hold[p] \subseteq mapped

\* No segment is unmapped twice, by Remove and Compact or by Wipe and Close
\* say: what an operation is about to unmap is still mapped, and is nobody
\* else's to unmap.
UnmappedOnce ==
    \A o \in Ops :
        /\ victims[o] \subseteq mapped
        /\ \A q \in Ops \ {o} : victims[o] \cap victims[q] = {}

\* Memory maps are neither read after they are gone nor unmapped twice.
MapsSafe == NoUnmappedRead /\ UnmappedOnce

\* Once walks stop starting, every operation that waits in waitScrubs
\* returns.  The premise is needed: the comment on Remove says that sustained
\* traffic stalls it, since waitScrubs is a global gate.
WaitersGetThrough ==
    <>[][~WalkStarts]_scrubVars =>
        \A o \in Ops : step[o] = "lock" ~> step[o] \in {"idle", "done"}

\* Close needs no such premise: once it has set closed no walk can start.
CloseReturns == closed ~> step["close"] = "done"

\* The gate of waitScrubs opens: for Close always, for the other operations once
\* walks stop starting.
GateOpens == WaitersGetThrough /\ CloseReturns

Maps == INSTANCE Leases WITH
            Resources <- Segs, Users <- Walkers \cup Ops,
            live <- mapped, held <- hold

\* The gate implements the leases of module Leases for the memory maps.
MapsAreLeased == Maps!LeaseSpec

=============================================================================
