----------------------------- MODULE ScrubProofs -----------------------------
(***************************************************************************)
(* For any segments, walkers and callers of Remove: nobody reads an        *)
(* unmapped segment, none is unmapped twice, and the gate implements       *)
(* Leases.  The invariant follows a victim from the probe list to the      *)
(* unmap: once it is out of the list nobody starts to look at it, at the   *)
(* gate only registered walkers still do, and behind it nobody does.  For  *)
(* the mark phase, which never registers, the collector's locks give the   *)
(* same: whoever detaches segments does so while no cycle runs, or is it.  *)
(***************************************************************************)
EXTENDS Scrub, FiniteSetTheorems, TLAPS

Users == Walkers \cup Ops

ScrubTypeOK ==
    /\ sealed \subseteq Segs /\ mapped \subseteq Segs /\ unused \subseteq Segs
    /\ closed \in BOOLEAN /\ stopped \in BOOLEAN
    /\ walking \subseteq Walkers /\ reading \subseteq Walkers
    /\ hold \in [Users -> SUBSET Segs]
    /\ step \in [Ops -> {"idle", "mark", "lock", "wait", "unmap", "done"}]
    /\ victims \in [Ops -> SUBSET Segs]

\* scrubN counts the registered walkers.
GateCounts == scrubN = Cardinality(walking)

\* A victim is mapped, is one operation's alone and, unless the store is
\* closing, is out of the probe list; a new segment is nobody's victim.
VictimsOK ==
    /\ sealed \subseteq mapped /\ unused \cap mapped = {}
    /\ \A o \in Ops : step[o] \notin {"wait", "unmap"} => victims[o] = {}
    /\ \A o \in Ops \ {"close"} : victims[o] \cap sealed = {}
    /\ UnmappedOnce

\* Who holds maps: readers, registered walkers and the mark phase.
HoldersOK ==
    /\ reading \cap walking = {}
    /\ \A w \in Walkers : w \notin reading \cup walking => hold[w] = {}
    /\ \A o \in Ops \ {"cycle"} : hold[o] = {}
    /\ step["cycle"] \notin {"mark", "lock"} => hold["cycle"] = {}

\* A victim at the gate is held by registered walkers only, behind it by nobody.
GateOK ==
    \A o \in Ops, p \in Users :
        /\ step[o] = "unmap" => hold[p] \cap victims[o] = {}
        /\ step[o] = "wait" /\ hold[p] \cap victims[o] # {} => p \in walking

\* The collector's locks, and the order in which the store is closed.
LocksOK ==
    /\ step["cycle"] # "idle" => cycleMu = "cycle" /\ \A o \in Removers : step[o] = "idle"
    /\ step["wipe"] # "idle" => cycleMu = "wipe"
    /\ step["close"] # "idle" => stopped
    /\ stopped => step["cycle"] = "idle"
    /\ closed <=> step["close"] \in {"wait", "unmap", "done"}

ScrubIInv == /\ ScrubTypeOK /\ GateCounts /\ VictimsOK /\ HoldersOK /\ GateOK /\ LocksOK
             /\ NoUnmappedRead

\* The opened store has the invariant.
LEMMA ScrubStarts == ScrubInit => ScrubIInv
  <1> SUFFICES ASSUME ScrubInit PROVE ScrubIInv
    OBVIOUS
  <1>1. GateCounts
    BY FS_EmptySet DEF ScrubInit, GateCounts
  <1>2. ScrubTypeOK /\ VictimsOK /\ HoldersOK /\ GateOK /\ LocksOK /\ NoUnmappedRead
    BY DEF ScrubInit, ScrubTypeOK, VictimsOK, HoldersOK, GateOK, LocksOK, NoUnmappedRead,
           UnmappedOnce, Users, Ops
  <1> QED
    BY <1>1, <1>2 DEF ScrubIInv

\* The registrations are finite in number.
LEMMA WalkingIsFinite == ScrubTypeOK => IsFiniteSet(walking)
  BY ScrubAssumption, FS_Subset DEF ScrubTypeOK

\* A user that starts to hold sealed segments of an open store.
LEMMA StartsToHold ==
    ASSUME ScrubIInv, ~closed, NEW u \in Walkers \cup {"cycle"}, NEW S \in SUBSET sealed,
           hold' = [hold EXCEPT ![u] = S], walking \subseteq walking',
           \/ UNCHANGED step
           \/ step["cycle"] = "idle" /\ step' = [step EXCEPT !["cycle"] = "mark"],
           UNCHANGED <<sealed, mapped, victims>>
    PROVE  GateOK' /\ NoUnmappedRead' /\ hold' \in [Users -> SUBSET Segs]
  <1>a. ScrubTypeOK /\ VictimsOK /\ GateOK /\ LocksOK /\ NoUnmappedRead
    BY DEF ScrubIInv
  <1>b. u \in Users /\ {"cycle", "close"} \subseteq Ops /\ S \subseteq mapped /\ S \subseteq Segs
    BY <1>a DEF Users, Ops, VictimsOK, ScrubTypeOK
  <1>1. \A o \in Ops : S \cap victims[o] = {}
    BY <1>a, <1>b DEF VictimsOK, LocksOK
  <1>2. \A p \in Users : hold'[p] = IF p = u THEN S ELSE hold[p]
    BY <1>a, <1>b DEF ScrubTypeOK
  <1>3. \A o \in Ops : step'[o] \in {"wait", "unmap"} => step'[o] = step[o]
    BY <1>a, <1>b DEF ScrubTypeOK
  <1>4. GateOK'
    BY <1>a, <1>1, <1>2, <1>3 DEF GateOK
  <1>5. NoUnmappedRead'
    BY <1>a, <1>b, <1>2 DEF NoUnmappedRead, Users
  <1>6. hold' \in [Users -> SUBSET Segs]
    BY <1>a, <1>b DEF ScrubTypeOK
  <1> QED
    BY <1>4, <1>5, <1>6

\* A user that lets go of what it holds.
LEMMA LetsGo ==
    ASSUME ScrubIInv, NEW u \in Users, hold' = [hold EXCEPT ![u] = {}],
           walking \subseteq walking' \cup {u}, UNCHANGED <<mapped, victims>>,
           \A o \in Ops : step'[o] \in {"wait", "unmap"} => step'[o] = step[o]
    PROVE  GateOK' /\ NoUnmappedRead' /\ hold' \in [Users -> SUBSET Segs]
  <1>a. ScrubTypeOK /\ GateOK /\ NoUnmappedRead
    BY DEF ScrubIInv
  <1>1. \A p \in Users : hold'[p] = IF p = u THEN {} ELSE hold[p]
    BY <1>a DEF ScrubTypeOK
  <1>2. GateOK'
    BY <1>a, <1>1 DEF GateOK
  <1>3. NoUnmappedRead'
    BY <1>a, <1>1 DEF NoUnmappedRead, Users
  <1>4. hold' \in [Users -> SUBSET Segs]
    BY <1>a DEF ScrubTypeOK
  <1> QED
    BY <1>2, <1>3, <1>4

\* A step that changes no hold, no victim and no registration, and brings
\* nobody to the gate or past it.
LEMMA HoldsStay ==
    ASSUME ScrubIInv, UNCHANGED <<hold, victims, walking>>, mapped \subseteq mapped',
           \A o \in Ops : step'[o] \in {"wait", "unmap"} => step'[o] = step[o]
    PROVE  GateOK' /\ NoUnmappedRead'
  BY DEF ScrubIInv, GateOK, NoUnmappedRead

\* The readers and walkers keep the invariant.
LEMMA WalkersKeep ==
    ASSUME ScrubIInv, NEW w \in Walkers,
           ReadBegin(w) \/ ReadEnd(w) \/ VerifyBegin(w) \/ PinSegment(w) \/ WalkEnd(w)
    PROVE  ScrubIInv'
  <1>a. ScrubTypeOK /\ GateCounts /\ VictimsOK /\ HoldersOK /\ GateOK /\ LocksOK
        /\ NoUnmappedRead /\ IsFiniteSet(walking)
    BY WalkingIsFinite DEF ScrubIInv
  <1>b. w \in Users /\ w \notin Ops
    BY ScrubAssumption DEF Users
  <1>1. CASE ReadBegin(w)
    <2>1. GateOK' /\ NoUnmappedRead' /\ hold' \in [Users -> SUBSET Segs]
      BY <1>1, StartsToHold DEF ReadBegin, opVars
    <2>2. ScrubTypeOK' /\ GateCounts' /\ VictimsOK' /\ LocksOK'
      BY <1>a, <1>1, <2>1
         DEF ReadBegin, opVars, ScrubTypeOK, GateCounts, VictimsOK, LocksOK, UnmappedOnce
    <2>3. HoldersOK'
      BY <1>a, <1>b, <1>1 DEF ReadBegin, opVars, HoldersOK, ScrubTypeOK, Users, Ops
    <2> QED
      BY <2>1, <2>2, <2>3 DEF ScrubIInv
  <1>2. CASE ReadEnd(w)
    <2>1. GateOK' /\ NoUnmappedRead' /\ hold' \in [Users -> SUBSET Segs]
      BY <1>b, <1>2, LetsGo DEF ReadEnd, opVars
    <2>2. ScrubTypeOK' /\ GateCounts' /\ VictimsOK' /\ LocksOK'
      BY <1>a, <1>2, <2>1
         DEF ReadEnd, opVars, ScrubTypeOK, GateCounts, VictimsOK, LocksOK, UnmappedOnce
    <2>3. HoldersOK'
      BY <1>a, <1>b, <1>2 DEF ReadEnd, opVars, HoldersOK, ScrubTypeOK, Users, Ops
    <2> QED
      BY <2>1, <2>2, <2>3 DEF ScrubIInv
  <1>3. ASSUME NEW S \in SUBSET sealed, WalkBegin(w, S)
        PROVE  ScrubIInv'
    <2>1. GateOK' /\ NoUnmappedRead' /\ hold' \in [Users -> SUBSET Segs]
      BY <1>3, StartsToHold DEF WalkBegin, opVars
    <2>2. GateCounts'
      BY <1>a, <1>3, FS_AddElement, SMTT(30) DEF WalkBegin, GateCounts
    <2>3. ScrubTypeOK' /\ VictimsOK' /\ LocksOK'
      BY <1>a, <1>3, <2>1
         DEF WalkBegin, opVars, ScrubTypeOK, VictimsOK, LocksOK, UnmappedOnce
    <2>4. HoldersOK'
      BY <1>a, <1>b, <1>3 DEF WalkBegin, opVars, HoldersOK, ScrubTypeOK, Users, Ops
    <2> QED
      BY <2>1, <2>2, <2>3, <2>4 DEF ScrubIInv
  <1>4. CASE WalkEnd(w)
    <2>1. GateOK' /\ NoUnmappedRead' /\ hold' \in [Users -> SUBSET Segs]
      BY <1>b, <1>4, LetsGo DEF WalkEnd, opVars
    <2>2. GateCounts'
      BY <1>a, <1>4, FS_RemoveElement, SMTT(30) DEF WalkEnd, GateCounts
    <2>3. ScrubTypeOK' /\ VictimsOK' /\ LocksOK'
      BY <1>a, <1>4, <2>1
         DEF WalkEnd, opVars, ScrubTypeOK, VictimsOK, LocksOK, UnmappedOnce
    <2>4. HoldersOK'
      BY <1>a, <1>b, <1>4 DEF WalkEnd, opVars, HoldersOK, ScrubTypeOK, Users, Ops
    <2> QED
      BY <2>1, <2>2, <2>3, <2>4 DEF ScrubIInv
  <1> QED
    BY <1>1, <1>2, <1>3, <1>4 DEF VerifyBegin, PinSegment

\* Sealing, and the calls up to their wait for mu, keep the invariant.
LEMMA CallsKeep ==
    ASSUME ScrubIInv,
           \/ SealPublished \/ WipeCall \/ CollectorClose \/ CloseCall
           \/ CycleBegin \/ CycleEnds \/ CompactCall
           \/ \E o \in Ops : RemoveCall(o)
    PROVE  ScrubIInv'
  <1>a. ScrubTypeOK /\ GateCounts /\ VictimsOK /\ HoldersOK /\ GateOK /\ LocksOK
        /\ NoUnmappedRead
    BY DEF ScrubIInv
  <1>b. /\ {"cycle", "wipe", "close"} \subseteq Ops /\ Removers \subseteq Ops
        /\ Removers \cap {"cycle", "wipe", "close"} = {} /\ Ops \subseteq Users
        /\ Walkers \cap Ops = {}
    BY ScrubAssumption DEF Ops, Users
  <1>1. CASE SealPublished
    <2>1. GateOK' /\ NoUnmappedRead'
      BY <1>1, HoldsStay DEF SealPublished, opVars
    <2>2. VictimsOK'
      BY <1>a, <1>1 DEF SealPublished, opVars, VictimsOK, UnmappedOnce
    <2>3. ScrubTypeOK' /\ GateCounts' /\ HoldersOK' /\ LocksOK'
      BY <1>a, <1>1 DEF SealPublished, opVars, ScrubTypeOK, GateCounts, HoldersOK, LocksOK
    <2> QED
      BY <2>1, <2>2, <2>3 DEF ScrubIInv
  <1>2. ASSUME NEW o \in Ops, Lock(o), UNCHANGED stopped,
               \/ o \in Removers /\ step["cycle"] = "idle" /\ UNCHANGED cycleMu
                  /\ step[o] = "idle"
               \/ o = "wipe" /\ step["wipe"] = "idle" /\ cycleMu = Free /\ cycleMu' = "wipe"
               \/ o = "close" /\ step["close"] = "idle" /\ stopped /\ UNCHANGED cycleMu /\ ~closed
               \/ o = "cycle" /\ step["cycle"] = "mark" /\ UNCHANGED cycleMu
        PROVE  ScrubIInv'
    <2>1. \A q \in Ops : step'[q] = IF q = o THEN "lock" ELSE step[q]
      BY <1>a, <1>2 DEF Lock, ScrubTypeOK
    <2>2. GateOK' /\ NoUnmappedRead'
      BY <1>2, <2>1, HoldsStay DEF Lock
    <2>3. ScrubTypeOK' /\ GateCounts'
      BY <1>a, <1>2 DEF Lock, ScrubTypeOK, GateCounts
    <2>4. VictimsOK'
      BY <1>a, <1>2, <2>1 DEF Lock, VictimsOK, UnmappedOnce
    <2>5. HoldersOK'
      BY <1>a, <1>b, <1>2, <2>1 DEF Lock, HoldersOK
    <2>6. LocksOK'
      BY <1>a, <1>b, <1>2, <2>1 DEF Lock, LocksOK, Free
    <2> QED
      BY <2>2, <2>3, <2>4, <2>5, <2>6 DEF ScrubIInv
  <1>3. CASE CollectorClose
    <2>1. GateOK' /\ NoUnmappedRead'
      BY <1>3, HoldsStay DEF CollectorClose
    <2>2. ScrubTypeOK' /\ GateCounts' /\ HoldersOK' /\ LocksOK' /\ VictimsOK'
      BY <1>a, <1>3 DEF CollectorClose, ScrubTypeOK, GateCounts, HoldersOK, LocksOK,
                        VictimsOK, UnmappedOnce
    <2> QED
      BY <2>1, <2>2 DEF ScrubIInv
  <1>4. CASE CycleBegin
    <2>1. \A q \in Ops : step'[q] = IF q = "cycle" THEN "mark" ELSE step[q]
      BY <1>a, <1>4 DEF CycleBegin, ScrubTypeOK
    <2>2. GateOK' /\ NoUnmappedRead' /\ hold' \in [Users -> SUBSET Segs]
      BY <1>4, StartsToHold DEF CycleBegin
    <2>3. ScrubTypeOK' /\ GateCounts'
      BY <1>a, <1>4, <2>2 DEF CycleBegin, ScrubTypeOK, GateCounts
    <2>4. VictimsOK'
      BY <1>a, <1>4, <2>1 DEF CycleBegin, VictimsOK, UnmappedOnce
    <2>5. HoldersOK'
      BY <1>a, <1>b, <1>4, <2>1 DEF CycleBegin, HoldersOK, ScrubTypeOK, Users
    <2>6. LocksOK'
      BY <1>a, <1>b, <1>4, <2>1 DEF CycleBegin, LocksOK, Free
    <2> QED
      BY <2>2, <2>3, <2>4, <2>5, <2>6 DEF ScrubIInv
  <1>5. CASE CycleEnds
    <2>1. \A q \in Ops : step'[q] = IF q = "cycle" THEN "idle" ELSE step[q]
      BY <1>a, <1>5 DEF CycleEnds, ScrubTypeOK
    <2>2. GateOK' /\ NoUnmappedRead' /\ hold' \in [Users -> SUBSET Segs]
      <3>1. "cycle" \in Users /\ hold' = [hold EXCEPT !["cycle"] = {}]
            /\ UNCHANGED <<walking, mapped, victims>>
        BY <1>b, <1>5 DEF CycleEnds
      <3>2. \A o \in Ops : step'[o] \in {"wait", "unmap"} => step'[o] = step[o]
        BY <2>1
      <3> QED
        BY <3>1, <3>2, LetsGo
    <2>3. ScrubTypeOK' /\ GateCounts'
      BY <1>a, <1>5, <2>2 DEF CycleEnds, ScrubTypeOK, GateCounts
    <2>4. VictimsOK'
      BY <1>a, <1>5, <2>1 DEF CycleEnds, VictimsOK, UnmappedOnce
    <2>5. HoldersOK'
      BY <1>a, <1>b, <1>5, <2>1 DEF CycleEnds, HoldersOK, ScrubTypeOK, Users
    <2>6. LocksOK'
      BY <1>a, <1>b, <1>5, <2>1 DEF CycleEnds, LocksOK, Free
    <2> QED
      BY <2>2, <2>3, <2>4, <2>5, <2>6 DEF ScrubIInv
  <1> QED
    BY <1>b, <1>1, <1>2, <1>3, <1>4, <1>5 DEF RemoveCall, WipeCall, CloseCall, CompactCall

\* From the detach to the unmap the invariant holds.
LEMMA OpsKeep ==
    ASSUME ScrubIInv, NEW o \in Ops,
           Detach(o) \/ DetachRefused(o) \/ WaitScrubs(o) \/ Unmap(o)
    PROVE  ScrubIInv'
  <1>a. ScrubTypeOK /\ GateCounts /\ VictimsOK /\ HoldersOK /\ GateOK /\ LocksOK
        /\ NoUnmappedRead /\ IsFiniteSet(walking)
    BY WalkingIsFinite DEF ScrubIInv
  <1>b. /\ {"cycle", "wipe", "close"} \subseteq Ops /\ Removers \subseteq Ops
        /\ Removers \cap {"cycle", "wipe", "close"} = {} /\ Ops \subseteq Users
        /\ Walkers \cap Ops = {} /\ o \in Removers \cup {"cycle", "wipe", "close"}
    BY ScrubAssumption DEF Ops, Users
  <1>1. CASE Detach(o)
    <2>1. PICK V \in SUBSET sealed : victims' = [victims EXCEPT ![o] = V]
                                     /\ sealed' = IF o = "close" THEN sealed ELSE sealed \ V
      <3>1. Chosen(o) \subseteq SUBSET sealed
        BY DEF Chosen
      <3>2. \E V \in Chosen(o) : /\ victims' = [victims EXCEPT ![o] = V]
                                 /\ sealed' = IF o = "close" THEN sealed ELSE sealed \ V
        BY <1>1, Zenon DEF Detach
      <3> QED
        BY <3>1, <3>2, Zenon
    <2>2. /\ \A q \in Ops : step'[q] = IF q = o THEN "wait" ELSE step[q]
          /\ \A q \in Ops : victims'[q] = IF q = o THEN V ELSE victims[q]
          /\ \A p \in Users : hold'[p] = IF p = o THEN {} ELSE hold[p]
          /\ ~closed /\ reading = {} /\ step[o] = "lock" /\ closed' = (o = "close")
          /\ UNCHANGED <<mapped, unused, scrubN, walking, reading, cycleMu, stopped>>
      BY <1>a, <1>b, <1>1, <2>1, SMTT(30) DEF Detach, Lockable, ScrubTypeOK
    <2>3. \A p \in Users \ {o} : p \in walking \/ hold[p] = {}
      <3>1. o # "cycle" => step["cycle"] = "idle"
        BY <1>a, <1>b, <2>2 DEF LocksOK
      <3> QED
        BY <1>a, <1>b, <2>2, <3>1 DEF HoldersOK, Users
    <2>4. ScrubTypeOK' /\ GateCounts'
      BY <1>a, <1>b, <1>1, <2>1, SMTT(30) DEF Detach, ScrubTypeOK, GateCounts
    <2>5. VictimsOK'
      <3>1. victims["close"] = {}
        BY <1>a, <1>b, <2>2 DEF VictimsOK, LocksOK
      <3>2. \A q \in Ops : victims[q] \cap sealed = {}
        BY <1>a, <3>1 DEF VictimsOK
      <3>3. UnmappedOnce'
        BY <1>a, <2>1, <2>2, <3>2 DEF VictimsOK, UnmappedOnce
      <3> QED
        BY <1>a, <2>1, <2>2, <3>2, <3>3, SMTT(30) DEF VictimsOK
    <2>6. HoldersOK'
      BY <1>a, <1>b, <2>2, SMTT(30) DEF HoldersOK, Users
    <2>7. GateOK'
      BY <1>a, <2>2, <2>3 DEF GateOK
    <2>8. LocksOK'
      BY <1>a, <1>b, <2>2, ZenonT(30) DEF LocksOK
    <2>9. NoUnmappedRead'
      BY <1>a, <2>2 DEF NoUnmappedRead, Users
    <2> QED
      BY <2>4, <2>5, <2>6, <2>7, <2>8, <2>9 DEF ScrubIInv
  <1>2. CASE DetachRefused(o)
    <2>1. /\ \A q \in Ops : step'[q] = IF q = o THEN "idle" ELSE step[q]
          /\ hold' = [hold EXCEPT ![o] = {}] /\ cycleMu' = CycleMuAfter(o)
          /\ step[o] = "lock"
          /\ UNCHANGED <<sealed, mapped, unused, closed, scrubN, walking, reading,
                         stopped, victims>>
      BY <1>a, <1>2 DEF DetachRefused, ScrubTypeOK
    <2>2. GateOK' /\ NoUnmappedRead' /\ hold' \in [Users -> SUBSET Segs]
      BY <1>b, <2>1, LetsGo
    <2>3. ScrubTypeOK' /\ GateCounts'
      BY <1>a, <1>2, <2>2 DEF DetachRefused, ScrubTypeOK, GateCounts
    <2>4. VictimsOK'
      BY <1>a, <2>1 DEF VictimsOK, UnmappedOnce
    <2>5. HoldersOK'
      BY <1>a, <1>b, <2>1 DEF HoldersOK, ScrubTypeOK, Users
    <2>6. LocksOK'
      BY <1>a, <1>b, <2>1 DEF LocksOK, CycleMuAfter
    <2> QED
      BY <2>2, <2>3, <2>4, <2>5, <2>6 DEF ScrubIInv
  <1>3. CASE WaitScrubs(o)
    <2>1. /\ \A q \in Ops : step'[q] = IF q = o THEN "unmap" ELSE step[q]
          /\ step[o] = "wait"
          /\ UNCHANGED <<sealed, mapped, unused, closed, scrubN, walking, reading,
                         hold, cycleMu, stopped, victims>>
      BY <1>a, <1>3 DEF WaitScrubs, ScrubTypeOK
    <2>2. walking = {}
      BY <1>a, <1>3, FS_EmptySet DEF WaitScrubs, GateCounts
    <2>3. GateOK' /\ NoUnmappedRead'
      BY <1>a, <2>1, <2>2 DEF GateOK, NoUnmappedRead
    <2>4. ScrubTypeOK' /\ GateCounts'
      BY <1>a, <1>3 DEF WaitScrubs, ScrubTypeOK, GateCounts
    <2>5. VictimsOK' /\ HoldersOK' /\ LocksOK'
      BY <1>a, <1>b, <2>1 DEF VictimsOK, UnmappedOnce, HoldersOK, LocksOK
    <2> QED
      BY <2>3, <2>4, <2>5 DEF ScrubIInv
  <1>4. CASE Unmap(o)
    <2>1. /\ \A q \in Ops : step'[q] = IF q = o THEN (IF o = "close" THEN "done" ELSE "idle")
                                       ELSE step[q]
          /\ \A q \in Ops : victims'[q] = IF q = o THEN {} ELSE victims[q]
          /\ mapped' = mapped \ victims[o] /\ step[o] = "unmap"
          /\ sealed' = IF o = "close" THEN {} ELSE sealed
          /\ cycleMu' = CycleMuAfter(o)
          /\ UNCHANGED <<unused, closed, scrubN, walking, reading, hold, stopped>>
      BY <1>a, <1>4, SMTT(30) DEF Unmap, ScrubTypeOK
    <2>2. NoUnmappedRead'
      <3>1. ASSUME NEW p \in Users PROVE hold[p] \subseteq mapped \ victims[o]
        <4>1. hold[p] \subseteq mapped
          BY <1>a, Zenon DEF NoUnmappedRead, Users
        <4>2. hold[p] \cap victims[o] = {}
          BY <1>a, <2>1, ZenonT(30) DEF GateOK
        <4> QED
          BY <4>1, <4>2
      <3> QED
        BY <2>1, <3>1 DEF NoUnmappedRead, Users
    <2>3. GateOK'
      BY <1>a, <2>1 DEF GateOK
    <2>4. ScrubTypeOK' /\ GateCounts'
      BY <1>a, <1>4, SMTT(30) DEF Unmap, ScrubTypeOK, GateCounts
    <2>5. UnmappedOnce'
      <3>1. UnmappedOnce
        BY <1>a, SMTT(30) DEF VictimsOK
      <3> QED
        BY <2>1, <3>1, SMTT(30) DEF UnmappedOnce
    <2>6. VictimsOK'
      BY <1>a, <2>1, <2>5, SMTT(30) DEF VictimsOK
    <2>7. HoldersOK' /\ LocksOK'
      BY <1>a, <1>b, <2>1 DEF HoldersOK, LocksOK, CycleMuAfter
    <2> QED
      BY <2>2, <2>3, <2>4, <2>6, <2>7, SMTT(30) DEF ScrubIInv
  <1> QED
    BY <1>1, <1>2, <1>3, <1>4

\* Every step keeps the invariant.
LEMMA ScrubKeeps == ScrubIInv /\ [ScrubNext]_scrubVars => ScrubIInv'
  <1> SUFFICES ASSUME ScrubIInv, [ScrubNext]_scrubVars
               PROVE  ScrubIInv'
    OBVIOUS
  <1>1. CASE UNCHANGED scrubVars
    BY <1>1 DEF scrubVars, ScrubIInv, ScrubTypeOK, GateCounts, VictimsOK, HoldersOK, GateOK,
                LocksOK, NoUnmappedRead, UnmappedOnce
  <1> QED
    BY <1>1, WalkersKeep, CallsKeep, OpsKeep DEF ScrubNext, WalkStarts

\* packstore.go, gc.go, verify.go and compact.go: nobody looks at a map that is
\* gone, and no map is unmapped twice.
THEOREM MapsAreSafe == ScrubSpec => []MapsSafe
  <1>1. ScrubIInv => MapsSafe
    BY DEF ScrubIInv, VictimsOK, MapsSafe
  <1> QED
    BY <1>1, ScrubStarts, ScrubKeeps, PTL DEF ScrubSpec

-----------------------------------------------------------------------------
\* A step of the store is a step of the leases.
LEMMA StepsAreLeased ==
    ASSUME ScrubIInv, ScrubIInv', [ScrubNext]_scrubVars
    PROVE  [Maps!LeaseNext]_(Maps!leaseVars)
  <1> USE DEF Maps!LeaseNext, Maps!leaseVars
  <1>a. Maps!Turnover
    BY DEF ScrubIInv, ScrubTypeOK, NoUnmappedRead, Maps!Turnover
  <1>b. {"cycle", "wipe", "close"} \subseteq Ops /\ Removers \subseteq Ops
    BY DEF Ops
  <1>1. ASSUME UNCHANGED hold PROVE Maps!LeaseNext
    BY <1>a, <1>1
  <1>2. ASSUME NEW u \in Walkers \cup Ops, hold' = [hold EXCEPT ![u] = {}]
        PROVE  Maps!LeaseNext
    BY <1>a, <1>2 DEF Maps!Return
  <1>3. ASSUME NEW u \in Walkers \cup Ops, hold[u] = {}, NEW S \in SUBSET Segs,
               hold' = [hold EXCEPT ![u] = S]
        PROVE  Maps!LeaseNext
    BY <1>a, <1>3 DEF Maps!Acquire
  <1>4. sealed \in SUBSET Segs /\ \A g \in sealed : {g} \in SUBSET Segs
    BY DEF ScrubIInv, ScrubTypeOK
  <1>5. ASSUME NEW w \in Walkers, ReadBegin(w) \/ VerifyBegin(w) \/ PinSegment(w)
        PROVE  Maps!LeaseNext
    <2>1. hold[w] = {}
      BY <1>5 DEF ReadBegin, VerifyBegin, PinSegment, WalkBegin, ScrubIInv, HoldersOK
    <2>2. PICK S \in SUBSET Segs : hold' = [hold EXCEPT ![w] = S]
      BY <1>4, <1>5 DEF ReadBegin, VerifyBegin, PinSegment, WalkBegin
    <2> QED
      BY <1>3, <2>1, <2>2, ZenonT(30)
  <1>6. ASSUME NEW w \in Walkers, ReadEnd(w) \/ WalkEnd(w) PROVE Maps!LeaseNext
    BY <1>2, <1>6 DEF ReadEnd, WalkEnd
  <1>7. CASE CycleBegin
    <2>1. hold["cycle"] = {}
      BY <1>7 DEF CycleBegin, ScrubIInv, HoldersOK
    <2> QED
      BY <1>b, <1>3, <1>4, <1>7, <2>1, ZenonT(30) DEF CycleBegin
  <1>8. CASE CycleEnds
    BY <1>b, <1>2, <1>8, ZenonT(30) DEF CycleEnds
  <1>9. CASE SealPublished \/ WipeCall \/ CollectorClose \/ CloseCall \/ CompactCall
    BY <1>1, <1>9, SMTT(30) DEF SealPublished, WipeCall, CollectorClose, CloseCall, CompactCall, Lock
  <1>10. ASSUME NEW o \in Ops, RemoveCall(o) \/ WaitScrubs(o) \/ Unmap(o)
         PROVE  Maps!LeaseNext
    BY <1>1, <1>10, SMTT(30) DEF RemoveCall, Lock, WaitScrubs, Unmap
  <1>11. ASSUME NEW o \in Ops, Detach(o) \/ DetachRefused(o)
         PROVE  Maps!LeaseNext
    BY <1>2, <1>11 DEF Detach, DetachRefused
  <1>12. CASE UNCHANGED scrubVars
    BY <1>12 DEF scrubVars
  <1> QED
    BY <1>5, <1>6, <1>7, <1>8, <1>9, <1>10, <1>11, <1>12 DEF ScrubNext, WalkStarts

\* The gate of packstore implements Leases for the memory maps.
THEOREM GateImplementsLeases == ScrubSpec => MapsAreLeased
  <1>1. ScrubInit => Maps!LeaseInit
    BY DEF ScrubInit, Maps!LeaseInit
  <1>2. ScrubIInv /\ ScrubIInv' /\ [ScrubNext]_scrubVars => [Maps!LeaseNext]_(Maps!leaseVars)
    BY StepsAreLeased
  <1> QED
    BY <1>1, <1>2, ScrubStarts, ScrubKeeps, PTL DEF ScrubSpec, MapsAreLeased, Maps!LeaseSpec
=============================================================================
