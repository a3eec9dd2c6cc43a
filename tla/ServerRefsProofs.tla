-------------------------- MODULE ServerRefsProofs --------------------------
(***************************************************************************)
(* For any names, signers, roots and requests: no reference dangles,       *)
(* whatever PUTs, deletions, collections, wipes and restarts do; and a name *)
(* that only one request at a time writes keeps its owner.  The first needs *)
(* to know that a prepared tree is whole and that a wipe's second half runs *)
(* with no reference and no request; the second that the check of a request *)
(* still holds when it writes.                                             *)
(***************************************************************************)
EXTENDS ServerRefs, TLAPS

\* rec is a function, which RefsTypeOK does not say.
RecTypeOK == rec \in [Putters -> Records \cup {NoRecord}]

\* Between PrepareRef and the store of the record the tree stays.
PreparedWhole == \A c \in Putters : put[c] = "put" => rec[c].root \in complete

\* refs.Wipe has run, and wipeMu keeps requests out until the objects are gone.
WipeAlone ==
    wipe = "objects" => /\ \A n \in Names : refs[n] = NoRecord
                        /\ \A c \in Putters : put[c] = "idle"

RefsIInv == RefsTypeOK /\ RecTypeOK /\ PreparedWhole /\ WipeAlone /\ NoDangling

\* The empty server has the invariant.
LEMMA RefsStart == RefsInit => RefsIInv
  BY DEF RefsInit, RefsIInv, RefsTypeOK, RecTypeOK, PreparedWhole, WipeAlone, NoDangling,
         Referenced

\* An answered request leaves the types alone, and no request.
LEMMA AnswerKeepsTypes ==
    ASSUME RefsTypeOK, RecTypeOK, NEW c \in Putters, Answer(c),
           refs' \in [Names -> Records \cup {NoRecord}], UNCHANGED <<complete, wipe>>
    PROVE  RefsTypeOK' /\ RecTypeOK'
  BY DEF RefsTypeOK, RecTypeOK, Answer

\* A step that changes no request and no tree, and adds no reference, adds none
\* that dangles.
LEMMA FewerReferences ==
    ASSUME NoDangling, UNCHANGED complete, \A n \in Names : refs'[n] \in {refs[n], NoRecord}
    PROVE  NoDangling'
  BY DEF NoDangling, Referenced

\* Every step keeps the invariant.
LEMMA RefsKeep == RefsIInv /\ [RefsNext]_refsVars => RefsIInv'
  <1> SUFFICES ASSUME RefsIInv, [RefsNext]_refsVars
               PROVE  RefsIInv'
    OBVIOUS
  <1> USE DEF RefsIInv, requests
  <1>1. ASSUME NEW c \in Putters, PutBegin(c)
        PROVE  RefsIInv'
    <2>1. RefsTypeOK' /\ RecTypeOK'
      BY <1>1 DEF PutBegin, RefsTypeOK, RecTypeOK
    <2>2. PreparedWhole' /\ WipeAlone'
      BY <1>1 DEF PutBegin, RLockFree, PreparedWhole, WipeAlone, RefsTypeOK, RecTypeOK
    <2> QED
      BY <1>1, <2>1, <2>2, FewerReferences DEF PutBegin
  <1>2. ASSUME NEW c \in Putters, PutCheck(c)
        PROVE  RefsIInv'
    <2>1. CASE MayReplace(c, refs[NameOf[c]])
      BY <1>2, <2>1, FewerReferences
         DEF PutCheck, RefsTypeOK, RecTypeOK, PreparedWhole, WipeAlone
    <2>2. CASE ~MayReplace(c, refs[NameOf[c]])
      <3>1. RefsTypeOK' /\ RecTypeOK'
        BY <1>2, <2>2, AnswerKeepsTypes DEF PutCheck, RefsTypeOK
      <3> QED
        BY <1>2, <2>2, <3>1, FewerReferences
           DEF PutCheck, Answer, PreparedWhole, WipeAlone, RefsTypeOK, RecTypeOK
    <2> QED
      BY <2>1, <2>2
  <1>3. ASSUME NEW c \in Putters, PutPrepare(c)
        PROVE  RefsIInv'
    <2>1. CASE rec[c].root \in complete
      BY <1>3, <2>1, FewerReferences
         DEF PutPrepare, RefsTypeOK, RecTypeOK, PreparedWhole, WipeAlone
    <2>2. CASE rec[c].root \notin complete
      <3>1. RefsTypeOK' /\ RecTypeOK'
        BY <1>3, <2>2, AnswerKeepsTypes DEF PutPrepare, RefsTypeOK
      <3> QED
        BY <1>3, <2>2, <3>1, FewerReferences
           DEF PutPrepare, Answer, PreparedWhole, WipeAlone, RefsTypeOK, RecTypeOK
    <2> QED
      BY <2>1, <2>2
  <1>4. ASSUME NEW c \in Putters, PutStore(c)
        PROVE  RefsIInv'
    <2>1. refs' \in [Names -> Records \cup {NoRecord}]
      BY <1>4, ServerRefsAssumption DEF PutStore, RefsTypeOK, RecTypeOK
    <2>2. RefsTypeOK' /\ RecTypeOK'
      BY <1>4, <2>1, AnswerKeepsTypes DEF PutStore
    <2>3. PreparedWhole' /\ WipeAlone'
      BY <1>4 DEF PutStore, Answer, PreparedWhole, WipeAlone, RefsTypeOK, RecTypeOK
    <2>4. NoDangling'
      <3>1. rec[c].root \in complete
        BY <1>4 DEF PutStore, PreparedWhole
      <3> QED
        BY <1>4, <3>1, ServerRefsAssumption
           DEF PutStore, NoDangling, Referenced, RefsTypeOK
    <2> QED
      BY <2>2, <2>3, <2>4
  <1>5. ASSUME NEW n \in Names, Delete(n)
        PROVE  RefsIInv'
    BY <1>5, FewerReferences DEF Delete, RefsTypeOK, RecTypeOK, PreparedWhole, WipeAlone
  <1>6. ASSUME NEW r \in TreeRoots, Drain(r)
        PROVE  RefsIInv'
    BY <1>6 DEF Drain, RefsTypeOK, RecTypeOK, PreparedWhole, WipeAlone, NoDangling, Referenced
  <1>7. ASSUME NEW r \in TreeRoots, Collect(r)
        PROVE  RefsIInv'
    BY <1>7 DEF Collect, RefsTypeOK, RecTypeOK, PreparedWhole, WipeAlone, NoDangling, Referenced
  <1>8. CASE WipeBegin
    BY <1>8, FewerReferences DEF WipeBegin, RefsTypeOK, RecTypeOK, PreparedWhole, WipeAlone
  <1>9. CASE WipeRefs
    BY <1>9, FewerReferences DEF WipeRefs, RefsTypeOK, RecTypeOK, PreparedWhole, WipeAlone
  <1>10. CASE WipeObjects
    BY <1>10 DEF WipeObjects, RefsTypeOK, RecTypeOK, PreparedWhole, WipeAlone, NoDangling,
                 Referenced
  <1>11. CASE Crash
    BY <1>11, FewerReferences DEF Crash, RefsTypeOK, RecTypeOK, PreparedWhole, WipeAlone
  <1>12. CASE UNCHANGED refsVars
    BY <1>12, FewerReferences DEF refsVars, RefsTypeOK, RecTypeOK, PreparedWhole, WipeAlone
  <1> QED
    BY <1>1, <1>2, <1>3, <1>4, <1>5, <1>6, <1>7, <1>8, <1>9, <1>10, <1>11, <1>12
       DEF RefsNext, PutStep, WipeStep

\* server/refs.go and server/wipe.go: a stored reference always names a whole
\* tree.
THEOREM ServerRefsNeverDangle == RefsSpec => [](RefsTypeOK /\ NoDangling)
  <1>1. RefsIInv => RefsTypeOK /\ NoDangling
    BY DEF RefsIInv
  <1> QED
    BY <1>1, RefsStart, RefsKeep, PTL DEF RefsSpec

-----------------------------------------------------------------------------
\* No two requests write one name.
DistinctNames == \A c, d \in Putters : NameOf[c] = NameOf[d] => c = d

\* What putRef checked before it waited still holds when it writes.
CheckHolds ==
    \A c \in Putters : put[c] \in {"prepare", "put"} => MayReplace(c, refs[NameOf[c]])

\* Under DistinctNames every step keeps the result of the check.
LEMMA CheckKeeps ==
    ASSUME DistinctNames, RefsIInv, CheckHolds, [RefsNext]_refsVars
    PROVE  CheckHolds'
  <1> USE ServerRefsAssumption DEF RefsIInv, requests
  <1>1. ASSUME NEW c \in Putters, PutBegin(c) PROVE CheckHolds'
    BY <1>1 DEF PutBegin, CheckHolds, MayReplace, RefsTypeOK, RecTypeOK
  <1>2. ASSUME NEW c \in Putters, PutCheck(c) PROVE CheckHolds'
    BY <1>2 DEF PutCheck, Answer, CheckHolds, MayReplace, RefsTypeOK, RecTypeOK
  <1>3. ASSUME NEW c \in Putters, PutPrepare(c) PROVE CheckHolds'
    BY <1>3 DEF PutPrepare, Answer, CheckHolds, MayReplace, RefsTypeOK, RecTypeOK
  <1>4. ASSUME NEW c \in Putters, PutStore(c) PROVE CheckHolds'
    <2>1. \A d \in Putters \ {c} : refs'[NameOf[d]] = refs[NameOf[d]]
      BY <1>4 DEF PutStore, DistinctNames, RefsTypeOK
    <2> QED
      BY <1>4, <2>1 DEF PutStore, Answer, CheckHolds, MayReplace, RefsTypeOK, RecTypeOK
  <1>5. ASSUME NEW n \in Names, Delete(n) PROVE CheckHolds'
    BY <1>5 DEF Delete, CheckHolds, MayReplace, RefsTypeOK
  <1>6. ASSUME NEW r \in TreeRoots, Drain(r) \/ Collect(r) PROVE CheckHolds'
    BY <1>6 DEF Drain, Collect, CheckHolds, MayReplace
  <1>7. CASE WipeBegin \/ WipeStep \/ Crash
    BY <1>7 DEF WipeBegin, WipeStep, WipeRefs, WipeObjects, Crash, CheckHolds, MayReplace,
                RefsTypeOK
  <1>8. CASE UNCHANGED refsVars
    BY <1>8 DEF refsVars, CheckHolds, MayReplace
  <1> QED
    BY <1>1, <1>2, <1>3, <1>4, <1>5, <1>6, <1>7, <1>8 DEF RefsNext, PutStep

\* One step respects the owner of every name.
OwnershipStep ==
    \A n \in Names :
        LET old == refs[n] new == refs'[n] IN
        (old # NoRecord /\ new # NoRecord /\ new # old)
           => \/ \E c \in admin : NameOf[c] = n /\ put[c] = "put"
              \/ new.signer = old.signer /\ new.at > old.at

\* Only PutStore replaces a record by another, and its check still holds.
LEMMA CheckedStep ==
    ASSUME DistinctNames, RefsIInv, CheckHolds, [RefsNext]_refsVars
    PROVE  OwnershipStep \/ UNCHANGED refsVars
  <1> USE ServerRefsAssumption DEF RefsIInv, requests
  <1>1. ASSUME NEW c \in Putters, PutStore(c) PROVE OwnershipStep
    <2>1. CASE UNCHANGED refs
      BY <2>1 DEF OwnershipStep
    <2>2. CASE refs' = [refs EXCEPT ![NameOf[c]] = rec[c]]
      BY <1>1, <2>2 DEF PutStore, CheckHolds, MayReplace, OwnershipStep, RefsTypeOK
    <2> QED
      BY <1>1, <2>1, <2>2 DEF PutStore
  <1>2. CASE \A n \in Names : refs'[n] \in {refs[n], NoRecord}
    BY <1>2 DEF OwnershipStep
  <1>3. ASSUME NEW c \in Putters, PutBegin(c) \/ PutCheck(c) \/ PutPrepare(c)
        PROVE  UNCHANGED refs
    BY <1>3 DEF PutBegin, PutCheck, PutPrepare
  <1>4. ASSUME NEW n \in Names, Delete(n)
        PROVE  \A m \in Names : refs'[m] \in {refs[m], NoRecord}
    BY <1>4 DEF Delete, RefsTypeOK
  <1>5. ASSUME NEW r \in TreeRoots, Drain(r) \/ Collect(r)
        PROVE  UNCHANGED refs
    BY <1>5 DEF Drain, Collect
  <1>6. ASSUME WipeBegin \/ WipeStep \/ Crash
        PROVE  \A m \in Names : refs'[m] \in {refs[m], NoRecord}
    BY <1>6 DEF WipeBegin, WipeStep, WipeRefs, WipeObjects, Crash
  <1> QED
    BY <1>1, <1>2, <1>3, <1>4, <1>5, <1>6 DEF RefsNext, PutStep

\* server/refs.go: as long as no two requests write one name at a time, a name
\* changes hands or goes back in time only by an admin's PUT.  (Two requests
\* that write one name break this: run server_refs_race.)
THEOREM OwnershipOfDistinctNames == ASSUME DistinctNames PROVE RefsSpec => OwnershipKept
  <1>1. RefsInit => CheckHolds
    BY DEF RefsInit, CheckHolds
  <1>2. RefsIInv /\ CheckHolds /\ [RefsNext]_refsVars => CheckHolds'
    BY CheckKeeps
  <1>3. RefsIInv /\ CheckHolds /\ [RefsNext]_refsVars => [OwnershipStep]_refsVars
    BY CheckedStep
  <1>4. [][OwnershipStep]_refsVars => OwnershipKept
    BY PTL DEF OwnershipKept, OwnershipStep
  <1> QED
    BY <1>1, <1>2, <1>3, <1>4, RefsStart, RefsKeep, PTL DEF RefsSpec
=============================================================================
