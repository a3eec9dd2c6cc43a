------------------------ MODULE RefDurabilityProofs ------------------------
(***************************************************************************)
(* For any tree, any names and any number of requests: a reference onto    *)
(* objects that uploads had reported stored survives every power loss.     *)
(* What is reported is durable, hence so is the whole tree of a PUT that   *)
(* found it reported; a power loss drops only what is not durable.         *)
(***************************************************************************)
EXTENDS RefDurability, TLAPS

\* What a request has in hand: a POST appends before it reports, and a PUT
\* that found its tree reported found it on disk.
RequestsBacked ==
    \A c \in Uploaders :
        /\ batch[c] \subseteq visible
        /\ point[c] \in {"put", "putSure"} => putRoot[c] \in Keys
        /\ point[c] = "putSure" => Reach(putRoot[c]) \subseteq durable

\* Reported objects, and the trees of covered references, are on disk.
CoveredOnDisk ==
    /\ reported \subseteq durable
    /\ \A n \in covered : Tree(n) \subseteq durable

DurIInv == DurTypeOK /\ RequestsBacked /\ CoveredOnDisk

\* The empty store has the invariant.
LEMMA DurStarts == DurInit => DurIInv
  BY DEF DurInit, DurIInv, DurTypeOK, RequestsBacked, CoveredOnDisk

\* A step that changes neither the references nor the covered set, and takes
\* nothing off the disk, leaves the covered trees there.
LEMMA CoveredTreesKept ==
    ASSUME CoveredOnDisk, UNCHANGED <<refs, covered>>, durable \subseteq durable'
    PROVE  \A n \in covered' : Tree(n)' \subseteq durable'
  BY DEF CoveredOnDisk, Tree

\* Every step keeps the invariant.
LEMMA DurKeeps == DurIInv /\ [DurNext]_durVars => DurIInv'
  <1> SUFFICES ASSUME DurIInv, [DurNext]_durVars
               PROVE  DurIInv'
    OBVIOUS
  <1> USE DEF DurIInv, DurTypeOK, durRequests
  <1>1. ASSUME NEW c \in Uploaders, PostBegin(c)
        PROVE  DurIInv'
    BY <1>1, CoveredTreesKept DEF PostBegin, RequestsBacked, CoveredOnDisk
  <1>2. ASSUME NEW c \in Uploaders, PostAppend(c)
        PROVE  DurIInv'
    <2>1. PICK k \in Keys : /\ visible' = visible \cup {k}
                            /\ batch' = [batch EXCEPT ![c] = @ \cup {k}]
      BY <1>2 DEF PostAppend
    <2>2. UNCHANGED <<durable, refs, point, putRoot, reported, covered>>
      BY <1>2 DEF PostAppend
    <2>3. RequestsBacked'
      BY <2>1, <2>2 DEF RequestsBacked
    <2> QED
      BY <2>1, <2>2, <2>3, CoveredTreesKept DEF CoveredOnDisk
  <1>3. ASSUME NEW c \in Uploaders, PostSync(c)
        PROVE  DurIInv'
    BY <1>3, CoveredTreesKept DEF PostSync, RequestsBacked, CoveredOnDisk
  <1>4. ASSUME NEW c \in Uploaders, PostEnd(c)
        PROVE  DurIInv'
    <2>1. RequestsBacked' /\ DurTypeOK'
      BY <1>4 DEF PostEnd, RequestsBacked
    <2>2. CoveredOnDisk'
      BY <1>4, CoveredTreesKept DEF PostEnd, RequestsBacked, CoveredOnDisk
    <2> QED
      BY <2>1, <2>2
  <1>5. ASSUME NEW c \in Uploaders, PutPrepare(c)
        PROVE  DurIInv'
    BY <1>5, CoveredTreesKept DEF PutPrepare, RequestsBacked, CoveredOnDisk
  <1>6. ASSUME NEW c \in Uploaders, PutStore(c)
        PROVE  DurIInv'
    <2>1. DurTypeOK' /\ RequestsBacked'
      BY <1>6 DEF PutStore, RequestsBacked
    <2>2. ASSUME NEW n \in RefNames, refs' = [refs EXCEPT ![n] = putRoot[c]],
                 covered' = IF point[c] = "putSure" THEN covered \cup {n} ELSE covered \ {n}
          PROVE  \A m \in covered' : Tree(m)' \subseteq durable'
      BY <1>6, <2>2 DEF PutStore, RequestsBacked, CoveredOnDisk, Tree
    <2>3. CoveredOnDisk'
      BY <1>6, <2>2, CoveredTreesKept DEF PutStore, CoveredOnDisk
    <2> QED
      BY <2>1, <2>3
  <1>7. ASSUME NEW n \in RefNames, DeleteRef(n)
        PROVE  DurIInv'
    BY <1>7 DEF DeleteRef, RequestsBacked, CoveredOnDisk, Tree
  <1>8. CASE LosePower
    BY <1>8, CoveredTreesKept DEF LosePower, RequestsBacked, CoveredOnDisk
  <1>9. CASE UNCHANGED durVars
    BY <1>9, CoveredTreesKept DEF durVars, RequestsBacked, CoveredOnDisk
  <1> QED
    BY <1>1, <1>2, <1>3, <1>4, <1>5, <1>6, <1>7, <1>8, <1>9 DEF DurNext

\* PrepareRef and refs.Put over WriteParallel: a reference whose objects had
\* been reported stored before its PUT never dangles after a power loss.
THEOREM ReportedTreesSurvive == DurSpec => [](DurTypeOK /\ AckedTreesSurvive)
  <1>1. DurIInv => DurTypeOK /\ AckedTreesSurvive
    BY DEF DurIInv, DurTypeOK, CoveredOnDisk, AckedTreesSurvive
  <1> QED
    BY <1>1, DurStarts, DurKeeps, PTL DEF DurSpec
=============================================================================
