--------------------------- MODULE RefDurability ---------------------------
(***************************************************************************)
(* The object store and the reference table together, across a power loss. *)
(* An appended record is visible to every reader at once and durable after *)
(* the next fsync (PackStore); a reference is durable when its PUT returns *)
(* (refstore, pebble.Sync).  PrepareRef asks what is visible.              *)
(***************************************************************************)
EXTENDS Trees

CONSTANTS
    RefNames,   \* reference names
    Uploaders,  \* concurrent requests of the daemon
    NoTree      \* no reference, no request

ASSUME NoTreeAssumption == NoTree \notin Keys

VARIABLES
    visible,   \* records the store's index knows
    durable,   \* records that are on disk
    refs,      \* the reference table, on disk
    point,     \* point[c]: program point of request c
    batch,     \* batch[c]: the keys its POST has passed to WriteParallel
    putRoot,   \* putRoot[c]: the root its PUT names
    reported,  \* keys some POST has reported stored
    covered    \* references whose whole tree was reported when their PUT began

durRequests == <<point, batch, putRoot>>
durVars     == <<visible, durable, refs, durRequests, reported, covered>>

Tree(n) == Reach(refs[n])

-----------------------------------------------------------------------------
(* postObjects: WriteParallel. *)

PostBegin(c) ==
    /\ point[c] = "idle"
    /\ point' = [point EXCEPT ![c] = "post"]
    /\ UNCHANGED <<visible, durable, refs, batch, putRoot, reported, covered>>

\* A record is appended, or found by Has and skipped.
PostAppend(c) ==
    /\ point[c] = "post"
    /\ \E k \in Keys \ batch[c] : /\ visible' = visible \cup {k}
                                  /\ batch' = [batch EXCEPT ![c] = @ \cup {k}]
    /\ UNCHANGED <<durable, refs, point, putRoot, reported, covered>>

\* An fsync in between: after batchSize bytes, or when a segment is sealed.
PostSync(c) ==
    /\ point[c] = "post"
    /\ durable' = visible
    /\ UNCHANGED <<visible, refs, durRequests, reported, covered>>

\* Mutant: the last fsync is left out.
MutantPostEnd(c) ==
    /\ point[c] = "post"
    /\ reported' = reported \cup batch[c]
    /\ point' = [point EXCEPT ![c] = "idle"]
    /\ batch' = [batch EXCEPT ![c] = {}]
    /\ UNCHANGED <<visible, durable, refs, putRoot, covered>>

\* syncActive, then 200; or an error, after an fsync all the same.
PostEnd(c) ==
    /\ point[c] = "post"
    /\ durable' = visible
    /\ reported' \in {reported, reported \cup batch[c]}
    /\ point' = [point EXCEPT ![c] = "idle"]
    /\ batch' = [batch EXCEPT ![c] = {}]
    /\ UNCHANGED <<visible, refs, putRoot, covered>>

-----------------------------------------------------------------------------
(* putRef: PrepareRef walks the tree, refs.Put syncs the record. *)

PutPrepare(c) ==
    /\ point[c] = "idle"
    /\ \E k \in Keys : /\ Reach(k) \subseteq visible
                       /\ putRoot' = [putRoot EXCEPT ![c] = k]
                       /\ point' = [point EXCEPT ![c] = IF Reach(k) \subseteq reported
                                                        THEN "putSure" ELSE "put"]
    /\ UNCHANGED <<visible, durable, refs, batch, reported, covered>>

PutStore(c) ==
    /\ point[c] \in {"put", "putSure"}
    /\ \/ \E n \in RefNames :
             /\ refs' = [refs EXCEPT ![n] = putRoot[c]]
             /\ covered' = IF point[c] = "putSure" THEN covered \cup {n} ELSE covered \ {n}
       \/ UNCHANGED <<refs, covered>>               \* refs.Put fails: abort
    /\ point' = [point EXCEPT ![c] = "idle"]
    /\ putRoot' = [putRoot EXCEPT ![c] = NoTree]
    /\ UNCHANGED <<visible, durable, batch, reported>>

DeleteRef(n) ==
    /\ refs[n] # NoTree
    /\ refs' = [refs EXCEPT ![n] = NoTree]
    /\ covered' = covered \ {n}
    /\ UNCHANGED <<visible, durable, durRequests, reported>>

-----------------------------------------------------------------------------
\* What was not fsynced may or may not have reached the disk.
LosePower ==
    /\ \E S \in SUBSET (visible \ durable) : /\ visible' = durable \cup S
                                             /\ durable' = visible'
    /\ point' = [c \in Uploaders |-> "idle"]
    /\ batch' = [c \in Uploaders |-> {}]
    /\ putRoot' = [c \in Uploaders |-> NoTree]
    /\ UNCHANGED <<refs, reported, covered>>

DurInit ==
    /\ visible = {} /\ durable = {} /\ refs = [n \in RefNames |-> NoTree]
    /\ point = [c \in Uploaders |-> "idle"] /\ batch = [c \in Uploaders |-> {}]
    /\ putRoot = [c \in Uploaders |-> NoTree]
    /\ reported = {} /\ covered = {}

DurNext ==
    \/ \E c \in Uploaders : \/ PostBegin(c) \/ PostAppend(c) \/ PostSync(c)
                            \/ PostEnd(c) \/ PutPrepare(c) \/ PutStore(c)
    \/ \E n \in RefNames : DeleteRef(n)
    \/ LosePower

DurSpec == DurInit /\ [][DurNext]_durVars

-----------------------------------------------------------------------------
\* The records, the references and the requests keep their types.
DurTypeOK ==
    /\ durable \subseteq visible /\ visible \subseteq Keys
    /\ refs \in [RefNames -> Keys \cup {NoTree}]
    /\ point \in [Uploaders -> {"idle", "post", "put", "putSure"}]
    /\ batch \in [Uploaders -> SUBSET Keys]
    /\ putRoot \in [Uploaders -> Keys \cup {NoTree}]
    /\ reported \subseteq Keys /\ covered \subseteq RefNames

\* A reference onto objects that uploads had reported stored before its PUT
\* never dangles, whatever power losses follow.
AckedTreesSurvive == \A n \in covered : Tree(n) \subseteq visible

\* No accepted reference dangles ("an accepted reference never dangles",
\* "consistent after a crash at any point").
NoDangling == \A n \in RefNames : refs[n] # NoTree => Tree(n) \subseteq visible
=============================================================================
