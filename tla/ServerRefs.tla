----------------------------- MODULE ServerRefs -----------------------------
(***************************************************************************)
(* The server's reference handlers (server/refs.go, server/wipe.go) over   *)
(* the reference table (package refstore): PUT checks the stored record,   *)
(* waits for the uploads of its root, prepares the root through the        *)
(* collector and stores the record; DELETE; and the wipe, which excludes   *)
(* them by wipeMu.                                                         *)
(*                                                                         *)
(* A root stands for its tree: complete holds the roots whose tree is      *)
(* whole in the store.  What PrepareRef promises - a prepared tree stays   *)
(* until the request ends - is what Collector establishes.                 *)
(***************************************************************************)
EXTENDS Naturals

CONSTANTS
    Names,     \* reference names
    Signers,   \* keys that sign records
    Times,     \* values of created_at
    TreeRoots, \* tree roots
    Putters,   \* concurrent PUT requests
    NameOf,    \* NameOf[c]: the name that request c writes
    NoRecord   \* no record

Records == [signer : Signers, at : Times, root : TreeRoots]

ASSUME ServerRefsAssumption ==
    /\ Times \subseteq Nat
    /\ NameOf \in [Putters -> Names]
    /\ NoRecord \notin Records

VARIABLES
    refs,      \* refs[n]: the stored record, or NoRecord
    complete,  \* roots whose tree is in the object store
    put,       \* put[c]: program point of request c
    rec,       \* rec[c]: the record it carries
    admin,     \* the requests sent with an admin key
    wipe       \* program point of postWipe

requests == <<put, rec, admin>>
refsVars == <<refs, complete, requests, wipe>>

Referenced == {refs[n].root : n \in {m \in Names : refs[m] # NoRecord}}

-----------------------------------------------------------------------------
\* wipeMu: a waiting writer keeps new readers out.
RLockFree == wipe = "idle"

Answer(c) == /\ put' = [put EXCEPT ![c] = "idle"]
             /\ rec' = [rec EXCEPT ![c] = NoRecord]
             /\ admin' = admin \ {c}

\* A signed record for the request's name arrives; wipeMu is taken shared.
PutBegin(c) ==
    /\ put[c] = "idle" /\ RLockFree
    /\ put' = [put EXCEPT ![c] = "check"]
    /\ \E r \in Records : rec' = [rec EXCEPT ![c] = r]
    /\ admin' \in {admin, admin \cup {c}}
    /\ UNCHANGED <<refs, complete, wipe>>

\* Mutant: a later record is accepted from any signer.
MutantMayReplace(c, old) ==
    \/ old = NoRecord
    \/ c \in admin
    \/ rec[c].at > old.at \/ rec[c] = old

\* An existing name is overwritten by its signer with a later record, by the
\* identical record, or by an admin.
MayReplace(c, old) ==
    \/ old = NoRecord
    \/ c \in admin
    \/ old.signer = rec[c].signer /\ (rec[c].at > old.at \/ rec[c] = old)

PutCheck(c) ==
    /\ put[c] = "check"
    /\ IF MayReplace(c, refs[NameOf[c]])
       THEN put' = [put EXCEPT ![c] = "prepare"] /\ UNCHANGED <<rec, admin>>
       ELSE Answer(c)
    /\ UNCHANGED <<refs, complete, wipe>>

\* WaitFor and PrepareRef: an incomplete tree is a 404.
PutPrepare(c) ==
    /\ put[c] = "prepare"
    /\ IF rec[c].root \in complete
       THEN put' = [put EXCEPT ![c] = "put"] /\ UNCHANGED <<rec, admin>>
       ELSE Answer(c)
    /\ UNCHANGED <<refs, complete, wipe>>

PutStore(c) ==
    /\ put[c] = "put"
    /\ \/ refs' = [refs EXCEPT ![NameOf[c]] = rec[c]]
       \/ UNCHANGED refs                        \* refs.Put fails: abort
    /\ Answer(c)
    /\ UNCHANGED <<complete, wipe>>

\* DELETE, with an admin key; existence check and delete are one critical section.
Delete(n) ==
    /\ RLockFree
    /\ refs[n] # NoRecord
    /\ refs' = [refs EXCEPT ![n] = NoRecord]
    /\ UNCHANGED <<complete, requests, wipe>>

-----------------------------------------------------------------------------
(* The objects. *)

\* The inbox drains packs, also while a wipe runs.
Drain(r) ==
    /\ r \notin complete
    /\ complete' = complete \cup {r}
    /\ UNCHANGED <<refs, requests, wipe>>

\* A collection keeps the trees of references and of prepared requests.
Collect(r) ==
    /\ wipe \in {"idle", "wait"}
    /\ r \in complete \ Referenced
    /\ \A c \in Putters : put[c] = "put" => rec[c].root # r
    /\ complete' = complete \ {r}
    /\ UNCHANGED <<refs, requests, wipe>>

-----------------------------------------------------------------------------
(* postWipe: references first, then objects. *)

WipeBegin ==
    /\ wipe = "idle"
    /\ wipe' = "wait"
    /\ UNCHANGED <<refs, complete, requests>>

\* Mutant: the objects go although the references could not be wiped.
MutantWipeRefs ==
    /\ wipe = "wait"
    /\ \A c \in Putters : put[c] = "idle"
    /\ \/ refs' = [n \in Names |-> NoRecord]
       \/ UNCHANGED refs
    /\ wipe' = "objects"
    /\ UNCHANGED <<complete, requests>>

WipeRefs ==
    /\ wipe = "wait"
    /\ \A c \in Putters : put[c] = "idle"
    /\ \/ refs' = [n \in Names |-> NoRecord] /\ wipe' = "objects"
       \/ UNCHANGED refs /\ wipe' = "idle"      \* refs.Wipe fails
    /\ UNCHANGED <<complete, requests>>

\* Wipe empties the store also when it fails to remove the files.
WipeObjects ==
    /\ wipe = "objects"
    /\ complete' = {}
    /\ wipe' = "idle"
    /\ UNCHANGED <<refs, requests>>

\* The process restarts; references and complete trees are durable here.
Crash ==
    /\ put' = [c \in Putters |-> "idle"]
    /\ rec' = [c \in Putters |-> NoRecord]
    /\ admin' = {}
    /\ wipe' = "idle"
    /\ UNCHANGED <<refs, complete>>

-----------------------------------------------------------------------------
RefsInit ==
    /\ refs = [n \in Names |-> NoRecord] /\ complete = {}
    /\ put = [c \in Putters |-> "idle"] /\ rec = [c \in Putters |-> NoRecord] /\ admin = {}
    /\ wipe = "idle"

PutStep(c) == PutCheck(c) \/ PutPrepare(c) \/ PutStore(c)
WipeStep   == WipeRefs \/ WipeObjects

RefsNext ==
    \/ \E c \in Putters : PutBegin(c) \/ PutStep(c)
    \/ \E n \in Names : Delete(n)
    \/ \E r \in TreeRoots : Drain(r) \/ Collect(r)
    \/ WipeBegin \/ WipeStep \/ Crash

RefsSpec == RefsInit /\ [][RefsNext]_refsVars

\* Handlers that can run do.
RefsFairness == /\ \A c \in Putters : WF_refsVars(PutStep(c))
                /\ WF_refsVars(WipeStep)

-----------------------------------------------------------------------------
\* The table, the requests and the wipe keep their types.
RefsTypeOK ==
    /\ refs \in [Names -> Records \cup {NoRecord}]
    /\ complete \subseteq TreeRoots
    /\ put \in [Putters -> {"idle", "check", "prepare", "put"}]
    /\ \A c \in Putters : IF put[c] = "idle" THEN rec[c] = NoRecord ELSE rec[c] \in Records
    /\ admin \subseteq {c \in Putters : put[c] # "idle"}
    /\ wipe \in {"idle", "wait", "objects"}

\* No reference names a tree that is not whole, whatever PUT, DELETE,
\* collection and wipe do ("a reference can never point at objects the wipe
\* just removed").
NoDangling == Referenced \subseteq complete

\* A stored name changes hands, or goes back in time, only by an admin's PUT
\* ("an existing name may only be overwritten by the same signer key and by a
\* record with a later created_at ... unless the transport key is an admin").
OwnershipKept ==
    [][\A n \in Names :
          LET old == refs[n] new == refs'[n] IN
          (old # NoRecord /\ new # NoRecord /\ new # old)
             => \/ \E c \in admin : NameOf[c] = n /\ put[c] = "put"
                \/ new.signer = old.signer /\ new.at > old.at]_refsVars

\* A wipe that waits for wipeMu gets it and ends, or the process restarts.
WipeEnds == wipe # "idle" ~> wipe = "idle"
=============================================================================
