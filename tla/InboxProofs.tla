----------------------------- MODULE InboxProofs -----------------------------
(***************************************************************************)
(* An upload that its own Commit published is never lost, for any packs,   *)
(* roots, requests and workers and under any mix of kills, power losses    *)
(* and failing system calls.  AddedNeverLost is about what the disk may     *)
(* hold; to be inductive it needs to know what the requests that are not   *)
(* answered yet have put there, and that a worker removes only an entry    *)
(* whose objects it has stored.                                            *)
(***************************************************************************)
EXTENDS Inbox, TLAPS

Uploads == Bodies \X Roots

FilesOK == dir \in dirs /\ dirs \subseteq [Bodies -> Roots \cup {None}]

\* A request that uploads holds a tagged pack.
RequestsOK ==
    /\ pc = [c \in Clients |-> pc[c]] /\ cur = [c \in Clients |-> cur[c]]
    /\ \A c \in Clients :
          pc[c] \in {"stat", "rename", "sync", "enqueue"} => cur[c] \in Uploads
    /\ added \subseteq Uploads

\* process removes an entry after its objects are stored.
RemovesOnlyStored ==
    /\ wpc = [w \in Workers |-> wpc[w]] /\ item = [w \in Workers |-> item[w]]
    /\ \A w \in Workers : wpc[w] = "remove" => item[w][1] \in stored

\* The pack's file is in the directory, or in every one the disk may hold.
Visible(b) == Settled(b) \/ dir[b] # None
Durable(b) == Settled(b) \/ \A d \in dirs : d[b] # None

\* Commit: visible after the rename, durable after the fsync.
CommitsInOrder ==
    \A c \in Clients : /\ pc[c] = "sync" => Visible(cur[c][1])
                       /\ pc[c] = "enqueue" => Durable(cur[c][1])

InboxIInv == FilesOK /\ RequestsOK /\ RemovesOnlyStored /\ CommitsInOrder /\ AddedNeverLost

\* The empty inbox has the invariant.
LEMMA InboxStarts == Init => InboxIInv
  BY SMTT(30) DEF Init, InboxIInv, FilesOK, RequestsOK, RemovesOnlyStored, CommitsInOrder,
         AddedNeverLost

\* A step of the files that forgets no settled pack and, unless it settles the
\* pack, takes no file away keeps what is visible and what is durable.
FilesGrow ==
    /\ stored \subseteq stored' /\ failed \subseteq failed'
    /\ \A b \in Bodies : Visible(b) => Visible(b)'
    /\ \A b \in Bodies : Durable(b) => Durable(b)'

\* Steps that do not touch the files.
LEMMA SameFiles ==
    ASSUME UNCHANGED files
    PROVE  FilesGrow /\ (FilesOK => FilesOK')
  BY SMTT(30) DEF files, FilesGrow, FilesOK, Visible, Durable, Settled

\* A renamed file only adds to the directory.
LEMMA SetEntryGrows ==
    ASSUME FilesOK, NEW b \in Bodies, NEW r \in Roots, SetEntry(b, r), UNCHANGED <<failed, stored>>
    PROVE  FilesGrow /\ FilesOK' /\ Visible(b)'
  <1>1. FilesOK' /\ dir' = [dir EXCEPT ![b] = r] /\ dirs' = dirs \cup {dir'}
    BY DEF FilesOK, SetEntry
  <1> QED
    BY <1>1, InboxAssumption, SMTT(30) DEF FilesOK, FilesGrow, Visible, Durable, Settled

\* An entry that is settled may go.
LEMMA DropEntryGrows ==
    ASSUME FilesOK, NEW b, SetEntry(b, None), b \in stored \cup failed' \/ dir[b] = None,
           failed \subseteq failed', UNCHANGED stored
    PROVE  FilesGrow /\ FilesOK'
  <1>1. FilesOK' /\ dir' = [dir EXCEPT ![b] = None] /\ dirs' = dirs \cup {dir'}
    BY DEF FilesOK, SetEntry
  <1>2. \A x \in Bodies : x = b \/ dir'[x] = dir[x]
    BY <1>1, SMTT(30) DEF FilesOK
  <1> QED
    BY <1>1, <1>2, SMTT(30) DEF FilesOK, FilesGrow, Visible, Durable, Settled

\* What an answered request leaves behind.
LEMMA ReturnKeeps ==
    ASSUME RequestsOK, NEW c \in Clients, Return(c)
    PROVE  /\ pc' = [pc EXCEPT ![c] = "idle"] /\ cur' = [cur EXCEPT ![c] = None]
           /\ pc' = [d \in Clients |-> pc'[d]] /\ cur' = [d \in Clients |-> cur'[d]]
           /\ \A d \in Clients : pc'[d] # "idle" => pc'[d] = pc[d] /\ cur'[d] = cur[d]
  BY ZenonT(30) DEF RequestsOK, Return, Goto

\* A step of a request that moves nobody else, and itself to a point it has
\* earned, keeps the invariant.
LEMMA RequestMoves ==
    ASSUME InboxIInv, FilesGrow, FilesOK', UNCHANGED worker, NEW c \in Clients,
           pc' = [d \in Clients |-> pc'[d]], cur' = [d \in Clients |-> cur'[d]],
           \A d \in Clients \ {c} : pc'[d] = pc[d] /\ cur'[d] = cur[d],
           pc'[c] \in {"stat", "rename", "sync", "enqueue"} => cur'[c] \in Uploads,
           pc'[c] = "sync" => Visible(cur[c][1])' /\ cur'[c] = cur[c],
           pc'[c] = "enqueue" => Durable(cur[c][1])' /\ cur'[c] = cur[c],
           added' \subseteq Uploads,
           \A x \in added' \ added : Durable(x[1])
    PROVE  InboxIInv'
  <1>1. RequestsOK' /\ RemovesOnlyStored'
    BY DEF InboxIInv, RequestsOK, RemovesOnlyStored, worker, FilesGrow
  <1>2. CommitsInOrder'
    <2> SUFFICES ASSUME NEW d \in Clients, pc'[d] \in {"sync", "enqueue"}
                 PROVE  /\ pc'[d] = "sync" => Visible(cur[d][1])'
                        /\ pc'[d] = "enqueue" => Durable(cur[d][1])'
      BY DEF CommitsInOrder
    <2>1. CASE d = c
      BY <2>1, SMTT(30)
    <2>2. CASE d # c
      <3>1. pc'[d] = pc[d] /\ cur'[d] = cur[d] /\ cur[d][1] \in Bodies
        BY <2>2, SMTT(30) DEF InboxIInv, RequestsOK, Uploads
      <3> QED
        BY <3>1, SMTT(30) DEF InboxIInv, CommitsInOrder, FilesGrow, Visible, Durable, Settled
    <2> QED
      BY <2>1, <2>2, SMTT(30)
  <1>3. AddedNeverLost'
    <2> SUFFICES ASSUME NEW x \in added' PROVE Durable(x[1])'
      BY DEF AddedNeverLost, Durable, Settled
    <2>1. Durable(x[1]) /\ x[1] \in Bodies
      BY DEF InboxIInv, AddedNeverLost, Durable, Settled, Uploads
    <2> QED
      BY <2>1, SMTT(30) DEF FilesGrow
  <1> QED
    BY <1>1, <1>2, <1>3 DEF InboxIInv

\* A step of a worker that earns "remove" by storing the objects keeps it.
LEMMA WorkerMoves ==
    ASSUME InboxIInv, FilesGrow, FilesOK', UNCHANGED <<request, added>>, NEW w \in Workers,
           wpc' = [v \in Workers |-> wpc'[v]], item' = [v \in Workers |-> item'[v]],
           \A v \in Workers \ {w} : wpc'[v] = wpc[v] /\ item'[v] = item[v],
           wpc'[w] = "remove" => item'[w][1] \in stored'
    PROVE  InboxIInv'
  <1>1. RequestsOK' /\ RemovesOnlyStored'
    BY SMTT(30) DEF InboxIInv, RequestsOK, RemovesOnlyStored, request, FilesGrow
  <1>2. CommitsInOrder'
    <2> SUFFICES ASSUME NEW d \in Clients, pc[d] \in {"sync", "enqueue"}
                 PROVE  /\ pc[d] = "sync" => Visible(cur[d][1])'
                        /\ pc[d] = "enqueue" => Durable(cur[d][1])'
      BY DEF CommitsInOrder, request
    <2>1. cur[d][1] \in Bodies /\ cur' = cur
      BY DEF InboxIInv, RequestsOK, Uploads, request
    <2> QED
      BY <2>1, SMTT(30) DEF InboxIInv, CommitsInOrder, FilesGrow, Visible, Durable, Settled
  <1>3. AddedNeverLost'
    <2> SUFFICES ASSUME NEW x \in added PROVE Durable(x[1])'
      BY DEF AddedNeverLost, Durable, Settled
    <2>1. Durable(x[1]) /\ x[1] \in Bodies
      BY DEF InboxIInv, RequestsOK, AddedNeverLost, Durable, Settled, Uploads
    <2> QED
      BY <2>1 DEF FilesGrow
  <1> QED
    BY <1>1, <1>2, <1>3, SMTT(30) DEF InboxIInv

\* Stop forgets every request and every worker.
LEMMA StopKeeps ==
    ASSUME InboxIInv, Stop, FilesOK', \A b \in Bodies : Durable(b) => Durable(b)',
           UNCHANGED added
    PROVE  InboxIInv'
  <1>1. RequestsOK' /\ RemovesOnlyStored' /\ CommitsInOrder'
    BY DEF Stop, InboxIInv, RequestsOK, RemovesOnlyStored, CommitsInOrder
  <1>2. AddedNeverLost'
    BY SMTT(30) DEF InboxIInv, RequestsOK, AddedNeverLost, Durable, Settled, Uploads
  <1> QED
    BY <1>1, <1>2, SMTT(30) DEF InboxIInv

\* Every step keeps the invariant.
LEMMA InboxKeeps == InboxIInv /\ [Next]_vars => InboxIInv'
  <1> SUFFICES ASSUME InboxIInv, [Next]_vars
               PROVE  InboxIInv'
    OBVIOUS
  <1>a. FilesOK /\ RequestsOK /\ RemovesOnlyStored /\ CommitsInOrder /\ AddedNeverLost
    BY SMTT(30) DEF InboxIInv
  <1>1. ASSUME NEW c \in Clients, Stage(c) PROVE InboxIInv'
    <2>1. PICK b \in Bodies, r \in Roots : cur' = [cur EXCEPT ![c] = <<b, r>>]
      BY <1>1, ZenonT(30) DEF Stage
    <2> QED
      BY <1>a, <1>1, <2>1, SameFiles, RequestMoves DEF Stage, Goto, RequestsOK, Uploads
  <1>2. ASSUME NEW c \in Clients, WaitBegin(c) PROVE InboxIInv'
    BY <1>a, <1>2, SameFiles, RequestMoves, ZenonT(30) DEF WaitBegin, Goto, RequestsOK
  <1>3. ASSUME NEW c \in Clients, CommitFails(c) PROVE InboxIInv'
    BY <1>a, <1>3, SameFiles, RequestMoves, ReturnKeeps, SMTT(30) DEF CommitFails, RequestsOK
  <1>4. ASSUME NEW c \in Clients, CommitStat(c) PROVE InboxIInv'
    <2>1. CASE Return(c)
      BY <1>a, <1>4, <2>1, SameFiles, RequestMoves, ReturnKeeps, SMTT(30) DEF CommitStat, RequestsOK
    <2>2. CASE Goto(c, "rename") /\ UNCHANGED cur
      BY <1>a, <1>4, <2>2, SameFiles, RequestMoves, SMTT(30) DEF CommitStat, Goto, RequestsOK
    <2> QED
      BY <1>4, <2>1, <2>2, SMTT(30) DEF CommitStat
  <1>5. ASSUME NEW c \in Clients, CommitRename(c) PROVE InboxIInv'
    <2>1. cur[c][1] \in Bodies /\ cur[c][2] \in Roots
      BY <1>a, <1>5, SMTT(30) DEF CommitRename, RequestsOK, Uploads
    <2>2. FilesGrow /\ FilesOK' /\ Visible(cur[c][1])'
      BY <1>a, <1>5, <2>1, SetEntryGrows, SMTT(30) DEF CommitRename, Visible, Settled
    <2> QED
      BY <1>a, <1>5, <2>2, RequestMoves, SMTT(30) DEF CommitRename, Goto, RequestsOK
  <1>6. ASSUME NEW c \in Clients, CommitSync(c) PROVE InboxIInv'
    <2>1. FilesGrow /\ FilesOK'
      BY <1>a, <1>6, SMTT(30) DEF CommitSync, FilesGrow, FilesOK, Visible, Durable, Settled
    <2>2. Durable(cur[c][1])'
      BY <1>a, <1>6, SMTT(30) DEF CommitSync, CommitsInOrder, Visible, Durable, Settled
    <2> QED
      BY <1>a, <1>6, <2>1, <2>2, RequestMoves, SMTT(30) DEF CommitSync, Goto, RequestsOK
  <1>7. ASSUME NEW c \in Clients, CommitEnqueue(c) PROVE InboxIInv'
    <2>1. cur[c] \in Uploads /\ Durable(cur[c][1])
      BY <1>a, <1>7, SMTT(30) DEF CommitEnqueue, RequestsOK, CommitsInOrder
    <2> QED
      BY <1>a, <1>7, <2>1, SameFiles, RequestMoves, ReturnKeeps, SMTT(30) DEF CommitEnqueue, RequestsOK
  <1>8. ASSUME NEW c \in Clients, WaitFor(c) PROVE InboxIInv'
    BY <1>a, <1>8, SameFiles, RequestMoves, SMTT(30) DEF WaitFor, Goto, RequestsOK
  <1>9. ASSUME NEW c \in Clients, CheckDone(c) PROVE InboxIInv'
    BY <1>a, <1>9, SameFiles, RequestMoves, ReturnKeeps, SMTT(30) DEF CheckDone, RequestsOK
  <1>10. ASSUME NEW w \in Workers, Take(w) \/ Exit(w) \/ Open(w) \/ Count(w)
         PROVE  InboxIInv'
    BY <1>a, <1>10, SameFiles, WorkerMoves, SMTT(30)
       DEF Take, Exit, Open, Count, WGoto, RemovesOnlyStored
  <1>11. ASSUME NEW w \in Workers, Write(w) PROVE InboxIInv'
    <2>1. FilesGrow /\ FilesOK'
      BY <1>a, <1>11, SMTT(30) DEF Write, FilesGrow, FilesOK, Visible, Durable, Settled
    <2> QED
      BY <1>a, <1>11, <2>1, WorkerMoves, SMTT(30) DEF Write, WGoto, RemovesOnlyStored
  <1>12. ASSUME NEW w \in Workers, RemoveEntry(w) PROVE InboxIInv'
    <2>1. FilesGrow /\ FilesOK'
      BY <1>a, <1>12, SameFiles, DropEntryGrows, SMTT(30) DEF RemoveEntry, RemovesOnlyStored, files
    <2> QED
      BY <1>a, <1>12, <2>1, WorkerMoves, SMTT(30) DEF RemoveEntry, WGoto, RemovesOnlyStored
  <1>13. ASSUME NEW w \in Workers, Quarantine(w) PROVE InboxIInv'
    <2>1. FilesGrow /\ FilesOK'
      BY <1>a, <1>13, SameFiles, DropEntryGrows, SMTT(30) DEF Quarantine, files
    <2> QED
      BY <1>a, <1>13, <2>1, WorkerMoves, SMTT(30) DEF Quarantine, WGoto, RemovesOnlyStored
  <1>14. CASE Close
    BY <1>a, <1>14, SMTT(30) DEF Close, InboxIInv, FilesOK, RequestsOK, RemovesOnlyStored,
                       CommitsInOrder, AddedNeverLost, Visible, Durable, Settled,
                       files, request, worker
  <1>15. CASE Ends
    BY <1>a, <1>15, SameFiles, StopKeeps, SMTT(30) DEF Ends, FilesGrow
  <1>16. CASE PowerLoss
    <2>1. FilesOK' /\ \A b \in Bodies : Durable(b) => Durable(b)'
      BY <1>a, <1>16, SMTT(30) DEF PowerLoss, FilesOK, Durable, Settled
    <2> QED
      BY <1>16, <2>1, StopKeeps, SMTT(30) DEF PowerLoss
  <1>17. CASE Recover
    <2>1. PICK lost \in SUBSET Bodies :
             /\ failed' = failed \cup lost
             /\ dir' = [b \in Bodies |-> IF b \in lost THEN None ELSE dir[b]]
             /\ dirs' = dirs \cup {dir'}
      BY <1>17 DEF Recover
    <2>2. FilesOK'
      BY <1>a, <2>1, SMTT(30) DEF FilesOK
    <2>3. FilesGrow
      BY <1>a, <1>17, <2>1, SMTT(30) DEF Recover, FilesOK, FilesGrow, Visible, Durable, Settled
    <2>4. RequestsOK' /\ RemovesOnlyStored'
      BY <1>a, <1>17, SMTT(30) DEF Recover, RequestsOK, RemovesOnlyStored, request, worker
    <2>5. CommitsInOrder'
      <3> SUFFICES ASSUME NEW d \in Clients, pc[d] \in {"sync", "enqueue"}
                   PROVE  /\ pc[d] = "sync" => Visible(cur[d][1])'
                          /\ pc[d] = "enqueue" => Durable(cur[d][1])'
        BY <1>17 DEF Recover, CommitsInOrder, request
      <3>1. cur[d][1] \in Bodies /\ cur' = cur
        BY <1>a, <1>17, SMTT(30) DEF Recover, RequestsOK, Uploads, request
      <3> QED
        BY <1>a, <2>3, <3>1, SMTT(30) DEF CommitsInOrder, FilesGrow, Visible, Durable, Settled
    <2>6. AddedNeverLost'
      <3> SUFFICES ASSUME NEW x \in added PROVE Durable(x[1])'
        BY <1>17 DEF Recover, AddedNeverLost, Durable, Settled
      <3>1. Durable(x[1]) /\ x[1] \in Bodies
        BY <1>a, SMTT(30) DEF RequestsOK, AddedNeverLost, Durable, Settled, Uploads
      <3> QED
        BY <2>3, <3>1, SMTT(30) DEF FilesGrow
    <2> QED
      BY <2>2, <2>4, <2>5, <2>6, SMTT(30) DEF InboxIInv
  <1>18. CASE UNCHANGED vars
    BY <1>a, <1>18, SMTT(30) DEF vars, InboxIInv, FilesOK, RequestsOK, RemovesOnlyStored,
                       CommitsInOrder, AddedNeverLost, Visible, Durable, Settled,
                       files, request, worker
  <1> QED
    BY <1>1, <1>2, <1>3, <1>4, <1>5, <1>6, <1>7, <1>8, <1>9, <1>10, <1>11, <1>12, <1>13, SMTT(30),
       <1>14, <1>15, <1>16, <1>17, <1>18 DEF Next, RequestStep, WorkerStep

\* inbox.go: an upload answered with 200 after its own Commit is in the store
\* or in failed/, or its file is in every directory a power loss may leave.
THEOREM UploadsAreNeverLost == Spec => []AddedNeverLost
  <1>1. InboxIInv => AddedNeverLost
    BY DEF InboxIInv
  <1> QED
    BY <1>1, InboxStarts, InboxKeeps, PTL DEF Spec
=============================================================================
