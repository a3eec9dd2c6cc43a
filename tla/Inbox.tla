------------------------------- MODULE Inbox -------------------------------
(***************************************************************************)
(* The server's inbox (package inbox): packs are staged, committed under   *)
(* the hash of their body, acknowledged, and drained into the object store *)
(* by a pool of workers; a reference PUT first waits for the packs tagged  *)
(* with its root.                                                          *)
(*                                                                         *)
(* A pack is its body, a body is stored whole or not at all, and a client  *)
(* tags it with a root.  dir is the inbox directory as the process sees    *)
(* it, dirs what the disk may hold of it since its last fsync.             *)
(***************************************************************************)
EXTENDS Naturals, Sequences, FiniteSets, SequencesExt

CONSTANTS
    Bodies,    \* pack bodies; the file name is the body's hash
    Bad,       \* the bodies that do not decode or verify
    Roots,     \* root keys packs are tagged with
    Clients,   \* concurrent requests: POST objects, PUT reference
    Workers,   \* the worker pool
    MaxWork,   \* bound: queue length at which no upload starts
    Faults,    \* what may go wrong: "power", "kill", "io" (a system call fails)
    None       \* no file, no item

ASSUME InboxAssumption ==
    /\ Bad \subseteq Bodies
    /\ MaxWork \in Nat
    /\ Faults \subseteq {"power", "kill", "io"}
    /\ None \notin Roots /\ None \notin Bodies \X Roots

VARIABLES
    dir,      \* dir[b]: the root in the meta header of b's file, or None
    dirs,     \* the directories the disk may hold
    failed,   \* bodies that have been moved to failed/
    stored,   \* bodies whose objects are in the store, durably
    up,       \* the process runs
    closed,   \* Inbox.closed
    work,     \* Inbox.work: a sequence of <<body, root>>
    groups,   \* Inbox.groups: unprocessed entries per root
    pc,       \* pc[c]: program point of request c
    cur,      \* cur[c]: its <<body, root>>, or the root it waits for
    due,      \* due[c]: the bodies acknowledged for that root before the PUT
    sure,     \* sure[c]: those of them whose own Commit published the file
    wpc,      \* wpc[w]: program point of worker w
    item,     \* item[w]: its work item
    acked,    \* <<body, root>>: uploads answered with 200
    added     \* those answered so after their own Commit published the file

files   == <<dir, dirs, failed, stored>>
queue   == <<closed, work, groups>>
request == <<pc, cur, due, sure>>
worker  == <<wpc, item>>
vars    == <<files, up, queue, request, worker, acked, added>>

-----------------------------------------------------------------------------
SetEntry(b, r) == /\ dir' = [dir EXCEPT ![b] = r]
                  /\ dirs' = dirs \cup {dir'}

Goto(c, p)  == pc' = [pc EXCEPT ![c] = p]
WGoto(w, p) == wpc' = [wpc EXCEPT ![w] = p]

\* The request is answered.
Return(c) == /\ Goto(c, "idle")
             /\ cur' = [cur EXCEPT ![c] = None]
             /\ due' = [due EXCEPT ![c] = {}]
             /\ sure' = [sure EXCEPT ![c] = {}]

-----------------------------------------------------------------------------
(* POST objects: Stage, then Commit. *)

\* The body is in a tmp file, fsynced; the request is authorised.
Stage(c) ==
    /\ up /\ ~closed /\ pc[c] = "idle" /\ Len(work) < MaxWork
    /\ \E b \in Bodies, r \in Roots : cur' = [cur EXCEPT ![c] = <<b, r>>]
    /\ Goto(c, "stat")
    /\ UNCHANGED <<files, up, queue, due, sure, worker, acked, added>>

\* Commit: a file of that name is taken for the same pack, and acknowledged.
CommitStat(c) ==
    /\ pc[c] = "stat"
    /\ IF dir[cur[c][1]] # None
       THEN /\ acked' = acked \cup {cur[c]}
            /\ Return(c)
       ELSE /\ Goto(c, "rename")
            /\ UNCHANGED <<cur, due, sure, acked>>
    /\ UNCHANGED <<files, up, queue, worker, added>>

CommitRename(c) ==
    /\ pc[c] = "rename"
    /\ SetEntry(cur[c][1], cur[c][2])
    /\ Goto(c, "sync")
    /\ UNCHANGED <<failed, stored, up, queue, cur, due, sure, worker, acked, added>>

\* Mutant: no fsync of the directory.
MutantCommitSync(c) ==
    /\ pc[c] = "sync"
    /\ Goto(c, "enqueue")
    /\ UNCHANGED <<files, up, queue, cur, due, sure, worker, acked, added>>

CommitSync(c) ==
    /\ pc[c] = "sync"
    /\ dirs' = {dir}
    /\ Goto(c, "enqueue")
    /\ UNCHANGED <<dir, failed, stored, up, queue, cur, due, sure, worker, acked, added>>

\* Stat, rename or the directory fsync fails: 500, and what was renamed stays.
CommitFails(c) ==
    /\ "io" \in Faults
    /\ pc[c] \in {"stat", "rename", "sync"}
    /\ Return(c)
    /\ UNCHANGED <<files, up, queue, worker, acked, added>>

CommitEnqueue(c) ==
    /\ pc[c] = "enqueue"
    /\ groups' = [groups EXCEPT ![cur[c][2]] = @ + 1]
    /\ work' = Append(work, cur[c])
    /\ acked' = acked \cup {cur[c]}
    /\ added' = added \cup {cur[c]}
    /\ Return(c)
    /\ UNCHANGED <<files, up, closed, worker>>

-----------------------------------------------------------------------------
(* PUT reference: WaitFor(root), then the completeness check. *)

TaggedIn(set, r) == {b \in Bodies : <<b, r>> \in set}

WaitBegin(c) ==
    /\ up /\ ~closed /\ pc[c] = "idle"
    /\ \E r \in Roots : /\ cur' = [cur EXCEPT ![c] = r]
                        /\ due' = [due EXCEPT ![c] = TaggedIn(acked, r)]
                        /\ sure' = [sure EXCEPT ![c] = TaggedIn(added, r)]
    /\ Goto(c, "wait")
    /\ UNCHANGED <<files, up, queue, worker, acked, added>>

\* Mutant: one entry too early.
MutantWaitFor(c) ==
    /\ pc[c] = "wait"
    /\ groups[cur[c]] <= 1
    /\ Goto(c, "check")
    /\ UNCHANGED <<files, up, queue, cur, due, sure, worker, acked, added>>

WaitFor(c) ==
    /\ pc[c] = "wait"
    /\ groups[cur[c]] = 0
    /\ Goto(c, "check")
    /\ UNCHANGED <<files, up, queue, cur, due, sure, worker, acked, added>>

\* PrepareRef and the rest of the handler (Collector, ServerRefs).
CheckDone(c) ==
    /\ pc[c] = "check"
    /\ Return(c)
    /\ UNCHANGED <<files, up, queue, worker, acked, added>>

-----------------------------------------------------------------------------
(* processLoop and process. *)

Take(w) ==
    /\ up /\ wpc[w] = "idle" /\ work # <<>>
    /\ item' = [item EXCEPT ![w] = Head(work)]
    /\ work' = Tail(work)
    /\ WGoto(w, "open")
    /\ UNCHANGED <<files, up, closed, groups, request, acked, added>>

Exit(w) ==
    /\ up /\ wpc[w] = "idle" /\ work = <<>> /\ closed
    /\ WGoto(w, "gone")
    /\ UNCHANGED <<files, up, queue, request, item, acked, added>>

\* An entry that is gone was processed under an earlier item.
Open(w) ==
    /\ wpc[w] = "open"
    /\ \/ dir[item[w][1]] # None /\ WGoto(w, "write")
       \/ dir[item[w][1]] = None /\ WGoto(w, "count")
       \/ "io" \in Faults /\ WGoto(w, "count")
    /\ UNCHANGED <<files, up, queue, request, item, acked, added>>

\* WriteParallel verifies every object; it is durable when it returns.  Its
\* failure has other causes than the pack: a full disk, a poisoned store.
Write(w) ==
    /\ wpc[w] = "write"
    /\ \/ /\ item[w][1] \notin Bad
          /\ stored' = stored \cup {item[w][1]}
          /\ WGoto(w, "remove")
       \/ /\ item[w][1] \in Bad \/ "io" \in Faults
          /\ WGoto(w, "quarantine")
          /\ UNCHANGED stored
    /\ UNCHANGED <<dir, dirs, failed, up, queue, request, item, acked, added>>

RemoveEntry(w) ==
    /\ wpc[w] = "remove"
    /\ \/ SetEntry(item[w][1], None)
       \/ "io" \in Faults /\ UNCHANGED <<dir, dirs>>
    /\ WGoto(w, "count")
    /\ UNCHANGED <<failed, stored, up, queue, request, item, acked, added>>

\* The rename into failed/ may find nothing, or fail; both are only logged.
Quarantine(w) ==
    /\ wpc[w] = "quarantine"
    /\ \/ /\ SetEntry(item[w][1], None)
          /\ failed' = IF dir[item[w][1]] = None THEN failed ELSE failed \cup {item[w][1]}
       \/ "io" \in Faults /\ UNCHANGED <<dir, dirs, failed>>
    /\ WGoto(w, "count")
    /\ UNCHANGED <<stored, up, queue, request, item, acked, added>>

\* Mutant: the last entry of a group is not discounted.
MutantCount(w) ==
    /\ wpc[w] = "count"
    /\ groups' = [groups EXCEPT ![item[w][2]] = IF @ > 1 THEN @ - 1 ELSE @]
    /\ item' = [item EXCEPT ![w] = None]
    /\ WGoto(w, "idle")
    /\ UNCHANGED <<files, up, closed, work, request, acked, added>>

Count(w) ==
    /\ wpc[w] = "count"
    /\ groups' = [groups EXCEPT ![item[w][2]] = IF @ > 0 THEN @ - 1 ELSE 0]
    /\ item' = [item EXCEPT ![w] = None]
    /\ WGoto(w, "idle")
    /\ UNCHANGED <<files, up, closed, work, request, acked, added>>

-----------------------------------------------------------------------------
(* Close, crash, Open. *)

\* The server closes the inbox after its listener has drained every request.
Close ==
    /\ up /\ ~closed
    /\ \A c \in Clients : pc[c] = "idle"
    /\ closed' = TRUE
    /\ UNCHANGED <<files, up, work, groups, request, worker, acked, added>>

Stop ==
    /\ up' = FALSE
    /\ closed' = FALSE /\ work' = <<>> /\ groups' = [r \in Roots |-> 0]
    /\ pc' = [c \in Clients |-> "idle"]
    /\ cur' = [c \in Clients |-> None]
    /\ due' = [c \in Clients |-> {}] /\ sure' = due'
    /\ wpc' = [w \in Workers |-> "idle"]
    /\ item' = [w \in Workers |-> None]

\* Close has returned, and the process ends; or it is killed.
Ends ==
    /\ up
    /\ "kill" \in Faults \/ (closed /\ \A w \in Workers : wpc[w] = "gone")
    /\ Stop
    /\ UNCHANGED <<files, acked, added>>

\* An entry whose move to failed/ is undone is back in the inbox; failed keeps
\* what has been quarantined at some time.
PowerLoss ==
    /\ "power" \in Faults
    /\ Stop
    /\ \E d \in dirs : dir' = d /\ dirs' = {d}
    /\ UNCHANGED <<failed, stored, acked, added>>

\* Mutant: entries of a previous run are queued and not counted.
MutantRecover ==
    /\ ~up
    /\ up' = TRUE
    /\ work' \in SetToSeqs({<<b, dir[b]>> : b \in {x \in Bodies : dir[x] # None}})
    /\ UNCHANGED <<files, closed, groups, request, worker, acked, added>>

\* recover: every committed entry is counted and queued, in file-name order;
\* one whose header cannot be read is quarantined, or stays where it is when
\* the rename fails as well.
Recover ==
    /\ ~up
    /\ up' = TRUE
    /\ LET entries == {b \in Bodies : dir[b] # None} IN
       \E unread \in SUBSET entries, lost \in SUBSET entries :
       LET items == {<<b, dir[b]>> : b \in entries \ unread} IN
          /\ lost \subseteq unread
          /\ unread = {} \/ "io" \in Faults
          /\ failed' = failed \cup lost
          /\ dir' = [b \in Bodies |-> IF b \in lost THEN None ELSE dir[b]]
          /\ dirs' = dirs \cup {dir'}
          /\ work' \in SetToSeqs(items)
          /\ groups' = [r \in Roots |-> Cardinality({i \in items : i[2] = r})]
    /\ UNCHANGED <<stored, closed, request, worker, acked, added>>

-----------------------------------------------------------------------------
Init ==
    /\ dir = [b \in Bodies |-> None] /\ dirs = {dir} /\ failed = {} /\ stored = {}
    /\ up = FALSE
    /\ closed = FALSE /\ work = <<>> /\ groups = [r \in Roots |-> 0]
    /\ pc = [c \in Clients |-> "idle"] /\ cur = [c \in Clients |-> None]
    /\ due = [c \in Clients |-> {}] /\ sure = due
    /\ wpc = [w \in Workers |-> "idle"] /\ item = [w \in Workers |-> None]
    /\ acked = {} /\ added = {}

RequestStep(c) ==
    \/ CommitStat(c) \/ CommitRename(c) \/ CommitSync(c) \/ CommitEnqueue(c)
    \/ WaitFor(c) \/ CheckDone(c)

WorkerStep(w) ==
    \/ Take(w) \/ Exit(w) \/ Open(w) \/ Write(w) \/ RemoveEntry(w) \/ Quarantine(w)
    \/ Count(w)

Next ==
    \/ \E c \in Clients : Stage(c) \/ WaitBegin(c) \/ CommitFails(c) \/ RequestStep(c)
    \/ \E w \in Workers : WorkerStep(w)
    \/ Close \/ Ends \/ PowerLoss \/ Recover

Spec == Init /\ [][Next]_vars

\* Requests and workers that can run do; nobody has to upload or to restart.
Fairness == /\ \A c \in Clients : WF_vars(RequestStep(c))
            /\ \A w \in Workers : WF_vars(WorkerStep(w))

LiveSpec == Spec /\ Fairness

-----------------------------------------------------------------------------
\* The files, the queue and the program points keep their types.
TypeOK ==
    /\ dir \in dirs /\ dirs \subseteq [Bodies -> Roots \cup {None}]
    /\ failed \subseteq Bodies /\ stored \subseteq Bodies \ Bad
    /\ up \in BOOLEAN /\ closed \in BOOLEAN
    /\ work \in Seq(Bodies \X Roots)
    /\ groups \in [Roots -> Nat]
    /\ pc \in [Clients -> {"idle", "stat", "rename", "sync", "enqueue", "wait", "check"}]
    /\ cur \in [Clients -> (Bodies \X Roots) \cup Roots \cup {None}]
    /\ due \in [Clients -> SUBSET Bodies] /\ sure \in [Clients -> SUBSET Bodies]
    /\ wpc \in [Workers -> {"idle", "open", "write", "remove", "quarantine", "count",
                            "gone"}]
    /\ item \in [Workers -> (Bodies \X Roots) \cup {None}]
    /\ acked \subseteq Bodies \X Roots /\ added \subseteq acked

\* The barrier's accounting is exact: groups[r] is the number of items for r
\* that are queued or in a worker's hands (Commit, recover and processLoop).
GroupsExact ==
    up => \A r \in Roots :
             groups[r] = Cardinality({i \in DOMAIN work : work[i][2] = r})
                       + Cardinality({w \in Workers : item[w] # None /\ item[w][2] = r})

Settled(b) == b \in stored \cup failed

\* A pack whose own Commit published it is never lost: until it is in the
\* store or in failed/, every directory the disk may hold has its file.
AddedNeverLost ==
    \A x \in added : Settled(x[1]) \/ \A d \in dirs : d[x[1]] # None

\* When WaitFor(root) returns, every pack published for that root before the
\* PUT has been stored or quarantined.
WaitCoversAdded == \A c \in Clients : pc[c] = "check" => \A b \in sure[c] : Settled(b)

\* The same of every pack acknowledged for that root ("every pack for R is
\* already in the inbox and counted in group[R]").
WaitCoversAcked == \A c \in Clients : pc[c] = "check" => \A b \in due[c] : Settled(b)

\* Only a pack that does not decode or verify is quarantined ("on a
\* decode/verify error it is quarantined under failed/").
OnlyBadQuarantined == failed \subseteq Bad

Uploading(r) == \E c \in Clients : /\ pc[c] \in {"stat", "rename", "sync", "enqueue"}
                                  /\ cur[c][2] = r

\* A PUT that waits for its root gets its answer, once uploads for that root
\* cease: WaitFor returns on an empty group only.
WaitersReturn ==
    \A c \in Clients, r \in Roots :
        <>[]~Uploading(r) => ((pc[c] = "wait" /\ cur[c] = r) ~> pc[c] # "wait")

\* Close drains the queue and returns.
CloseReturns == closed ~> (~closed \/ \A w \in Workers : wpc[w] = "gone")

\* An acknowledged pack is processed while the server stays up.
AckedIsProcessed ==
    \A b \in Bodies, r \in Roots : <<b, r>> \in acked ~> (Settled(b) \/ ~up)

\* WaitFor keeps its promise: it returns when the packs of its root are stored, or
\* quarantined for good reason.
WaitSound == TypeOK /\ WaitCoversAdded /\ OnlyBadQuarantined

\* The inbox makes progress: packs are processed, PUTs answered, and Close returns.
InboxProgress == WaitersReturn /\ CloseReturns /\ AckedIsProcessed

=============================================================================
