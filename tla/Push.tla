-------------------------------- MODULE Push --------------------------------
(***************************************************************************)
(* remotesync.Push followed by PutRef (embedded.Store.Push, the daemon's   *)
(* remotePush), against a server that processes packs late and may collect *)
(* what no reference reaches yet.                                          *)
(*                                                                         *)
(* A bounded pool asks the server which keys it lacks; a bounded pool of   *)
(* readers assembles packs of the missing ones into a bounded channel,     *)
(* a pool of uploaders drains it; the reference goes last.  A failed push  *)
(* may be run again.                                                       *)
(***************************************************************************)
EXTENDS Remote, Batching

CONSTANTS
    Size,        \* object -> stored size (PushSizer)
    JobChoices, Prefetch,  \* Opts.Jobs is one of JobChoices
    MaxPushes,   \* bound on runs
    MaxFaults    \* bound on network and disk errors

VARIABLES
    phase,       \* idle, negotiating, uploading, ref, ok, failed
    chunk,       \* chunk number -> todo, asking, answered, stopped
    missing,     \* the keys the server said it lacks
    batches,     \* the packs to upload: sequences of keys
    reader,      \* batch number -> todo, reading, blocked (at the send), sent, stopped
    ready,       \* the channel: a queue of batch numbers
    closed,      \* close(ready) has run
    uploader,    \* uploader -> 0 (at the receive), a batch number, -1 (returned)
    acked,       \* the batches whose upload was acknowledged
    cancelled,   \* the error group's context is done
    settled,     \* PushStats: done
    pushes, faults,
    jobs         \* Opts.jobs

pushVars == <<phase, chunk, missing, batches, reader, ready, closed, uploader, acked,
              cancelled, settled, pushes, faults, jobs>>

Chunks == CheckChunks(Location)

\* SortByLocation, then Batches.
PackList == Batches(SelectSeq(Location, LAMBDA k : k \in missing), Size)

Count(f, s) == Cardinality({i \in DOMAIN f : f[i] \in s})

PushInit ==
    /\ jobs \in JobChoices
    /\ phase = "idle"
    /\ chunk = [i \in DOMAIN Chunks |-> "todo"]
    /\ missing = {} /\ batches = <<>> /\ reader = <<>> /\ ready = <<>> /\ closed = FALSE
    /\ uploader = [u \in 1..jobs |-> 0]
    /\ acked = {} /\ cancelled = FALSE /\ settled = 0
    /\ pushes = 0 /\ faults = 0

\* Push begins, from nothing.
BeginPush ==
    /\ phase \in {"idle", "failed", "ok"} /\ pushes < MaxPushes
    /\ phase' = "negotiating" /\ pushes' = pushes + 1
    /\ chunk' = [i \in DOMAIN Chunks |-> "todo"]
    /\ missing' = {} /\ batches' = <<>> /\ reader' = <<>> /\ ready' = <<>> /\ closed' = FALSE
    /\ uploader' = [u \in 1..jobs |-> 0]
    /\ acked' = {} /\ cancelled' = FALSE /\ settled' = 0
    /\ UNCHANGED <<faults, jobs, remoteVars>>

Fault == faults < MaxFaults /\ faults' = faults + 1

----------------------------------------------------------------------------
(* Phase 1: negotiation. *)

Ask(i) ==
    /\ phase = "negotiating" /\ chunk[i] = "todo"
    /\ Count(chunk, {"asking"}) < jobs
    /\ chunk' = [chunk EXCEPT ![i] = "asking"]
    /\ UNCHANGED <<batches, phase, missing, reader, ready, closed, uploader, acked, cancelled,
                   settled, pushes, faults, jobs, remoteVars>>

\* postMissing answers for the moment it looks.
Answered(i) ==
    /\ chunk[i] = "asking"
    /\ LET keys == {Chunks[i][j] : j \in DOMAIN Chunks[i]}
       IN /\ missing' = missing \cup (keys \ remote)
          /\ settled' = settled + Cardinality(keys \cap remote)
    /\ chunk' = [chunk EXCEPT ![i] = "answered"]
    /\ UNCHANGED <<batches, phase, reader, ready, closed, uploader, acked, cancelled, pushes,
                   faults, jobs, remoteVars>>

\* The request fails, by itself or because another one did.
AskFails(i) ==
    /\ chunk[i] = "asking"
    /\ IF cancelled THEN UNCHANGED faults ELSE Fault
    /\ cancelled' = TRUE
    /\ chunk' = [chunk EXCEPT ![i] = "stopped"]
    /\ UNCHANGED <<batches, phase, missing, reader, ready, closed, uploader, acked, settled,
                   pushes, jobs, remoteVars>>

\* neg.Wait returns; then the missing keys are sorted and cut into packs.
Negotiated ==
    /\ phase = "negotiating"
    /\ \A i \in DOMAIN chunk : chunk[i] \in {"answered", "stopped"}
    /\ phase' = IF cancelled THEN "failed" ELSE "uploading"
    /\ batches' = PackList
    /\ reader' = [b \in DOMAIN batches' |-> "todo"]
    /\ UNCHANGED <<chunk, missing, ready, closed, uploader, acked, cancelled, settled,
                   pushes, faults, jobs, remoteVars>>

----------------------------------------------------------------------------
(* Phase 2: the pipeline. *)

ReadBegin(b) ==
    /\ phase = "uploading" /\ reader[b] = "todo"
    /\ \A a \in 1..(b - 1) : reader[a] # "todo"
    /\ Count(reader, {"reading", "blocked"}) < jobs
    /\ reader' = [reader EXCEPT ![b] = "reading"]
    /\ UNCHANGED <<batches, phase, chunk, missing, ready, closed, uploader, acked, cancelled,
                   settled, pushes, faults, jobs, remoteVars>>

\* assemblePack has read every record.
Assembled(b) ==
    /\ reader[b] = "reading"
    /\ reader' = [reader EXCEPT ![b] = "blocked"]
    /\ UNCHANGED <<batches, phase, chunk, missing, ready, closed, uploader, acked, cancelled,
                   settled, pushes, faults, jobs, remoteVars>>

\* assemblePack fails: a record is gone or unreadable, or the context is done.
ReadFails(b) ==
    /\ reader[b] = "reading"
    /\ IF cancelled THEN UNCHANGED faults ELSE Fault
    /\ cancelled' = TRUE
    /\ reader' = [reader EXCEPT ![b] = "stopped"]
    /\ UNCHANGED <<batches, phase, chunk, missing, ready, closed, uploader, acked, settled,
                   pushes, jobs, remoteVars>>

SendPack(b) ==
    /\ reader[b] = "blocked" /\ Len(ready) < Prefetch
    /\ ready' = Append(ready, b)
    /\ reader' = [reader EXCEPT ![b] = "sent"]
    /\ UNCHANGED <<batches, phase, chunk, missing, closed, uploader, acked, cancelled, settled,
                   pushes, faults, jobs, remoteVars>>

\* Mutant: the context is looked at only when there is room to send.
MutantSendCancelled(b) ==
    /\ reader[b] = "blocked" /\ cancelled /\ Len(ready) < Prefetch
    /\ reader' = [reader EXCEPT ![b] = "stopped"]
    /\ UNCHANGED <<batches, phase, chunk, missing, ready, closed, uploader, acked, cancelled,
                   settled, pushes, faults, jobs, remoteVars>>

\* The select's other branch.
SendCancelled(b) ==
    /\ reader[b] = "blocked" /\ cancelled
    /\ reader' = [reader EXCEPT ![b] = "stopped"]
    /\ UNCHANGED <<batches, phase, chunk, missing, ready, closed, uploader, acked, cancelled,
                   settled, pushes, faults, jobs, remoteVars>>

\* rg.Wait returns and the channel is closed.
CloseReady ==
    /\ phase = "uploading" /\ ~closed
    /\ \A b \in DOMAIN reader : reader[b] \in {"sent", "stopped"}
    /\ closed' = TRUE
    /\ UNCHANGED <<batches, phase, chunk, missing, reader, ready, uploader, acked, cancelled,
                   settled, pushes, faults, jobs, remoteVars>>

Receive(u) ==
    /\ phase = "uploading" /\ uploader[u] = 0 /\ ready # <<>>
    /\ uploader' = [uploader EXCEPT ![u] = Head(ready)]
    /\ ready' = Tail(ready)
    /\ UNCHANGED <<batches, phase, chunk, missing, reader, closed, acked, cancelled, settled,
                   pushes, faults, jobs, remoteVars>>

\* The range loop ends.
Drained(u) ==
    /\ phase = "uploading" /\ uploader[u] = 0 /\ ready = <<>> /\ closed
    /\ uploader' = [uploader EXCEPT ![u] = -1]
    /\ UNCHANGED <<batches, phase, chunk, missing, reader, ready, closed, acked, cancelled,
                   settled, pushes, faults, jobs, remoteVars>>

Pack(b) == {batches[b][i] : i \in DOMAIN batches[b]}

\* PushPackRaw returns nil: the pack is in the inbox.
Uploaded(u) ==
    /\ uploader[u] > 0
    /\ AcceptPack(Pack(uploader[u]))
    /\ acked' = acked \cup {uploader[u]}
    /\ settled' = settled + Cardinality(Pack(uploader[u]))
    /\ uploader' = [uploader EXCEPT ![u] = 0]
    /\ UNCHANGED <<batches, phase, chunk, missing, reader, ready, closed, cancelled, pushes, faults, jobs>>

\* PushPackRaw fails: the request was lost, or only its answer was (arrived).
UploadFails(u, arrived) ==
    /\ uploader[u] > 0
    /\ IF cancelled THEN UNCHANGED faults ELSE Fault
    /\ IF arrived THEN AcceptPack(Pack(uploader[u])) ELSE UNCHANGED remoteVars
    /\ cancelled' = TRUE
    /\ uploader' = [uploader EXCEPT ![u] = -1]
    /\ UNCHANGED <<batches, phase, chunk, missing, reader, ready, closed, acked, settled, pushes, jobs>>

\* g.Wait returns.
PipelineDone ==
    /\ phase = "uploading" /\ closed
    /\ \A u \in 1..jobs : uploader[u] = -1
    /\ phase' = IF cancelled THEN "failed" ELSE "ref"
    /\ UNCHANGED <<batches, chunk, missing, reader, ready, closed, uploader, acked, cancelled,
                   settled, pushes, faults, jobs, remoteVars>>

\* rc.PutRef, answered (the answer may be that the tree is incomplete).
RefAnswered ==
    /\ phase = "ref"
    /\ \E accepted \in BOOLEAN : /\ PutRef(accepted)
                                 /\ phase' = IF accepted THEN "ok" ELSE "failed"
    /\ UNCHANGED <<batches, chunk, missing, reader, ready, closed, uploader, acked, cancelled,
                   settled, pushes, faults, jobs>>

\* rc.PutRef fails; the server may have stored the reference all the same.
RefFails(arrived) ==
    /\ phase = "ref" /\ Fault
    /\ IF arrived THEN \E accepted \in BOOLEAN : PutRef(accepted) ELSE UNCHANGED remoteVars
    /\ phase' = "failed"
    /\ UNCHANGED <<batches, chunk, missing, reader, ready, closed, uploader, acked, cancelled,
                   settled, pushes, jobs>>

ReaderStep(b) ==
    ReadBegin(b) \/ Assembled(b) \/ ReadFails(b) \/ SendPack(b) \/ SendCancelled(b)

UploaderStep(u) ==
    Receive(u) \/ Drained(u) \/ Uploaded(u) \/ \E arrived \in BOOLEAN : UploadFails(u, arrived)

PushStep ==
    \/ \E i \in DOMAIN chunk : Ask(i) \/ Answered(i) \/ AskFails(i)
    \/ Negotiated
    \/ \E b \in DOMAIN reader : ReaderStep(b)
    \/ CloseReady
    \/ \E u \in 1..jobs : UploaderStep(u)
    \/ PipelineDone
    \/ RefAnswered
    \/ \E arrived \in BOOLEAN : RefFails(arrived)

PushNext == BeginPush \/ PushStep \/ (RemoteNext /\ UNCHANGED pushVars)

\* The client's goroutines and the server's inbox workers keep running.
PushFairness ==
    /\ WF_<<pushVars, remoteVars>>(PushStep)
    /\ WF_<<pushVars, remoteVars>>((\E pack \in inbox : Process(pack)) /\ UNCHANGED pushVars)

----------------------------------------------------------------------------
(* Properties. *)

\* The reference goes out only when every missing object is in a pack the
\* server acknowledged, and nobody can still send on the closed channel: the
\* channel is closed after the last reader, drained before the last uploader
\* returns.
AllAckedBeforeRef ==
    /\ phase \in {"ref", "ok"} => UNION {Pack(b) : b \in acked} = missing
    /\ closed => \A b \in DOMAIN reader : reader[b] \in {"sent", "stopped"}


\* Peak push memory (remotesync/batch.go): the packs held by readers, channel
\* and uploaders together never exceed Prefetch + 2*Jobs.
PacksBounded ==
    Count(reader, {"reading", "blocked"}) + Len(ready)
        + Cardinality({u \in 1..jobs : uploader[u] > 0}) <= Prefetch + 2 * jobs

\* Packs hold the missing keys exactly, in disk order; each is within the byte
\* target unless it holds a single object, and within the key limit.
PacksFit ==
    phase \in {"uploading", "ref", "ok"} =>
        /\ FlattenSeq(batches) = SelectSeq(Location, LAMBDA k : k \in missing)
        /\ \A b \in DOMAIN batches :
              /\ Len(batches[b]) \in 1..MaxBatchKeys
              /\ Len(batches[b]) > 1 =>
                    FoldLeft(LAMBDA n, k : n + Size[k], 0, batches[b]) <= BatchBytes

\* The progress count never runs past the total and reaches it on success.
ProgressAddsUp ==
    /\ settled <= Cardinality(Objects)
    /\ phase \in {"ref", "ok"} => settled = Cardinality(Objects)

\* The pipeline of a push: packs hold the missing objects within their limits,
\* only so many are in memory, all are acknowledged before the reference goes
\* out, and the progress adds up.
PushSound == AllAckedBeforeRef /\ PacksBounded /\ PacksFit /\ ProgressAddsUp

\* Every push ends: readers blocked on a full channel, uploaders waiting on an
\* empty one and the goroutine waiting for the readers never wait for each
\* other, whichever of them fails first.
PushEnds == (phase \in {"negotiating", "uploading", "ref"}) ~> (phase \in {"ok", "failed"})
=============================================================================
