------------------------------ MODULE Batching ------------------------------
(***************************************************************************)
(* How a sync cuts key lists into requests (remotesync/batch.go, and       *)
(* checkChunks of remotesync/push.go).                                     *)
(***************************************************************************)
EXTENDS Integers, Sequences, SequencesExt

CONSTANTS MaxBatchKeys,   \* maxBatchKeys
          BatchBytes      \* Opts.batchBytes: the payload target of a pack

\* checkChunks: consecutive runs of at most MaxBatchKeys keys.
CheckChunks(keys) ==
    LET n == (Len(keys) + MaxBatchKeys - 1) \div MaxBatchKeys
    IN [i \in 1..n |-> SubSeq(keys, (i - 1) * MaxBatchKeys + 1,
                              IF i = n THEN Len(keys) ELSE i * MaxBatchKeys)]

\* Mutant: the key that overflows the batch still joins it.
MutantBatchAdd(b, k, size) ==
    IF Len(b.cur) > 0 /\ (b.bytes > BatchBytes \/ Len(b.cur) >= MaxBatchKeys)
    THEN [out |-> Append(b.out, b.cur), cur |-> <<k>>, bytes |-> size]
    ELSE [b EXCEPT !.cur = Append(@, k), !.bytes = @ + size]

\* batcher.add: a key that would overflow the current batch completes it first.
BatchAdd(b, k, size) ==
    IF Len(b.cur) > 0 /\ (b.bytes + size > BatchBytes \/ Len(b.cur) >= MaxBatchKeys)
    THEN [out |-> Append(b.out, b.cur), cur |-> <<k>>, bytes |-> size]
    ELSE [b EXCEPT !.cur = Append(@, k), !.bytes = @ + size]

\* Batches, with batcher.flush; size gives each key its stored length.
Batches(keys, size) ==
    LET add(b, k) == BatchAdd(b, k, size[k])
        b == FoldLeft(add, [out |-> <<>>, cur |-> <<>>, bytes |-> 0], keys)
    IN IF b.cur = <<>> THEN b.out ELSE Append(b.out, b.cur)
=============================================================================
