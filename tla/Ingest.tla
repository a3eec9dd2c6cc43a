------------------------------- MODULE Ingest -------------------------------
(***************************************************************************)
(* The ingest command (cmd/amber-store, ingest.go, driver.go).  A bounded  *)
(* pool of goroutines builds the tree bottom up; the objects go through a  *)
(* channel to the goroutine that writes the pack, from there through a pipe*)
(* to the daemon's request, and when all of it has been accepted the       *)
(* reference is put.  Each stage can fail while the others are running.    *)
(* A node stands for a directory or a file and for the objects built for   *)
(* it; the write of one node to the pack is one step.                      *)
(***************************************************************************)
EXTENDS Integers, FiniteSets, Sequences

CONSTANTS
    Nodes, Root,
    Kids,       \* Kids[n]: the entries of directory n, in order; a file has none
    Jobs,       \* the size of the pool
    Buffer      \* the capacity of the channel

VARIABLES
    job,        \* job[n]: todo, loop (a directory's entries), emit, done, failed
    cause,      \* cause[n]: why n failed: "read", "stopped" or "none"
    begun,      \* begun[n]: how many entries of n have been begun
    slots,      \* the nodes whose goroutine holds a slot of sem
    channel,    \* the nodes in the channel
    chClosed,   \* the channel is closed
    cancelled,  \* the iterator's context is cancelled
    pull,       \* writePack: pulling, draining, or over
    built,      \* what writePack returned: none, ok, read, pipe
    stored,     \* the nodes the daemon has read from the pipe
    request,    \* the request: open, accepted, failed, aborted
    result      \* what runIngest returned

ingestVars == <<job, cause, begun, slots, channel, chClosed, cancelled, pull,
                built, stored, request, result>>
buildVars == <<job, cause, begun, slots>>

ObjectsOf(s) == {s[i] : i \in DOMAIN s}
Over(n) == job[n] \in {"done", "failed"}

IngestInit ==
    /\ job = [n \in Nodes |-> "todo"]
    /\ cause = [n \in Nodes |-> "none"]
    /\ begun = [n \in Nodes |-> 0]
    /\ slots = {}
    /\ channel = {}
    /\ chClosed = FALSE
    /\ cancelled = FALSE
    /\ pull = "pulling"
    /\ built = "none"
    /\ stored = {}
    /\ request = "open"
    /\ result = "none"

-----------------------------------------------------------------------------
(* The builder.                                                            *)

\* Lstat, ReadDir, Open or a read fails, or the entry can be built.
Begun(n) ==
    \/ /\ job' = [job EXCEPT ![n] = IF Kids[n] = <<>> THEN "emit" ELSE "loop"]
       /\ UNCHANGED cause
    \/ /\ job' = [job EXCEPT ![n] = "failed"]
       /\ cause' = [cause EXCEPT ![n] = "read"]

BuildRoot ==
    /\ job[Root] = "todo"
    /\ Begun(Root)
    /\ UNCHANGED <<begun, slots, channel, chClosed, cancelled, pull, built,
                   stored, request, result>>

\* The loop of buildDir runs entry i itself when the pool is full, and then
\* does not go on before that entry is over.
InlineOver(n) ==
    begun[n] > 0 => LET k == Kids[n][begun[n]] IN k \in slots \/ Over(k)

\* A goroutine in the pool if the semaphore has a slot, else inline.  A pooled
\* entry that fails at once frees its slot at once.
BeginEntry(n) ==
    /\ job[n] = "loop"
    /\ begun[n] < Len(Kids[n])
    /\ InlineOver(n)
    /\ begun' = [begun EXCEPT ![n] = @ + 1]
    /\ LET k == Kids[n][begun[n] + 1]
       IN  /\ Begun(k)
           /\ slots' = IF Cardinality(slots) < Jobs /\ job'[k] # "failed"
                       THEN slots \cup {k} ELSE slots
    /\ UNCHANGED <<channel, chClosed, cancelled, pull, built, stored, request,
                   result>>

\* After wg.Wait: the first failure in entry order, or the directory's own
\* objects.
Assemble(n) ==
    LET bad == {i \in DOMAIN Kids[n] : job[Kids[n][i]] = "failed"}
        first == CHOOSE i \in bad : \A j \in bad : i <= j
    IN  /\ job[n] = "loop"
        /\ begun[n] = Len(Kids[n])
        /\ \A k \in ObjectsOf(Kids[n]) : Over(k)
        /\ \/ /\ bad # {}
              /\ job' = [job EXCEPT ![n] = "failed"]
              /\ cause' = [cause EXCEPT ![n] = cause[Kids[n][first]]]
              /\ slots' = slots \ {n}
           \/ /\ bad = {}
              /\ job' = [job EXCEPT ![n] = "emit"]
              /\ UNCHANGED <<cause, slots>>
        /\ UNCHANGED <<begun, channel, chClosed, cancelled, pull, built, stored,
                       request, result>>

\* emit: the select between the channel and the cancelled context.
Emit(n) ==
    /\ job[n] = "emit"
    /\ \/ /\ Cardinality(channel) < Buffer
          /\ channel' = channel \cup {n}
          /\ job' = [job EXCEPT ![n] = "done"]
          /\ UNCHANGED cause
       \/ /\ cancelled
          /\ job' = [job EXCEPT ![n] = "failed"]
          /\ cause' = [cause EXCEPT ![n] = "stopped"]
          /\ UNCHANGED channel
    /\ slots' = slots \ {n}
    /\ UNCHANGED <<begun, chClosed, cancelled, pull, built, stored, request,
                   result>>

\* Mutant: a build that fails leaves the channel open.
MutantCloseChannel ==
    /\ job[Root] = "done"
    /\ ~chClosed
    /\ chClosed' = TRUE
    /\ UNCHANGED <<buildVars, channel, cancelled, pull, built, stored, request,
                   result>>

CloseChannel ==
    /\ Over(Root)
    /\ ~chClosed
    /\ chClosed' = TRUE
    /\ UNCHANGED <<buildVars, channel, cancelled, pull, built, stored, request,
                   result>>

-----------------------------------------------------------------------------
(* The pack writer and the request.                                        *)

\* The transport closes the pipe when the daemon answers early.
PipeOpen == request = "open"

Pull ==
    /\ pull = "pulling"
    /\ \E n \in channel :
        /\ channel' = channel \ {n}
        /\ \/ /\ PipeOpen
              /\ stored' = stored \cup {n}
              /\ UNCHANGED <<cancelled, pull>>
           \/ /\ ~PipeOpen
              /\ cancelled' = TRUE
              /\ pull' = "draining"
              /\ UNCHANGED stored
    /\ UNCHANGED <<buildVars, chClosed, built, request, result>>

Drain ==
    /\ pull = "draining"
    /\ \/ /\ channel # {}
          /\ \E n \in channel : channel' = channel \ {n}
          /\ UNCHANGED <<pull, built>>
       \/ /\ channel = {}
          /\ chClosed
          /\ pull' = "over"
          /\ built' = "pipe"
          /\ UNCHANGED channel
    /\ UNCHANGED <<buildVars, chClosed, cancelled, stored, request, result>>

\* Mutant: the build error is not looked at.
MutantFinishPack ==
    /\ pull = "pulling"
    /\ channel = {}
    /\ chClosed
    /\ pull' = "over"
    /\ built' = IF PipeOpen THEN "ok" ELSE "pipe"
    /\ UNCHANGED <<buildVars, channel, chClosed, cancelled, stored, request,
                   result>>

\* The channel is closed and empty: yield the build error, or close the pack.
FinishPack ==
    /\ pull = "pulling"
    /\ channel = {}
    /\ chClosed
    /\ pull' = "over"
    /\ built' = IF job[Root] = "failed" /\ cause[Root] # "stopped" THEN "read"
                ELSE IF PipeOpen THEN "ok" ELSE "pipe"
    /\ UNCHANGED <<buildVars, channel, chClosed, cancelled, stored, request,
                   result>>

\* The daemon refuses, breaks or goes away; or it has read a whole pack; or
\* CloseWithError cut the body short.
RequestEnds ==
    /\ request = "open"
    /\ \/ request' = "failed"
       \/ built = "ok" /\ request' = "accepted"
       \/ built = "read" /\ request' = "aborted"
    /\ UNCHANGED <<buildVars, channel, chClosed, cancelled, pull, built, stored,
                   result>>

\* runIngest, after cl.Ingest and the result channel.
Return ==
    /\ result = "none"
    /\ request # "open"
    /\ built # "none"
    /\ result' \in IF built = "read" THEN {"build error"}
                  ELSE IF request # "accepted" THEN {"request error"}
                  ELSE IF built = "pipe" THEN {"pipe error"}
                  ELSE {"reference put", "reference refused"}
    /\ UNCHANGED <<buildVars, channel, chClosed, cancelled, pull, built, stored,
                   request>>

IngestNext ==
    \/ BuildRoot
    \/ \E n \in Nodes : BeginEntry(n) \/ Assemble(n) \/ Emit(n)
    \/ CloseChannel \/ Pull \/ Drain \/ FinishPack \/ RequestEnds \/ Return

IngestSpec == IngestInit /\ [][IngestNext]_ingestVars

-----------------------------------------------------------------------------

\* The reference is put only when the daemon has accepted every object of the
\* tree: neither an early answer, nor a failed entry, nor the objects still in
\* the channel when the builder is done let a smaller tree through.
PutMeansWholeTree == result = "reference put" => stored = Nodes

\* "Any other build error is the true cause ... so it wins", and a pipe error
\* is "just noise": what is reported as a build error is a failed read, a
\* request error is reported only if the request failed by itself, and the
\* pipe error never surfaces.
TrueCauseReported ==
    /\ result = "request error" => request = "failed"
    /\ result = "build error" => \E n \in Nodes : cause[n] = "read"
    /\ result # "pipe error"

\* No goroutine of the builder outlives the command, in particular not one
\* parked on a send to the channel.
NothingLeftRunning ==
    result # "none" =>
        /\ slots = {}
        /\ \A n \in Nodes : job[n] \notin {"loop", "emit"}

\* What the command reports is true: a reference means the whole tree, an error is
\* its first cause, and nothing of it goes on behind the report.
ResultIsTrue == PutMeansWholeTree /\ TrueCauseReported /\ NothingLeftRunning

\* The pool cannot deadlock on itself ("the recursion cannot deadlock"), and
\* neither builder, pack writer nor request waits for the others for ever.
IngestReturns == job[Root] # "todo" ~> result # "none"

=============================================================================
