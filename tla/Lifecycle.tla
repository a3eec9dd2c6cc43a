----------------------------- MODULE Lifecycle ------------------------------
(***************************************************************************)
(* runDaemon, runServe and identity.LoadOrCreate: how a process of the     *)
(* store starts, serves and stops.  Each program opens its components in a *)
(* fixed order and closes them, by its defers, in the reverse order; a     *)
(* component that fails to open ends the process with the ones before it   *)
(* closed.  Two processes are started on one store directory; the lock on  *)
(* the packstore directory lets one of them through.                       *)
(***************************************************************************)
EXTENDS Integers, Sequences, SequencesExt

CONSTANTS
    Processes,
    Programs,     \* the programs a process may be: subset of {"daemon", "serve"}
    MaxRequests,  \* bound on the requests in flight in a process
    MaxStarts,    \* bound on the starts of processes
    Nobody        \* not a process: a free lock, a missing file

ASSUME LifecycleAssumption == Nobody \notin Processes

VARIABLES
    proc,        \* process -> its state, see LifeInit
    lock,        \* flock on the packstore directory: its holder
    sock,        \* the process whose socket is at the socket path
    idFile,      \* <store>/identity: the process that made the key in it
    idTmp,       \* <store>/identity.tmp
    firstKey,    \* the first key idFile held (history)
    starts

lifeVars == <<proc, lock, sock, idFile, idTmp, firstKey, starts>>

\* what each program opens, in order.  A remote registry or a signer has
\* nothing to close and is not listed.
Opens(program) ==
    IF program = "daemon" THEN <<"store", "refs", "coll", "identity", "socket">>
    ELSE <<"identity", "store", "refs", "coll", "inbox", "keys", "listener">>

\* what a request, a collection cycle and an inbox drain work on
Uses(p) ==
    (IF p.requests > 0 THEN {"store", "refs", "coll", "inbox", "keys"} ELSE {})
    \cup (IF p.cycle THEN {"store", "refs"} ELSE {})
    \cup (IF p.drain THEN {"store", "coll"} ELSE {})

Down(program) ==
    [program |-> program, pc |-> "down", opened |-> <<>>, closing |-> "none",
     key |-> Nobody, requests |-> 0, cycle |-> FALSE, drain |-> FALSE,
     abrupt |-> FALSE]

LifeInit ==
    /\ proc \in {[p \in Processes |-> Down(f[p])] : f \in [Processes -> Programs]}
    /\ lock = Nobody /\ sock = Nobody /\ idFile = Nobody /\ idTmp = Nobody
    /\ firstKey = Nobody /\ starts = 0

Step(p, from, to) == proc[p].pc = from /\ proc' = [proc EXCEPT ![p].pc = to]

Start(p) ==
    /\ starts < MaxStarts /\ Step(p, "down", "opening")
    /\ starts' = starts + 1
    /\ UNCHANGED <<lock, sock, idFile, idTmp, firstKey>>

Upcoming(p) == Opens(proc[p].program)[Len(proc[p].opened) + 1]
AllOpen(p) == Len(proc[p].opened) = Len(Opens(proc[p].program))
Opened(p) == [proc EXCEPT ![p].opened = Append(@, Upcoming(p))]

\* Mutant: the lock is taken from its holder.
MutantOpenStore(p) ==
    /\ proc[p].pc = "opening" /\ ~AllOpen(p) /\ Upcoming(p) = "store"
    /\ proc' = Opened(p) /\ lock' = p
    /\ UNCHANGED <<sock, idFile, idTmp, firstKey, starts>>

\* packstore.Open takes the flock without blocking, and fails if it is held
OpenStore(p) ==
    /\ proc[p].pc = "opening" /\ ~AllOpen(p) /\ Upcoming(p) = "store"
    /\ IF lock = Nobody THEN proc' = Opened(p) /\ lock' = p
       ELSE proc' = [proc EXCEPT ![p].pc = "unwinding"] /\ UNCHANGED lock
    /\ UNCHANGED <<sock, idFile, idTmp, firstKey, starts>>

\* refstore, collector, inbox, allowlist or TCP listener
OpenOther(p) ==
    /\ proc[p].pc = "opening" /\ ~AllOpen(p)
    /\ Upcoming(p) \in {"refs", "coll", "inbox", "keys", "listener"}
    /\ proc' = Opened(p)
    /\ UNCHANGED <<lock, sock, idFile, idTmp, firstKey, starts>>

OpenFails(p) ==
    /\ proc[p].pc \in {"opening", "creating", "renaming"}
    /\ proc' = [proc EXCEPT ![p].pc = "unwinding"]
    /\ UNCHANGED <<lock, sock, idFile, idTmp, firstKey, starts>>

\* the daemon removes the socket a previous run left and binds its own
OpenSocket(p) ==
    /\ proc[p].pc = "opening" /\ ~AllOpen(p) /\ Upcoming(p) = "socket"
    /\ proc' = Opened(p)
    /\ sock' = p
    /\ UNCHANGED <<lock, idFile, idTmp, firstKey, starts>>

\* LoadOrCreate: the file is read, and its key used ...
LoadIdentity(p) ==
    /\ proc[p].pc = "opening" /\ ~AllOpen(p) /\ Upcoming(p) = "identity" /\ idFile # Nobody
    /\ proc' = [Opened(p) EXCEPT ![p].key = idFile]
    /\ UNCHANGED <<lock, sock, idFile, idTmp, firstKey, starts>>

\* ... or, if there is none, a key is made: first it is known to be missing,
\* then the temporary file is written, then renamed
IdentityMissing(p) ==
    /\ ~AllOpen(p) /\ Upcoming(p) = "identity" /\ idFile = Nobody
    /\ Step(p, "opening", "creating")
    /\ UNCHANGED <<lock, sock, idFile, idTmp, firstKey, starts>>

WriteIdentity(p) ==
    /\ Step(p, "creating", "renaming")
    /\ idTmp' = p
    /\ UNCHANGED <<lock, sock, idFile, firstKey, starts>>

RenameIdentity(p) ==
    /\ proc[p].pc = "renaming"
    /\ IF idTmp = Nobody
       THEN /\ proc' = [proc EXCEPT ![p].pc = "unwinding"]
            /\ UNCHANGED <<idFile, idTmp, firstKey>>
       ELSE /\ proc' = [Opened(p) EXCEPT ![p].pc = "opening", ![p].key = p]
            /\ idFile' = idTmp /\ idTmp' = Nobody
            /\ firstKey' = IF firstKey = Nobody THEN idTmp ELSE firstKey
    /\ UNCHANGED <<lock, sock, starts>>

Serve(p) ==
    /\ AllOpen(p) /\ Step(p, "opening", "serving")
    /\ UNCHANGED <<lock, sock, idFile, idTmp, firstKey, starts>>

Has(p, c) == c \in ToSet(proc[p].opened) /\ proc[p].closing # c

BeginRequest(p) ==
    /\ proc[p].pc = "serving" /\ proc[p].requests < MaxRequests
    /\ proc' = [proc EXCEPT ![p].requests = @ + 1]
    /\ UNCHANGED <<lock, sock, idFile, idTmp, firstKey, starts>>

EndRequest(p) ==
    /\ proc[p].requests > 0
    /\ proc' = [proc EXCEPT ![p].requests = @ - 1]
    /\ UNCHANGED <<lock, sock, idFile, idTmp, firstKey, starts>>

\* the collector's loop and the inbox's drains run from Open to Close
BeginWork(p) ==
    /\ \/ Has(p, "coll") /\ ~proc[p].cycle /\ proc' = [proc EXCEPT ![p].cycle = TRUE]
       \/ Has(p, "inbox") /\ ~proc[p].drain /\ proc' = [proc EXCEPT ![p].drain = TRUE]
    /\ UNCHANGED <<lock, sock, idFile, idTmp, firstKey, starts>>

EndCycle(p) ==
    /\ proc[p].cycle /\ proc' = [proc EXCEPT ![p].cycle = FALSE]
    /\ UNCHANGED <<lock, sock, idFile, idTmp, firstKey, starts>>

EndDrain(p) ==
    /\ proc[p].drain /\ proc' = [proc EXCEPT ![p].drain = FALSE]
    /\ UNCHANGED <<lock, sock, idFile, idTmp, firstKey, starts>>

\* SIGINT or SIGTERM: Shutdown closes the listener, which unlinks the socket
\* path, and then waits for the requests in flight, however long they take
Signal(p) ==
    /\ Step(p, "serving", "shutdown")
    /\ sock' = IF proc[p].program = "daemon" THEN Nobody ELSE sock
    /\ UNCHANGED <<lock, idFile, idTmp, firstKey, starts>>

ShutdownDone(p) ==
    /\ proc[p].requests = 0 /\ Step(p, "shutdown", "unwinding")
    /\ UNCHANGED <<lock, sock, idFile, idTmp, firstKey, starts>>

\* Serve fails by itself: the process returns without waiting for requests
ListenerFails(p) ==
    /\ proc[p].pc = "serving"
    /\ proc' = [proc EXCEPT ![p].pc = "unwinding", ![p].abrupt = TRUE]
    /\ UNCHANGED <<lock, sock, idFile, idTmp, firstKey, starts>>

\* The defers, last first.  Each Close first stops new work of its component,
\* then waits for what is running.
CloseBegin(p) ==
    /\ proc[p].pc = "unwinding" /\ proc[p].closing = "none" /\ proc[p].opened # <<>>
    /\ proc' = [proc EXCEPT ![p].closing = Last(proc[p].opened)]
    /\ UNCHANGED <<lock, sock, idFile, idTmp, firstKey, starts>>

\* Mutant: the collector does not wait for its cycle.
MutantCloseWaits(p) == proc[p].closing = "inbox" /\ proc[p].drain

CloseWaits(p) ==
    \/ proc[p].closing = "coll" /\ proc[p].cycle
    \/ proc[p].closing = "inbox" /\ proc[p].drain

\* Mutant: the store's Close keeps the lock.
MutantCloseEnd(p) ==
    /\ proc[p].closing # "none" /\ ~CloseWaits(p)
    /\ proc' = [proc EXCEPT ![p].opened = Front(@), ![p].closing = "none"]
    /\ sock' = IF proc[p].closing = "socket" THEN Nobody ELSE sock
    /\ UNCHANGED <<lock, idFile, idTmp, firstKey, starts>>

CloseEnd(p) ==
    /\ proc[p].closing # "none" /\ ~CloseWaits(p)
    /\ proc' = [proc EXCEPT ![p].opened = Front(@), ![p].closing = "none"]
    /\ sock' = IF proc[p].closing = "socket" THEN Nobody ELSE sock
    /\ lock' = IF proc[p].closing = "store" THEN Nobody ELSE lock
    /\ UNCHANGED <<idFile, idTmp, firstKey, starts>>

Exit(p) ==
    /\ proc[p].pc = "unwinding" /\ proc[p].opened = <<>>
    /\ proc' = [proc EXCEPT ![p] = Down(@.program)]
    /\ UNCHANGED <<lock, sock, idFile, idTmp, firstKey, starts>>

\* the process is killed: the kernel drops its lock, files stay as they are
Kill(p) ==
    /\ proc[p].pc # "down"
    /\ proc' = [proc EXCEPT ![p] = Down(@.program)]
    /\ lock' = IF lock = p THEN Nobody ELSE lock
    /\ UNCHANGED <<sock, idFile, idTmp, firstKey, starts>>

Progress(p) ==
    \/ OpenStore(p) \/ OpenOther(p) \/ OpenSocket(p)
    \/ LoadIdentity(p) \/ IdentityMissing(p) \/ WriteIdentity(p) \/ RenameIdentity(p)
    \/ Serve(p) \/ ShutdownDone(p) \/ CloseBegin(p) \/ CloseEnd(p) \/ Exit(p)

LifeNext ==
    \E p \in Processes :
        \/ Start(p) \/ Progress(p) \/ OpenFails(p)
        \/ BeginRequest(p) \/ EndRequest(p) \/ BeginWork(p) \/ EndCycle(p) \/ EndDrain(p)
        \/ Signal(p) \/ ListenerFails(p) \/ Kill(p)

LifeSpec == LifeInit /\ [][LifeNext]_lifeVars

\* Main goroutines run; requests, cycles and drains that began come to an end.
LifeFairness ==
    \A p \in Processes :
        /\ WF_lifeVars(Progress(p))
        /\ WF_lifeVars(EndRequest(p))
        /\ WF_lifeVars(EndCycle(p))
        /\ WF_lifeVars(EndDrain(p))

-----------------------------------------------------------------------------
\* Unless the listener itself failed, nothing works on a component that has been
\* closed: requests are drained before the first Close, "drains stop before"
\* the collector, and the collector "waits out a running cycle before the stores
\* under it go away" (serve.go).  Startup that fails halfway is included.
NoUseAfterClose ==
    \A p \in Processes :
        ~proc[p].abrupt => Uses(proc[p]) \cap ToSet(Opens(proc[p].program))
                           \subseteq ToSet(proc[p].opened)

\* Of the processes started on one store at most one serves, and the daemon
\* that serves is the one reached through the socket path: no process that
\* fails to start, or is still on its way out, removes its socket.
ServingReachable ==
    \A p \in Processes :
        proc[p].pc = "serving" =>
            /\ lock = p
            /\ proc[p].program = "daemon" => sock = p
            /\ \A q \in Processes \ {p} : proc[q].pc # "serving"

\* LoadOrCreate: "the file is never overwritten, because the key may already be
\* trusted elsewhere" (identity.go).
IdentityNeverOverwritten == idFile # Nobody => idFile = firstKey

\* The same for a store only daemons are started on: they read the identity
\* under the packstore lock.
DaemonsKeepIdentity ==
    (\A p \in Processes : proc[p].program = "daemon") => IdentityNeverOverwritten

\* A process that serves has the store, its socket and its identity to itself,
\* whatever other processes are started on the store.
ServesAlone == ServingReachable /\ DaemonsKeepIdentity

\* A process that is told to stop, or fails, ends, and gives the store up.
Stops ==
    \A p \in Processes :
        proc[p].pc \in {"shutdown", "unwinding"} ~> proc[p].pc = "down" /\ lock # p
=============================================================================
