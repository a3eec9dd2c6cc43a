-------------------------------- MODULE Mount --------------------------------
(***************************************************************************)
(* The file cache of the read-only FUSE mount (cmd/amber-store,            *)
(* fuse_linux.go).  Opening a regular file materialises its content in an  *)
(* anonymous memory file; the memory file is shared by content key, counted*)
(* by the handles that use it, and kept for a while after the last of them *)
(* closes, up to MaxIdle bytes.  The fetch runs outside the cache's mutex, *)
(* so two opens of one file can both materialise it.  File descriptors are *)
(* reused by the kernel: a read through a closed one reads another file.   *)
(***************************************************************************)
EXTENDS Integers, FiniteSets, Sequences, SequencesExt

CONSTANTS
    Files,      \* content keys of regular files
    Size,       \* Size[f]: the length in f's key
    Handles,    \* concurrent opens
    Fds,        \* file descriptors, enough for every memory file alive
    MaxIdle,    \* backingCache.maxIdle
    MaxFile,    \* amberFS.maxFileSize, 0 for no limit
    NoFd

VARIABLES
    memfds,     \* the open memory files
    content,    \* content[d]: the file that memory file d was filled with
    byKey,      \* backingCache.byKey: the memory file of a content key
    refs,       \* refs[d]: backing.refs
    idle,       \* backingCache.idle, the most recently released first
    idleSize,   \* backingCache.idleSize
    call,       \* call[h]: none, fetching, filled (before the second lock), open
    file,       \* file[h]: what h asked for
    fd,         \* fd[h]: the memory file h has
    mounted

mountVars == <<memfds, content, byKey, refs, idle, idleSize, call, file, fd,
               mounted>>

MountInit ==
    /\ memfds = {}
    /\ content \in [Fds -> {CHOOSE f \in Files : TRUE}]
    /\ byKey = [f \in Files |-> NoFd]
    /\ refs = [d \in Fds |-> 0]
    /\ idle = <<>>
    /\ idleSize = 0
    /\ call = [h \in Handles |-> "none"]
    /\ file \in [Handles -> {CHOOSE f \in Files : TRUE}]
    /\ fd = [h \in Handles |-> NoFd]
    /\ mounted = TRUE

\* reuseLocked: one more reference, and out of the idle list.
Reuse(h, d) ==
    /\ refs' = [refs EXCEPT ![d] = @ + 1]
    /\ IF refs[d] = 0 /\ d \in Range(idle)
       THEN /\ idle' = SelectSeq(idle, LAMBDA e : e # d)
            /\ idleSize' = idleSize - Size[content[d]]
       ELSE UNCHANGED <<idle, idleSize>>
    /\ fd' = [fd EXCEPT ![h] = d]
    /\ call' = [call EXCEPT ![h] = "open"]

\* Open: the size limit, then acquire's first look at the cache.
Open(h, f) ==
    /\ mounted
    /\ call[h] = "none"
    /\ MaxFile = 0 \/ Size[f] <= MaxFile
    /\ file' = [file EXCEPT ![h] = f]
    /\ \/ byKey[f] # NoFd /\ Reuse(h, byKey[f])
       \/ /\ byKey[f] = NoFd
          /\ call' = [call EXCEPT ![h] = "fetching"]
          /\ UNCHANGED <<refs, idle, idleSize, fd>>
    /\ UNCHANGED <<memfds, content, byKey, mounted>>

\* The daemon's answer fills a new memory file; the kernel gives any free
\* descriptor.
Fill(h) ==
    /\ call[h] = "fetching"
    /\ \E d \in Fds \ memfds :
        /\ memfds' = memfds \cup {d}
        /\ content' = [content EXCEPT ![d] = file[h]]
        /\ fd' = [fd EXCEPT ![h] = d]
    /\ call' = [call EXCEPT ![h] = "filled"]
    /\ UNCHANGED <<byKey, refs, idle, idleSize, file, mounted>>

\* The fetch or the memory file fails; newMemfd closes what it made.
FillFails(h) ==
    /\ call[h] = "fetching"
    /\ call' = [call EXCEPT ![h] = "none"]
    /\ UNCHANGED <<memfds, content, byKey, refs, idle, idleSize, file, fd,
                   mounted>>

\* Mutant: the loser of the race closes its memory file and keeps it.
MutantPublish(h) ==
    LET f == file[h]
    IN  /\ call[h] = "filled"
        /\ call' = [call EXCEPT ![h] = "open"]
        /\ \/ /\ byKey[f] # NoFd
              /\ memfds' = memfds \ {fd[h]}
              /\ refs' = [refs EXCEPT ![byKey[f]] = @ + 1]
              /\ UNCHANGED byKey
           \/ /\ byKey[f] = NoFd
              /\ byKey' = [byKey EXCEPT ![f] = fd[h]]
              /\ refs' = [refs EXCEPT ![fd[h]] = 1]
              /\ UNCHANGED memfds
        /\ UNCHANGED <<content, file, mounted, idle, idleSize, fd>>

\* acquire's second look: an open of the same content may have been faster.
Publish(h) ==
    LET f == file[h]
    IN  /\ call[h] = "filled"
        /\ \/ /\ byKey[f] # NoFd
              /\ memfds' = memfds \ {fd[h]}
              /\ Reuse(h, byKey[f])
              /\ UNCHANGED byKey
           \/ /\ byKey[f] = NoFd
              /\ byKey' = [byKey EXCEPT ![f] = fd[h]]
              /\ refs' = [refs EXCEPT ![fd[h]] = 1]
              /\ call' = [call EXCEPT ![h] = "open"]
              /\ UNCHANGED <<memfds, idle, idleSize, fd>>
        /\ UNCHANGED <<content, file, mounted>>

TotalSize(q) == FoldLeft(LAMBDA n, d : n + Size[content[d]], 0, q)

\* evictLocked: from the back of the idle list while it is over the limit.
Kept(q, total) ==
    LET fits == {n \in 0..Len(q) :
                    total - TotalSize(SubSeq(q, n + 1, Len(q))) <= MaxIdle}
    IN  SubSeq(q, 1, IF fits = {} THEN 0
                     ELSE CHOOSE n \in fits : \A m \in fits : m <= n)

Forget(D) ==
    /\ memfds' = memfds \ D
    /\ byKey' = [f \in Files |-> IF byKey[f] \in D THEN NoFd ELSE byKey[f]]

Release(h) ==
    LET d == fd[h]
        size == Size[content[d]]
        queue == <<d>> \o idle
        kept == Kept(queue, idleSize + size)
        gone == SubSeq(queue, Len(kept) + 1, Len(queue))
    IN  /\ call[h] = "open"
        /\ refs' = [refs EXCEPT ![d] = @ - 1]
        /\ \/ /\ refs[d] > 1
              /\ UNCHANGED <<memfds, byKey, idle, idleSize>>
           \/ /\ refs[d] <= 1
              /\ MaxIdle <= 0 \/ size > MaxIdle
              /\ Forget({d})
              /\ UNCHANGED <<idle, idleSize>>
           \/ /\ refs[d] <= 1
              /\ ~(MaxIdle <= 0 \/ size > MaxIdle)
              /\ idle' = kept
              /\ idleSize' = idleSize + size - TotalSize(gone)
              /\ Forget(Range(gone))
        /\ call' = [call EXCEPT ![h] = "none"]
        /\ fd' = [fd EXCEPT ![h] = NoFd]
        /\ UNCHANGED <<content, file, mounted>>


\* Unmount fails with EBUSY while the mount is in use; once it succeeds the
\* server's loop ends and runFuse closes the cache.
CloseAll ==
    /\ mounted
    /\ \A h \in Handles : call[h] = "none"
    /\ mounted' = FALSE
    /\ memfds' = memfds \ {byKey[f] : f \in Files}
    /\ byKey' = [f \in Files |-> NoFd]
    /\ idle' = <<>>
    /\ idleSize' = 0
    /\ UNCHANGED <<content, refs, call, file, fd>>

MountNext ==
    \/ \E h \in Handles : \/ \E f \in Files : Open(h, f)
                          \/ Fill(h) \/ FillFails(h) \/ Publish(h) \/ Release(h)
    \/ CloseAll

MountSpec == MountInit /\ [][MountNext]_mountVars

-----------------------------------------------------------------------------

\* An open handle reads the file it was opened for: its memory file is open
\* and holds that content, whatever was evicted, dropped by a lost race or
\* given the same descriptor since.
HandlesReadTheirFile ==
    \A h \in Handles :
        call[h] = "open" => fd[h] \in memfds /\ content[fd[h]] = file[h]

\* No memory file leaks: each one is in the cache, where an eviction or the
\* end of the mount closes it, or belongs to an open still under way.
NoMemfdLeak ==
    memfds = {byKey[f] : f \in {g \in Files : byKey[g] # NoFd}}
                \cup {fd[h] : h \in {g \in Handles : call[g] = "filled"}}

\* The idle list is exactly the cached files without a handle, its size is
\* accounted, and it stays within maxIdle.
IdleAccounted ==
    /\ Range(idle) = {d \in memfds : refs[d] = 0 /\ byKey[content[d]] = d}
    /\ idleSize = TotalSize(idle)
    /\ idleSize <= MaxIdle

\* The cache of memory files: open handles read their own file, no memory file
\* leaks, and the idle ones are accounted and within their limit.
CacheSound == HandlesReadTheirFile /\ NoMemfdLeak /\ IdleAccounted

Memfds == INSTANCE Leases WITH
            Resources <- Fds, Users <- Handles, live <- memfds,
            held <- [h \in Handles |->
                        IF call[h] = "open" THEN {fd[h]} ELSE {}]


=============================================================================
