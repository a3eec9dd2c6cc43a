------------------------------- MODULE Export -------------------------------
(***************************************************************************)
(* getTar and tarexport on one side, tarextract on the other: a directory  *)
(* tree leaves the store as a tar stream and is restored on a file system. *)
(* Directory attributes are deferred to the end of the extraction.  The    *)
(* export may fail after its status line is out, and the connection may    *)
(* break; a tar reader takes a stream that just ends for a whole archive.  *)
(*                                                                         *)
(* Paths are integers in name order.  Of the attributes a mode and an mtime *)
(* are kept: those of ownership and xattrs are set in the same calls.      *)
(***************************************************************************)
EXTENDS Integers, Sequences, SequencesExt, FiniteSets

CONSTANTS
    Parent,      \* path -> the directory it is in, 0 for the root
    Kind,        \* path -> "dir", "reg", "symlink", "dev" or "sock"
    Modes        \* modes of directories: "rwx", "r-x", "r--"

VARIABLES
    recorded,    \* the modes recorded for the directories
    top,         \* the directory exported: the root, or what ?path= named
    written,     \* members written by the exporter
    stream,      \* members on their way
    ended,       \* "no", "clean", "aborted"
    disk,        \* what is at each path below the destination
    deferred,    \* directories whose attributes are still to be applied
    privileged,  \* the extraction runs as root
    extract      \* "members", "dirs", "ok", "failed"

exportVars == <<recorded, top, written, stream, ended, disk, deferred, privileged, extract>>

Paths == DOMAIN Parent
DirMembers == {e \in Paths : Kind[e] = "dir"}

\* exporter.dir and exporter.entry: entries in name order, a directory's
\* header before what is below it; sockets are skipped
Members ==
    LET below[d \in DirMembers \cup {0}] ==
            FoldLeft(LAMBDA out, e :
                        CASE Kind[e] = "sock" -> out
                          [] Kind[e] = "dir"  -> out \o <<e>> \o below[e]
                          [] OTHER            -> Append(out, e),
                     <<>>, SetToSortSeq({e \in Paths : Parent[e] = d}, LAMBDA a, b : a < b))
    IN  below[top]

Absent == [kind |-> "none", mode |-> "none", mtime |-> "none", before |-> FALSE]

\* the destination is empty, or something is already at one of the paths
ExportInit ==
    /\ recorded \in [DirMembers -> Modes]
    /\ top \in DirMembers \cup {0}
    /\ written = <<>> /\ stream = <<>> /\ ended = "no" /\ deferred = <<>> /\ extract = "members"
    /\ privileged \in BOOLEAN
    /\ disk = [e \in Paths |-> Absent]
       \/ \E e \in Paths, k \in {"dir", "reg"} :
             /\ Parent[e] = top
             /\ disk = [f \in Paths |-> IF f = e
                          THEN [kind |-> k, mode |-> "rwx", mtime |-> "old", before |-> TRUE]
                          ELSE Absent]

ExportMember ==
    /\ ended = "no" /\ Len(written) < Len(Members)
    /\ written' = Append(written, Members[Len(written) + 1])
    /\ stream' = Append(stream, Members[Len(written) + 1])
    /\ UNCHANGED <<recorded, top, ended, disk, deferred, privileged, extract>>

ExportDone ==
    /\ ended = "no" /\ Len(written) = Len(Members)
    /\ ended' = "clean"
    /\ UNCHANGED <<recorded, top, written, stream, disk, deferred, privileged, extract>>

\* Mutant: the handler returns, and the body just ends.
MutantExportFails ==
    /\ ended = "no"
    /\ ended' = "clean"
    /\ UNCHANGED <<recorded, top, written, stream, disk, deferred, privileged, extract>>

\* an object cannot be read: "abort the connection instead" of ending the body
ExportFails ==
    /\ ended = "no"
    /\ ended' = "aborted"
    /\ UNCHANGED <<recorded, top, written, stream, disk, deferred, privileged, extract>>

-----------------------------------------------------------------------------
\* the file system below the destination
RECURSIVE Above(_)
Above(e) == IF Parent[e] \in {0, top} THEN {} ELSE {Parent[e]} \cup Above(Parent[e])

Exists(e) == disk[e].kind # "none"
CanSearch(e) == privileged \/ \A a \in Above(e) : disk[a].mode # "r--"
CanWrite(e) == privileged \/ Above(e) = {} \/ disk[Parent[e]].mode = "rwx"

\* rejectSymlinkComponents: no existing component may be other than a directory
Rejected(e) == \E a \in Above(e) \cup {e} : Exists(a) /\ disk[a].kind # "dir"

\* a new entry changes the mtime of its directory
Created(e, k, m, mtime) ==
    [f \in Paths |->
        CASE f = e -> [kind |-> k, mode |-> m, mtime |-> mtime, before |-> FALSE]
          [] f = Parent[e] /\ f # top -> [disk[f] EXCEPT !.mtime = "now"]
          [] OTHER -> disk[f]]


Creatable(e) == ~Rejected(e) /\ ~Exists(e) /\ CanSearch(e) /\ CanWrite(e)

\* Extract's loop: one member.  A directory is made with mode 0700, and its
\* own attributes wait; a device node that may not be made is skipped.
ExtractDir(e) ==
    /\ disk' = IF Exists(e) THEN disk ELSE Created(e, "dir", "rwx", "now")
    /\ deferred' = Append(deferred, e)

ExtractMember ==
    /\ extract = "members" /\ stream # <<>>
    /\ stream' = Tail(stream)
    /\ LET e == Head(stream)
       IN  IF Creatable(e) \/ (Kind[e] = "dir" /\ ~Rejected(e) /\ Exists(e))
           THEN /\ IF Kind[e] = "dir" THEN ExtractDir(e)
                   ELSE /\ disk' = IF Kind[e] = "dev" /\ ~privileged THEN disk
                                   ELSE Created(e, Kind[e], "recorded", "recorded")
                        /\ UNCHANGED deferred
                /\ UNCHANGED extract
           ELSE extract' = "failed" /\ UNCHANGED <<disk, deferred>>
    /\ UNCHANGED <<recorded, top, written, ended, privileged>>

\* tr.Next at the end of the input: io.EOF if the body just ended, with or
\* without the end-of-archive blocks, and an error if the connection broke
StreamEnds ==
    /\ extract = "members" /\ stream = <<>> /\ ended # "no"
    /\ extract' = IF ended = "clean" THEN "dirs" ELSE "failed"
    /\ UNCHANGED <<recorded, top, written, stream, ended, disk, deferred, privileged>>

\* applyMeta of one directory, in the order they were met
ApplyDir ==
    /\ extract = "dirs" /\ deferred # <<>>
    /\ LET d == Head(deferred)
       IN  IF CanSearch(d)
           THEN /\ disk' = [disk EXCEPT ![d].mode = recorded[d], ![d].mtime = "recorded"]
                /\ deferred' = Tail(deferred) /\ UNCHANGED extract
           ELSE extract' = "failed" /\ UNCHANGED <<disk, deferred>>
    /\ UNCHANGED <<recorded, top, written, stream, ended, privileged>>

ExtractDone ==
    /\ extract = "dirs" /\ deferred = <<>>
    /\ extract' = "ok"
    /\ UNCHANGED <<recorded, top, written, stream, ended, disk, deferred, privileged>>

ExportNext ==
    \/ ExportMember \/ ExportDone \/ ExportFails
    \/ ExtractMember \/ StreamEnds \/ ApplyDir \/ ExtractDone

ExportSpec == ExportInit /\ [][ExportNext]_exportVars

-----------------------------------------------------------------------------
\* An extraction that reports success has restored the whole tree: every member
\* is there, directories with their recorded modes and mtimes although entries
\* were made in them meanwhile, and an export that broke off halfway, even
\* between two members, is never taken for a complete one.
RestoredExactly ==
    extract = "ok" =>
        \A i \in DOMAIN Members :
            LET e == Members[i]
            IN  \/ /\ disk[e].kind = Kind[e] /\ disk[e].mtime = "recorded"
                   /\ Kind[e] = "dir" => disk[e].mode = recorded[e]
                \/ Kind[e] = "dev" /\ ~privileged


\* A complete stream extracts into an empty destination: a directory recorded
\* without write permission does not stop the extraction of what is in it, for
\* any user, as long as directories grant search.
ReadOnlyDirsExtract ==
    extract = "failed" =>
        \/ ended = "aborted"
        \/ \E e \in Paths : disk[e].before
        \/ "r--" \in {recorded[d] : d \in DirMembers} /\ ~privileged

\* The outcome of an extraction is true: success means the whole tree with its
\* attributes, and failure has one of the known causes.
ExtractSound == RestoredExactly /\ ReadOnlyDirsExtract
=============================================================================
