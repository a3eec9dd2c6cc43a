------------------------------- MODULE FsTree -------------------------------
(***************************************************************************)
(* fstree and chunkers: how one directory, or one file, becomes a tree of  *)
(* objects, and how the tree is read back.  DirBuilder and IndexBuilder    *)
(* stream items into runs, one open run per level, and cut a run where the *)
(* item chunker says so; Finish collapses the open runs bottom-up.  The    *)
(* readers (LookupEntry, ListEntries, CollectEntries, WriteContent) descend *)
(* the result.                                                             *)
(*                                                                         *)
(* A name is an integer, and names are ordered as integers.  The key of an *)
(* object is the object itself.  Whether the hash of an item asks for a    *)
(* boundary is a choice of the step that adds the item.                    *)
(***************************************************************************)
EXTENDS Integers, Sequences, SequencesExt, GoSort

CONSTANTS
    Names,       \* the names a directory may hold
    Chunks,      \* chunk -> bytes: the chunks a file may be cut into
    MinRun, MaxRun,
    MaxItems     \* bound on the entries of a directory, the chunks of a file

ASSUME RunAssumption == MinRun \in 2..MaxRun

VARIABLES
    kind,        \* "dir" or "file": what is being built
    streamed,    \* the names or chunks streamed in so far
    leaf,        \* DirBuilder.leaf: the open run of entries
    levels,      \* IndexBuilder.levels: per level, the open run of pairs
    carry,       \* the argument of the add call still to be made, if any
    at,          \* Finish's loop variable
    emitted,     \* objects emitted so far
    root,        \* what Finish returned
    build        \* "adding", "finishing", "done", "failed"

treeVars == <<kind, streamed, leaf, levels, carry, at, emitted, root, build>>

Blob(c) == [type |-> "Blob", names |-> <<c>>, pairs |-> <<>>]
EmptyBlob == [type |-> "Blob", names |-> <<>>, pairs |-> <<>>]
DirLeaf(run) == [type |-> "DirLeaf", names |-> run, pairs |-> <<>>]

\* buildNode: the index object of a level's run
BuildNode(run) ==
    [type |-> IF kind = "dir" THEN "DirNode" ELSE "FileNode",
     names |-> <<>>, pairs |-> run]

\* Key.Length of a file object: a Blob's bytes, a FileNode's sum
RECURSIVE Length(_)
Length(o) ==
    IF o.type = "Blob" THEN FoldSeq(LAMBDA c, n : n + Chunks[c], 0, o.names)
    ELSE FoldSeq(LAMBDA p, n : n + Length(p.child), 0, o.pairs)

IsBoundary(runLen, hashed) ==
    \/ runLen >= MaxRun
    \/ runLen >= MinRun /\ hashed

TreeInit ==
    /\ kind \in {"dir", "file"}
    /\ streamed = <<>> /\ leaf = <<>> /\ levels = <<>> /\ carry = <<>>
    /\ at = 1 /\ emitted = {} /\ root = EmptyBlob /\ build = "adding"

Child(o, sep) == [child |-> o, sep |-> sep]
Level(l) == IF l <= Len(levels) THEN levels[l] ELSE <<>>

\* ensure(l), then the run of level l replaced
WithLevel(l, run) ==
    IF l <= Len(levels) THEN [levels EXCEPT ![l] = run] ELSE Append(levels, run)

EmitInto(o, l, sep) ==
    /\ emitted' = emitted \cup {o}
    /\ carry' = <<[level |-> l, item |-> Child(o, sep)]>>

\* Mutant: a leaf is announced under its first name.
MutantCloseLeaf(run) ==
    /\ EmitInto(DirLeaf(run), 1, IF run = <<>> THEN 0 ELSE Head(run))
    /\ leaf' = <<>>

CloseLeaf(run) ==
    /\ EmitInto(DirLeaf(run), 1, IF run = <<>> THEN 0 ELSE Last(run))
    /\ leaf' = <<>>

AddEntry(n, hashed) ==
    /\ kind = "dir" /\ build = "adding" /\ carry = <<>> /\ Len(streamed) < MaxItems
    /\ \A i \in DOMAIN streamed : streamed[i] < n
    /\ streamed' = Append(streamed, n)
    /\ LET run == Append(leaf, n)
       IN  IF IsBoundary(Len(run), hashed)
           THEN CloseLeaf(run)
           ELSE leaf' = run /\ UNCHANGED <<carry, emitted>>
    /\ UNCHANGED <<kind, levels, at, root, build>>

\* Mutant: only the first chunk's Blob is emitted.
MutantAddChunk(c) ==
    /\ kind = "file" /\ build = "adding" /\ carry = <<>> /\ Len(streamed) < MaxItems
    /\ streamed' = Append(streamed, c)
    /\ carry' = <<[level |-> 1, item |-> Child(Blob(c), 0)]>>
    /\ emitted' = IF streamed = <<>> THEN {Blob(c)} ELSE emitted
    /\ UNCHANGED <<kind, leaf, levels, at, root, build>>

\* buildFile's callback: one chunk of the file
AddChunk(c) ==
    /\ kind = "file" /\ build = "adding" /\ carry = <<>> /\ Len(streamed) < MaxItems
    /\ streamed' = Append(streamed, c)
    /\ EmitInto(Blob(c), 1, 0)
    /\ UNCHANGED <<kind, leaf, levels, at, root, build>>

\* IndexBuilder.add: the pending child joins its level's run, and a run that
\* ends there becomes a node of the level above
AddChild(hashed) ==
    /\ carry # <<>>
    /\ LET l   == carry[1].level
           run == Append(Level(l), carry[1].item)
       IN  IF IsBoundary(Len(run), hashed)
           THEN /\ levels' = WithLevel(l, <<>>)
                /\ EmitInto(BuildNode(run), l + 1, Last(run).sep)
           ELSE /\ levels' = WithLevel(l, run)
                /\ carry' = <<>> /\ UNCHANGED emitted
    /\ UNCHANGED <<kind, streamed, leaf, at, root, build>>

\* DirBuilder.Finish closes the trailing leaf, or makes the empty one; a file
\* of no chunks gets the empty Blob
Finish ==
    /\ build = "adding" /\ carry = <<>>
    /\ build' = "finishing"
    /\ IF kind = "dir" /\ (leaf # <<>> \/ levels = <<>>) THEN CloseLeaf(leaf)
       ELSE IF kind = "file" /\ streamed = <<>>
       THEN EmitInto(EmptyBlob, 1, 0) /\ UNCHANGED leaf
       ELSE UNCHANGED <<leaf, carry, emitted>>
    /\ UNCHANGED <<kind, streamed, levels, at, root>>

\* one iteration of IndexBuilder.Finish; running off the last level is its
\* "no children" error
Collapse ==
    /\ build = "finishing" /\ carry = <<>>
    /\ LET run == Level(at)
       IN  /\ root' = IF Len(run) = 1 /\ at = Len(levels) THEN run[1].child ELSE root
           /\ build' = IF Len(run) = 1 /\ at = Len(levels) THEN "done"
                       ELSE IF at > Len(levels) THEN "failed" ELSE build
           /\ levels' = IF at > Len(levels) THEN levels ELSE WithLevel(at, <<>>)
           /\ IF Len(run) > 1
              THEN EmitInto(BuildNode(run), at + 1, Last(run).sep)
              ELSE /\ carry' = IF Len(run) = 1 /\ at < Len(levels)
                               THEN <<[level |-> at + 1, item |-> run[1]]>> ELSE <<>>
                   /\ UNCHANGED emitted
    /\ at' = at + 1
    /\ UNCHANGED <<kind, streamed, leaf>>

TreeNext ==
    \/ \E n \in Names, h \in BOOLEAN : AddEntry(n, h)
    \/ \E c \in DOMAIN Chunks : AddChunk(c)
    \/ \E h \in BOOLEAN : AddChild(h)
    \/ Finish
    \/ Collapse

TreeSpec == TreeInit /\ [][TreeNext]_treeVars

-----------------------------------------------------------------------------
\* the readers

\* collectEntries: the names below o in order; a name that is not after the
\* one before it is an error
RECURSIVE CollectInto(_, _)
CollectInto(r, o) ==
    IF o.type = "DirLeaf"
    THEN FoldLeft(LAMBDA q, n : [out |-> Append(q.out, n),
                                 ok  |-> q.ok /\ (q.out = <<>> \/ n > Last(q.out))],
                  r, o.names)
    ELSE FoldLeft(LAMBDA q, p : CollectInto(q, p.child), r, o.pairs)

CollectEntries(o) == CollectInto([out |-> <<>>, ok |-> TRUE], o)

RECURSIVE LookupEntry(_, _)
LookupEntry(o, n) ==
    IF o.type = "DirLeaf"
    THEN LET i == Search(Len(o.names), [j \in 0..(Len(o.names) - 1) |-> o.names[j + 1] >= n])
         IN  i < Len(o.names) /\ o.names[i + 1] = n
    ELSE LET i == Search(Len(o.pairs), [j \in 0..(Len(o.pairs) - 1) |-> o.pairs[j + 1].sep >= n])
         IN  i < Len(o.pairs) /\ LookupEntry(o.pairs[i + 1].child, n)

\* listInto: the page so far, and whether an entry beyond it was met
RECURSIVE ListInto(_, _, _, _)
ListInto(page, o, after, limit) ==
    IF o.type = "DirLeaf"
    THEN LET i    == Search(Len(o.names), [j \in 0..(Len(o.names) - 1) |-> o.names[j + 1] > after])
             rest == SubSeq(o.names, i + 1, Len(o.names))
             room == limit - Len(page.out)
         IN  [out |-> page.out \o SubSeq(rest, 1, IF room < Len(rest) THEN room ELSE Len(rest)),
              more |-> Len(rest) > room]
    ELSE LET i == Search(Len(o.pairs), [j \in 0..(Len(o.pairs) - 1) |-> o.pairs[j + 1].sep > after])
         IN  FoldLeft(LAMBDA p, pair : IF p.more THEN p ELSE ListInto(p, pair.child, after, limit),
                      page, SubSeq(o.pairs, i + 1, Len(o.pairs)))

ListEntries(o, after, limit) == ListInto([out |-> <<>>, more |-> FALSE], o, after, limit)

RECURSIVE WriteContent(_)
WriteContent(o) ==
    IF o.type = "Blob" THEN o.names
    ELSE FoldLeft(LAMBDA out, p : out \o WriteContent(p.child), <<>>, o.pairs)

-----------------------------------------------------------------------------
ChildrenOf(o) == {o.pairs[i].child : i \in DOMAIN o.pairs}

\* Objects are emitted "children before parents" (index_builder.go): at no
\* moment has a node been emitted whose child has not, so a store that holds a
\* prefix of the stream never holds a dangling node.
EmittedClosed == \A o \in emitted : ChildrenOf(o) \subseteq emitted

\* No node has a single child and no node or leaf exceeds MaxRun, whatever the
\* hashes are: Finish hands a lone child up "without wrapping it in a
\* degenerate one-child node", so collapsing always ends, and never without a
\* root.
ShapeBounded ==
    /\ build # "failed"
    /\ \A o \in emitted :
          /\ Len(o.names) <= MaxRun
          /\ o.pairs # <<>> => Len(o.pairs) \in 2..MaxRun
    /\ \A l \in DOMAIN levels : Len(levels[l]) < MaxRun

\* A finished directory reads back, through every reader: CollectEntries returns
\* the entries in order, LookupEntry finds a name exactly if it was streamed (the
\* separators lead it to the only leaf that can hold it), and each page of
\* ListEntries is the next limit names after the cursor, with more saying
\* exactly whether names remain.
DirReadsBack ==
    build = "done" /\ kind = "dir" =>
        /\ CollectEntries(root) = [out |-> streamed, ok |-> TRUE]
        /\ \A n \in Names : LookupEntry(root, n) <=> n \in ToSet(streamed)
        /\ \A after \in Names \cup {0}, limit \in 1..(MaxItems + 1) :
              LET later == SelectSeq(streamed, LAMBDA n : n > after)
                  page  == ListEntries(root, after, limit)
              IN  /\ page.out = SubSeq(later, 1, IF limit < Len(later) THEN limit ELSE Len(later))
                  /\ page.more = (Len(later) > limit)

\* A finished file's content is its chunks in order, although equal chunks are
\* one object, and the length in its key is the number of content bytes, which
\* tarexport puts into the member header before it writes the content.
FileReadsBack ==
    build = "done" /\ kind = "file" =>
        /\ WriteContent(root) = streamed
        /\ Length(root) = FoldSeq(LAMBDA c, n : n + Chunks[c], 0, streamed)

\* The objects under o, and o.
RECURSIVE Below(_)
Below(o) == {o} \cup UNION {Below(c) : c \in ChildrenOf(o)}

\* Everything emitted hangs off the returned root, and the root was emitted: a
\* reference to it pins exactly the objects this build stored.
RootPinsAll == build = "done" => emitted = Below(root)

\* What a build emits is sound: children before parents, nodes within their
\* limits, and at the end nothing that the root does not reach.
TreeSound == EmittedClosed /\ ShapeBounded /\ RootPinsAll

\* What was built reads back: a directory through all its readers, a file through
\* WriteContent and the length in its key.
ReadsBack == DirReadsBack /\ FileReadsBack
=============================================================================
