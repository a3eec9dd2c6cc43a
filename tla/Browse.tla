------------------------------- MODULE Browse -------------------------------
(***************************************************************************)
(* The terminal browser (cmd/amber-store, browse_*.go).  Update handles one*)
(* message at a time; every load runs beside it and answers with a message *)
(* some time later.  A directory's answer does not say which directory it  *)
(* lists.  Text, sizes, colours and the scrolling of a file are left out;  *)
(* a filter either is empty or matches the entries in Matching.            *)
(***************************************************************************)
EXTENDS Integers, FiniteSets, Sequences, Bags

CONSTANTS
    Dirs, Regular,      \* keys of directories and of files
    Listing,            \* Listing[d]: the keys that directory d lists
    RefLists,           \* what ListRefs may answer: sequences of keys
    Matching,           \* the keys whose names match the filter text
    MaxInFlight,        \* bound: loads under way at once
    MaxDepth            \* bound: frames on the stack

VARIABLES
    mode,               \* list, file, export, refs; quit at the end
    stack,              \* the navigation stack: frames of a key and a cursor
    listed,             \* the directory whose entries m.entries holds, or NoKey
    cursor,             \* the index into the visible entries
    filtering, query,   \* the directory filter: focused, not empty
    refKeys,            \* m.refs: the keys of the references, in list order
    refCursor, refFiltering, refQuery,
    inFlight,           \* bag of loads under way
    fileRef,            \* history: a reference to a file has been opened
    panicked            \* an index out of range ended the program

browseVars == <<mode, stack, listed, cursor, filtering, query, refKeys,
                refCursor, refFiltering, refQuery, inFlight, fileRef, panicked>>

listVars == <<listed, cursor, filtering, query>>
refVars == <<refKeys, refCursor, refFiltering, refQuery>>
endVars == <<fileRef, panicked>>

NoKey == "none"
Load(kind, k) == [kind |-> kind, key |-> k]
Start(m) == inFlight' = inFlight (+) SetToBag({m})
CanLoad == BagCardinality(inFlight) < MaxInFlight
Top == stack[Len(stack)]

Filtered(s, on) == IF on THEN SelectSeq(s, LAMBDA k : k \in Matching) ELSE s

\* visibleEntries and filteredRefs.
Visible(q) == IF listed = NoKey THEN <<>> ELSE Filtered(Listing[listed], q)
VisibleEntries == Visible(query)
FilteredRefs == Filtered(refKeys, refQuery)

LastIndex(s) == IF s = <<>> THEN 0 ELSE Len(s) - 1

\* down, up, home and end.
Moves(c, s) ==
    {IF c < Len(s) - 1 THEN c + 1 ELSE c, IF c > 0 THEN c - 1 ELSE c}
Jumps(s) == {0, LastIndex(s)}

Panic ==
    /\ panicked' = TRUE
    /\ mode' = "quit"
    /\ UNCHANGED <<stack, listVars, refVars, inFlight, fileRef>>

-----------------------------------------------------------------------------
(* newBrowseModel, newRefPickerModel and Init.                             *)

BrowseInit ==
    /\ \/ \E d \in Dirs : /\ mode = "list"
                          /\ stack = <<[key |-> d, cursor |-> 0]>>
                          /\ inFlight = SetToBag({Load("dir", d)})
       \/ \E f \in Regular : /\ mode = "file"
                             /\ stack = <<>>
                             /\ inFlight = SetToBag({Load("file", f)})
       \/ /\ mode = "refs"
          /\ stack = <<>>
          /\ inFlight = SetToBag({Load("refs", NoKey)})
    /\ listed = NoKey
    /\ cursor = 0
    /\ filtering = FALSE /\ query = FALSE
    /\ refKeys = <<>>
    /\ refCursor = 0
    /\ refFiltering = FALSE /\ refQuery = FALSE
    /\ fileRef = FALSE
    /\ panicked = FALSE

-----------------------------------------------------------------------------
(* Answers.                                                                *)

Arrives(kind) ==
    \E m \in BagToSet(inFlight) :
        /\ m.kind = kind
        /\ mode # "quit"
        /\ inFlight' = inFlight (-) SetToBag({m})

GotoRefsState ==
    /\ mode' = "refs"
    /\ refCursor' = 0
    /\ refFiltering' = FALSE
    /\ refQuery' = FALSE
    /\ UNCHANGED refKeys

\* Mutant: the stack is dropped.
MutantGotoRefs ==
    /\ CanLoad
    /\ GotoRefsState
    /\ stack' = <<>>
    /\ Start(Load("refs", NoKey))
    /\ UNCHANGED <<listVars, endVars>>

\* gotoRefs: the stack and the entries stay as they are.
GotoRefs ==
    /\ CanLoad
    /\ GotoRefsState
    /\ Start(Load("refs", NoKey))
    /\ UNCHANGED <<stack, listVars, endVars>>

\* An answer with an error only sets the status line.
LoadFails(kind) ==
    /\ kind \in {"dir", "refs"}
    /\ Arrives(kind)
    /\ UNCHANGED <<mode, stack, listVars, refVars, endVars>>

DirLoaded ==
    \E m \in BagToSet(inFlight) :
        /\ m.kind = "dir"
        /\ mode # "quit"
        /\ \/ stack = <<>> /\ Panic
           \/ /\ stack # <<>>
              /\ inFlight' = inFlight (-) SetToBag({m})
              /\ listed' = m.key
              /\ filtering' = FALSE
              /\ query' = FALSE
              /\ cursor' = IF Top.cursor >= Len(Listing[m.key]) THEN 0
                           ELSE Top.cursor
              /\ UNCHANGED <<mode, stack, refVars, endVars>>

FileLoaded ==
    /\ Arrives("file")
    /\ mode' = "file"
    /\ UNCHANGED <<stack, listVars, refVars, endVars>>

FileLoadFails ==
    \E m \in BagToSet(inFlight) :
        /\ m.kind = "file"
        /\ mode # "quit"
        /\ \/ /\ stack = <<>>
              /\ GotoRefsState
              /\ inFlight' = (inFlight (-) SetToBag({m}))
                                (+) SetToBag({Load("refs", NoKey)})
           \/ /\ stack # <<>>
              /\ mode' = "list"
              /\ inFlight' = inFlight (-) SetToBag({m})
              /\ UNCHANGED refVars
        /\ UNCHANGED <<stack, listVars, endVars>>

RefsLoaded ==
    /\ Arrives("refs")
    /\ refKeys' \in RefLists
    /\ refCursor' = 0
    /\ UNCHANGED <<mode, stack, listVars, refFiltering, refQuery, endVars>>

-----------------------------------------------------------------------------
(* Keys in a directory.                                                    *)

\* openEntry: a directory is pushed before it is loaded.
OpenEntry(k) ==
    \/ /\ k \in Dirs
       /\ stack = <<>>
       /\ Panic
    \/ /\ k \in Dirs
       /\ stack # <<>>
       /\ Len(stack) < MaxDepth /\ CanLoad
       /\ stack' = Append([stack EXCEPT ![Len(stack)].cursor = cursor],
                          [key |-> k, cursor |-> 0])
       /\ Start(Load("dir", k))
       /\ UNCHANGED <<mode, listVars, refVars, endVars>>
    \/ /\ k \in Regular
       /\ CanLoad
       /\ Start(Load("file", k))
       /\ UNCHANGED <<mode, stack, listVars, refVars, endVars>>

ListMove ==
    /\ mode = "list"
    /\ cursor' \in Moves(cursor, VisibleEntries)
                    \cup IF filtering THEN {} ELSE Jumps(VisibleEntries)
    /\ UNCHANGED <<mode, stack, listed, filtering, query, refVars, inFlight,
                   endVars>>

\* enter, with or without the filter: ve[m.cursor].
ListEnter ==
    LET ve == VisibleEntries
    IN  /\ mode = "list"
        /\ ve # <<>>
        /\ OpenEntry(ve[cursor + 1])

ListBack ==
    /\ mode = "list"
    /\ ~filtering
    /\ \/ /\ Len(stack) > 1
          /\ CanLoad
          /\ stack' = SubSeq(stack, 1, Len(stack) - 1)
          /\ Start(Load("dir", stack[Len(stack) - 1].key))
          /\ UNCHANGED <<mode, listVars, refVars, endVars>>
       \/ Len(stack) <= 1 /\ GotoRefs

\* e: beginExport.
ListExport ==
    /\ mode = "list"
    /\ ~filtering
    /\ VisibleEntries # <<>>
    /\ mode' = "export"
    /\ UNCHANGED <<stack, listVars, refVars, inFlight, endVars>>

ListFilter ==
    /\ mode = "list"
    /\ ~filtering
    /\ filtering' = TRUE
    /\ UNCHANGED <<mode, stack, listed, cursor, query, refVars, inFlight,
                   endVars>>

\* esc, and typing, which may shrink the list under the cursor.
ListFilterKey ==
    /\ mode = "list"
    /\ filtering
    /\ \/ filtering' = FALSE /\ query' = FALSE /\ cursor' = 0
       \/ /\ UNCHANGED filtering
          /\ query' \in BOOLEAN
          /\ cursor' = IF cursor >= Len(Visible(query')) THEN 0 ELSE cursor
    /\ UNCHANGED <<mode, stack, listed, refVars, inFlight, endVars>>

-----------------------------------------------------------------------------
(* Keys in a file, in the export prompt and in the reference list.         *)

FileBack ==
    /\ mode = "file"
    /\ \/ stack = <<>> /\ GotoRefs
       \/ /\ stack # <<>>
          /\ mode' = "list"
          /\ UNCHANGED <<stack, listVars, refVars, inFlight, endVars>>

FileExport ==
    /\ mode = "file"
    /\ mode' = "export"
    /\ UNCHANGED <<stack, listVars, refVars, inFlight, endVars>>

\* esc drops the export, enter runs it beside Update; both go to the list.
ExportKey ==
    /\ mode = "export"
    /\ mode' = "list"
    /\ UNCHANGED <<stack, listVars, refVars, inFlight, endVars>>

RefsMove ==
    /\ mode = "refs"
    /\ refCursor' \in Moves(refCursor, FilteredRefs)
                       \cup IF refFiltering THEN {} ELSE Jumps(FilteredRefs)
    /\ UNCHANGED <<mode, stack, listVars, refKeys, refFiltering, refQuery,
                   inFlight, endVars>>

RefsFilter ==
    /\ mode = "refs"
    /\ ~refFiltering
    /\ refFiltering' = TRUE
    /\ UNCHANGED <<mode, stack, listVars, refKeys, refCursor, refQuery, inFlight,
                   endVars>>

RefsFilterKey ==
    /\ mode = "refs"
    /\ refFiltering
    /\ \/ refFiltering' = FALSE /\ refQuery' = FALSE /\ refCursor' = 0
       \/ /\ UNCHANGED refFiltering
          /\ refQuery' \in BOOLEAN
          /\ refCursor' = IF refCursor >= Len(Filtered(refKeys, refQuery'))
                          THEN 0 ELSE refCursor
    /\ UNCHANGED <<mode, stack, listVars, refKeys, inFlight, endVars>>

\* openRef: a file leaves the reference list up until it has arrived.
OpenRef ==
    LET fr == FilteredRefs
        k == fr[refCursor + 1]
    IN  /\ mode = "refs"
        /\ fr # <<>>
        /\ CanLoad
        /\ refFiltering' = FALSE
        /\ \/ /\ k \in Regular
              /\ stack' = <<>>
              /\ fileRef' = TRUE
              /\ Start(Load("file", k))
              /\ UNCHANGED mode
           \/ /\ k \in Dirs
              /\ stack' = <<[key |-> k, cursor |-> 0]>>
              /\ mode' = "list"
              /\ Start(Load("dir", k))
              /\ UNCHANGED fileRef
        /\ UNCHANGED <<listVars, refKeys, refCursor, refQuery, panicked>>

Quit ==
    /\ mode # "quit"
    /\ mode' = "quit"
    /\ UNCHANGED <<stack, listVars, refVars, inFlight, endVars>>

BrowseNext ==
    \/ \E kind \in {"dir", "refs"} : LoadFails(kind)
    \/ DirLoaded \/ FileLoaded \/ FileLoadFails \/ RefsLoaded
    \/ ListMove \/ ListEnter \/ ListBack \/ ListExport \/ ListFilter
    \/ ListFilterKey
    \/ FileBack \/ FileExport \/ ExportKey
    \/ RefsMove \/ RefsFilter \/ RefsFilterKey \/ OpenRef
    \/ Quit

BrowseSpec == BrowseInit /\ [][BrowseNext]_browseVars

-----------------------------------------------------------------------------

\* Whatever the filter, the order of the answers and the keys pressed, the
\* highlighted index exists: enter and e never index past the visible
\* entries, nor enter past the filtered references.
CursorsInRange ==
    /\ mode \in {"list", "export"} => cursor <= LastIndex(VisibleEntries)
    /\ refCursor <= LastIndex(FilteredRefs)

\* No index is out of range until a reference to a file has been opened.
\* That empties the stack, and then a late directory answer, or enter after
\* an abandoned export, indexes the stack at -1.
PanicNeedsFileRef == panicked => fileRef

\* The browser never indexes out of range, but in the one way that
\* PanicNeedsFileRef allows.
BrowseSound == CursorsInRange /\ PanicNeedsFileRef

=============================================================================
