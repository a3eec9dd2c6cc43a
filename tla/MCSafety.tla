------------------------------ MODULE MCSafety ------------------------------
(***************************************************************************)
(* Small instances of the components for which safety is all that is asked: *)
(* the formats and what reads them (FsTree, Segment, PackStream, Export,   *)
(* Browse), what a request meets on its way in (Auth), the inbox that takes *)
(* its pack (Inbox) and what a power loss leaves of a reference            *)
(* (RefDurability).  They share no state; part says which of them this     *)
(* behaviour runs, and the others stay as they start.                      *)
(***************************************************************************)
EXTENDS FsTree, Segment, PackStream, Export, Browse, Auth, Inbox, RefDurability

CONSTANTS a, b   \* object keys, as model values

\* A file node and its blob.
Pair         == {a, b}
PairChildren == (a :> {b}) @@ (b :> {})

\* An operator's key, and the grant it gives to a key without an entry.
OperatorAndCI == {"op", "ci"}
Grant == [issuer |-> "op", subject |-> "ci", caps |-> {"push-objects"},
          issued |-> 1, expires |-> 1]

TwoRequests == {[id |-> 1, key |-> "ci", need |-> "push-objects", grant |-> Grant],
                [id |-> 2, key |-> "op", need |-> "write-refs", grant |-> Nil]}

TwoLines == {[options |-> {"delegate"}, admin |-> FALSE],
             [options |-> {}, admin |-> FALSE]}

\* A short chunk and a long one.
TwoChunks == <<1, 2>>

\* zstd: no gain on one byte, and some on more; four bytes are over the limit.
PackedLength == (1 :> 1) @@ (3 :> 2) @@ (4 :> 2)

\* 1/ holds 2/ (with the file 3 and the socket 4) and the symlink 5; 6 is a device.
TreeParent == <<0, 1, 2, 2, 1, 0>>
TreeKind   == <<"dir", "dir", "reg", "sock", "symlink", "dev">>

\* d1 holds d2 and f1, d2 holds d3, and d3 is empty.
Directories == {"d1", "d2", "d3"}
Plain == {"f1", "f2"}
DirListing == [d \in Directories |-> CASE d = "d1" -> <<"d2", "f1">>
                                       [] d = "d2" -> <<"d3">>
                                       [] OTHER -> <<>>]
References == {<<"d1", "f2", "d2">>, <<"d2">>, <<>>}

VARIABLE part

\* A part that does not run is in one of its initial states.
Quiet ==
    /\ part # "tree" => kind = "dir"
    /\ part # "browse" => mode = "refs"
    /\ part # "export" => /\ top = 0 /\ privileged
                          /\ \A d \in DirMembers : recorded[d] = "rwx"
                          /\ \A e \in Paths : disk[e] = Absent
    /\ part # "auth" => ackedEdits["op"] = Nil
    /\ ackedEdits["ci"] = Nil   \* of the allowlists to start from, a third

SafetyInit ==
    /\ part \in {"tree", "segment", "pack", "export", "browse", "auth", "inbox", "refs"}
    /\ TreeInit /\ SegInit /\ PackInit /\ ExportInit /\ BrowseInit
    /\ AuthInit /\ Init /\ DurInit
    /\ Quiet

\* All but the part named does nothing.
Only(p) ==
    /\ part = p /\ UNCHANGED part
    /\ p # "tree" => UNCHANGED treeVars
    /\ p # "segment" => UNCHANGED segVars
    /\ p # "pack" => UNCHANGED packVars
    /\ p # "export" => UNCHANGED exportVars
    /\ p # "browse" => UNCHANGED browseVars
    /\ p # "auth" => UNCHANGED authVars
    /\ p # "inbox" => UNCHANGED vars
    /\ p # "refs" => UNCHANGED durVars

SafetyNext ==
    \/ Only("tree") /\ TreeNext
    \/ Only("segment") /\ SegNext
    \/ Only("pack") /\ PackNext
    \/ Only("export") /\ ExportNext
    \/ Only("browse") /\ BrowseNext
    \/ Only("auth") /\ AuthNext
    \/ Only("inbox") /\ Next
    \/ Only("refs") /\ DurNext

safetyVars == <<treeVars, segVars, packVars, exportVars, browseVars, authVars, vars, durVars, part>>

SafetySpec == SafetyInit /\ [][SafetyNext]_safetyVars

\* Handlers, Clients and Uploaders are the same model values, and so are Workers
\* and RefNames: only one part runs in a behaviour, and the group stays small.
Symmetry == Permutations(Clients) \cup Permutations(Workers)

=============================================================================
