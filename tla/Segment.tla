------------------------------ MODULE Segment -------------------------------
(***************************************************************************)
(* packstore/footer.go: the footer of a sealed segment.  buildFooter lays  *)
(* out the seal marker, the index section (a fanout table on the last key  *)
(* byte and the rows sorted by it), the filter section and the trailer;    *)
(* parseFooter validates what it finds on disk and the readers look keys   *)
(* up in it.  Sizes and offsets are unsigned 64-bit numbers in the code:   *)
(* here they are numbers modulo U64, and every size is a parameter.        *)
(*                                                                         *)
(* The disk may alter the footer or an index row between the seal and the  *)
(* open.  The footer checksum then mismatches, or collides: both are tried. *)
(***************************************************************************)
EXTENDS Integers, Sequences, SequencesExt, FiniteSets, GoSort

CONSTANTS
    LastBytes,     \* values of a key's last byte: 0..n
    Rests,         \* values of the rest of a key, ordered as numbers
    Slens,         \* stored payload lengths
    MaxEntries,    \* bound on the records of a segment
    U64, MaxU32,   \* 2^64 and 2^32 - 1
    Offsets,       \* 64-bit values an altered field or row may hold
    HeaderSize, FanoutSize, IndexEntrySize, FilterSize, TrailerSize, CrcTail,
    RecHeaderSize

\* What the sizes of the format guarantee: a file length is a positive int64,
\* an index of MaxU32 rows is far below 2^63, and so is a whole segment.
ASSUME WidthAssumption ==
    /\ {U64, MaxU32, HeaderSize, FanoutSize, IndexEntrySize, FilterSize, TrailerSize,
        CrcTail, RecHeaderSize} \subseteq Nat \ {0}
    /\ CrcTail <= TrailerSize
    /\ 2 * (FanoutSize + MaxU32 * IndexEntrySize) < U64
    /\ 2 * (HeaderSize + MaxEntries * (RecHeaderSize + MaxU32 + IndexEntrySize)
            + 1 + FanoutSize + FilterSize + TrailerSize) < U64
    /\ MaxEntries \in 0..MaxU32 /\ Slens \subseteq 0..MaxU32 /\ Offsets \subseteq 0..(U64 - 1)

VARIABLES
    entries,   \* the records appended: [key, off, slen]
    rows,      \* the index rows on disk, sorted
    fanout,    \* the fanout table on disk: last byte -> cumulative count
    filter,    \* the tails the fuse filter answers yes for
    trailer,   \* the trailer on disk
    fileLen,
    altered,   \* the disk changed something under the footer checksum
    segment    \* "active", "sealed", "open", "refused"

segVars == <<entries, rows, fanout, filter, trailer, fileLen, altered, segment>>

SegKeys == [last : LastBytes, rest : Rests]

\* compareEntries: by last byte, then by the whole key
Before(a, b) == a.last < b.last \/ (a.last = b.last /\ a.rest <= b.rest)

\* filterKey: the tail of the key
FilterKey(k) == k.last

NoTrailer == [bodyLen |-> 0, keyCount |-> 0, indexOff |-> 0, indexLen |-> 0,
              filterOff |-> 0, filterLen |-> 0]

SegInit ==
    /\ entries = <<>> /\ rows = <<>> /\ filter = {} /\ trailer = NoTrailer
    /\ fanout = [b \in LastBytes |-> 0]
    /\ fileLen = HeaderSize /\ altered = FALSE /\ segment = "active"

AppendRecord(k, slen) ==
    /\ segment = "active" /\ Len(entries) < MaxEntries
    /\ \A i \in DOMAIN entries : entries[i].key # k
    /\ entries' = Append(entries, [key |-> k, off |-> fileLen, slen |-> slen])
    /\ fileLen' = fileLen + RecHeaderSize + slen
    /\ UNCHANGED <<rows, fanout, filter, trailer, altered, segment>>

\* buildIndexSection
SortedRows == SortSeq(entries, LAMBDA a, b : a.key # b.key /\ Before(a.key, b.key))
Fanout == [b \in LastBytes |-> Cardinality({i \in DOMAIN entries : entries[i].key.last <= b})]

\* the fields buildFooter writes, and those it would write for any body length
\* and key count: the offsets follow from the two
TrailerFor(bodyLen, keyCount, len) ==
    LET indexOff == (bodyLen + 1) % U64
        indexLen == (FanoutSize + keyCount * IndexEntrySize) % U64
        filterOff == (indexOff + indexLen) % U64
    IN  [bodyLen |-> bodyLen, keyCount |-> keyCount, indexOff |-> indexOff,
         indexLen |-> indexLen, filterOff |-> filterOff,
         filterLen |-> (len - TrailerSize - filterOff) % U64]

\* buildFooter; a fuse filter has false positives and no false negatives
Seal(positives) ==
    /\ segment = "active" /\ entries # <<>>
    /\ {FilterKey(entries[i].key) : i \in DOMAIN entries} \subseteq positives
    /\ rows' = SortedRows /\ fanout' = Fanout /\ filter' = positives
    /\ fileLen' = fileLen + 1 + FanoutSize + Len(entries) * IndexEntrySize
                  + FilterSize + TrailerSize
    /\ trailer' = TrailerFor(fileLen, Len(entries), fileLen')
    /\ segment' = "sealed"
    /\ UNCHANGED <<entries, altered>>

\* the disk: one field of the trailer, a trailer that is consistent in itself,
\* or one row, is not what was written
AlterField(f, v) ==
    /\ segment = "sealed" /\ ~altered
    /\ trailer' = [trailer EXCEPT ![f] = v]
    /\ altered' = TRUE
    /\ UNCHANGED <<entries, rows, fanout, filter, fileLen, segment>>

AlterTrailer(bodyLen, keyCount) ==
    /\ segment = "sealed" /\ ~altered
    /\ trailer' = TrailerFor(bodyLen, keyCount, fileLen)
    /\ altered' = TRUE
    /\ UNCHANGED <<entries, rows, fanout, filter, fileLen, segment>>

AlterRow(i, off, slen) ==
    /\ segment = "sealed" /\ ~altered
    /\ rows' = [rows EXCEPT ![i].off = off, ![i].slen = slen]
    /\ altered' = TRUE
    /\ UNCHANGED <<entries, fanout, filter, trailer, fileLen, segment>>

\* Mutant: no bound on the key count.
MutantOffsetsConsistent ==
    /\ trailer.bodyLen >= HeaderSize /\ trailer.bodyLen < fileLen
    /\ trailer.indexOff = (trailer.bodyLen + 1) % U64
    /\ trailer.indexLen = (FanoutSize + trailer.keyCount * IndexEntrySize) % U64
    /\ trailer.filterOff = (trailer.indexOff + trailer.indexLen) % U64
    /\ trailer.filterOff <= fileLen - TrailerSize
    /\ trailer.filterLen = fileLen - TrailerSize - trailer.filterOff

\* the checks of parseFooter before it slices the file
OffsetsConsistent ==
    /\ trailer.bodyLen >= HeaderSize /\ trailer.bodyLen < fileLen
    /\ trailer.keyCount <= MaxU32
    /\ trailer.indexOff = (trailer.bodyLen + 1) % U64
    /\ trailer.indexLen = (FanoutSize + trailer.keyCount * IndexEntrySize) % U64
    /\ trailer.filterOff = (trailer.indexOff + trailer.indexLen) % U64
    /\ trailer.filterOff <= fileLen - TrailerSize
    /\ trailer.filterLen = fileLen - TrailerSize - trailer.filterOff

\* parseIndexSection's checks of what it slices
FanoutConsistent ==
    /\ \A b \in LastBytes \ {0} : fanout[b] >= fanout[b - 1]
    /\ \E b \in LastBytes : (\A c \in LastBytes : c <= b) /\ fanout[b] = trailer.keyCount

\* openSealed, parseFooter, parseIndexSection and parseFilterSection
OpenSealed(collides) ==
    /\ segment = "sealed"
    /\ segment' = IF /\ OffsetsConsistent
                     /\ altered => collides
                     /\ FanoutConsistent
                  THEN "open" ELSE "refused"
    /\ UNCHANGED <<entries, rows, fanout, filter, trailer, fileLen, altered>>

SegNext ==
    \/ \E k \in SegKeys, s \in Slens : AppendRecord(k, s)
    \/ \E p \in SUBSET LastBytes : Seal(p)
    \/ \E f \in DOMAIN trailer, v \in Offsets : AlterField(f, v)
    \/ \E b, n \in Offsets : AlterTrailer(b, n)
    \/ \E i \in DOMAIN rows, off \in Offsets, s \in 0..MaxU32 : AlterRow(i, off, s)
    \/ \E collides \in BOOLEAN : OpenSealed(collides)

SegSpec == SegInit /\ [][SegNext]_segVars

-----------------------------------------------------------------------------
\* searchIndexPos: k's row, or -1
SearchIndexPos(k) ==
    LET lo == IF k.last > 0 THEN fanout[k.last - 1] ELSE 0
        n  == fanout[k.last] - lo
        i  == Search(n, [j \in 0..(n - 1) |-> Before(k, rows[lo + j + 1].key)])
    IN  IF i < n /\ rows[lo + i + 1].key = k THEN lo + i ELSE -1

\* sealedSegment.has and storedSize: the filter first, then the index
SegHas(k) == FilterKey(k) \in filter /\ SearchIndexPos(k) >= 0

\* sealedSegment.get and getRecord: the bounds check of a row, in the unsigned
\* arithmetic of the code
RowInBounds(r) ==
    /\ r.off >= HeaderSize /\ r.off <= trailer.bodyLen
    /\ (RecHeaderSize + r.slen) % U64 <= (trailer.bodyLen - r.off) % U64

-----------------------------------------------------------------------------
\* lookup finds a key exactly if its record was appended, at its own row and
\* with its own offset and length; no filter answer hides it; and the rows are
\* numbered 0..n-1 without gap or overlap, as MarkSet's bit per row assumes.
LookupExact ==
    segment = "open" /\ ~altered =>
        /\ \A k \in SegKeys : SegHas(k) <=> \E i \in DOMAIN entries : entries[i].key = k
        /\ \A i \in DOMAIN entries :
              LET pos == SearchIndexPos(entries[i].key)
              IN  rows[pos + 1] = entries[i] /\ RowInBounds(entries[i])
        /\ {SearchIndexPos(entries[i].key) : i \in DOMAIN entries} = 0..(Len(entries) - 1)

\* Whatever stands in the trailer, what parseFooter slices after its checks lies
\* inside the file, in exact arithmetic: no check passes because a 64-bit sum
\* or product wrapped round.
SlicesInBounds ==
    OffsetsConsistent /\ segment # "active" =>
        /\ trailer.bodyLen <= fileLen - CrcTail
        /\ trailer.indexOff + trailer.indexLen <= fileLen
        /\ trailer.filterOff + trailer.filterLen <= fileLen
        /\ trailer.indexLen = FanoutSize + trailer.keyCount * IndexEntrySize

\* Whatever an index row says, a read that passes the row's bounds check stays
\* inside the records.
ReadsInBounds ==
    segment = "open" =>
        \A i \in DOMAIN rows : RowInBounds(rows[i]) =>
            rows[i].off + RecHeaderSize + rows[i].slen <= trailer.bodyLen

\* A footer written by buildFooter is accepted by parseFooter, and one that was
\* altered is refused unless its checksum collides: what the store seals, the
\* next Open can open.
BuiltFooterOpens == segment = "refused" => altered

\* A footer is exact as it was built, and as far as its checks let an altered one
\* through, every slice and read stays in bounds.
FooterSound == LookupExact /\ SlicesInBounds /\ ReadsInBounds /\ BuiltFooterOpens
=============================================================================
