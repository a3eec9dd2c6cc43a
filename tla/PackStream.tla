----------------------------- MODULE PackStream -----------------------------
(***************************************************************************)
(* amberpack and key: a wire pack, from Writer to Reader.  A pack is a     *)
(* magic, a record per object and an end marker; a record is a header (tag, *)
(* key, flags, the two lengths, the checksum) and the stored payload.  The *)
(* stream between the two may be cut anywhere, and a record on it may be   *)
(* altered.                                                                *)
(*                                                                         *)
(* A payload is its length in bytes.  A key is its header byte (type,      *)
(* reserved bit, size of the length field) and the length field's digits,  *)
(* most significant first; the hash that follows plays no part here.       *)
(***************************************************************************)
EXTENDS Integers, Sequences, SequencesExt

CONSTANTS
    Types, ValidTypes,   \* values of the header's high nibble, and the defined ones
    Radix,               \* 256: a byte is 0..Radix-1
    MaxLengthSize,       \* 8
    Lengths,             \* logical lengths objects may have
    MaxPayload,
    Packed,              \* payload length -> its length compressed with zstd
    MaxObjects           \* bound on the records of one pack

ASSUME PackAssumption == Radix \in Nat \ {0, 1} /\ ValidTypes \subseteq Types

VARIABLES
    put,        \* objects handed to the Writer
    wire,       \* what is on the stream and not read yet
    writer,     \* "open", "closed" (end marker written), "abandoned"
    faulty,     \* the stream was cut or altered
    got,        \* objects the Reader yielded
    reader      \* "magic", "records", "clean", "malformed"

packVars == <<put, wire, writer, faulty, got, reader>>

-----------------------------------------------------------------------------
\* key.go

\* lengthSizeFor: the number of digits of length, one for zero
LengthSizeFor(length) ==
    CHOOSE n \in 1..MaxLengthSize :
        length < Radix^n /\ (n > 1 => length >= Radix^(n - 1))

\* NewFromHash
NewFromHash(t, length) ==
    LET ls == LengthSizeFor(length)
    IN  [type |-> t, reserved |-> FALSE,
         digits |-> [i \in 1..ls |-> (length \div Radix^(ls - i)) % Radix]]

\* Key.Length
KeyLength(k) == FoldLeft(LAMBDA n, d : n * Radix + d, 0, k.digits)

\* Key.Validate, which Parse applies to every key that is read
Validate(k) ==
    /\ ~k.reserved
    /\ k.type \in ValidTypes
    /\ k.digits[1] = 0 => Len(k.digits) = 1 /\ KeyLength(k) = 0

-----------------------------------------------------------------------------
\* record.go

\* EncodeRecord: compressed only when that makes the payload strictly smaller
EncodeRecord(k, data) ==
    LET z == Packed[data] < data
    IN  [key |-> k, zstd |-> z, badFlags |-> FALSE, ulen |-> data,
         slen |-> IF z THEN Packed[data] ELSE data, crcOK |-> TRUE]

\* ParseRecord, DecodePayload and the Reader's own limit on slen
Parses(r) ==
    /\ r.slen <= MaxPayload
    /\ ~r.badFlags
    /\ ~r.zstd => r.ulen = r.slen
    /\ r.ulen <= MaxPayload
    /\ r.zstd => r.slen < r.ulen
    /\ r.crcOK
    /\ Validate(r.key)
    /\ r.zstd => Packed[r.ulen] = r.slen

-----------------------------------------------------------------------------
\* pack.go

PackInit ==
    /\ put = <<>> /\ wire = <<>> /\ writer = "open" /\ faulty = FALSE
    /\ got = <<>> /\ reader = "magic"

\* ensureHeader
WithHeader == IF put = <<>> THEN <<[unit |-> "magic"]>> ELSE <<>>

\* Writer.Add: an object over the limit is refused by EncodeRecord, after
\* ensureHeader, and the caller gives the pack up
AddObject(k, data) ==
    /\ writer = "open" /\ Len(put) < MaxObjects
    /\ IF data <= MaxPayload
       THEN /\ wire' = wire \o WithHeader
                            \o <<[unit |-> "record", rec |-> EncodeRecord(k, data)]>>
            /\ put' = Append(put, [key |-> k, data |-> data])
            /\ UNCHANGED writer
       ELSE /\ wire' = wire \o WithHeader /\ writer' = "abandoned" /\ UNCHANGED put
    /\ UNCHANGED <<faulty, got, reader>>

\* Writer.Close
ClosePack ==
    /\ writer = "open"
    /\ wire' = wire \o WithHeader \o <<[unit |-> "end"]>>
    /\ writer' = "closed"
    /\ UNCHANGED <<put, faulty, got, reader>>

\* The stream ends early.  A cut inside a unit leaves bytes that do not make a
\* unit, which the Reader meets as the end of its input too.
Cut(n) ==
    /\ ~faulty /\ writer # "open" /\ n < Len(wire)
    /\ wire' = SubSeq(wire, 1, n)
    /\ faulty' = TRUE
    /\ UNCHANGED <<put, writer, got, reader>>

\* A record's key, or its length and flags, are not what was written; the
\* checksum covers the whole record, so it no longer matches.
AlterKey(i, k) ==
    /\ ~faulty /\ wire[i].unit = "record" /\ wire[i].rec.key # k
    /\ wire' = [wire EXCEPT ![i].rec.key = k, ![i].rec.crcOK = FALSE]
    /\ faulty' = TRUE
    /\ UNCHANGED <<put, writer, got, reader>>

AlterLength(i, slen, flags) ==
    /\ ~faulty /\ wire[i].unit = "record"
    /\ wire' = [wire EXCEPT ![i].rec.slen = slen, ![i].rec.badFlags = flags,
                            ![i].rec.crcOK = FALSE]
    /\ faulty' = TRUE
    /\ UNCHANGED <<put, writer, got, reader>>

\* Mutant: the end of the input is the end of the pack.
MutantRead ==
    /\ reader \in {"magic", "records"} /\ (wire = <<>> => writer # "open")
    /\ wire' = IF wire = <<>> THEN <<>> ELSE Tail(wire)
    /\ IF wire = <<>> THEN reader' = "clean" /\ UNCHANGED got
       ELSE CASE wire[1].unit = "magic" -> reader' = "records" /\ UNCHANGED got
              [] wire[1].unit = "end" -> reader' = "clean" /\ UNCHANGED got
              [] wire[1].unit = "record" ->
                    IF Parses(wire[1].rec)
                    THEN /\ got' = Append(got, [key |-> wire[1].rec.key, data |-> wire[1].rec.ulen])
                         /\ UNCHANGED reader
                    ELSE reader' = "malformed" /\ UNCHANGED got
    /\ UNCHANGED <<put, writer, faulty>>

\* Reader.All, one unit at a time; the end of the input is an error in every
\* state but after the end marker
Read ==
    /\ reader \in {"magic", "records"} /\ (wire = <<>> => writer # "open")
    /\ wire' = IF wire = <<>> THEN <<>> ELSE Tail(wire)
    /\ IF wire = <<>> THEN reader' = "malformed" /\ UNCHANGED got
       ELSE CASE wire[1].unit = "magic" -> reader' = "records" /\ UNCHANGED got
              [] wire[1].unit = "end" -> reader' = "clean" /\ UNCHANGED got
              [] wire[1].unit = "record" ->
                    IF Parses(wire[1].rec)
                    THEN /\ got' = Append(got, [key |-> wire[1].rec.key, data |-> wire[1].rec.ulen])
                         /\ UNCHANGED reader
                    ELSE reader' = "malformed" /\ UNCHANGED got
    /\ UNCHANGED <<put, writer, faulty>>

\* Keys as a Writer may be given them: those key.New makes, and any other bytes
RawKeys == [type : Types, reserved : BOOLEAN,
            digits : UNION {[1..n -> 0..(Radix - 1)] : n \in 1..MaxLengthSize}]

PackNext ==
    \/ \E k \in RawKeys, data \in DOMAIN Packed : AddObject(k, data)
    \/ ClosePack
    \/ \E n \in 0..Len(wire) : Cut(n)
    \/ \E i \in DOMAIN wire, t \in ValidTypes, n \in Lengths : AlterKey(i, NewFromHash(t, n))
    \/ \E i \in DOMAIN wire, s \in DOMAIN Packed, f \in BOOLEAN : AlterLength(i, s, f)
    \/ Read

PackSpec == PackInit /\ [][PackNext]_packVars

-----------------------------------------------------------------------------
\* "a truncated stream is detected rather than read as a clean EOF" (pack.go):
\* a Reader that ends without an error has yielded every object that was put,
\* in order and with its payload, from a stream that was closed and whole.  A
\* pack given up halfway is never taken for a complete one.
CleanMeansWhole == reader = "clean" => got = put /\ writer = "closed" /\ ~faulty

\* What the Reader yields is a prefix of what was put, at every moment: an
\* error never comes after an object that was not there.
YieldsAPrefix == IsPrefix(got, put)

\* A key that is yielded is one that NewFromHash makes: there is exactly one
\* encoding of a type and a length, and decoding the length gives it back.  So
\* two spellings of one object never enter the store as two keys.
YieldedKeysCanonical ==
    \A i \in DOMAIN got :
        got[i].key = NewFromHash(got[i].key.type, KeyLength(got[i].key))

\* Everything EncodeRecord writes for a canonical key is read back: a whole
\* stream of canonical keys is never called malformed.
NoFalseAlarm ==
    /\ reader = "malformed" /\ writer = "closed" /\ ~faulty
    => \E i \in DOMAIN put : ~ \E t \in ValidTypes, n \in Lengths :
                                   put[i].key = NewFromHash(t, n)

\* A Reader yields what was put, in order and under canonical keys, says "clean"
\* for a whole pack only, and "malformed" for a broken or non-canonical one only.
PackSound == CleanMeansWhole /\ YieldsAPrefix /\ YieldedKeysCanonical /\ NoFalseAlarm
=============================================================================
