------------------------------ MODULE RecordBatch ------------------------------
(***************************************************************************)
(* Kafka record batches (v2): encode_record_batch_v2, decompress_record_   *)
(* batch, compress_record_batch, parse_record_batch_records of messages.rs,*)
(* the varints of parser.rs they use and CompressionCodec of types.rs.     *)
(*                                                                         *)
(* A byte buffer is a sequence of chunks.  A complete v2 batch is a chunk  *)
(* with its header fields and its payload; "legacy" is a batch of another  *)
(* magic number and "torn" an incomplete batch, which ends its buffer.     *)
(***************************************************************************)
EXTENDS Integers, Sequences, SequencesExt

CONSTANTS
    GroupBits,   \* bits a varint byte carries: 7 in the code
    WordBits     \* width of the integer a varint holds: 64 in the code

ASSUME VarintAssumption ==
    /\ GroupBits \in Nat \ {0}
    /\ WordBits \in Nat \ {0, 1}
    /\ WordBits % GroupBits = 1     \* as 64 = 9 * 7 + 1

------------------------------------------------------------------------------
(* Varints. *)

RECURSIVE write_unsigned_varint(_)
write_unsigned_varint(value) ==
    IF value >= 2^GroupBits
    THEN <<(value % 2^GroupBits) + 2^GroupBits>> \o write_unsigned_varint(value \div 2^GroupBits)
    ELSE <<value>>

\* The number read, or -1 if the bytes end or the shift leaves the word.
RECURSIVE ReadGroups(_, _, _)
ReadGroups(bytes, shift, value) ==
    IF bytes = <<>> THEN -1
    ELSE LET b  == Head(bytes)
             v2 == (value + (b % 2^GroupBits) * 2^shift) % 2^WordBits
         IN  IF b < 2^GroupBits THEN v2
             ELSE IF shift + GroupBits > WordBits - 1 THEN -1
             ELSE ReadGroups(Tail(bytes), shift + GroupBits, v2)

read_unsigned_varint(bytes) == ReadGroups(bytes, 0, 0)

\* (value << 1) ^ (value >> 63), in two's complement.
write_varint(value) ==
    write_unsigned_varint(IF value >= 0 THEN 2 * value ELSE -2 * value - 1)

\* (uval >> 1) ^ -(uval & 1).
read_varint(bytes) ==
    LET uval == read_unsigned_varint(bytes)
    IN  IF uval % 2 = 0 THEN uval \div 2 ELSE -(uval \div 2) - 1

------------------------------------------------------------------------------
(* Compression.  Compressed bytes know the codec that made them; another    *)
(* codec cannot read them.                                                  *)

compress(codec, data) ==
    IF codec = "none" THEN data ELSE [codec |-> codec, data |-> data.data]

Readable(codec, payload) == codec = "none" \/ payload.codec = codec

decompress(codec, payload) ==
    IF codec = "none" THEN payload ELSE [codec |-> "none", data |-> payload.data]

------------------------------------------------------------------------------
(* Batches.  The checksum of a batch is the part of it the CRC covers: all  *)
(* that follows the crc field.                                              *)

Checksum(b) ==
    <<b.codec, b.flags, b.last_offset_delta, b.base_timestamp, b.max_timestamp,
      b.producer, b.count, b.payload>>

Sealed(b) == [b EXCEPT !.crc = Checksum(b)]

EncodedRecord(r, base_offset, base_timestamp) ==
    [ts_delta |-> write_varint(r.timestamp - base_timestamp),
     off_delta |-> write_varint(r.offset - base_offset),
     key |-> r.key, value |-> r.value, headers |-> r.headers]

encode_record_batch_v2(base_offset, records, codec) ==
    LET base_timestamp == IF records = <<>> THEN 0 ELSE records[1].timestamp
        payload == [codec |-> "none",
                    data  |-> [i \in DOMAIN records |->
                                 EncodedRecord(records[i], base_offset, base_timestamp)]]
    IN  Sealed([chunk |-> "batch", base_offset |-> base_offset, crc |-> 0,
                codec |-> codec, flags |-> {},
                last_offset_delta |-> IF records = <<>> THEN 0 ELSE Len(records) - 1,
                base_timestamp |-> base_timestamp,
                max_timestamp |->
                    FoldLeft(LAMBDA m, r : IF r.timestamp > m THEN r.timestamp ELSE m,
                             base_timestamp, records),
                producer |-> -1, count |-> Len(records),
                payload |-> compress(codec, payload)])

\* The record of a control batch: the type of the marker is its key.
encode_control_batch(base_offset, producer, is_commit, now) ==
    LET marker == [timestamp |-> now, offset |-> base_offset,
                   key |-> IF is_commit THEN "commit" ELSE "abort",
                   value |-> "version 0", headers |-> <<>>]
    IN  Sealed([chunk |-> "batch", base_offset |-> base_offset, crc |-> 0,
                codec |-> "none", flags |-> {"control", "transactional"},
                last_offset_delta |-> 0, base_timestamp |-> now, max_timestamp |-> now,
                producer |-> producer, count |-> 1,
                payload |-> [codec |-> "none",
                             data |-> <<EncodedRecord(marker, base_offset, now)>>]])

\* The batches the loops over a buffer visit: they stop at the first chunk
\* that is not a complete v2 batch.
Visited(buffer) ==
    LET stops == {i \in DOMAIN buffer : buffer[i].chunk # "batch"}
    IN  IF stops = {} THEN buffer
        ELSE SubSeq(buffer, 1, (CHOOSE i \in stops : \A j \in stops : i <= j) - 1)

Unvisited(buffer) == SubSeq(buffer, Len(Visited(buffer)) + 1, Len(buffer))

\* Mutants: the codec bits of the attributes are not cleared; the checksum is
\* not computed again.
Decompressed_CodecKept(b) ==
    IF b.codec = "none" THEN b ELSE Sealed([b EXCEPT !.payload = decompress(b.codec, b.payload)])
Decompressed_StaleCrc(b) ==
    IF b.codec = "none" THEN b
    ELSE [b EXCEPT !.codec = "none", !.payload = decompress(b.codec, b.payload)]

Decompressed(b) ==
    IF b.codec = "none" THEN b
    ELSE Sealed([b EXCEPT !.codec = "none", !.payload = decompress(b.codec, b.payload)])

\* decompress_record_batch and its callers fail if one batch cannot be read.
CanDecompress(buffer) ==
    \A i \in DOMAIN Visited(buffer) : Readable(buffer[i].codec, buffer[i].payload)

decompress_record_batch(buffer) ==
    LET visited == Visited(buffer)
    IN  [i \in DOMAIN visited |-> Decompressed(visited[i])] \o Unvisited(buffer)

compress_record_batch(buffer, target) ==
    LET plain   == decompress_record_batch(buffer)
        visited == Visited(plain)
    IN  IF target = "none" THEN plain
        ELSE [i \in DOMAIN visited |->
                Sealed([visited[i] EXCEPT !.codec = target,
                                          !.payload = compress(target, visited[i].payload)])]
             \o Unvisited(plain)

RecordsOf(b) ==
    LET n == IF b.count < Len(b.payload.data) THEN b.count ELSE Len(b.payload.data)
    IN  [i \in 1 .. n |->
           LET r == b.payload.data[i]
           IN  [timestamp |-> b.base_timestamp + read_varint(r.ts_delta),
                offset |-> b.base_offset + read_varint(r.off_delta),
                key |-> r.key, value |-> r.value, headers |-> r.headers]]

parse_record_batch_records(buffer) ==
    LET visited == Visited(decompress_record_batch(buffer))
    IN  FlattenSeq([i \in DOMAIN visited |-> RecordsOf(visited[i])])
=============================================================================
