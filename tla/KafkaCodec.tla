------------------------------ MODULE KafkaCodec ------------------------------
(***************************************************************************)
(* What encoding and decoding a Kafka message is, for the messages of      *)
(* oxidemq-protocol (messages.rs, header.rs, parser.rs).                   *)
(*                                                                         *)
(* A buffer is a sequence of items <<form, value>>.  The form is how the   *)
(* bytes are laid out (a fixed width, a varint, a length-prefixed string); *)
(* a decoder that reads another form than the encoder wrote has misread    *)
(* the buffer.  Values are uninterpreted strings, or Null.                 *)
(*                                                                         *)
(* An encode or decode method is a layout: the sequence of its put/write   *)
(* or get/read calls at one version.  WireData and WireAdmin give the      *)
(* layouts; Encode and Decode run them.                                    *)
(***************************************************************************)
EXTENDS Integers, Sequences, SequencesExt, TLC

CONSTANTS
    Null,        \* Option::None
    MaxElems     \* arrays of the checked messages hold at most MaxElems elements

------------------------------------------------------------------------------
(* Layouts. *)

\* dst.put_*(self.name) in an encoder, name = src.get_*() in a decoder.
Field(name, kind) == <<[op |-> "field", name |-> name, kind |-> kind]>>

Fields(kind, names) ==
    [i \in DOMAIN names |-> [op |-> "field", name |-> names[i], kind |-> kind]]

\* An encoder writes a constant.
Lit(kind, value) == <<[op |-> "lit", kind |-> kind, value |-> value]>>

\* A decoder reads a value and drops it.
Skip(kind) == <<[op |-> "skip", kind |-> kind]>>

\* A decoder fills in a field the version does not carry: a constant, or the
\* value of a field read before.
Default(name, value) == <<[op |-> "default", name |-> name, value |-> value]>>
DefaultTo(name, other) == <<[op |-> "copy", name |-> name, other |-> other]>>

\* A count and that many elements; Nullable is an Option<Vec<_>>.
Many(name, count, elem) ==
    <<[op |-> "many", name |-> name, count |-> count, elem |-> elem, null |-> FALSE]>>
Nullable(name, count, elem) ==
    <<[op |-> "many", name |-> name, count |-> count, elem |-> elem, null |-> TRUE]>>
SkipMany(count, elem) == <<[op |-> "skipmany", count |-> count, elem |-> elem]>>

When(cond, layout) == IF cond THEN layout ELSE <<>>
FieldIf(cond, name, kind, default) ==
    IF cond THEN Field(name, kind) ELSE Default(name, default)

\* A decoder tests src.has_remaining().
IfMore(layout, otherwise) ==
    <<[op |-> "more", layout |-> layout, otherwise |-> otherwise]>>

\* The empty tagged-field section of a flexible version, which a decoder reads
\* only if something is left.
Tag(flexible) == When(flexible, Lit("uv", "0"))
SkipTag(flexible) == When(flexible, IfMore(Skip("uv"), <<>>))

------------------------------------------------------------------------------
(* KafkaErrorCode and ApiKey: an enum and its number. *)

KafkaErrorCode ==
    [None |-> "0", OffsetOutOfRange |-> "1", CorruptMessage |-> "2",
     UnknownTopicOrPartition |-> "3", InvalidFetchSize |-> "4",
     LeaderNotAvailable |-> "5", NotLeaderOrFollower |-> "6", RequestTimedOut |-> "7",
     BrokerNotAvailable |-> "8", ReplicaNotAvailable |-> "9", MessageTooLarge |-> "10",
     StaleControllerEpoch |-> "11", OffsetMetadataTooLarge |-> "12",
     NetworkException |-> "13", CoordinatorLoadInProgress |-> "14",
     CoordinatorNotAvailable |-> "15", NotCoordinator |-> "16",
     InvalidTopicException |-> "17", RecordListTooLarge |-> "18",
     NotEnoughReplicas |-> "19", NotEnoughReplicasAfterAppend |-> "20",
     InvalidRequiredAcks |-> "21", IllegalGeneration |-> "22",
     InconsistentGroupProtocol |-> "23", InvalidGroupId |-> "24",
     UnknownMemberId |-> "25", InvalidSessionTimeout |-> "26",
     RebalanceInProgress |-> "27", InvalidCommitOffsetSize |-> "28",
     TopicAuthorizationFailed |-> "29", GroupAuthorizationFailed |-> "30",
     ClusterAuthorizationFailed |-> "31", InvalidTimestamp |-> "32",
     UnsupportedSaslMechanism |-> "33", IllegalSaslState |-> "34",
     UnsupportedVersion |-> "35", TopicAlreadyExists |-> "36",
     InvalidPartitions |-> "37", InvalidReplicationFactor |-> "38",
     InvalidConfig |-> "40", InvalidRequest |-> "42", InvalidProducerEpoch |-> "47",
     InvalidTxnState |-> "48", InvalidProducerIdMapping |-> "49",
     ConcurrentTransactions |-> "51", ProducerFenced |-> "52",
     TransactionalIdAuthorizationFailed |-> "53", SaslAuthenticationFailed |-> "58",
     NonEmptyGroup |-> "68", GroupIdNotFound |-> "69", InvalidRecord |-> "87",
     UnknownServer |-> "-1"]

\* The arms of KafkaErrorCode::from_i16.
ErrorArms ==
    {<<"0", "None">>, <<"1", "OffsetOutOfRange">>, <<"2", "CorruptMessage">>,
     <<"3", "UnknownTopicOrPartition">>, <<"4", "InvalidFetchSize">>,
     <<"5", "LeaderNotAvailable">>, <<"6", "NotLeaderOrFollower">>,
     <<"7", "RequestTimedOut">>, <<"8", "BrokerNotAvailable">>,
     <<"9", "ReplicaNotAvailable">>, <<"10", "MessageTooLarge">>,
     <<"11", "StaleControllerEpoch">>, <<"12", "OffsetMetadataTooLarge">>,
     <<"13", "NetworkException">>, <<"14", "CoordinatorLoadInProgress">>,
     <<"15", "CoordinatorNotAvailable">>, <<"16", "NotCoordinator">>,
     <<"17", "InvalidTopicException">>, <<"18", "RecordListTooLarge">>,
     <<"19", "NotEnoughReplicas">>, <<"20", "NotEnoughReplicasAfterAppend">>,
     <<"21", "InvalidRequiredAcks">>, <<"22", "IllegalGeneration">>,
     <<"23", "InconsistentGroupProtocol">>, <<"24", "InvalidGroupId">>,
     <<"25", "UnknownMemberId">>, <<"26", "InvalidSessionTimeout">>,
     <<"27", "RebalanceInProgress">>, <<"28", "InvalidCommitOffsetSize">>,
     <<"29", "TopicAuthorizationFailed">>, <<"30", "GroupAuthorizationFailed">>,
     <<"31", "ClusterAuthorizationFailed">>, <<"32", "InvalidTimestamp">>,
     <<"33", "UnsupportedSaslMechanism">>, <<"34", "IllegalSaslState">>,
     <<"35", "UnsupportedVersion">>, <<"36", "TopicAlreadyExists">>,
     <<"37", "InvalidPartitions">>, <<"38", "InvalidReplicationFactor">>,
     <<"40", "InvalidConfig">>, <<"42", "InvalidRequest">>,
     <<"47", "InvalidProducerEpoch">>, <<"48", "InvalidTxnState">>,
     <<"49", "InvalidProducerIdMapping">>, <<"51", "ConcurrentTransactions">>,
     <<"52", "ProducerFenced">>, <<"53", "TransactionalIdAuthorizationFailed">>,
     <<"58", "SaslAuthenticationFailed">>, <<"68", "NonEmptyGroup">>,
     <<"69", "GroupIdNotFound">>, <<"87", "InvalidRecord">>}

KafkaErrorCode_from_i16(code) ==
    IF \E arm \in ErrorArms : arm[1] = code
    THEN (CHOOSE arm \in ErrorArms : arm[1] = code)[2]
    ELSE "UnknownServer"

ApiKey ==
    [Produce |-> "0", Fetch |-> "1", ListOffsets |-> "2", Metadata |-> "3",
     OffsetCommit |-> "8", OffsetFetch |-> "9", FindCoordinator |-> "10",
     JoinGroup |-> "11", Heartbeat |-> "12", LeaveGroup |-> "13", SyncGroup |-> "14",
     DescribeGroups |-> "15", ListGroups |-> "16", SaslHandshake |-> "17",
     ApiVersions |-> "18", CreateTopics |-> "19", DeleteTopics |-> "20",
     DeleteRecords |-> "21", InitProducerId |-> "22", AddPartitionsToTxn |-> "24",
     AddOffsetsToTxn |-> "25", EndTxn |-> "26", DescribeAcls |-> "29",
     CreateAcls |-> "30", DeleteAcls |-> "31", DescribeConfigs |-> "32",
     AlterConfigs |-> "33", SaslAuthenticate |-> "36", CreatePartitions |-> "37",
     DeleteGroups |-> "42"]

\* The arms of ApiKey::from_i16.
ApiKeyArms ==
    {<<"0", "Produce">>, <<"1", "Fetch">>, <<"2", "ListOffsets">>, <<"3", "Metadata">>,
     <<"8", "OffsetCommit">>, <<"9", "OffsetFetch">>, <<"10", "FindCoordinator">>,
     <<"11", "JoinGroup">>, <<"12", "Heartbeat">>, <<"13", "LeaveGroup">>,
     <<"14", "SyncGroup">>, <<"15", "DescribeGroups">>, <<"16", "ListGroups">>,
     <<"17", "SaslHandshake">>, <<"18", "ApiVersions">>, <<"19", "CreateTopics">>,
     <<"20", "DeleteTopics">>, <<"21", "DeleteRecords">>, <<"22", "InitProducerId">>,
     <<"24", "AddPartitionsToTxn">>, <<"25", "AddOffsetsToTxn">>, <<"26", "EndTxn">>,
     <<"29", "DescribeAcls">>, <<"30", "CreateAcls">>, <<"31", "DeleteAcls">>,
     <<"32", "DescribeConfigs">>, <<"33", "AlterConfigs">>,
     <<"36", "SaslAuthenticate">>, <<"37", "CreatePartitions">>, <<"42", "DeleteGroups">>}

ApiKey_from_i16(key) ==
    IF \E arm \in ApiKeyArms : arm[1] = key
    THEN (CHOOSE arm \in ApiKeyArms : arm[1] = key)[2]
    ELSE Null

------------------------------------------------------------------------------
(* KafkaEncoder and KafkaDecoder: the form a kind of value takes.  A string *)
(* or a byte string is one item, its length prefix included; "str" and      *)
(* "bytes" are never null in a message, and a null read for one is the      *)
(* empty default.                                                           *)

Form(kind) ==
    CASE kind \in {"i8", "flag"}           -> "1 byte"
      [] kind \in {"i16", "err", "apikey"} -> "2 bytes"
      [] kind = "i32"                      -> "4 bytes"
      [] kind = "i64"                      -> "8 bytes"
      [] kind = "uv"                       -> "varint"
      [] kind \in {"str", "str?", "str!"}  -> "string"
      [] kind \in {"cstr", "cstr?"}        -> "compact string"
      [] kind = "bytes"                    -> "bytes"
      [] kind = "cbytes"                   -> "compact bytes"

ToWire(kind, value) ==
    CASE kind = "flag"   -> IF value = "true" THEN "1" ELSE "0"
      [] kind = "err"    -> KafkaErrorCode[value]
      [] kind = "apikey" -> ApiKey[value]
      [] OTHER           -> value

FromWire(kind, value) ==
    CASE kind = "flag"   -> IF value # "0" THEN "true" ELSE "false"
      [] kind = "err"    -> KafkaErrorCode_from_i16(value)
      [] kind = "apikey" -> ApiKey_from_i16(value)
      [] kind \in {"str", "cstr", "bytes", "cbytes"} /\ value = Null -> ""
      [] OTHER           -> value

\* A required value that is null, or a key from_i16 does not know, is an error.
Rejected(kind, value) == kind \in {"str!", "apikey"} /\ FromWire(kind, value) = Null

\* An array's count: its length, or one more than it as a varint.
CountItem(count, n) == <<Form(count), ToString(IF count = "uv" THEN n + 1 ELSE n)>>
CountOf(count, item) ==
    CHOOSE n \in -1 .. MaxElems : item = CountItem(count, n)
IsCount(count, item) == \E n \in -1 .. MaxElems : item = CountItem(count, n)

------------------------------------------------------------------------------
(* Running a layout. *)

RECURSIVE Encode(_, _)
EncodeOne(f, msg) ==
    CASE f.op = "field" -> << <<Form(f.kind), ToWire(f.kind, msg[f.name])>> >>
      [] f.op = "lit"   -> << <<Form(f.kind), f.value>> >>
      [] f.op = "many"  ->
           IF msg[f.name] = Null
           THEN <<CountItem(f.count, -1)>>
           ELSE <<CountItem(f.count, Len(msg[f.name]))>>
                  \o FlattenSeq([i \in DOMAIN msg[f.name] |-> Encode(f.elem, msg[f.name][i])])
Encode(layout, msg) == FlattenSeq([i \in DOMAIN layout |-> EncodeOne(layout[i], msg)])

\* A decoder's position: whether it still reads, the fields it has, what is left.
At(ok, msg, rest) == [ok |-> ok, msg |-> msg, rest |-> rest]
Misread == At(FALSE, <<>>, <<>>)

RECURSIVE DecodeFrom(_, _, _), DecodeMany(_, _, _, _)

DecodeMany(elem, n, got, rest) ==
    IF n <= 0 THEN At(TRUE, got, rest)
    ELSE LET one == DecodeFrom(elem, <<>>, rest)
         IN  IF one.ok THEN DecodeMany(elem, n - 1, Append(got, one.msg), one.rest)
                       ELSE Misread

DecodeItem(f, msg, rest) ==
    IF rest = <<>> THEN Misread
    ELSE IF f.op \in {"field", "skip"}
    THEN IF Head(rest)[1] # Form(f.kind) \/ Rejected(f.kind, Head(rest)[2]) THEN Misread
         ELSE At(TRUE, IF f.op = "skip" THEN msg
                       ELSE msg @@ (f.name :> FromWire(f.kind, Head(rest)[2])), Tail(rest))
    ELSE IF ~IsCount(f.count, Head(rest)) THEN Misread
    ELSE LET n    == CountOf(f.count, Head(rest))
             many == DecodeMany(f.elem, n, <<>>, Tail(rest))
         IN  IF f.op = "skipmany" THEN [many EXCEPT !.msg = msg]
             ELSE IF n = -1 /\ f.null THEN At(TRUE, msg @@ (f.name :> Null), Tail(rest))
             ELSE IF (n = -1 /\ f.count = "i32") \/ ~many.ok THEN Misread
             ELSE At(TRUE, msg @@ (f.name :> many.msg), many.rest)

DecodeOne(f, msg, rest) ==
    CASE f.op = "default" -> At(TRUE, msg @@ (f.name :> f.value), rest)
      [] f.op = "copy"    -> At(TRUE, msg @@ (f.name :> msg[f.other]), rest)
      [] f.op = "more"    ->
           DecodeFrom(IF rest # <<>> THEN f.layout ELSE f.otherwise, msg, rest)
      [] OTHER            -> DecodeItem(f, msg, rest)

DecodeFrom(layout, msg, rest) ==
    IF layout = <<>> THEN At(TRUE, msg, rest)
    ELSE LET one == DecodeOne(Head(layout), msg, rest)
         IN  IF one.ok THEN DecodeFrom(Tail(layout), one.msg, one.rest) ELSE Misread

Decode(layout, buffer) == DecodeFrom(layout, <<>>, buffer)

------------------------------------------------------------------------------
(* A message with the fields a decoder fills in: every value is named after *)
(* its field and its place, so that no two can be confused.                 *)

RECURSIVE Sample(_, _, _)
SampleOne(f, shape, place) ==
    CASE f.op = "field" ->
           f.name :> CASE f.kind = "flag" -> shape.flag
                       [] f.kind = "err"  -> shape.error
                       [] f.kind = "apikey" -> "Produce"
                       [] f.kind \in {"str?", "cstr?"} /\ shape.null -> Null
                       [] OTHER -> f.name \o place
      [] f.op \in {"default", "copy"} -> f.name :> (f.name \o place)
      [] f.op = "many" ->
           f.name :> IF f.null /\ shape.null THEN Null
                     ELSE [i \in 1 .. shape.len |->
                             Sample(f.elem, shape, place \o "." \o ToString(i))]
      [] f.op = "more" -> Sample(f.layout, shape, place)
      [] OTHER -> <<>>
Sample(layout, shape, place) ==
    FoldLeft(LAMBDA msg, f : msg @@ SampleOne(f, shape, place), <<>>, layout)
=============================================================================
