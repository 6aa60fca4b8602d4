------------------------------- MODULE WireData -------------------------------
(***************************************************************************)
(* The messages of discovery, records, offsets, group membership,          *)
(* transactions and SASL:                                                  *)
(* X_encode(v) and X_decode(v) are the layouts of the methods encode and   *)
(* decode of the struct X of messages.rs at version v.                     *)
(***************************************************************************)
EXTENDS KafkaCodec

ApiVersionsRequest_decode(v) ==
    IF v >= 3
    THEN Fields("cstr?", <<"client_software_name", "client_software_version">>) \o Skip("uv")
    ELSE Default("client_software_name", Null) \o Default("client_software_version", Null)

ApiVersionsRequest_encode(v) ==
    When(v >= 3, Fields("cstr?", <<"client_software_name", "client_software_version">>)
                 \o Lit("uv", "0"))

ApiVersionsResponse_encode(v) ==
    LET key == Fields("i16", <<"api_key", "min_version", "max_version">>)
    IN  Field("error_code", "err")
        \o IF v >= 3
           THEN Many("api_keys", "uv", key \o Lit("uv", "0"))
                \o Field("throttle_time_ms", "i32") \o Lit("uv", "0")
           ELSE Many("api_keys", "i32", key)
                \o When(v >= 1, Field("throttle_time_ms", "i32"))

ApiVersionsResponse_decode(v) ==
    LET key == Fields("i16", <<"api_key", "min_version", "max_version">>)
    IN  Field("error_code", "err")
        \o IF v >= 3
           THEN Many("api_keys", "uv", key \o Skip("uv"))
                \o Field("throttle_time_ms", "i32") \o Skip("uv")
           ELSE Many("api_keys", "i32", key)
                \o FieldIf(v >= 1, "throttle_time_ms", "i32", "0")

\* An empty body is the default request: all topics, no auto-creation.
MetadataRequest_decode(v) ==
    IfMore(Nullable("topics", "i32", Field("name", "str"))
           \o IfMore(Field("allow_auto_topic_creation", "flag"),
                     Default("allow_auto_topic_creation", "true")),
           Default("topics", Null) \o Default("allow_auto_topic_creation", "false"))

MetadataRequest_encode(v) ==
    Nullable("topics", "i32", Field("name", "str"))
    \o Field("allow_auto_topic_creation", "flag")

MetadataResponse_encode(v) ==
    When(v >= 3, Field("throttle_time_ms", "i32"))
    \o Many("brokers", "i32",
            Field("node_id", "i32") \o Field("host", "str") \o Field("port", "i32")
            \o When(v >= 1, Field("rack", "str?")))
    \o When(v >= 2, Field("cluster_id", "str?"))
    \o When(v >= 1, Field("controller_id", "i32"))
    \o Many("topics", "i32",
            Field("error_code", "err") \o Field("name", "str")
            \o When(v >= 1, Field("is_internal", "flag"))
            \o Many("partitions", "i32",
                    Field("error_code", "err") \o Fields("i32", <<"partition_index", "leader_id">>)
                    \o When(v >= 7, Field("leader_epoch", "i32"))
                    \o Many("replica_nodes", "i32", Field("node", "i32"))
                    \o Many("isr_nodes", "i32", Field("node", "i32"))
                    \o When(v >= 5, Lit("i32", "0"))))

MetadataResponse_decode(v) ==
    FieldIf(v >= 3, "throttle_time_ms", "i32", "0")
    \o Many("brokers", "i32",
            Field("node_id", "i32") \o Field("host", "str") \o Field("port", "i32")
            \o FieldIf(v >= 1, "rack", "str?", Null))
    \o FieldIf(v >= 2, "cluster_id", "str?", Null)
    \o FieldIf(v >= 1, "controller_id", "i32", "0")
    \o Many("topics", "i32",
            Field("error_code", "err") \o Field("name", "str")
            \o FieldIf(v >= 1, "is_internal", "flag", "false")
            \o Many("partitions", "i32",
                    Field("error_code", "err") \o Fields("i32", <<"partition_index", "leader_id">>)
                    \o FieldIf(v >= 7, "leader_epoch", "i32", "0")
                    \o Many("replica_nodes", "i32", Field("node", "i32"))
                    \o Many("isr_nodes", "i32", Field("node", "i32"))
                    \o When(v >= 5, SkipMany("i32", Skip("i32")))))

------------------------------------------------------------------------------

\* The transactional id is read and dropped; the encoder writes none.
ProduceRequest_decode(v) ==
    When(v >= 3, Skip("str?")) \o Field("acks", "i16") \o Field("timeout_ms", "i32")
    \o Many("topic_data", "i32",
            Field("topic", "str")
            \o Many("partitions", "i32", Field("partition", "i32") \o Field("records", "bytes")))

ProduceRequest_encode(v) ==
    When(v >= 3, Lit("str?", Null)) \o Field("acks", "i16") \o Field("timeout_ms", "i32")
    \o Many("topic_data", "i32",
            Field("topic", "str")
            \o Many("partitions", "i32", Field("partition", "i32") \o Field("records", "bytes")))

ProduceResponse_encode(v) ==
    Many("responses", "i32",
         Field("topic", "str")
         \o Many("partitions", "i32",
                 Field("partition", "i32") \o Field("error_code", "err")
                 \o Field("base_offset", "i64")
                 \o When(v >= 2, Field("log_append_time_ms", "i64"))
                 \o When(v >= 5, Field("log_start_offset", "i64"))))
    \o When(v >= 1, Field("throttle_time_ms", "i32"))

ProduceResponse_decode(v) ==
    Many("responses", "i32",
         Field("topic", "str")
         \o Many("partitions", "i32",
                 Field("partition", "i32") \o Field("error_code", "err")
                 \o Field("base_offset", "i64")
                 \o FieldIf(v >= 2, "log_append_time_ms", "i64", "-1")
                 \o FieldIf(v >= 5, "log_start_offset", "i64", "0")))
    \o FieldIf(v >= 1, "throttle_time_ms", "i32", "0")

FetchRequest_decode(v) ==
    Skip("i32") \o Fields("i32", <<"max_wait_ms", "min_bytes">>)
    \o FieldIf(v >= 3, "max_bytes", "i32", "2147483647")
    \o FieldIf(v >= 4, "isolation_level", "i8", "0")
    \o When(v >= 7, Skip("i32") \o Skip("i32"))
    \o Many("topics", "i32",
            Field("topic", "str")
            \o Many("partitions", "i32",
                    Field("partition", "i32") \o When(v >= 9, Skip("i32"))
                    \o Field("fetch_offset", "i64") \o When(v >= 5, Skip("i64"))
                    \o Field("partition_max_bytes", "i32")))

FetchRequest_encode(v) ==
    Lit("i32", "-1") \o Fields("i32", <<"max_wait_ms", "min_bytes">>)
    \o When(v >= 3, Field("max_bytes", "i32"))
    \o When(v >= 4, Field("isolation_level", "i8"))
    \o When(v >= 7, Lit("i32", "0") \o Lit("i32", "0"))
    \o Many("topics", "i32",
            Field("topic", "str")
            \o Many("partitions", "i32",
                    Field("partition", "i32") \o When(v >= 9, Lit("i32", "-1"))
                    \o Field("fetch_offset", "i64") \o When(v >= 5, Lit("i64", "0"))
                    \o Field("partition_max_bytes", "i32")))

FetchResponse_encode(v) ==
    When(v >= 1, Field("throttle_time_ms", "i32"))
    \o When(v >= 7, Field("error_code", "err") \o Lit("i32", "0"))
    \o Many("responses", "i32",
            Field("topic", "str")
            \o Many("partitions", "i32",
                    Field("partition_index", "i32") \o Field("error_code", "err")
                    \o Field("high_watermark", "i64")
                    \o When(v >= 4, Field("last_stable_offset", "i64")
                                    \o Lit("i64", "0") \o Lit("i32", "-1"))
                    \o Field("records", "bytes")))

FetchResponse_decode(v) ==
    FieldIf(v >= 1, "throttle_time_ms", "i32", "0")
    \o FieldIf(v >= 7, "error_code", "err", "None") \o When(v >= 7, Skip("i32"))
    \o Many("responses", "i32",
            Field("topic", "str")
            \o Many("partitions", "i32",
                    Field("partition_index", "i32") \o Field("error_code", "err")
                    \o Field("high_watermark", "i64")
                    \o IF v >= 4
                       THEN Field("last_stable_offset", "i64") \o Skip("i64")
                            \o SkipMany("i32", Skip("i64") \o Skip("i64"))
                            \o Field("records", "bytes")
                       ELSE DefaultTo("last_stable_offset", "high_watermark")
                            \o Field("records", "bytes")))

ListOffsetsRequest_decode(v) ==
    Field("replica_id", "i32") \o FieldIf(v >= 2, "isolation_level", "i8", "0")
    \o Many("topics", "i32",
            Field("topic", "str")
            \o Many("partitions", "i32",
                    Field("partition", "i32")
                    \o FieldIf(v >= 4, "current_leader_epoch", "i32", "-1")
                    \o Field("timestamp", "i64")))

ListOffsetsRequest_encode(v) ==
    Field("replica_id", "i32") \o When(v >= 2, Field("isolation_level", "i8"))
    \o Many("topics", "i32",
            Field("topic", "str")
            \o Many("partitions", "i32",
                    Field("partition", "i32")
                    \o When(v >= 4, Field("current_leader_epoch", "i32"))
                    \o Field("timestamp", "i64")))

ListOffsetsResponse_encode(v) ==
    When(v >= 2, Field("throttle_time_ms", "i32"))
    \o Many("topics", "i32",
            Field("topic", "str")
            \o Many("partitions", "i32",
                    Field("partition", "i32") \o Field("error_code", "err")
                    \o Fields("i64", <<"timestamp", "offset">>)
                    \o When(v >= 4, Field("leader_epoch", "i32"))))

ListOffsetsResponse_decode(v) ==
    FieldIf(v >= 2, "throttle_time_ms", "i32", "0")
    \o Many("topics", "i32",
            Field("topic", "str")
            \o Many("partitions", "i32",
                    Field("partition", "i32") \o Field("error_code", "err")
                    \o Fields("i64", <<"timestamp", "offset">>)
                    \o FieldIf(v >= 4, "leader_epoch", "i32", "-1")))

------------------------------------------------------------------------------

FindCoordinatorRequest_decode(v) ==
    Field("key", "str") \o FieldIf(v >= 1, "key_type", "i8", "0")

FindCoordinatorRequest_encode(v) == Field("key", "str") \o When(v >= 1, Field("key_type", "i8"))

FindCoordinatorResponse_encode(v) ==
    When(v >= 1, Field("throttle_time_ms", "i32")) \o Field("error_code", "err")
    \o When(v >= 1, Field("error_message", "str?"))
    \o Field("node_id", "i32") \o Field("host", "str") \o Field("port", "i32")

FindCoordinatorResponse_decode(v) ==
    FieldIf(v >= 1, "throttle_time_ms", "i32", "0") \o Field("error_code", "err")
    \o FieldIf(v >= 1, "error_message", "str?", Null)
    \o Field("node_id", "i32") \o Field("host", "str") \o Field("port", "i32")

\* Mutant: the retention time is not skipped.
OffsetCommitRequest_decode_NoRetention(v) ==
    Field("group_id", "str")
    \o FieldIf(v >= 1, "generation_id", "i32", "0") \o FieldIf(v >= 1, "member_id", "str", "")
    \o Many("topics", "i32",
            Field("topic", "str")
            \o Many("partitions", "i32",
                    Field("partition", "i32") \o Field("committed_offset", "i64")
                    \o Field("metadata", "str?")))

OffsetCommitRequest_decode(v) ==
    Field("group_id", "str")
    \o FieldIf(v >= 1, "generation_id", "i32", "0") \o FieldIf(v >= 1, "member_id", "str", "")
    \o When(v \in 2 .. 4, Skip("i64"))
    \o Many("topics", "i32",
            Field("topic", "str")
            \o Many("partitions", "i32",
                    Field("partition", "i32") \o Field("committed_offset", "i64")
                    \o Field("metadata", "str?")))

OffsetCommitRequest_encode(v) ==
    Field("group_id", "str")
    \o When(v >= 1, Field("generation_id", "i32") \o Field("member_id", "str"))
    \o When(v \in 2 .. 4, Lit("i64", "-1"))
    \o Many("topics", "i32",
            Field("topic", "str")
            \o Many("partitions", "i32",
                    Field("partition", "i32") \o Field("committed_offset", "i64")
                    \o Field("metadata", "str?")))

OffsetCommitResponse_encode(v) ==
    When(v >= 3, Field("throttle_time_ms", "i32"))
    \o Many("topics", "i32",
            Field("topic", "str")
            \o Many("partitions", "i32", Field("partition", "i32") \o Field("error_code", "err")))

OffsetCommitResponse_decode(v) ==
    FieldIf(v >= 3, "throttle_time_ms", "i32", "0")
    \o Many("topics", "i32",
            Field("topic", "str")
            \o Many("partitions", "i32", Field("partition", "i32") \o Field("error_code", "err")))

OffsetFetchRequest_decode(v) ==
    Field("group_id", "str")
    \o Nullable("topics", "i32",
                Field("topic", "str") \o Many("partitions", "i32", Field("partition", "i32")))

OffsetFetchRequest_encode(v) ==
    Field("group_id", "str")
    \o Nullable("topics", "i32",
                Field("topic", "str") \o Many("partitions", "i32", Field("partition", "i32")))

\* Mutant: the leader epoch of version 5 is not written.
OffsetFetchResponse_encode_NoEpoch(v) ==
    When(v >= 3, Field("throttle_time_ms", "i32"))
    \o Many("topics", "i32",
            Field("topic", "str")
            \o Many("partitions", "i32",
                    Field("partition", "i32") \o Field("offset", "i64")
                    \o Field("metadata", "str?") \o Field("error_code", "err")))
    \o When(v >= 2, Field("error_code", "err"))

OffsetFetchResponse_encode(v) ==
    When(v >= 3, Field("throttle_time_ms", "i32"))
    \o Many("topics", "i32",
            Field("topic", "str")
            \o Many("partitions", "i32",
                    Field("partition", "i32") \o Field("offset", "i64")
                    \o When(v >= 5, Lit("i32", "-1"))
                    \o Field("metadata", "str?") \o Field("error_code", "err")))
    \o When(v >= 2, Field("error_code", "err"))

OffsetFetchResponse_decode(v) ==
    FieldIf(v >= 3, "throttle_time_ms", "i32", "0")
    \o Many("topics", "i32",
            Field("topic", "str")
            \o Many("partitions", "i32",
                    Field("partition", "i32") \o Field("offset", "i64")
                    \o When(v >= 5, Skip("i32"))
                    \o Field("metadata", "str?") \o Field("error_code", "err")))
    \o FieldIf(v >= 2, "error_code", "err", "None")

HeartbeatRequest_decode(v) ==
    Field("group_id", "str") \o Field("generation_id", "i32") \o Field("member_id", "str")

HeartbeatRequest_encode(v) ==
    Field("group_id", "str") \o Field("generation_id", "i32") \o Field("member_id", "str")

HeartbeatResponse_encode(v) ==
    When(v >= 1, Field("throttle_time_ms", "i32")) \o Field("error_code", "err")

HeartbeatResponse_decode(v) ==
    FieldIf(v >= 1, "throttle_time_ms", "i32", "0") \o Field("error_code", "err")

LeaveGroupRequest_decode(v) == Fields("str", <<"group_id", "member_id">>)

LeaveGroupRequest_encode(v) == Fields("str", <<"group_id", "member_id">>)

LeaveGroupResponse_encode(v) ==
    When(v >= 1, Field("throttle_time_ms", "i32")) \o Field("error_code", "err")

LeaveGroupResponse_decode(v) ==
    FieldIf(v >= 1, "throttle_time_ms", "i32", "0") \o Field("error_code", "err")

------------------------------------------------------------------------------
(* Idempotent and transactional producers, and SASL.                        *)

InitProducerIdRequest_decode(v) ==
    Field("transactional_id", "str?") \o Field("transaction_timeout_ms", "i32")
    \o FieldIf(v >= 3, "producer_id", "i64", "-1") \o FieldIf(v >= 3, "producer_epoch", "i16", "-1")

InitProducerIdRequest_encode(v) ==
    Field("transactional_id", "str?") \o Field("transaction_timeout_ms", "i32")
    \o When(v >= 3, Field("producer_id", "i64") \o Field("producer_epoch", "i16"))

InitProducerIdResponse_encode(v) ==
    Field("throttle_time_ms", "i32") \o Field("error_code", "err")
    \o Field("producer_id", "i64") \o Field("producer_epoch", "i16")

InitProducerIdResponse_decode(v) ==
    Field("throttle_time_ms", "i32") \o Field("error_code", "err")
    \o Field("producer_id", "i64") \o Field("producer_epoch", "i16")

AddPartitionsToTxnRequest_decode(v) ==
    Field("transactional_id", "str") \o Field("producer_id", "i64") \o Field("producer_epoch", "i16")
    \o Many("topics", "i32",
            Field("name", "str") \o Many("partitions", "i32", Field("partition", "i32")))

AddPartitionsToTxnRequest_encode(v) ==
    Field("transactional_id", "str") \o Field("producer_id", "i64") \o Field("producer_epoch", "i16")
    \o Many("topics", "i32",
            Field("name", "str") \o Many("partitions", "i32", Field("partition", "i32")))

AddPartitionsToTxnResponse_encode(v) ==
    Field("throttle_time_ms", "i32")
    \o Many("errors", "i32",
            Field("name", "str")
            \o Many("results", "i32", Field("partition_index", "i32") \o Field("error_code", "err")))

AddPartitionsToTxnResponse_decode(v) ==
    Field("throttle_time_ms", "i32")
    \o Many("errors", "i32",
            Field("name", "str")
            \o Many("results", "i32", Field("partition_index", "i32") \o Field("error_code", "err")))

AddOffsetsToTxnRequest_decode(v) ==
    Field("transactional_id", "str") \o Field("producer_id", "i64")
    \o Field("producer_epoch", "i16") \o Field("group_id", "str")

AddOffsetsToTxnRequest_encode(v) ==
    Field("transactional_id", "str") \o Field("producer_id", "i64")
    \o Field("producer_epoch", "i16") \o Field("group_id", "str")

AddOffsetsToTxnResponse_encode(v) == Field("throttle_time_ms", "i32") \o Field("error_code", "err")

AddOffsetsToTxnResponse_decode(v) == Field("throttle_time_ms", "i32") \o Field("error_code", "err")

EndTxnRequest_decode(v) ==
    Field("transactional_id", "str") \o Field("producer_id", "i64")
    \o Field("producer_epoch", "i16") \o Field("committed", "flag")

EndTxnRequest_encode(v) ==
    Field("transactional_id", "str") \o Field("producer_id", "i64")
    \o Field("producer_epoch", "i16") \o Field("committed", "flag")

EndTxnResponse_encode(v) == Field("throttle_time_ms", "i32") \o Field("error_code", "err")

EndTxnResponse_decode(v) == Field("throttle_time_ms", "i32") \o Field("error_code", "err")

------------------------------------------------------------------------------

SaslHandshakeRequest_decode(v) == Field("mechanism", "str!")

SaslHandshakeRequest_encode(v) == Field("mechanism", "str!")

SaslHandshakeResponse_decode(v) ==
    Field("error_code", "err") \o Many("enabled_mechanisms", "i32", Field("mechanism", "str"))

SaslHandshakeResponse_encode(v) ==
    Field("error_code", "err") \o Many("enabled_mechanisms", "i32", Field("mechanism", "str"))

SaslAuthenticateRequest_decode(v) ==
    Field("auth_bytes", IF v >= 2 THEN "cbytes" ELSE "bytes") \o SkipTag(v >= 2)

SaslAuthenticateRequest_encode(v) ==
    IF v >= 2 THEN Field("auth_bytes", "cbytes") \o Tag(TRUE) ELSE Field("auth_bytes", "bytes")

SaslAuthenticateResponse_decode(v) ==
    Field("error_code", "err")
    \o Field("error_message", IF v >= 2 THEN "cstr?" ELSE "str?")
    \o Field("auth_bytes", IF v >= 2 THEN "cbytes" ELSE "bytes")
    \o FieldIf(v >= 1, "session_lifetime_ms", "i64", "0") \o SkipTag(v >= 2)

SaslAuthenticateResponse_encode(v) ==
    Field("error_code", "err")
    \o IF v >= 2
       THEN Field("error_message", "cstr?") \o Field("auth_bytes", "cbytes")
            \o Field("session_lifetime_ms", "i64") \o Tag(TRUE)
       ELSE Field("error_message", "str?") \o Field("auth_bytes", "bytes")
            \o When(v >= 1, Field("session_lifetime_ms", "i64"))
=============================================================================
