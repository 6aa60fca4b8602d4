------------------------------- MODULE WireAdmin -------------------------------
(***************************************************************************)
(* The messages that administer topics, configurations, groups and records,*)
(* and those of access control lists.                                      *)
(***************************************************************************)
EXTENDS KafkaCodec

CreateTopicsRequest_decode(v) ==
    Many("topics", "i32",
         Field("name", "str") \o Field("num_partitions", "i32") \o Field("replication_factor", "i16")
         \o Many("assignments", "i32",
                 Field("partition_index", "i32")
                 \o Many("broker_ids", "i32", Field("broker_id", "i32")))
         \o Many("configs", "i32", Field("name", "str") \o Field("value", "str?")))
    \o Field("timeout_ms", "i32")
    \o IF v >= 1 THEN IfMore(Field("validate_only", "flag"), Default("validate_only", "false"))
                 ELSE Default("validate_only", "false")

CreateTopicsRequest_encode(v) ==
    Many("topics", "i32",
         Field("name", "str") \o Field("num_partitions", "i32") \o Field("replication_factor", "i16")
         \o Many("assignments", "i32",
                 Field("partition_index", "i32")
                 \o Many("broker_ids", "i32", Field("broker_id", "i32")))
         \o Many("configs", "i32", Field("name", "str") \o Field("value", "str?")))
    \o Field("timeout_ms", "i32") \o When(v >= 1, Field("validate_only", "flag"))

CreateTopicsResponse_decode(v) ==
    FieldIf(v >= 2, "throttle_time_ms", "i32", "0")
    \o Many("topics", "i32",
            Field("name", "str") \o Field("error_code", "err")
            \o FieldIf(v >= 1, "error_message", "str?", Null))

CreateTopicsResponse_encode(v) ==
    When(v >= 2, Field("throttle_time_ms", "i32"))
    \o Many("topics", "i32",
            Field("name", "str") \o Field("error_code", "err")
            \o When(v >= 1, Field("error_message", "str?")))

DeleteTopicsRequest_decode(v) ==
    Many("topic_names", "i32", Field("name", "str")) \o Field("timeout_ms", "i32")

DeleteTopicsRequest_encode(v) ==
    Many("topic_names", "i32", Field("name", "str")) \o Field("timeout_ms", "i32")

DeleteTopicsResponse_decode(v) ==
    FieldIf(v >= 1, "throttle_time_ms", "i32", "0")
    \o Many("responses", "i32", Field("name", "str") \o Field("error_code", "err"))

DeleteTopicsResponse_encode(v) ==
    When(v >= 1, Field("throttle_time_ms", "i32"))
    \o Many("responses", "i32", Field("name", "str") \o Field("error_code", "err"))

DeleteRecordsRequest_decode(v) ==
    Many("topics", "i32",
         Field("name", "str")
         \o Many("partitions", "i32", Field("partition_index", "i32") \o Field("offset", "i64")))
    \o Field("timeout_ms", "i32")

DeleteRecordsRequest_encode(v) ==
    Many("topics", "i32",
         Field("name", "str")
         \o Many("partitions", "i32", Field("partition_index", "i32") \o Field("offset", "i64")))
    \o Field("timeout_ms", "i32")

DeleteRecordsResponse_decode(v) ==
    Field("throttle_time_ms", "i32")
    \o Many("topics", "i32",
            Field("name", "str")
            \o Many("partitions", "i32",
                    Field("partition_index", "i32") \o Field("low_watermark", "i64")
                    \o Field("error_code", "err")))

DeleteRecordsResponse_encode(v) ==
    Field("throttle_time_ms", "i32")
    \o Many("topics", "i32",
            Field("name", "str")
            \o Many("partitions", "i32",
                    Field("partition_index", "i32") \o Field("low_watermark", "i64")
                    \o Field("error_code", "err")))

CreatePartitionsRequest_decode(v) ==
    Many("topic_partitions", "i32",
         Field("name", "str") \o Field("count", "i32")
         \o Nullable("assignments", "i32", Many("broker_ids", "i32", Field("broker_id", "i32"))))
    \o Field("timeout_ms", "i32")
    \o IfMore(Field("validate_only", "flag"), Default("validate_only", "false"))

CreatePartitionsRequest_encode(v) ==
    Many("topic_partitions", "i32",
         Field("name", "str") \o Field("count", "i32")
         \o Nullable("assignments", "i32", Many("broker_ids", "i32", Field("broker_id", "i32"))))
    \o Field("timeout_ms", "i32") \o Field("validate_only", "flag")

CreatePartitionsResponse_decode(v) ==
    Field("throttle_time_ms", "i32")
    \o Many("results", "i32",
            Field("name", "str") \o Field("error_code", "err") \o Field("error_message", "str?"))

CreatePartitionsResponse_encode(v) ==
    Field("throttle_time_ms", "i32")
    \o Many("results", "i32",
            Field("name", "str") \o Field("error_code", "err") \o Field("error_message", "str?"))

------------------------------------------------------------------------------

DescribeConfigsRequest_decode(v) ==
    Many("resources", "i32",
         Field("resource_type", "i8") \o Field("resource_name", "str")
         \o Nullable("configuration_keys", "i32", Field("key", "str")))
    \o FieldIf(v >= 1, "include_synonyms", "flag", "false")

DescribeConfigsRequest_encode(v) ==
    Many("resources", "i32",
         Field("resource_type", "i8") \o Field("resource_name", "str")
         \o Nullable("configuration_keys", "i32", Field("key", "str")))
    \o When(v >= 1, Field("include_synonyms", "flag"))

\* Version 0 says whether the value is the default, later versions where it
\* comes from.
DescribeConfigsResponse_decode(v) ==
    Field("throttle_time_ms", "i32")
    \o Many("results", "i32",
            Field("error_code", "err") \o Field("error_message", "str?")
            \o Field("resource_type", "i8") \o Field("resource_name", "str")
            \o Many("configs", "i32",
                    Field("name", "str") \o Field("value", "str?") \o Field("read_only", "flag")
                    \o FieldIf(v = 0, "is_default", "flag", "false")
                    \o FieldIf(v # 0, "config_source", "i8", "-1")
                    \o Field("is_sensitive", "flag")
                    \o IF v >= 1
                       THEN Many("synonyms", "i32", Field("name", "str") \o Field("value", "str?")
                                                    \o Field("source", "i8"))
                       ELSE Default("synonyms", <<>>)))

DescribeConfigsResponse_encode(v) ==
    Field("throttle_time_ms", "i32")
    \o Many("results", "i32",
            Field("error_code", "err") \o Field("error_message", "str?")
            \o Field("resource_type", "i8") \o Field("resource_name", "str")
            \o Many("configs", "i32",
                    Field("name", "str") \o Field("value", "str?") \o Field("read_only", "flag")
                    \o When(v = 0, Field("is_default", "flag"))
                    \o When(v # 0, Field("config_source", "i8"))
                    \o Field("is_sensitive", "flag")
                    \o When(v >= 1,
                            Many("synonyms", "i32", Field("name", "str") \o Field("value", "str?")
                                                    \o Field("source", "i8")))))

AlterConfigsRequest_decode(v) ==
    Many("resources", "i32",
         Field("resource_type", "i8") \o Field("resource_name", "str")
         \o Many("configs", "i32", Field("name", "str") \o Field("value", "str?")))
    \o Field("validate_only", "flag")

AlterConfigsRequest_encode(v) ==
    Many("resources", "i32",
         Field("resource_type", "i8") \o Field("resource_name", "str")
         \o Many("configs", "i32", Field("name", "str") \o Field("value", "str?")))
    \o Field("validate_only", "flag")

AlterConfigsResponse_decode(v) ==
    Field("throttle_time_ms", "i32")
    \o Many("responses", "i32",
            Field("error_code", "err") \o Field("error_message", "str?")
            \o Field("resource_type", "i8") \o Field("resource_name", "str"))

AlterConfigsResponse_encode(v) ==
    Field("throttle_time_ms", "i32")
    \o Many("responses", "i32",
            Field("error_code", "err") \o Field("error_message", "str?")
            \o Field("resource_type", "i8") \o Field("resource_name", "str"))

------------------------------------------------------------------------------

ListGroupsRequest_decode(v) == <<>>

ListGroupsRequest_encode(v) == <<>>

ListGroupsResponse_decode(v) ==
    FieldIf(v >= 1, "throttle_time_ms", "i32", "0") \o Field("error_code", "err")
    \o Many("groups", "i32", Fields("str", <<"group_id", "protocol_type">>))

ListGroupsResponse_encode(v) ==
    When(v >= 1, Field("throttle_time_ms", "i32")) \o Field("error_code", "err")
    \o Many("groups", "i32", Fields("str", <<"group_id", "protocol_type">>))

DescribeGroupsRequest_decode(v) == Many("groups", "i32", Field("group", "str"))

DescribeGroupsRequest_encode(v) == Many("groups", "i32", Field("group", "str"))

DescribeGroupsResponse_decode(v) ==
    FieldIf(v >= 1, "throttle_time_ms", "i32", "0")
    \o Many("groups", "i32",
            Field("error_code", "err")
            \o Fields("str", <<"group_id", "group_state", "protocol_type", "protocol_data">>)
            \o Many("members", "i32",
                    Fields("str", <<"member_id", "client_id", "client_host">>)
                    \o Fields("bytes", <<"member_metadata", "member_assignment">>)))

DescribeGroupsResponse_encode(v) ==
    When(v >= 1, Field("throttle_time_ms", "i32"))
    \o Many("groups", "i32",
            Field("error_code", "err")
            \o Fields("str", <<"group_id", "group_state", "protocol_type", "protocol_data">>)
            \o Many("members", "i32",
                    Fields("str", <<"member_id", "client_id", "client_host">>)
                    \o Fields("bytes", <<"member_metadata", "member_assignment">>)))

DeleteGroupsRequest_decode(v) == Many("groups_names", "i32", Field("group", "str"))

DeleteGroupsRequest_encode(v) == Many("groups_names", "i32", Field("group", "str"))

DeleteGroupsResponse_decode(v) ==
    Field("throttle_time_ms", "i32")
    \o Many("results", "i32", Field("group_id", "str") \o Field("error_code", "err"))

DeleteGroupsResponse_encode(v) ==
    Field("throttle_time_ms", "i32")
    \o Many("results", "i32", Field("group_id", "str") \o Field("error_code", "err"))

------------------------------------------------------------------------------
(* Access control lists.  From version 2 on their messages are flexible:    *)
(* compact strings and arrays, and a tagged-field section after every       *)
(* structure.                                                               *)

Str(v)    == IF v >= 2 THEN "cstr" ELSE "str"
OptStr(v) == IF v >= 2 THEN "cstr?" ELSE "str?"
Count(v)  == IF v >= 2 THEN "uv" ELSE "i32"

CreateAclsRequest_decode(v) ==
    Many("creations", Count(v),
         Field("resource_type", "i8") \o Field("resource_name", Str(v))
         \o FieldIf(v >= 1, "resource_pattern_type", "i8", "3")
         \o Fields(Str(v), <<"principal", "host">>)
         \o Fields("i8", <<"operation", "permission_type">>) \o SkipTag(v >= 2))
    \o SkipTag(v >= 2)

CreateAclsRequest_encode(v) ==
    Many("creations", Count(v),
         Field("resource_type", "i8") \o Field("resource_name", Str(v))
         \o When(v >= 1, Field("resource_pattern_type", "i8"))
         \o Fields(Str(v), <<"principal", "host">>)
         \o Fields("i8", <<"operation", "permission_type">>) \o Tag(v >= 2))
    \o Tag(v >= 2)

CreateAclsResponse_decode(v) ==
    FieldIf(v >= 1, "throttle_time_ms", "i32", "0")
    \o Many("results", Count(v),
            Field("error_code", "err") \o Field("error_message", OptStr(v)) \o SkipTag(v >= 2))
    \o SkipTag(v >= 2)

CreateAclsResponse_encode(v) ==
    When(v >= 1, Field("throttle_time_ms", "i32"))
    \o Many("results", Count(v),
            Field("error_code", "err") \o Field("error_message", OptStr(v)) \o Tag(v >= 2))
    \o Tag(v >= 2)

DescribeAclsRequest_decode(v) ==
    Field("resource_type_filter", "i8") \o Field("resource_name_filter", OptStr(v))
    \o FieldIf(v >= 1, "resource_pattern_type_filter", "i8", "1")
    \o Fields(OptStr(v), <<"principal_filter", "host_filter">>)
    \o Fields("i8", <<"operation", "permission_type">>) \o SkipTag(v >= 2)

DescribeAclsRequest_encode(v) ==
    Field("resource_type_filter", "i8") \o Field("resource_name_filter", OptStr(v))
    \o When(v >= 1, Field("resource_pattern_type_filter", "i8"))
    \o Fields(OptStr(v), <<"principal_filter", "host_filter">>)
    \o Fields("i8", <<"operation", "permission_type">>) \o Tag(v >= 2)

DescribeAclsResponse_decode(v) ==
    Field("throttle_time_ms", "i32") \o Field("error_code", "err")
    \o Field("error_message", OptStr(v))
    \o Many("resources", Count(v),
            Field("resource_type", "i8") \o Field("resource_name", Str(v))
            \o FieldIf(v >= 1, "resource_pattern_type", "i8", "3")
            \o Many("acls", Count(v),
                    Fields(Str(v), <<"principal", "host">>)
                    \o Fields("i8", <<"operation", "permission_type">>) \o SkipTag(v >= 2))
            \o SkipTag(v >= 2))
    \o SkipTag(v >= 2)

DescribeAclsResponse_encode(v) ==
    Field("throttle_time_ms", "i32") \o Field("error_code", "err")
    \o Field("error_message", OptStr(v))
    \o Many("resources", Count(v),
            Field("resource_type", "i8") \o Field("resource_name", Str(v))
            \o When(v >= 1, Field("resource_pattern_type", "i8"))
            \o Many("acls", Count(v),
                    Fields(Str(v), <<"principal", "host">>)
                    \o Fields("i8", <<"operation", "permission_type">>) \o Tag(v >= 2))
            \o Tag(v >= 2))
    \o Tag(v >= 2)

DeleteAclsRequest_decode(v) ==
    Many("filters", Count(v),
         Field("resource_type_filter", "i8") \o Field("resource_name_filter", OptStr(v))
         \o FieldIf(v >= 1, "resource_pattern_type_filter", "i8", "1")
         \o Fields(OptStr(v), <<"principal_filter", "host_filter">>)
         \o Fields("i8", <<"operation", "permission_type">>) \o SkipTag(v >= 2))
    \o SkipTag(v >= 2)

DeleteAclsRequest_encode(v) ==
    Many("filters", Count(v),
         Field("resource_type_filter", "i8") \o Field("resource_name_filter", OptStr(v))
         \o When(v >= 1, Field("resource_pattern_type_filter", "i8"))
         \o Fields(OptStr(v), <<"principal_filter", "host_filter">>)
         \o Fields("i8", <<"operation", "permission_type">>) \o Tag(v >= 2))
    \o Tag(v >= 2)

DeleteAclsResponse_decode(v) ==
    Field("throttle_time_ms", "i32")
    \o Many("filter_results", Count(v),
            Field("error_code", "err") \o Field("error_message", OptStr(v))
            \o Many("matching_acls", Count(v),
                    Field("error_code", "err") \o Field("error_message", OptStr(v))
                    \o Field("resource_type", "i8") \o Field("resource_name", Str(v))
                    \o FieldIf(v >= 1, "resource_pattern_type", "i8", "3")
                    \o Fields(Str(v), <<"principal", "host">>)
                    \o Fields("i8", <<"operation", "permission_type">>) \o SkipTag(v >= 2))
            \o SkipTag(v >= 2))
    \o SkipTag(v >= 2)

DeleteAclsResponse_encode(v) ==
    Field("throttle_time_ms", "i32")
    \o Many("filter_results", Count(v),
            Field("error_code", "err") \o Field("error_message", OptStr(v))
            \o Many("matching_acls", Count(v),
                    Field("error_code", "err") \o Field("error_message", OptStr(v))
                    \o Field("resource_type", "i8") \o Field("resource_name", Str(v))
                    \o When(v >= 1, Field("resource_pattern_type", "i8"))
                    \o Fields(Str(v), <<"principal", "host">>)
                    \o Fields("i8", <<"operation", "permission_type">>) \o Tag(v >= 2))
            \o Tag(v >= 2))
    \o Tag(v >= 2)
=============================================================================
