--------------------------------- MODULE Wire ---------------------------------
(***************************************************************************)
(* A client and the broker exchange messages over one connection, and      *)
(* record batches pass from a producer through the broker to a consumer.   *)
(*                                                                         *)
(* A request is encoded by the client at one of the versions of the API    *)
(* and decoded by the broker from the bytes alone: the frame handler       *)
(* decodes the header, the arm of the API the body at the header's         *)
(* version.  The answer is encoded at that version and decoded by the      *)
(* client.                                                                 *)
(***************************************************************************)
EXTENDS WireData, WireAdmin, RecordBatch

CONSTANTS
    RequestShapes,    \* how the messages of the requests look: see Sample
    ResponseShapes,   \* how the messages of the answers look
    Beyond,           \* versions above the advertised ones a client may use
    ClientIds,        \* client ids, Null among them
    Codecs,           \* compression codecs, "none" among them
    Timestamps,       \* timestamps of records
    MaxRecords,       \* records in a batch
    MaxBatches        \* batches in a buffer

VARIABLE conn         \* what is under way, and the bytes on the connection

------------------------------------------------------------------------------
(* Headers. *)

\* The repository's own clients write this at every version of every API.
RequestHeader_encode ==
    Field("api_key", "apikey") \o Field("api_version", "i16")
    \o Field("correlation_id", "i32") \o Field("client_id", "str?")

RequestHeader_decode(api, v) ==
    Field("api_key", "apikey") \o Field("api_version", "i16")
    \o Field("correlation_id", "i32") \o Field("client_id", "str?")
    \o SkipTag(api = "ApiVersions" /\ v >= 3)

ResponseHeader_encode == Field("correlation_id", "i32")

ResponseHeader_decode == Field("correlation_id", "i32")

------------------------------------------------------------------------------
(* The APIs and the highest version the broker advertises for each; the     *)
(* lowest is 0.                                                             *)

default_supported ==
    [Produce |-> 7, Fetch |-> 6, ListOffsets |-> 5, Metadata |-> 7, OffsetCommit |-> 2,
     OffsetFetch |-> 5, FindCoordinator |-> 2, JoinGroup |-> 5, Heartbeat |-> 3,
     LeaveGroup |-> 3, SyncGroup |-> 3, DescribeGroups |-> 2, ListGroups |-> 2,
     SaslHandshake |-> 1, ApiVersions |-> 3, CreateTopics |-> 4, DeleteTopics |-> 3,
     DeleteRecords |-> 2, InitProducerId |-> 4, AddPartitionsToTxn |-> 3,
     AddOffsetsToTxn |-> 3, EndTxn |-> 3, DescribeAcls |-> 2, CreateAcls |-> 2,
     DeleteAcls |-> 2, DescribeConfigs |-> 2, AlterConfigs |-> 1, SaslAuthenticate |-> 2,
     CreatePartitions |-> 2, DeleteGroups |-> 2]

\* The layouts of the messages of an API.
Request_encode(api, v) ==
    CASE api = "Produce" -> ProduceRequest_encode(v)
      [] api = "Fetch" -> FetchRequest_encode(v)
      [] api = "ListOffsets" -> ListOffsetsRequest_encode(v)
      [] api = "Metadata" -> MetadataRequest_encode(v)
      [] api = "OffsetCommit" -> OffsetCommitRequest_encode(v)
      [] api = "OffsetFetch" -> OffsetFetchRequest_encode(v)
      [] api = "FindCoordinator" -> FindCoordinatorRequest_encode(v)
      [] api = "Heartbeat" -> HeartbeatRequest_encode(v)
      [] api = "LeaveGroup" -> LeaveGroupRequest_encode(v)
      [] api = "DescribeGroups" -> DescribeGroupsRequest_encode(v)
      [] api = "ListGroups" -> ListGroupsRequest_encode(v)
      [] api = "SaslHandshake" -> SaslHandshakeRequest_encode(v)
      [] api = "ApiVersions" -> ApiVersionsRequest_encode(v)
      [] api = "CreateTopics" -> CreateTopicsRequest_encode(v)
      [] api = "DeleteTopics" -> DeleteTopicsRequest_encode(v)
      [] api = "DeleteRecords" -> DeleteRecordsRequest_encode(v)
      [] api = "InitProducerId" -> InitProducerIdRequest_encode(v)
      [] api = "AddPartitionsToTxn" -> AddPartitionsToTxnRequest_encode(v)
      [] api = "AddOffsetsToTxn" -> AddOffsetsToTxnRequest_encode(v)
      [] api = "EndTxn" -> EndTxnRequest_encode(v)
      [] api = "DescribeAcls" -> DescribeAclsRequest_encode(v)
      [] api = "CreateAcls" -> CreateAclsRequest_encode(v)
      [] api = "DeleteAcls" -> DeleteAclsRequest_encode(v)
      [] api = "DescribeConfigs" -> DescribeConfigsRequest_encode(v)
      [] api = "AlterConfigs" -> AlterConfigsRequest_encode(v)
      [] api = "SaslAuthenticate" -> SaslAuthenticateRequest_encode(v)
      [] api = "CreatePartitions" -> CreatePartitionsRequest_encode(v)
      [] api = "DeleteGroups" -> DeleteGroupsRequest_encode(v)

Request_decode(api, v) ==
    CASE api = "Produce" -> ProduceRequest_decode(v)
      [] api = "Fetch" -> FetchRequest_decode(v)
      [] api = "ListOffsets" -> ListOffsetsRequest_decode(v)
      [] api = "Metadata" -> MetadataRequest_decode(v)
      [] api = "OffsetCommit" -> OffsetCommitRequest_decode(v)
      [] api = "OffsetFetch" -> OffsetFetchRequest_decode(v)
      [] api = "FindCoordinator" -> FindCoordinatorRequest_decode(v)
      [] api = "Heartbeat" -> HeartbeatRequest_decode(v)
      [] api = "LeaveGroup" -> LeaveGroupRequest_decode(v)
      [] api = "DescribeGroups" -> DescribeGroupsRequest_decode(v)
      [] api = "ListGroups" -> ListGroupsRequest_decode(v)
      [] api = "SaslHandshake" -> SaslHandshakeRequest_decode(v)
      [] api = "ApiVersions" -> ApiVersionsRequest_decode(v)
      [] api = "CreateTopics" -> CreateTopicsRequest_decode(v)
      [] api = "DeleteTopics" -> DeleteTopicsRequest_decode(v)
      [] api = "DeleteRecords" -> DeleteRecordsRequest_decode(v)
      [] api = "InitProducerId" -> InitProducerIdRequest_decode(v)
      [] api = "AddPartitionsToTxn" -> AddPartitionsToTxnRequest_decode(v)
      [] api = "AddOffsetsToTxn" -> AddOffsetsToTxnRequest_decode(v)
      [] api = "EndTxn" -> EndTxnRequest_decode(v)
      [] api = "DescribeAcls" -> DescribeAclsRequest_decode(v)
      [] api = "CreateAcls" -> CreateAclsRequest_decode(v)
      [] api = "DeleteAcls" -> DeleteAclsRequest_decode(v)
      [] api = "DescribeConfigs" -> DescribeConfigsRequest_decode(v)
      [] api = "AlterConfigs" -> AlterConfigsRequest_decode(v)
      [] api = "SaslAuthenticate" -> SaslAuthenticateRequest_decode(v)
      [] api = "CreatePartitions" -> CreatePartitionsRequest_decode(v)
      [] api = "DeleteGroups" -> DeleteGroupsRequest_decode(v)

Response_encode(api, v) ==
    CASE api = "Produce" -> ProduceResponse_encode(v)
      [] api = "Fetch" -> FetchResponse_encode(v)
      [] api = "ListOffsets" -> ListOffsetsResponse_encode(v)
      [] api = "Metadata" -> MetadataResponse_encode(v)
      [] api = "OffsetCommit" -> OffsetCommitResponse_encode(v)
      [] api = "OffsetFetch" -> OffsetFetchResponse_encode(v)
      [] api = "FindCoordinator" -> FindCoordinatorResponse_encode(v)
      [] api = "Heartbeat" -> HeartbeatResponse_encode(v)
      [] api = "LeaveGroup" -> LeaveGroupResponse_encode(v)
      [] api = "DescribeGroups" -> DescribeGroupsResponse_encode(v)
      [] api = "ListGroups" -> ListGroupsResponse_encode(v)
      [] api = "SaslHandshake" -> SaslHandshakeResponse_encode(v)
      [] api = "ApiVersions" -> ApiVersionsResponse_encode(v)
      [] api = "CreateTopics" -> CreateTopicsResponse_encode(v)
      [] api = "DeleteTopics" -> DeleteTopicsResponse_encode(v)
      [] api = "DeleteRecords" -> DeleteRecordsResponse_encode(v)
      [] api = "InitProducerId" -> InitProducerIdResponse_encode(v)
      [] api = "AddPartitionsToTxn" -> AddPartitionsToTxnResponse_encode(v)
      [] api = "AddOffsetsToTxn" -> AddOffsetsToTxnResponse_encode(v)
      [] api = "EndTxn" -> EndTxnResponse_encode(v)
      [] api = "DescribeAcls" -> DescribeAclsResponse_encode(v)
      [] api = "CreateAcls" -> CreateAclsResponse_encode(v)
      [] api = "DeleteAcls" -> DeleteAclsResponse_encode(v)
      [] api = "DescribeConfigs" -> DescribeConfigsResponse_encode(v)
      [] api = "AlterConfigs" -> AlterConfigsResponse_encode(v)
      [] api = "SaslAuthenticate" -> SaslAuthenticateResponse_encode(v)
      [] api = "CreatePartitions" -> CreatePartitionsResponse_encode(v)
      [] api = "DeleteGroups" -> DeleteGroupsResponse_encode(v)

Response_decode(api, v) ==
    CASE api = "Produce" -> ProduceResponse_decode(v)
      [] api = "Fetch" -> FetchResponse_decode(v)
      [] api = "ListOffsets" -> ListOffsetsResponse_decode(v)
      [] api = "Metadata" -> MetadataResponse_decode(v)
      [] api = "OffsetCommit" -> OffsetCommitResponse_decode(v)
      [] api = "OffsetFetch" -> OffsetFetchResponse_decode(v)
      [] api = "FindCoordinator" -> FindCoordinatorResponse_decode(v)
      [] api = "Heartbeat" -> HeartbeatResponse_decode(v)
      [] api = "LeaveGroup" -> LeaveGroupResponse_decode(v)
      [] api = "DescribeGroups" -> DescribeGroupsResponse_decode(v)
      [] api = "ListGroups" -> ListGroupsResponse_decode(v)
      [] api = "SaslHandshake" -> SaslHandshakeResponse_decode(v)
      [] api = "ApiVersions" -> ApiVersionsResponse_decode(v)
      [] api = "CreateTopics" -> CreateTopicsResponse_decode(v)
      [] api = "DeleteTopics" -> DeleteTopicsResponse_decode(v)
      [] api = "DeleteRecords" -> DeleteRecordsResponse_decode(v)
      [] api = "InitProducerId" -> InitProducerIdResponse_decode(v)
      [] api = "AddPartitionsToTxn" -> AddPartitionsToTxnResponse_decode(v)
      [] api = "AddOffsetsToTxn" -> AddOffsetsToTxnResponse_decode(v)
      [] api = "EndTxn" -> EndTxnResponse_decode(v)
      [] api = "DescribeAcls" -> DescribeAclsResponse_decode(v)
      [] api = "CreateAcls" -> CreateAclsResponse_decode(v)
      [] api = "DeleteAcls" -> DeleteAclsResponse_decode(v)
      [] api = "DescribeConfigs" -> DescribeConfigsResponse_decode(v)
      [] api = "AlterConfigs" -> AlterConfigsResponse_decode(v)
      [] api = "SaslAuthenticate" -> SaslAuthenticateResponse_decode(v)
      [] api = "CreatePartitions" -> CreatePartitionsResponse_decode(v)
      [] api = "DeleteGroups" -> DeleteGroupsResponse_decode(v)

\* Advertised, but without an arm in the match of handle_connection_request.
Unhandled == {"JoinGroup", "SyncGroup"}

------------------------------------------------------------------------------
(* The exchange of messages. *)

\* The handler decodes at whatever version the header names: a client that
\* skips ApiVersions may name a version above the advertised one.
Versions(api) == {<<n, ToString(n)>> : n \in 0 .. default_supported[api] + Beyond}

Idle == [phase |-> "idle"]

Init == conn = Idle

\* The versions whose request body is flexible: compact strings and arrays, and
\* a tagged-field section.  Kafka clients write header v2 with such a body.
Flexible(api, v) ==
    \/ api = "ApiVersions" /\ v >= 3
    \/ api \in {"SaslAuthenticate", "DescribeAcls", "CreateAcls", "DeleteAcls"} /\ v >= 2

\* The client has encoded a request: with the header of the repository's own
\* encoder (v1) or, at a flexible version, with that of a Kafka client (v2),
\* which ends in a tagged-field section.
ClientSend ==
    /\ conn = Idle
    /\ \E api \in DOMAIN default_supported \ Unhandled : \E v \in Versions(api) :
       \E shape \in RequestShapes, id \in ClientIds :
       \E form \in {"v1"} \cup (IF Flexible(api, v[1]) THEN {"v2"} ELSE {}) :
          LET header == [api_key |-> api, api_version |-> v[2],
                         correlation_id |-> "correlation", client_id |-> id]
              body   == Sample(Request_decode(api, v[1]), shape, "")
          IN  conn' = [phase |-> "requested", header |-> header, version |-> v[1],
                       form  |-> form,
                       body  |-> Encode(Request_encode(api, v[1]), body),
                       bytes |-> Encode(RequestHeader_encode \o Tag(form = "v2"), header)
                                   \o Encode(Request_encode(api, v[1]), body)]

\* The key and the version are the first fields of the header; whether a tagged
\* section follows depends on them.
KeyOf(bytes) == ApiKey_from_i16(bytes[1][2])

MaxVersion == 7 + Beyond

VersionOf(bytes) == CHOOSE n \in 0 .. MaxVersion : ToString(n) = bytes[2][2]

\* The broker has decoded header and body.
ServerRead ==
    /\ conn.phase = "requested"
    /\ LET api    == KeyOf(conn.bytes)
           v      == VersionOf(conn.bytes)
           header == Decode(RequestHeader_decode(api, v), conn.bytes)
           body   == Decode(Request_decode(api, v), header.rest)
       IN  conn' = [phase |-> "read", sent |-> conn, api |-> api, version |-> v,
                    header |-> header, body |-> body]

\* The broker has encoded an answer at the version of the request.
ServerAnswer ==
    /\ conn.phase = "read"
    /\ conn.header.ok /\ conn.body.ok
    /\ \E shape \in ResponseShapes :
          LET body == Encode(Response_encode(conn.api, conn.version),
                             Sample(Response_decode(conn.api, conn.version), shape, ""))
          IN  conn' = [phase |-> "answered", body |-> body,
                       asked |-> conn.sent.header, version |-> conn.sent.version,
                       bytes |-> Encode(ResponseHeader_encode,
                                        [correlation_id |-> conn.header.msg.correlation_id])
                                   \o body]

\* The broker has misread the request: decode fails and the connection is
\* closed.  (Where the bytes of one form happen to read as another, the broker
\* answers fields nobody sent; the exchange ends here all the same.)
ServerReject ==
    /\ conn.phase = "read"
    /\ ~(conn.header.ok /\ conn.body.ok)
    /\ conn' = Idle

\* The client, which knows what it asked, has decoded the answer.
ClientRead ==
    /\ conn.phase = "answered"
    /\ LET header == Decode(ResponseHeader_decode, conn.bytes)
           body   == Decode(Response_decode(conn.asked.api_key, conn.version), header.rest)
       IN  conn' = [phase |-> "received", answer |-> conn, header |-> header, body |-> body]

ClientDone ==
    /\ conn.phase = "received"
    /\ conn' = Idle

------------------------------------------------------------------------------
(* Record batches from a producer to a consumer. *)

RecordLists ==
    UNION {[1 .. n -> {[timestamp |-> t, key |-> "key", value |-> x, headers |-> <<"header">>] :
                         t \in Timestamps, x \in {"value", Null}}] : n \in 0 .. MaxRecords}

Numbered(base, records) ==
    [i \in DOMAIN records |->
       [offset |-> base + i - 1, timestamp |-> records[i].timestamp, key |-> records[i].key,
        value |-> records[i].value, headers |-> records[i].headers]]

\* What the next chunk of a buffer may be, and the records it holds.
Chunks(base) ==
    {[chunk |-> encode_record_batch_v2(base, Numbered(base, rs), c),
      records |-> Numbered(base, rs)] : rs \in RecordLists, c \in Codecs}
    \cup {LET b == encode_control_batch(base, 7, commit, 3)
          IN  [chunk |-> b, records |-> RecordsOf(b)] : commit \in BOOLEAN}

\* Compressed bytes that no codec reads.
Garbled(b) == [b EXCEPT !.payload.codec = "garbled"]

ProducerAppend ==
    /\ conn = Idle \/ (conn.phase = "batches" /\ Len(conn.buffer) < MaxBatches)
    /\ LET base    == IF conn = Idle THEN 0 ELSE MaxRecords * Len(conn.buffer)
           buffer  == IF conn = Idle THEN <<>> ELSE conn.buffer
           records == IF conn = Idle THEN <<>> ELSE conn.records
       IN  \E c \in Chunks(base) :
              conn' = [phase |-> "batches", records |-> records \o c.records,
                       buffer |-> Append(buffer, c.chunk)]

\* A buffer may end in bytes that are no complete batch of magic 2, or hold a
\* compressed batch that cannot be read.
ProducerTail ==
    /\ conn.phase = "batches"
    /\ \/ \E rest \in {"torn", "legacy"} :
             conn' = [conn EXCEPT !.phase = "produced",
                                  !.buffer = Append(@, [chunk |-> rest])]
       \/ conn' = [conn EXCEPT !.phase = "produced"]
       \/ \E i \in DOMAIN conn.buffer :
             /\ conn.buffer[i].codec # "none"
             /\ conn' = [conn EXCEPT !.phase = "produced", !.buffer[i] = Garbled(@)]

\* The Produce handler refuses batches it cannot decompress.
BrokerStore ==
    /\ conn.phase = "produced"
    /\ conn' = IF CanDecompress(conn.buffer) THEN [conn EXCEPT !.phase = "stored"] ELSE Idle

\* The Fetch handler recompresses under OXIDEMQ_FETCH_COMPRESSION.
BrokerFetch ==
    /\ conn.phase = "stored"
    /\ \E c \in Codecs :
          conn' = [phase |-> "fetched", codec |-> c, stored |-> conn.buffer,
                   records |-> conn.records, buffer |-> compress_record_batch(conn.buffer, c)]

ConsumerDone ==
    /\ conn.phase = "fetched"
    /\ conn' = Idle

Next ==
    \/ ClientSend \/ ServerRead \/ ServerAnswer \/ ServerReject \/ ClientRead \/ ClientDone
    \/ ProducerAppend \/ ProducerTail \/ BrokerStore \/ BrokerFetch \/ ConsumerDone

Spec == Init /\ [][Next]_conn

------------------------------------------------------------------------------
(* Properties. *)

\* The broker reads what the client wrote: decode leaves nothing over, the
\* fields it read are the fields sent (encoding them again gives the same
\* bytes), and the header it read is the client's.
Understood ==
    /\ conn.header.ok /\ conn.body.ok /\ conn.body.rest = <<>>
    /\ conn.api = conn.sent.header.api_key /\ conn.version = conn.sent.version
    /\ conn.header.msg = conn.sent.header
    /\ Encode(Request_encode(conn.api, conn.version), conn.body.msg) = conn.sent.body

ApiVersions3 == conn.sent.header.api_key = "ApiVersions" /\ conn.sent.version >= 3

\* A request with the header of RequestHeader::encode is understood at every
\* version of every API, except ApiVersions from version 3 on; that one is
\* understood with header v2, the only place where RequestHeader::decode looks
\* for a tagged-field section.
RequestUnderstood ==
    conn.phase = "read" /\ (conn.sent.form = "v2" <=> ApiVersions3) => Understood

\* What is left, and does not hold: header.rs calls itself the "Standard Kafka
\* Request Header (v1 & v2)", but decode misreads v2 in front of the flexible
\* versions of SaslAuthenticate and the ACL APIs, and what encode writes in
\* front of ApiVersions from version 3 on.
EveryHeaderUnderstood == conn.phase = "read" => Understood

\* The client reads what the broker answered, at the version it asked with, and
\* finds the correlation id of its request; error codes come back as sent.
ResponseUnderstood ==
    conn.phase = "received" =>
        /\ conn.header.ok /\ conn.body.ok /\ conn.body.rest = <<>>
        /\ conn.header.msg.correlation_id = conn.answer.asked.correlation_id
        /\ Encode(Response_encode(conn.answer.asked.api_key, conn.answer.version),
                  conn.body.msg) = conn.answer.body

\* Whatever codec a batch was produced with and whatever codec Fetch
\* recompresses it with, the consumer finds the records that were produced:
\* same order, offsets, timestamps, keys, values and headers.
RecordsSurviveRecompression ==
    conn.phase = "fetched" =>
        /\ CanDecompress(conn.buffer)
        /\ parse_record_batch_records(conn.buffer) = conn.records

\* Recompression rewrites the codec and the payload of a batch and nothing else
\* of its header, seals it with a matching checksum, and copies what is not a
\* complete batch.
BatchesStayWellFormed ==
    conn.phase = "fetched" =>
        /\ Len(conn.buffer) = Len(conn.stored)
        /\ \A i \in DOMAIN conn.buffer :
              LET b == conn.buffer[i]
              IN  IF b.chunk # "batch" THEN b = conn.stored[i]
                  ELSE /\ b.crc = Checksum(b)
                       /\ b.codec = conn.codec
                       /\ [b EXCEPT !.crc = 0, !.codec = "none", !.payload = <<>>]
                            = [conn.stored[i] EXCEPT !.crc = 0, !.codec = "none",
                                                     !.payload = <<>>]
=============================================================================
