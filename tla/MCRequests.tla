------------------------------ MODULE MCRequests ------------------------------
(* Instance for TLC: the client of "app" sends one request of every kind as   *)
(* the user alice (or, when SASL is not required, without logging in), the    *)
(* client of "ops" changes the bindings as the super user root.               *)
EXTENDS Requests

MCPasswords == [alice |-> "pa", root |-> "pr"]
MCUserNames == {"alice", "root", "nobody"}
MCSuperUsers == {<<"root">>}

A == <<"a">>
AB == <<"a", "b">>

Acl(type, name, pattern, principal, op, permission) ==
    [resource_type |-> type, resource_name |-> name, pattern_type |-> pattern,
     principal |-> principal, host |-> "", operation |-> op, permission_type |-> permission]

Allow == Acl("Topic", A, "Prefixed", <<"*">>, "All", "Allow")
DenyAll == Acl("Topic", AB, "Literal", <<"User", "*">>, "Write", "Deny")
Inert == Acl("Topic", Star, "Literal", <<"User", "alice">>, "Read", "Any")
GroupAll == Acl("Group", Star, "Literal", <<"alice">>, "All", "Allow")
TxnWrite == Acl("TransactionalId", Star, "Literal", <<"alice">>, "Write", "Allow")
OnTheCluster == Acl("Cluster", ClusterName, "Literal", <<"alice">>, "All", "Allow")
Malformed == Acl("Topic", A, "Unknown", <<"alice">>, "All", "Allow")

Filter(type, name, pattern, principal) ==
    [resource_type |-> type, resource_name |-> name, pattern_type |-> pattern,
     principal |-> principal, host |-> "", operation |-> "Any", permission_type |-> "Any"]

ByName == Filter("Topic", AB, "Prefixed", <<>>)
ByPrincipal == Filter("Any", <<>>, "Any", <<"alice">>)
MCFilters == {ByName, ByPrincipal, Filter("Any", <<>>, "Any", Star),
              Filter("Topic", AB, "Match", <<>>), Filter("Topic", A, "Literal", <<>>)}

Plain(user, password) == [api |-> "SaslAuthenticate",
    bytes |-> [kind |-> "plain", parts |-> 3, user |-> user, password |-> password]]
First(user) == [api |-> "SaslAuthenticate", bytes |-> [kind |-> "first", user |-> user]]
Final(nonce, password) ==
    [api |-> "SaslAuthenticate", bytes |-> [kind |-> "final", nonce |-> nonce, password |-> password]]
Handshakes(ms) == [api : {"SaslHandshake"}, mechanism : ms]

Topics == <<A, AB>>
DataRequests ==
    {[api |-> "Metadata", topics |-> Topics, auto_create |-> b] : b \in BOOLEAN}
    \cup {[api |-> "Produce", topics |-> <<[name |-> A, partitions |-> <<"good", "corrupt">>],
                                         [name |-> AB, partitions |-> <<"invalid", "good">>]>>],
         [api |-> "Fetch", topics |-> <<[name |-> A, partitions |-> 2], [name |-> AB, partitions |-> 1]>>]}
    \cup [api : {"ListOffsets", "DeleteTopics", "DeleteRecords", "CreatePartitions"}, topics : {Topics}]
    \cup [api : {"CreateTopics"}, topics : {Topics}, validate_only : BOOLEAN]
    \cup [api : {"FindCoordinator"}, key : {A}, key_type : 0 .. 2]
    \cup [api : {"OffsetCommit"}, group : {A}, partitions : {2}]
    \cup [api : {"OffsetFetch", "Heartbeat", "LeaveGroup"}, group : {A}]
    \cup [api : {"InitProducerId"}, txn : {<<>>, A}]
    \cup [api : {"AddPartitionsToTxn", "AddOffsetsToTxn", "EndTxn"}, txn : {A}]
    \cup {[api |-> "DescribeConfigs", resources |-> <<[type |-> 2, name |-> A],
              [type |-> 4, name |-> AB], [type |-> 3, name |-> A]>>]}
    \cup [api : {"AlterConfigs"}, validate_only : BOOLEAN,
          resources : {<<[type |-> 2, name |-> A], [type |-> 4, name |-> AB], [type |-> 3, name |-> A]>>}]
    \cup [api : {"ListGroups", "JoinGroup", "ApiVersions"}]
    \cup {[api |-> "DescribeAcls", filter |-> ByPrincipal]}
    \cup [api : {"DescribeGroups", "DeleteGroups"}, groups : {<<A, AB>>}]

AclRequests ==
    [api : {"CreateAcls"}, creations : {<<DenyAll, Inert, Allow>>,
                                        <<GroupAll, TxnWrite, Malformed, OnTheCluster>>}]
    \cup [api : {"DeleteAcls"}, filters : {<<ByName>>, <<ByName, ByPrincipal>>}]

Logins == Handshakes({"PLAIN", "SCRAM-SHA-256", "SCRAM-SHA-512"})
          \cup {Plain("alice", "pa"), Plain("root", "pa"), First("alice"), First("nobody"),
                First("none"), Final("pending", "pa"), Final("earlier", "pa")}

MCConnections == {"app", "ops"}
MCSends(c, sasl) ==
    IF c = "ops" THEN AclRequests \cup Handshakes({"PLAIN"})
                          \cup {Plain("root", "pr"), [api |-> "ApiVersions"]}
    ELSE DataRequests \cup IF sasl THEN Logins ELSE {}

MCChaosRules ==
    {[id |-> "r1", target |-> "Produce", latency_ms |-> 5, error_probability |-> 3000],
     [id |-> "r2", target |-> "Fetch", latency_ms |-> 0, error_probability |-> 3000]}
==============================================================================
