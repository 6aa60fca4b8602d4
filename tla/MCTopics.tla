------------------------------- MODULE MCTopics -------------------------------
(* Instance for TLC: calls on one topic, t, and offsets of it and of x:y, a   *)
(* name that create_topic does not accept but OffsetCommit does.              *)
EXTENDS Topics, TLC

Set == "retention.ms" :> "1" @@ "x" :> "2"
Create(count) == [op |-> "create_topic", name |-> "t", count |-> count,
                  replication_factor |-> -1, configs |-> Set]
Grow(count, assigned) == [op |-> "create_partitions", name |-> "t", count |-> count,
                          assigned |-> assigned, validate_only |-> FALSE]
MCCalls(t) ==
    IF t = "one"
    THEN {Create(2), [op |-> "delete_topic", name |-> "t"],
          [op |-> "build_metadata", names |-> <<"t">>, auto_create |-> TRUE],
          [op |-> "commit_offset", tp |-> <<"t", 0>>, offset |-> 7],
          [op |-> "commit_offset", tp |-> <<"x:y", 0>>, offset |-> 9]}
    ELSE {Create(-1), Grow(2, 1),
          [op |-> "update_topic_configs", name |-> "t",
           changes |-> ("retention.ms" :> {"1"} @@ "cleanup.policy" :> {} @@ "x" :> {"2"})],
          [op |-> "produce", tp |-> <<"t", 0>>],
          [op |-> "reset"], [op |-> "dump"], [op |-> "load"]}

MCDefaults == "retention.ms" :> "604800000" @@ "cleanup.policy" :> "delete"
MCBrokerConfigs == "num.partitions" :> "1"
MCKeys == {"retention.ms", "x", "num.partitions"}
==============================================================================
