-------------------------------- MODULE Topics --------------------------------
(***************************************************************************)
(* The topics and partitions of the broker (ClusterState), the group       *)
(* offsets of its coordinator, and what clients and the administrator do   *)
(* to them at the same time: CreateTopics, DeleteTopics, CreatePartitions, *)
(* AlterConfigs, Metadata, Produce, OffsetCommit, and the reset, dump and  *)
(* load of the whole state.                                                *)
(*                                                                         *)
(* A call is a sequence of sections, each done under the read-write locks  *)
(* of topics and of partitions.  A section that takes both takes topics    *)
(* first and may have to wait for partitions while it holds it; with its   *)
(* last lock a section is one step.  As in parking_lot, a writer that      *)
(* waits keeps new readers out.                                            *)
(*                                                                         *)
(* A Partition is its S3Stream: a stream id, a next offset, and the        *)
(* records of that id in the LogCache all streams share.  A record is the  *)
(* Partition that appended it.                                             *)
(*                                                                         *)
(* A definition D_Variant, just before D, is D with a plausible mistake.   *)
(***************************************************************************)
EXTENDS Integers, Sequences, FiniteSets, FiniteSetsExt, Functions

CONSTANTS
    Threads,        \* calls that may run at once
    Calls(_),       \* the calls a thread makes
    ValidNames,     \* names create_topic accepts
    ColonNames,     \* names with a ':', which it does not
    Defaults,       \* default topic configuration: key -> value
    BrokerConfigs,  \* broker configuration: key -> value
    Keys,           \* keys clients ask for
    MaxCount,       \* the most partitions of a topic (10000)
    MaxPartitions,  \* bound: Partitions made
    MaxAppends,     \* bound: records appended
    MaxOffsets      \* bound: offsets committed

ASSUME CallsAssumption ==
    /\ MaxCount \in Nat
    /\ \A t \in Threads : \A call \in Calls(t) :
          /\ call.op \in {"create_topic", "create_partitions", "update_topic_configs",
                         "delete_topic", "build_metadata", "produce", "commit_offset",
                         "reset", "dump", "load"}
          /\ call.op \in {"create_topic", "create_partitions"} => call.count \in Int

VARIABLES
    topics,          \* name -> [num_partitions, configs]
    partitions,      \* <<name, index>> -> position in made
    next_stream_id,  \* counted from 100
    made,            \* every Partition: [stream, next, gone]
    log_cache,       \* stream -> offset -> record
    groups,          \* committed offsets: <<name, index>> -> offset
    snapshot,        \* the snapshot the administrator took last
    thread,          \* each thread's call
    created          \* history: names create_topic registered, of which no
                     \* part was deleted since the call began, and which grew
                     \* from registered counts only

vars == <<topics, partitions, next_stream_id, made, log_cache, groups, snapshot,
          thread, created>>

Idle == [pc |-> "idle"]
Active == {t \in Threads : thread[t] # Idle}

Names == {tp[1] : tp \in DOMAIN partitions} \cup DOMAIN topics
has_topic(name) == name \in Names

Put(f, k, v) == [x \in DOMAIN f \cup {k} |-> IF x = k THEN v ELSE f[x]]
Without(f, gone) == Restrict(f, DOMAIN f \ gone)
InSomeOrder(S) == CHOOSE s \in [1 .. Cardinality(S) -> S] : Range(s) = S
Indices(name) == {tp[2] : tp \in {tp \in DOMAIN partitions : tp[1] = name}}

------------------------------------------------------------------------------
(* Locks.  The locks of a section, in the order they are taken; one that   *)
(* finds what it looks for in topics does not go on to partitions.         *)

Lock(name, mode) == [lock |-> name, mode |-> mode]
Both(t) ==
    IF thread[t].held = 1 /\ thread[t].call.name \in DOMAIN topics
    THEN <<Lock("topics", "read")>>
    ELSE <<Lock("topics", "read"), Lock("partitions", "read")>>

\* Mutant: delete_topic takes partitions first.
DeleteLocks_Swapped == <<Lock("partitions", "write"), Lock("topics", "write")>>

DeleteLocks == <<Lock("topics", "write"), Lock("partitions", "write")>>

Locks(t) ==
    LET pc == thread[t].pc
    IN CASE pc \in {"check", "has", "count"} -> Both(t)
         [] pc \in {"lookup", "scan", "dump"} -> <<Lock("partitions", "read")>>
         [] pc \in {"provision", "clear_partitions"} -> <<Lock("partitions", "write")>>
         [] pc \in {"register", "clear_topics"} -> <<Lock("topics", "write")>>
         [] pc = "delete" -> DeleteLocks
         [] pc = "update" -> IF thread[t].held = 1 /\ thread[t].call.name \in DOMAIN topics
                             THEN <<Lock("topics", "write")>>
                             ELSE <<Lock("topics", "write"), Lock("partitions", "read")>>
         [] OTHER -> <<>>

Holds(t) == IF thread[t] # Idle /\ thread[t].held = 1 THEN {Locks(t)[1]} ELSE {}
Waits(t) == IF thread[t] # Idle /\ thread[t].parked THEN {Locks(t)[thread[t].held + 1]} ELSE {}

\* Does a thread of us keep t out of the lock it is about to take?
KeptOut(t, us) ==
    /\ thread[t].held < Len(Locks(t))
    /\ LET l == Locks(t)[thread[t].held + 1]
       IN \E u \in us :
              \/ \E h \in Holds(u) : h.lock = l.lock /\ "write" \in {h.mode, l.mode}
              \/ l.mode = "read" /\ Lock(l.lock, "write") \in Waits(u)

\* Thread t has its locks but for the last, and can take that one.
Entered(t) ==
    /\ thread[t] # Idle
    /\ thread[t].held + 1 >= Len(Locks(t))
    /\ ~KeptOut(t, Threads \ {t})

\* The first of two locks.
Acquire(t) ==
    /\ thread[t] # Idle /\ thread[t].held = 0
    /\ Len(Locks(t)) = 2 /\ ~KeptOut(t, Threads \ {t})
    /\ thread' = [thread EXCEPT ![t].held = 1, ![t].parked = FALSE]
    /\ UNCHANGED <<topics, partitions, next_stream_id, made, log_cache, groups, snapshot, created>>

\* A writer that cannot have its lock waits for it.
Park(t) ==
    /\ thread[t] # Idle /\ ~thread[t].parked
    /\ KeptOut(t, Threads \ {t})
    /\ Locks(t)[thread[t].held + 1].mode = "write"
    /\ thread' = [thread EXCEPT ![t].parked = TRUE]
    /\ UNCHANGED <<topics, partitions, next_stream_id, made, log_cache, groups, snapshot, created>>

------------------------------------------------------------------------------
(* The sections of the calls.                                               *)

Goto(t, pc) == [thread[t] EXCEPT !.pc = pc, !.held = 0, !.parked = FALSE]
GotoWith(t, pc, todo) == [Goto(t, pc) EXCEPT !.todo = todo]
Becomes(t, v) == thread' = [thread EXCEPT ![t] = v]

Range0(name, from, to) == [i \in 1 .. to - from |-> <<name, from + i - 1>>]
Provide(t, todo, after) == IF todo = <<>> THEN Goto(t, after) ELSE GotoWith(t, "lookup", todo)

\* create_topic: -1 asks for the default of one partition.
Count(call) == IF call.count = -1 THEN 1 ELSE call.count

\* A call that does not pass these returns its error before the first section.
Valid(call) ==
    CASE call.op = "create_topic" ->
            /\ call.name \in ValidNames
            /\ Count(call) \in 1 .. MaxCount
            /\ call.replication_factor = -1 \/ call.replication_factor > 0
      [] call.op = "load" -> snapshot # {}
      [] OTHER -> TRUE

First(call) ==
    CASE call.op = "create_topic" -> "check"
      [] call.op = "delete_topic" -> "delete"
      [] call.op \in {"create_partitions", "update_topic_configs"} -> "has"
      [] call.op = "build_metadata" -> "scan"
      [] call.op = "produce" -> "lookup"
      [] call.op = "commit_offset" -> "commit"
      [] call.op \in {"reset", "load"} -> "clear_topics"
      [] call.op = "dump" -> "dump"

\* Partitions and records a call may still make.
Makes(call) ==
    CASE call.op \in {"create_topic", "create_partitions"} -> Max({Count(call), 0})
      [] call.op = "build_metadata" -> Len(call.names)
      [] call.op = "produce" -> 1
      [] call.op = "load" -> Cardinality(UNION {s.partitions : s \in snapshot})
      [] OTHER -> 0
Commits(call) == IF call.op = "commit_offset" THEN 1 ELSE 0
Appends(call) == IF call.op = "produce" THEN 1 ELSE 0
ActiveSum(F(_)) == MapThenSumSet(LAMBDA t : F(thread[t].call), Active)
Appended == MapThenSumSet(LAMBDA i : made[i].next, DOMAIN made)

Begin(t, call) ==
    /\ thread[t] = Idle
    /\ Valid(call)
    /\ Makes(call) > 0 => Len(made) + ActiveSum(Makes) + Makes(call) <= MaxPartitions \* bound
    /\ call.op = "produce" => Appended + ActiveSum(Appends) < MaxAppends              \* bound
    /\ call.op = "commit_offset" => Cardinality(DOMAIN groups) + ActiveSum(Commits) < MaxOffsets \* bound
    /\ call.op \in {"reset", "load"} => next_stream_id = Len(made)   \* bound: ids restart once
    /\ thread' = [u \in Threads |->
           IF u = t
           THEN [pc |-> First(call), call |-> call, held |-> 0, parked |-> FALSE,
                 todo |-> IF call.op = "produce" THEN <<call.tp>> ELSE <<>>, at |-> 0,
                 offsets |-> <<>>, overtaken |-> FALSE, alone |-> call.op = "load" /\ Active = {}]
           ELSE IF u \in Active THEN [thread[u] EXCEPT !.alone = FALSE]
           ELSE Idle]
    /\ UNCHANGED <<topics, partitions, next_stream_id, made, log_cache, groups, snapshot, created>>

At(t, pc) == thread[t].pc = pc /\ Entered(t)

\* create_topic: does the topic exist?
\* Mutant: a topic that does not is registered at once.
Check_RegistersFirst(t) ==
    /\ At(t, "check")
    /\ LET call == thread[t].call
           new == ~has_topic(call.name)
       IN /\ Becomes(t, IF new THEN GotoWith(t, "lookup", Range0(call.name, 0, Count(call)))
                        ELSE Idle)
          /\ topics' = IF new THEN Put(topics, call.name, [num_partitions |-> Count(call),
                                                           configs |-> call.configs])
                       ELSE topics
          /\ created' = IF new THEN created \cup {call.name} ELSE created
    /\ UNCHANGED <<partitions, next_stream_id, made, log_cache, groups, snapshot>>

Check(t) ==
    /\ At(t, "check")
    /\ LET call == thread[t].call
       IN Becomes(t, IF has_topic(call.name) THEN Idle
                     ELSE GotoWith(t, "lookup", Range0(call.name, 0, Count(call))))
    /\ UNCHANGED <<topics, partitions, next_stream_id, made, log_cache, groups, snapshot, created>>

\* create_partitions and update_topic_configs: does the topic exist?
Has(t) ==
    /\ At(t, "has")
    /\ LET call == thread[t].call
       IN Becomes(t, IF ~has_topic(call.name) THEN Idle
                     ELSE Goto(t, IF call.op = "create_partitions" THEN "count" ELSE "update"))
    /\ UNCHANGED <<topics, partitions, next_stream_id, made, log_cache, groups, snapshot, created>>

\* create_partitions: how many partitions are there, and which are to come?
CurrentCount(name) ==
    IF name \in DOMAIN topics THEN topics[name].num_partitions
    ELSE Max({i + 1 : i \in Indices(name)} \cup {0})

CountPartitions(t) ==
    /\ At(t, "count")
    /\ LET call == thread[t].call
           current == CurrentCount(call.name)
       IN Becomes(t, IF /\ call.count \in current + 1 .. MaxCount
                        /\ call.assigned \in {-1, call.count - current}
                        /\ ~call.validate_only
                     THEN [GotoWith(t, "lookup", Range0(call.name, current, call.count))
                              EXCEPT !.overtaken = call.name \notin created]
                     ELSE Idle)
    /\ UNCHANGED <<topics, partitions, next_stream_id, made, log_cache, groups, snapshot, created>>

\* What a call does once it has the last of its partitions, which is p.
Provided(t, p) ==
    LET op == thread[t].call.op
        rest == Tail(thread[t].todo)
    IN IF rest # <<>> THEN GotoWith(t, "lookup", rest)
       ELSE CASE op = "produce" -> [GotoWith(t, "append", <<>>) EXCEPT !.at = p]
              [] op = "load" -> GotoWith(t, "restore", <<>>)
              [] op = "build_metadata" -> Idle
              [] OTHER -> GotoWith(t, "register", <<>>)

\* get_or_create_partition looks under the read lock, then again under the
\* write lock.
Lookup(t) ==
    /\ At(t, "lookup")
    /\ LET tp == Head(thread[t].todo)
       IN Becomes(t, IF tp \in DOMAIN partitions THEN Provided(t, partitions[tp])
                     ELSE Goto(t, "provision"))
    /\ UNCHANGED <<topics, partitions, next_stream_id, made, log_cache, groups, snapshot, created>>

Install(tp, stream) ==
    /\ made' = Append(made, [stream |-> stream, next |-> 0, gone |-> FALSE])
    /\ partitions' = Put(partitions, tp, Len(made) + 1)

\* Mutant: without the second look.
Provision_OneLook(t) ==
    /\ At(t, "provision")
    /\ Install(Head(thread[t].todo), next_stream_id)
    /\ next_stream_id' = next_stream_id + 1
    /\ Becomes(t, Provided(t, Len(made) + 1))
    /\ UNCHANGED <<topics, log_cache, groups, snapshot, created>>

\* Mutant: streams are numbered by the partitions there are.
Provision_CountsPartitions(t) ==
    /\ At(t, "provision")
    /\ LET tp == Head(thread[t].todo)
       IN IF tp \in DOMAIN partitions
          THEN /\ Becomes(t, Provided(t, partitions[tp]))
               /\ UNCHANGED <<made, partitions, next_stream_id>>
          ELSE /\ Install(tp, Cardinality(DOMAIN partitions))
               /\ next_stream_id' = next_stream_id + 1
               /\ Becomes(t, Provided(t, Len(made) + 1))
    /\ UNCHANGED <<topics, log_cache, groups, snapshot, created>>

Provision(t) ==
    /\ At(t, "provision")
    /\ LET tp == Head(thread[t].todo)
       IN IF tp \in DOMAIN partitions
          THEN /\ Becomes(t, Provided(t, partitions[tp]))
               /\ UNCHANGED <<made, partitions, next_stream_id>>
          ELSE /\ Install(tp, next_stream_id)
               /\ next_stream_id' = next_stream_id + 1
               /\ Becomes(t, Provided(t, Len(made) + 1))
    /\ UNCHANGED <<topics, log_cache, groups, snapshot, created>>

\* The registration create_topic or create_partitions ends with.
Registration(call) ==
    IF call.op = "create_topic"
    THEN [num_partitions |-> Count(call), configs |-> call.configs]
    ELSE [num_partitions |-> call.count,
          configs |-> IF call.name \in DOMAIN topics THEN topics[call.name].configs ELSE <<>>]

Register(t) ==
    /\ At(t, "register")
    /\ LET call == thread[t].call
       IN /\ topics' = Put(topics, call.name, Registration(call))
          /\ created' = IF thread[t].overtaken THEN created \ {call.name}
                        ELSE IF call.op = "create_topic" THEN created \cup {call.name}
                        ELSE created
    /\ Becomes(t, Idle)
    /\ UNCHANGED <<partitions, next_stream_id, made, log_cache, groups, snapshot>>

\* Values set (a set of one) or removed (the empty set).
Altered(configs, changes) ==
    LET set == {k \in DOMAIN changes : changes[k] # {}}
        kept == DOMAIN configs \ (DOMAIN changes \ set)
    IN [k \in set \cup kept |-> IF k \in set THEN CHOOSE v \in changes[k] : TRUE ELSE configs[k]]

\* update_topic_configs registers a topic that has only partitions, with the
\* number of them; it may have been deleted since Has, and counts as one then.
Update(t) ==
    /\ At(t, "update")
    /\ LET call == thread[t].call
           old == IF call.name \in DOMAIN topics THEN topics[call.name]
                  ELSE [num_partitions |-> Max({Cardinality(Indices(call.name)), 1}),
                        configs |-> <<>>]
       IN topics' = Put(topics, call.name, [old EXCEPT !.configs = Altered(@, call.changes)])
    /\ Becomes(t, Idle)
    /\ UNCHANGED <<partitions, next_stream_id, made, log_cache, groups, snapshot, created>>

\* The Partitions of tps leave the map; whoever holds one may still use it.
Drop(tps) ==
    /\ partitions' = Without(partitions, tps)
    /\ made' = [i \in DOMAIN made |->
           IF \E tp \in tps : partitions[tp] = i THEN [made[i] EXCEPT !.gone = TRUE] ELSE made[i]]

\* The other threads whose call has to do with these names were overtaken.
Overtaking(t, names, v) ==
    [u \in Threads |->
        IF u = t THEN v
        ELSE IF u \in Active /\ thread[u].call.op \in {"create_topic", "create_partitions"}
                /\ thread[u].call.name \in names
        THEN [thread[u] EXCEPT !.overtaken = TRUE]
        ELSE thread[u]]

Delete(t) ==
    /\ At(t, "delete")
    /\ LET name == thread[t].call.name
       IN /\ topics' = Without(topics, {name})
          /\ Drop({tp \in DOMAIN partitions : tp[1] = name})
          /\ created' = created \ {name}
          /\ thread' = Overtaking(t, {name}, Idle)
    /\ UNCHANGED <<next_stream_id, log_cache, groups, snapshot>>

\* build_metadata: the requested topics that have no partition get one.
Scan(t) ==
    /\ At(t, "scan")
    /\ LET call == thread[t].call
           missing == SelectSeq(call.names, LAMBDA n : Indices(n) = {})
       IN Becomes(t, IF call.auto_create /\ missing # <<>>
                     THEN GotoWith(t, "lookup", [i \in DOMAIN missing |-> <<missing[i], 0>>])
                     ELSE Idle)
    /\ UNCHANGED <<topics, partitions, next_stream_id, made, log_cache, groups, snapshot, created>>

\* append_records, as S3Stream details it.
AppendRecords(t) ==
    /\ At(t, "append")
    /\ LET p == thread[t].at
           stream == made[p].stream
           old == IF stream \in DOMAIN log_cache THEN log_cache[stream] ELSE <<>>
       IN /\ log_cache' = Put(log_cache, stream, Put(old, made[p].next, p))
          /\ made' = [made EXCEPT ![p].next = @ + 1]
    /\ Becomes(t, Idle)
    /\ UNCHANGED <<topics, partitions, next_stream_id, groups, snapshot, created>>

CommitOffset(t) ==
    /\ At(t, "commit")
    /\ groups' = Put(groups, thread[t].call.tp, thread[t].call.offset)
    /\ Becomes(t, Idle)
    /\ UNCHANGED <<topics, partitions, next_stream_id, made, log_cache, snapshot, created>>

------------------------------------------------------------------------------
(* The administrator: reset, dump and load.                                 *)

ClearTopics(t) ==
    /\ At(t, "clear_topics")
    /\ topics' = <<>>
    /\ created' = {}
    /\ thread' = Overtaking(t, ValidNames, Goto(t, "clear_partitions"))
    /\ UNCHANGED <<partitions, next_stream_id, made, log_cache, groups, snapshot>>

ClearPartitions(t) ==
    /\ At(t, "clear_partitions")
    /\ Drop(DOMAIN partitions)
    /\ created' = {}
    /\ thread' = Overtaking(t, ValidNames, Goto(t, "restart_ids"))
    /\ UNCHANGED <<topics, next_stream_id, log_cache, groups, snapshot>>

RestartIds(t) ==
    /\ At(t, "restart_ids")
    /\ next_stream_id' = 0
    /\ Becomes(t, Goto(t, "clear_groups"))
    /\ UNCHANGED <<topics, partitions, made, log_cache, groups, snapshot, created>>

\* Only offsets whose name has no ':' are restored.
Restorable(offsets) == Restrict(offsets, {tp \in DOMAIN offsets : tp[1] \notin ColonNames})

\* Mutant: load leaves the groups as they are.
ClearGroups_NotOnLoad(t) ==
    /\ At(t, "clear_groups")
    /\ LET load == thread[t].call.op = "load"
           s == CHOOSE s \in snapshot : TRUE
       IN /\ groups' = IF load THEN groups ELSE <<>>
          /\ Becomes(t, IF ~load THEN Idle
                        ELSE [Provide(t, InSomeOrder(s.partitions), "restore") EXCEPT
                                  !.offsets = Restorable(s.offsets)])
    /\ UNCHANGED <<topics, partitions, next_stream_id, made, log_cache, snapshot, created>>

\* The end of reset; load goes on to the partitions of the snapshot.
ClearGroups(t) ==
    /\ At(t, "clear_groups")
    /\ groups' = <<>>
    /\ LET s == CHOOSE s \in snapshot : TRUE
       IN Becomes(t, IF thread[t].call.op = "reset" THEN Idle
                     ELSE [Provide(t, InSomeOrder(s.partitions), "restore") EXCEPT
                               !.offsets = Restorable(s.offsets)])
    /\ UNCHANGED <<topics, partitions, next_stream_id, made, log_cache, snapshot, created>>

\* One commit for every offset of the snapshot.
Restore(t) ==
    /\ At(t, "restore")
    /\ \E tp \in DOMAIN thread[t].offsets :
          /\ groups' = Put(groups, tp, thread[t].offsets[tp])
          /\ thread' = [thread EXCEPT ![t].offsets = Without(@, {tp})]
    /\ UNCHANGED <<topics, partitions, next_stream_id, made, log_cache, snapshot, created>>

Restored(t) ==
    /\ At(t, "restore")
    /\ thread[t].offsets = <<>>
    /\ Becomes(t, Idle)
    /\ UNCHANGED <<topics, partitions, next_stream_id, made, log_cache, groups, snapshot, created>>

\* dump reads the partitions, and then the groups.
DumpPartitions(t) ==
    /\ At(t, "dump")
    /\ Becomes(t, GotoWith(t, "dump_groups", InSomeOrder(DOMAIN partitions)))
    /\ UNCHANGED <<topics, partitions, next_stream_id, made, log_cache, groups, snapshot, created>>

DumpGroups(t) ==
    /\ At(t, "dump_groups")
    /\ snapshot' = {[partitions |-> Range(thread[t].todo), offsets |-> groups]}
    /\ Becomes(t, Idle)
    /\ UNCHANGED <<topics, partitions, next_stream_id, made, log_cache, groups, created>>

------------------------------------------------------------------------------
Init ==
    /\ topics = <<>>
    /\ partitions = <<>>
    /\ next_stream_id = 0
    /\ made = <<>>
    /\ log_cache = <<>>
    /\ groups = <<>>
    /\ snapshot = {}
    /\ thread = [t \in Threads |-> Idle]
    /\ created = {}

Section(t) ==
    \/ Check(t) \/ Has(t) \/ CountPartitions(t) \/ Lookup(t) \/ Provision(t) \/ Register(t)
    \/ Update(t) \/ Delete(t) \/ Scan(t) \/ AppendRecords(t) \/ CommitOffset(t)
    \/ ClearTopics(t) \/ ClearPartitions(t) \/ RestartIds(t) \/ ClearGroups(t)
    \/ Restore(t) \/ Restored(t) \/ DumpPartitions(t) \/ DumpGroups(t)

Next == \E t \in Threads : \/ \E call \in Calls(t) : Begin(t, call)
                           \/ Acquire(t) \/ Park(t) \/ Section(t)

Spec == Init /\ [][Next]_vars

------------------------------------------------------------------------------
(* Configurations: what DescribeConfigs answers.  An entry's source is 1    *)
(* for a value set on the topic, 4 for the broker's, 5 for a default and 0  *)
(* for a key there is no value of (value {}).                               *)

Entry(key, value, source) == [name |-> key, value |-> value, source |-> source]

TopicEntry(configs, key) ==
    IF key \in DOMAIN configs THEN Entry(key, {configs[key]}, 1)
    ELSE IF key \in DOMAIN Defaults THEN Entry(key, {Defaults[key]}, 5)
    ELSE Entry(key, {}, 0)

\* Mutant: the listing shows the default of a key that was set.
describe_topic_configs_Default(configs, keys) ==
    IF keys # {} THEN {TopicEntry(configs, k) : k \in keys}
    ELSE {Entry(k, {Defaults[k]}, 5) : k \in DOMAIN Defaults}
         \cup {Entry(k, {configs[k]}, 1) : k \in DOMAIN configs \ DOMAIN Defaults}

describe_topic_configs(configs, keys) ==
    IF keys # {} THEN {TopicEntry(configs, k) : k \in keys}
    ELSE {IF k \in DOMAIN configs THEN Entry(k, {configs[k]}, 1) ELSE Entry(k, {Defaults[k]}, 5)
             : k \in DOMAIN Defaults}
         \cup {Entry(k, {configs[k]}, 1) : k \in DOMAIN configs \ DOMAIN Defaults}

describe_broker_configs(keys) ==
    IF keys # {} THEN {IF k \in DOMAIN BrokerConfigs THEN Entry(k, {BrokerConfigs[k]}, 4)
                       ELSE Entry(k, {}, 0) : k \in keys}
    ELSE {Entry(k, {BrokerConfigs[k]}, 4) : k \in DOMAIN BrokerConfigs}

------------------------------------------------------------------------------
(* Properties.                                                              *)

\* Registrations, maps and threads hold values of their kinds; a registered
\* topic has between 1 and MaxCount partitions.
TypeOK ==
    /\ \A n \in DOMAIN topics : topics[n].num_partitions \in 1 .. MaxCount
    /\ Range(partitions) \subseteq DOMAIN made
    /\ next_stream_id \in 0 .. Len(made)
    /\ \A i \in DOMAIN made : made[i].next \in 0 .. MaxAppends
    /\ \A s \in DOMAIN log_cache : Range(log_cache[s]) \subseteq DOMAIN made
    /\ \A t \in Active : thread[t].held \in 0 .. 1 /\ thread[t].at \in 0 .. Len(made)

\* Two calls that find a partition missing at the same time end up with one
\* Partition: what a produce is about to append to is the Partition of the
\* map, unless that was deleted or reset after the produce looked it up.
HeldOrRemoved ==
    \A t \in Active : thread[t].pc = "append" =>
        LET p == thread[t].at
        IN made[p].gone \/ (thread[t].call.tp \in DOMAIN partitions
                            /\ partitions[thread[t].call.tp] = p)

\* LogCache::read_range: the records from an offset on, up to the first gap.
read_range(stream, from) ==
    {log_cache[stream][o] : o \in {o \in DOMAIN log_cache[stream] :
        o >= from /\ from .. o \subseteq DOMAIN log_cache[stream]}}

\* S3Stream::fetch from the LogCache.
fetch(p, from) ==
    IF from < made[p].next /\ made[p].stream \in DOMAIN log_cache
    THEN read_range(made[p].stream, from) ELSE {}

\* Until the state is reset, a fetch returns records of the partition it asks
\* for and no other's, whatever was created, deleted and created again: the
\* streams in the shared LogCache are told apart by ids that are not reused.
OwnRecords ==
    (next_stream_id = Len(made)) =>
        \A p \in DOMAIN made : \A from \in 0 .. MaxAppends : fetch(p, from) \subseteq {p}

\* A topic that create_topic registered has all the partitions it is said to
\* have, while other calls create, grow and configure it, until some part of
\* it is deleted: partitions are provisioned before they are announced.  Growth
\* that counted the partitions while there was no registration is left out: it
\* takes the largest index, below which a Produce leaves gaps.
RegisteredIsProvisioned ==
    \A n \in created : \A i \in 0 .. topics[n].num_partitions - 1 : <<n, i>> \in DOMAIN partitions

\* A load that no other call overlaps leaves the partitions of the snapshot
\* and no others, its offsets and no others, and no registrations.
LoadRestores ==
    \A t \in Active : \A s \in snapshot :
        thread[t].pc = "restore" /\ thread[t].offsets = <<>> /\ thread[t].alone =>
            /\ DOMAIN partitions = s.partitions
            /\ groups = Restorable(s.offsets)
            /\ topics = <<>>

\* Asking for some keys and listing all of them agree on every value, for
\* every topic and for the broker.
ConfigViewsAgree ==
    LET Agree(all, some, keys) == {e \in some : e.value # {}} = {e \in all : e.name \in keys}
    IN \A ks \in (SUBSET Keys) \ {{}} :
        /\ \A n \in DOMAIN topics :
              Agree(describe_topic_configs(topics[n].configs, {}),
                    describe_topic_configs(topics[n].configs, ks), ks)
        /\ Agree(describe_broker_configs({}), describe_broker_configs(ks), ks)

\* No calls wait for each other: whichever are under way, one of them is not
\* kept out by the others.  The locks of topics and partitions are taken in
\* one order, and none is taken twice.
NoDeadlock == \A us \in (SUBSET Active) \ {{}} : \E t \in us : ~KeptOut(t, us \ {t})
==============================================================================
