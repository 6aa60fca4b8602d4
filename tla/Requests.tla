------------------------------- MODULE Requests -------------------------------
(***************************************************************************)
(* Connections and the requests they carry: authentication, the gate that  *)
(* holds back unauthenticated requests, and for every API the permissions  *)
(* its handler asks for before it calls the broker's components.           *)
(*                                                                         *)
(* Connections are served concurrently, each one request at a time.  A     *)
(* handler works through a plan, a sequence of groups: a group is a list   *)
(* of needs, checked one after the other until one is granted, and the     *)
(* calls made when one was.  The bindings are locked for a single check    *)
(* only, so that other connections change them between two checks.  What   *)
(* the called components do is modelled in their own modules; the ACL and  *)
(* SASL calls, and fault injection, are modelled here.                     *)
(***************************************************************************)
EXTENDS Authorizer, Sasl, Chaos, FiniteSets

CONSTANTS
    Connections,
    Sends(_, _),         \* the requests the client of a connection sends, with and
                         \* without --require-sasl
    SaslRequired,        \* the settings of --require-sasl to check
    SchemaValidation,    \* --enable-schema-validation
    ChaosRules,          \* the rules the administrator adds
    MaxRules,            \* bound on the fault rules
    MaxInjected,         \* bound on the injections
    MaxBindings,         \* bound on the bindings
    Filters,             \* filters of DescribeAcls and DeleteAcls
    UserNames            \* the user names clients give

VARIABLES
    require_sasl,        \* the setting of this broker
    session,             \* session[c]: the authentication state of c
    work,                \* work[c]: what the task of c is doing
    bindings,            \* the ACL bindings
    rules,               \* the fault injection rules
    injected,            \* the injection counter
    proven               \* proven[c]: whose password c has shown since its last handshake

vars == <<require_sasl, session, work, bindings, rules, injected, proven>>

Host == "*"
ClusterName == <<"kafka-cluster">>

------------------------------------------------------------------------------
(* Plans. *)

Call(op, on) == [op |-> op, on |-> on]
Group(needs, calls) == [needs |-> needs, calls |-> calls]

OnTopic(t, op) == Need("Topic", t, op)
OnGroup(g, op) == Need("Group", g, op)
OnTxn(x, op) == Need("TransactionalId", x, op)
OnCluster(op) == Need("Cluster", ClusterName, op)

\* One group for every element of a sequence.
ForEach(s, G(_)) == [i \in DOMAIN s |-> G(s[i])]

\* Topics are provisioned first; the partitions of each are then shown only
\* to those who may describe it.
Metadata(r) ==
    LET Show(t) == Group(<<OnTopic(t, "Describe")>>, {Call("show_partitions", t)})
    IN <<Group(<<>>, IF r.auto_create THEN {Call("auto_create", t) : t \in ToSet(r.topics)}
                                      ELSE {})>>
       \o ForEach(r.topics, Show)

\* A partition's records are appended unless a fault was injected, they are
\* corrupt, or they fail schema validation.
Produce(r, fault) ==
    LET Stored(p) == ~fault /\ p \in {"good"} \cup IF SchemaValidation THEN {} ELSE {"invalid"}
        Calls(t) == [op : {"get_or_create_partition"}, on : {t.name} \X DOMAIN t.partitions]
                    \cup {Call("append_records", <<t.name, i>>) :
                             i \in {j \in DOMAIN t.partitions : Stored(t.partitions[j])}}
    IN ForEach(r.topics, LAMBDA t : Group(<<OnTopic(t.name, "Write")>>, Calls(t)))

\* Mutant: the fault is spent on the first topic.
Fetch_FirstTopicOnly(r, fault) ==
    LET Ops(t) == {"get_or_create_partition"}
                  \cup IF fault /\ t = r.topics[1] THEN {} ELSE {"read_records"}
        Calls(t) == [op : Ops(t), on : {t.name} \X (1 .. t.partitions)]
    IN ForEach(r.topics, LAMBDA t : Group(<<OnTopic(t.name, "Read")>>, Calls(t)))

Fetch(r, fault) ==
    LET Ops == {"get_or_create_partition"} \cup IF fault THEN {} ELSE {"read_records"}
        Calls(t) == [op : Ops, on : {t.name} \X (1 .. t.partitions)]
    IN ForEach(r.topics, LAMBDA t : Group(<<OnTopic(t.name, "Read")>>, Calls(t)))

ListOffsets(r) ==
    ForEach(r.topics, LAMBDA t :
        Group(<<OnTopic(t, "Describe")>>, {Call("list_offsets", t)}))

FindCoordinator(r) ==
    <<Group(CASE r.key_type = 0 -> <<OnGroup(r.key, "Describe")>>
              [] r.key_type = 1 -> <<OnTxn(r.key, "Describe")>>
              [] OTHER -> <<>>,
            {Call("find_coordinator", <<r.key_type, r.key>>)})>>

\* One check for the request, then one commit for every partition.
OffsetCommit(r) ==
    <<Group(<<OnGroup(r.group, "Read")>>,
            {Call("commit_offset", r.group) : i \in 1 .. r.partitions})>>

OffsetFetch(r) == <<Group(<<OnGroup(r.group, "Describe")>>, {Call("fetch_offset", r.group)})>>

Heartbeat(r) == <<Group(<<OnGroup(r.group, "Read")>>, {Call("handle_heartbeat", r.group)})>>

LeaveGroup(r) == <<Group(<<OnGroup(r.group, "Read")>>, {Call("handle_leave_group", r.group)})>>

\* Without a transactional id (<<>>) nothing is asked for.
InitProducerId(r) ==
    <<Group(IF r.txn = <<>> THEN <<>> ELSE <<OnTxn(r.txn, "Write")>>,
            {Call("init_producer_id", r.txn)})>>

AddPartitionsToTxn(r) == <<Group(<<OnTxn(r.txn, "Write")>>, {Call("add_partitions", r.txn)})>>

AddOffsetsToTxn(r) == <<Group(<<OnTxn(r.txn, "Write")>>, {Call("add_offsets", r.txn)})>>

EndTxn(r) == <<Group(<<OnTxn(r.txn, "Write")>>, {Call("end_txn", r.txn)})>>

DescribeAcls(r) == <<Group(<<OnCluster("Describe")>>, {Call("describe_acls", r.filter)})>>

CreateAcls(r) == <<Group(<<OnCluster("Alter")>>, {Call("create_acls", r.creations)})>>

DeleteAcls(r) == <<Group(<<OnCluster("Alter")>>, {Call("delete_acls", r.filters)})>>

\* With validate_only the name and the counts are checked and nothing is made.
CreateTopics(r) ==
    ForEach(r.topics, LAMBDA t :
        Group(<<OnTopic(t, "Create"), OnCluster("Create")>>,
              IF r.validate_only THEN {} ELSE {Call("create_topic", t)}))

DeleteTopics(r) ==
    ForEach(r.topics, LAMBDA t :
        Group(<<OnTopic(t, "Delete"), OnCluster("Delete")>>, {Call("delete_topic", t)}))

\* Resource type 2 is a topic, 4 the broker; others get InvalidRequest.
ConfigNeeds(res, op) ==
    CASE res.type = 2 -> <<OnTopic(res.name, op), OnCluster(op)>>
      [] res.type = 4 -> <<OnCluster(op)>>
      [] OTHER -> <<>>

DescribeConfigs(r) ==
    LET Calls(res) == CASE res.type = 2 -> {Call("describe_topic_configs", res.name)}
                        [] res.type = 4 -> {Call("describe_broker_configs", ClusterName)}
                        [] OTHER -> {}
    IN ForEach(r.resources, LAMBDA res : Group(ConfigNeeds(res, "DescribeConfigs"), Calls(res)))

\* Broker configurations are accepted and ignored.
AlterConfigs(r) ==
    LET Calls(res) == IF res.type = 2 /\ ~r.validate_only
                      THEN {Call("update_topic_configs", res.name)} ELSE {}
    IN ForEach(r.resources, LAMBDA res : Group(ConfigNeeds(res, "AlterConfigs"), Calls(res)))

ListGroups(r) == <<Group(<<OnCluster("Describe")>>, {Call("list_groups", ClusterName)})>>

\* All groups are checked first; one call serves those that were granted.
OnGranted(k) == k.op \in {"describe_groups", "delete_groups"}

DescribeGroups(r) ==
    Append(ForEach(r.groups, LAMBDA g :
               Group(<<OnGroup(g, "Describe"), OnCluster("Describe")>>, {Call("grant", g)})),
           Group(<<>>, {Call("describe_groups", <<>>)}))

DeleteGroups(r) ==
    Append(ForEach(r.groups, LAMBDA g :
               Group(<<OnGroup(g, "Delete"), OnCluster("Delete")>>, {Call("grant", g)})),
           Group(<<>>, {Call("delete_groups", <<>>)}))

DeleteRecords(r) ==
    ForEach(r.topics, LAMBDA t :
        Group(<<OnTopic(t, "Delete"), OnCluster("Delete")>>, {Call("delete_records", t)}))

CreatePartitions(r) ==
    ForEach(r.topics, LAMBDA t :
        Group(<<OnTopic(t, "Alter"), OnCluster("Alter")>>, {Call("create_partitions", t)}))

\* The arms of the dispatch; any other API is an error, which ends the
\* connection.
Plan(r, fault) ==
    CASE r.api = "Metadata" -> Metadata(r)
      [] r.api = "Produce" -> Produce(r, fault)
      [] r.api = "Fetch" -> Fetch(r, fault)
      [] r.api = "ListOffsets" -> ListOffsets(r)
      [] r.api = "FindCoordinator" -> FindCoordinator(r)
      [] r.api = "OffsetCommit" -> OffsetCommit(r)
      [] r.api = "OffsetFetch" -> OffsetFetch(r)
      [] r.api = "Heartbeat" -> Heartbeat(r)
      [] r.api = "LeaveGroup" -> LeaveGroup(r)
      [] r.api = "InitProducerId" -> InitProducerId(r)
      [] r.api = "AddPartitionsToTxn" -> AddPartitionsToTxn(r)
      [] r.api = "AddOffsetsToTxn" -> AddOffsetsToTxn(r)
      [] r.api = "EndTxn" -> EndTxn(r)
      [] r.api = "DescribeAcls" -> DescribeAcls(r)
      [] r.api = "CreateAcls" -> CreateAcls(r)
      [] r.api = "DeleteAcls" -> DeleteAcls(r)
      [] r.api = "CreateTopics" -> CreateTopics(r)
      [] r.api = "DeleteTopics" -> DeleteTopics(r)
      [] r.api = "DescribeConfigs" -> DescribeConfigs(r)
      [] r.api = "AlterConfigs" -> AlterConfigs(r)
      [] r.api = "ListGroups" -> ListGroups(r)
      [] r.api = "DescribeGroups" -> DescribeGroups(r)
      [] r.api = "DeleteGroups" -> DeleteGroups(r)
      [] r.api = "DeleteRecords" -> DeleteRecords(r)
      [] r.api = "CreatePartitions" -> CreatePartitions(r)

\* Before the client is authenticated only these are handled.
AuthApis == {"ApiVersions", "SaslHandshake", "SaslAuthenticate"}

\* The APIs without an arm, and those whose arms are plans.
Unhandled == {"JoinGroup", "SyncGroup"}
OverTopics == {"Metadata", "Produce", "Fetch", "ListOffsets", "CreateTopics", "DeleteTopics",
               "DeleteRecords", "CreatePartitions"}
OverResources == {"DescribeConfigs", "AlterConfigs"}
OverGroups == {"DescribeGroups", "DeleteGroups"}
Planned == OverTopics \cup OverResources \cup OverGroups
           \cup {"FindCoordinator", "OffsetCommit", "OffsetFetch", "Heartbeat", "LeaveGroup",
                 "InitProducerId", "AddPartitionsToTxn", "AddOffsetsToTxn", "EndTxn",
                 "DescribeAcls", "CreateAcls", "DeleteAcls", "ListGroups"}

\* What the decoder makes of an array field.
IsList(s) == s \in Seq(ToSet(s))

Decoded(r) ==
    /\ r.api \in AuthApis \cup Unhandled \cup Planned
    /\ r.api \in OverTopics => IsList(r.topics)
    /\ r.api \in OverResources => IsList(r.resources)
    /\ r.api \in OverGroups => IsList(r.groups)
    /\ r.api = "CreateAcls" => IsList(r.creations)
    /\ r.api = "DeleteAcls" => IsList(r.filters)

\* Requests are what decode_request returns.
ASSUME RequestsAreDecoded ==
    \A c \in Connections, sasl \in SaslRequired : \A r \in Sends(c, sasl) : Decoded(r)

------------------------------------------------------------------------------
(* A connection's task.  work[c].at is "closed", "idle", "answering" (the   *)
(* answer is being written) or "handling"; while handling, group and need   *)
(* are the positions in the plan, fault is what check_fault said, made are  *)
(* the calls made and granted the names set aside for the last one.         *)
(* allowed and refused are history: the needs of the request that were      *)
(* permitted, and those that were not, at some time since it was read.      *)

Closed == [at |-> "closed"]
Idle == [at |-> "idle"]
Answering == [at |-> "answering"]

Handling(c) == work[c].at = "handling"

\* The plan of the request under way, with the fault it was given.
CurrentPlan(w) == Plan(w.req, w.fault = "yes")

FaultTargets == {"Produce", "Fetch"}

\* Every need the plan of a request asks for.
NeedsOf(r) == UNION {ToSet(g.needs) : g \in ToSet(Plan(r, FALSE))}

\* The history of a request, now that the bindings are bs.
Observed(w, bs) ==
    LET now == {n \in NeedsOf(w.req) : Permitted(ToSet(bs), w.principal, Host, n)}
    IN [w EXCEPT !.allowed = @ \cup now, !.refused = @ \cup (NeedsOf(w.req) \ now)]

Init ==
    /\ require_sasl \in SaslRequired
    /\ session = [c \in Connections |-> Unauthenticated]
    /\ work = [c \in Connections |-> Closed]
    /\ bindings = <<>>
    /\ rules = <<>>
    /\ injected = 0
    /\ proven = [c \in Connections |-> NoUser]

\* A client connects.
Connect(c) ==
    /\ work[c] = Closed
    /\ work' = [work EXCEPT ![c] = Idle]
    /\ UNCHANGED <<require_sasl, session, bindings, rules, injected, proven>>

\* The task of a connection ends, and its session with it.
Close(c) ==
    /\ work' = [work EXCEPT ![c] = Closed]
    /\ session' = [session EXCEPT ![c] = Unauthenticated]
    /\ proven' = [proven EXCEPT ![c] = NoUser]
    /\ UNCHANGED <<require_sasl, bindings, rules, injected>>

\* The client hangs up, or its next frame has a bad length or does not decode.
Hangup(c) ==
    /\ work[c] = Idle
    /\ Close(c)

Gate(c, r) ==
    \/ ~require_sasl
    \/ session[c].state = "Authenticated"
    \/ r.api \in AuthApis

\* The gate turns a request away, or no arm handles its API: the connection
\* ends without an answer.
Reject(c, r) ==
    /\ work[c] = Idle
    /\ ~Gate(c, r) \/ r.api \in Unhandled
    /\ Close(c)

ApiVersions(c, r) ==
    /\ work[c] = Idle /\ r.api = "ApiVersions"
    /\ work' = [work EXCEPT ![c] = Answering]
    /\ UNCHANGED <<require_sasl, session, bindings, rules, injected, proven>>

SaslHandshake(c, r) ==
    /\ work[c] = Idle /\ r.api = "SaslHandshake"
    /\ session' = [session EXCEPT ![c] = Handshake(@, r.mechanism)]
    /\ proven' = [proven EXCEPT ![c] = IF r.mechanism \in Enabled THEN NoUser ELSE @]
    /\ work' = [work EXCEPT ![c] = Answering]
    /\ UNCHANGED <<require_sasl, bindings, rules, injected>>

\* Whose password the bytes show to a connection in this state.
Shows(s, bytes) ==
    CASE s.state = "HandshakeReceived" /\ s.mechanism = "PLAIN" /\ bytes.kind = "plain" ->
            {u \in DOMAIN Passwords : bytes.user = u /\ bytes.password = Passwords[u]}
      [] s.state = "ScramChallengeSent" /\ bytes.kind = "final" ->
            {u \in DOMAIN Passwords : /\ s.username = u /\ bytes.nonce = "pending"
                                      /\ bytes.password = Passwords[u]}
      [] OTHER -> {}

SaslAuthenticate(c, r) ==
    /\ work[c] = Idle /\ r.api = "SaslAuthenticate"
    /\ session' = [session EXCEPT ![c] = Authenticate(@, r.bytes)]
    /\ proven' = [proven EXCEPT ![c] = IF Shows(session[c], r.bytes) = {} THEN @
                                       ELSE CHOOSE u \in Shows(session[c], r.bytes) : TRUE]
    /\ work' = [work EXCEPT ![c] = Answering]
    /\ UNCHANGED <<require_sasl, bindings, rules, injected>>

Principal(s) == IF s.state = "Authenticated" THEN <<s.principal>> ELSE <<"ANONYMOUS">>

\* Any other request: the handler starts on its plan.
Receive(c, r) ==
    /\ work[c] = Idle
    /\ r.api \notin AuthApis \cup Unhandled
    /\ Gate(c, r)
    /\ r.api \in FaultTargets => injected < MaxInjected                            \* bound
    /\ r.api = "CreateAcls" => Len(bindings) + Len(r.creations) <= MaxBindings     \* bound
    /\ work' = [work EXCEPT ![c] =
           Observed([at |-> "handling", req |-> r, principal |-> Principal(session[c]),
                     group |-> 1, need |-> 1, made |-> {}, granted |-> {},
                     fault |-> IF r.api \in FaultTargets THEN "unknown" ELSE "no",
                     allowed |-> {}, refused |-> {}], bindings)]
    /\ UNCHANGED <<require_sasl, session, bindings, rules, injected, proven>>

\* Produce and Fetch ask once, before their first topic, whether to fail.
CheckFault(c) ==
    /\ Handling(c) /\ work[c].fault = "unknown"
    /\ LET f == check_fault(rules, injected, work[c].req.api)
       IN /\ work' = [work EXCEPT ![c].fault = IF f.fault THEN "yes" ELSE "no"]
          /\ injected' = f.injected
    /\ UNCHANGED <<require_sasl, session, bindings, rules, proven>>

\* The next check of the group under way: the first need that is granted
\* lets the group through, the last that is not drops it.
\* Mutant: a request that was let through once is not checked again.
Authorize_OncePerRequest(c) ==
    LET w == work[c]
        g == CurrentPlan(w)[w.group]
    IN /\ Handling(c) /\ w.fault # "unknown"
       /\ w.group <= Len(CurrentPlan(w))
       /\ w.need \in DOMAIN g.needs
       /\ work' = [work EXCEPT ![c] =
             IF w.made # {} \/ authorize(bindings, w.principal, Host, g.needs[w.need])
             THEN [w EXCEPT !.need = 0]
             ELSE IF w.need < Len(g.needs) THEN [w EXCEPT !.need = @ + 1]
             ELSE [w EXCEPT !.group = @ + 1, !.need = 1]]
       /\ UNCHANGED <<require_sasl, session, bindings, rules, injected, proven>>

\* Mutant: every alternative has to be granted.
Authorize_AllNeeds(c) ==
    LET w == work[c]
        g == CurrentPlan(w)[w.group]
    IN /\ Handling(c) /\ w.fault # "unknown"
       /\ w.group <= Len(CurrentPlan(w))
       /\ w.need \in DOMAIN g.needs
       /\ work' = [work EXCEPT ![c] =
             IF ~authorize(bindings, w.principal, Host, g.needs[w.need])
             THEN [w EXCEPT !.group = @ + 1, !.need = 1]
             ELSE IF w.need < Len(g.needs) THEN [w EXCEPT !.need = @ + 1]
             ELSE [w EXCEPT !.need = 0]]
       /\ UNCHANGED <<require_sasl, session, bindings, rules, injected, proven>>

Authorize(c) ==
    LET w == work[c]
        g == CurrentPlan(w)[w.group]
    IN /\ Handling(c) /\ w.fault # "unknown"
       /\ w.group <= Len(CurrentPlan(w))
       /\ w.need \in DOMAIN g.needs
       /\ work' = [work EXCEPT ![c] =
             IF authorize(bindings, w.principal, Host, g.needs[w.need])
             THEN [w EXCEPT !.need = 0]
             ELSE IF w.need < Len(g.needs) THEN [w EXCEPT !.need = @ + 1]
             ELSE [w EXCEPT !.group = @ + 1, !.need = 1]]
       /\ UNCHANGED <<require_sasl, session, bindings, rules, injected, proven>>

\* What the calls of a request leave the bindings as.
Rebound(bs, r) ==
    CASE r.api = "CreateAcls" -> create_acls(bs, r.creations)
      [] r.api = "DeleteAcls" -> delete_acls(bs, r.filters).bindings
      [] OTHER -> bs

\* A task once the calls of its group are made.
Served(w) ==
    LET calls == CurrentPlan(w)[w.group].calls
        granted == {k.on : k \in {k \in calls : k.op = "grant"}}
        made == {k \in calls : k.op # "grant" /\ ~OnGranted(k)}
                \cup UNION {{Call(k.op, n) : n \in w.granted} : k \in {k \in calls : OnGranted(k)}}
    IN [w EXCEPT !.group = @ + 1, !.need = 1, !.made = @ \cup made, !.granted = @ \cup granted]

\* The calls of a group that was let through.
Act(c) ==
    LET w == work[c]
        g == CurrentPlan(w)[w.group]
    IN /\ Handling(c) /\ w.fault # "unknown"
       /\ w.group <= Len(CurrentPlan(w))
       /\ w.need = 0 \/ g.needs = <<>>
       /\ bindings' = Rebound(bindings, w.req)
       /\ work' = [d \in Connections |->
             LET v == IF d = c THEN Served(w) ELSE work[d]
             IN IF v.at = "handling" THEN Observed(v, bindings') ELSE v]
       /\ UNCHANGED <<require_sasl, session, rules, injected, proven>>

\* The answer is complete: it is written; after a failed authentication, or
\* when writing fails, the connection is closed.
Complete(c) ==
    \/ work[c] = Answering
    \/ Handling(c) /\ work[c].fault # "unknown" /\ work[c].group > Len(CurrentPlan(work[c]))

Answer(c) ==
    /\ Complete(c)
    /\ session[c] # Failed
    /\ work' = [work EXCEPT ![c] = Idle]
    /\ UNCHANGED <<require_sasl, session, bindings, rules, injected, proven>>

AnswerAndClose(c) ==
    /\ Complete(c)
    /\ Close(c)

\* The administrator's requests.
AddRule(rule) ==
    /\ Len(add_rule(rules, rule)) <= MaxRules
    /\ rules' = add_rule(rules, rule)
    /\ UNCHANGED <<require_sasl, session, work, bindings, injected, proven>>

ClearRules ==
    /\ rules' = <<>>
    /\ UNCHANGED <<require_sasl, session, work, bindings, injected, proven>>

Task(c) ==
    \/ \E r \in Sends(c, require_sasl) : \/ Reject(c, r) \/ ApiVersions(c, r)
                           \/ SaslHandshake(c, r) \/ SaslAuthenticate(c, r)
                           \/ Receive(c, r)
    \/ CheckFault(c) \/ Authorize(c) \/ Act(c) \/ Answer(c) \/ AnswerAndClose(c)

Next ==
    \/ \E c \in Connections : Connect(c) \/ Hangup(c) \/ Task(c)
    \/ \E rule \in ChaosRules : AddRule(rule)
    \/ ClearRules

Spec == Init /\ [][Next]_vars

------------------------------------------------------------------------------
(* Properties. *)

Users == DOMAIN Passwords

\* A session names a user only if a client did, and a task that handles a
\* request stands inside its plan.
TypeOK ==
    \A c \in Connections :
        /\ session[c] \in Sessions(UserNames)
        /\ proven[c] \in Users \cup {NoUser}
        /\ Handling(c) => /\ work[c].group \in 1 .. Len(CurrentPlan(work[c])) + 1
                          /\ work[c].need \in 0 .. 2

\* A connection acts for a user only while the password of that user has been
\* shown on it since its last handshake; a broker that requires SASL serves
\* nothing else.
ActsForProvenUser ==
    \A c \in Connections :
        /\ session[c].state = "Authenticated" => session[c].principal = proven[c]
        /\ Handling(c) => \/ work[c].principal = <<proven[c]>>
                          \/ ~require_sasl /\ work[c].principal = <<"ANONYMOUS">>

\* The permissions the README asks for before an API makes a call; any of them
\* will do.  (It does not list FindCoordinator, which is held to what its arm
\* asks.)
Requires(api, k) ==
    CASE api = "Produce" -> {OnTopic(k.on[1], "Write")}
      [] api = "Fetch" -> {OnTopic(k.on[1], "Read")}
      [] api \in {"Metadata", "ListOffsets"} -> {OnTopic(k.on, "Describe")}
      [] k.op = "find_coordinator" /\ k.on[1] = 0 -> {OnGroup(k.on[2], "Describe")}
      [] k.op = "find_coordinator" /\ k.on[1] = 1 -> {OnTxn(k.on[2], "Describe")}
      [] api \in {"OffsetCommit", "Heartbeat", "LeaveGroup"} -> {OnGroup(k.on, "Read")}
      [] api = "OffsetFetch" -> {OnGroup(k.on, "Describe")}
      [] api \in {"InitProducerId", "AddPartitionsToTxn", "AddOffsetsToTxn", "EndTxn"}
         /\ k.on # <<>> -> {OnTxn(k.on, "Write")}
      [] api \in {"DescribeAcls", "ListGroups"} -> {OnCluster("Describe")}
      [] api \in {"CreateAcls", "DeleteAcls"} -> {OnCluster("Alter")}
      [] api = "CreateTopics" -> {OnTopic(k.on, "Create"), OnCluster("Create")}
      [] api \in {"DeleteTopics", "DeleteRecords"} -> {OnTopic(k.on, "Delete"), OnCluster("Delete")}
      [] api = "CreatePartitions" -> {OnTopic(k.on, "Alter"), OnCluster("Alter")}
      [] api = "DescribeGroups" -> {OnGroup(k.on, "Describe")}
      [] api = "DeleteGroups" -> {OnGroup(k.on, "Delete")}
      [] api \in {"DescribeConfigs", "AlterConfigs"} ->
            {IF k.op = "describe_broker_configs" THEN Need("Broker", k.on, api)
                                                 ELSE OnTopic(k.on, api)}
      [] OTHER -> {}

\* Where the handlers depart from the README: they take a permission on the
\* cluster for one on a group, on a topic's configuration or on the broker
\* (which no binding can name), and Metadata creates topics before it asks.
AlsoAccepts(api, k) ==
    CASE api = "DescribeGroups" -> {OnCluster("Describe")}
      [] api = "DeleteGroups" -> {OnCluster("Delete")}
      [] api \in {"DescribeConfigs", "AlterConfigs"} -> {OnCluster(api)}
      [] OTHER -> {}
NeverAsks(api, k) == api = "Metadata" /\ k.op = "auto_create"

Accepts(api, k) ==
    IF NeverAsks(api, k) THEN {} ELSE Requires(api, k) \cup AlsoAccepts(api, k)

\* Every call a handler has made was permitted, to the principal of the
\* request, at some time since the request was read: a revocation that was
\* answered before a request is sent binds all of its parts.  The permission is
\* one the README asks for or a departure AlsoAccepts names; only the automatic
\* creation of topics by Metadata goes unasked.
CallsWerePermitted ==
    \A c \in Connections : Handling(c) =>
        \A k \in work[c].made :
            LET need == Accepts(work[c].req.api, k)
            IN need = {} \/ need \cap work[c].allowed # {}

\* The README's rule to the letter, which the departures break.
CallsAsDocumented ==
    \A c \in Connections : Handling(c) =>
        \A k \in work[c].made :
            LET need == Requires(work[c].req.api, k)
            IN need = {} \/ need \cap work[c].allowed # {}

\* A complete answer leaves out only calls whose permissions were refused, at
\* some time since the request was read: nobody is turned away while they hold
\* a permission throughout.
PermittedIsServed ==
    \A c \in Connections : Handling(c) /\ Complete(c) =>
        \A g \in ToSet(CurrentPlan(work[c])) : \A k \in g.calls :
            \/ k.op = "grant" \/ OnGranted(k)
            \/ k \in work[c].made
            \/ ToSet(g.needs) \subseteq work[c].refused

\* A Produce or Fetch that a fault rule hits fails for all of its partitions,
\* and one it spares for none, although rules come and go while it runs.
FaultIsWhole ==
    \A c \in Connections : Handling(c) =>
        LET touched == {k.on : k \in {k \in work[c].made : k.op = "get_or_create_partition"}}
            served == {k.on : k \in {k \in work[c].made : k.op \in {"append_records", "read_records"}}}
            good == {p \in touched : work[c].req.api = "Fetch" \/
                        \A t \in ToSet(work[c].req.topics) :
                            t.name = p[1] /\ p[2] \in DOMAIN t.partitions
                                => t.partitions[p[2]] = "good"}
        IN work[c].req.api \in FaultTargets => served = {} \/ good \subseteq served

\* The order in which bindings were created does not matter: authorize, which
\* scans them in order and stops at a Deny, decides by the set of bindings.
AuthorizeMatchesRules ==
    \A c \in Connections : Handling(c) =>
        \A n \in NeedsOf(work[c].req) :
            authorize(bindings, work[c].principal, Host, n)
                <=> Permitted(ToSet(bindings), work[c].principal, Host, n)

\* A DeleteAcls removes what a DescribeAcls with the same filter lists, and
\* nothing else; listing again finds nothing.
DeleteMatchesDescribe ==
    \A f \in Filters :
        LET d == delete_acls(bindings, <<f>>)
        IN /\ d.removed[1] = describe_acls(bindings, f)
           /\ describe_acls(d.bindings, f) = <<>>
           /\ ToSet(d.bindings) = ToSet(bindings) \ ToSet(d.removed[1])
==============================================================================
