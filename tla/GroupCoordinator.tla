-------------------------- MODULE GroupCoordinator --------------------------
(***************************************************************************)
(* The consumer group coordinator (crates/oxidemq-broker/src/              *)
(* coordinator.rs) and the clients of one group.  Every call takes the     *)
(* groups lock once, so a handler is one step; what interleaves are the    *)
(* requests.  A SyncGroup travels on its own: its sender may time out and  *)
(* leave, or join again, before the coordinator handles it.                *)
(*                                                                         *)
(* Member ids are numbers: the coordinator forms a new one from its        *)
(* counter.  A client id and an assignment's bytes play no part; an        *)
(* assignment is present or not.                                           *)
(*                                                                         *)
(* A definition D_Variant, just before D, is D with a plausible mistake.   *)
(***************************************************************************)
EXTENDS Naturals, FiniteSets

CONSTANTS
    Clients,        \* consumers of the group
    TopicPartitions,
    Offsets,        \* offsets they commit
    MaxGeneration,  \* bound: joins per life of the group
    MaxMember,      \* bound: member ids handed out
    MaxSyncs,       \* bound: SyncGroup requests under way
    MaxResets       \* bound: administrative resets

ASSUME ConstantsAssumption ==
    {MaxGeneration, MaxMember, MaxSyncs, MaxResets} \subseteq Nat

VARIABLES
    group,       \* the ConsumerGroup, or NoGroup
    nextMember,  \* next_member_counter
    client,      \* what each client knows
    syncs,       \* SyncGroup requests under way
    resets       \* resets so far

vars == <<group, nextMember, client, syncs, resets>>

NoMember == 0
NoGroup == [exists |-> FALSE]
NewGroup ==
    [exists |-> TRUE, state |-> "Empty", generation |-> 0, leader |-> NoMember,
     members |-> << >>, offsets |-> << >>]

Members == DOMAIN group.members
Put(f, k, v) == [x \in DOMAIN f \cup {k} |-> IF x = k THEN v ELSE f[x]]
Drop(f, k) == [x \in DOMAIN f \ {k} |-> f[x]]

(* groups.entry(group_id).or_insert_with(ConsumerGroup::new) *)
OrNew == IF group.exists THEN group ELSE NewGroup

Init ==
    /\ group = NoGroup
    /\ nextMember = 1
    /\ client = [c \in Clients |-> [pc |-> "out", member |-> NoMember,
                                    generation |-> 0, leader |-> NoMember,
                                    assigned |-> FALSE]]
    /\ syncs = {}
    /\ resets = 0

-----------------------------------------------------------------------------
LeaderOnJoin(g, m) == IF DOMAIN g.members = {} THEN m ELSE g.leader

Joined_SameGeneration(g, m) ==
    [g EXCEPT !.leader = LeaderOnJoin(g, m),
              !.members = Put(@, m, FALSE),
              !.state = "CompletingRebalance"]

Joined(g, m) ==
    [g EXCEPT !.leader = LeaderOnJoin(g, m),
              !.members = Put(@, m, FALSE),
              !.generation = @ + 1,
              !.state = "CompletingRebalance"]

CounterAfter(new) == IF new THEN nextMember + 1 ELSE nextMember

(* A client joins with its member id, or without one to be given one. *)
JoinGroup(c) ==
    /\ client[c].pc \in {"out", "joined", "syncing", "synced"}
    /\ OrNew.generation < MaxGeneration
    /\ LET new == client[c].member = NoMember
           m == IF new THEN nextMember ELSE client[c].member
       IN  /\ new => nextMember <= MaxMember
           /\ nextMember' = CounterAfter(new)
           /\ group' = Joined(OrNew, m)
           /\ client' = [client EXCEPT ![c] =
                  [pc |-> "joined", member |-> m, generation |-> group'.generation,
                   leader |-> group'.leader, assigned |-> FALSE]]
    /\ UNCHANGED <<syncs, resets>>

(* The leader sends an assignment for every member, a follower sends none. *)
SendSync(c) ==
    /\ client[c].pc = "joined"
    /\ Cardinality(syncs) < MaxSyncs
    /\ client' = [client EXCEPT ![c].pc = "syncing"]
    /\ syncs' = syncs \cup
          {[from |-> c, member |-> client[c].member, generation |-> client[c].generation,
            assigns |-> client[c].member = client[c].leader]}
    /\ UNCHANGED <<group, nextMember, resets>>

SyncAccepted(s) == group.exists /\ group.generation = s.generation

Assigned(g) == [g EXCEPT !.members = [m \in DOMAIN g.members |-> TRUE],
                         !.state = "Stable"]

AwaitsSync(s) ==
    /\ client[s.from].pc = "syncing"
    /\ client[s.from].member = s.member
    /\ client[s.from].generation = s.generation

(* A refused client goes back to join with the member id it has. *)
SyncGroup(s) ==
    /\ s \in syncs
    /\ syncs' = syncs \ {s}
    /\ group' = IF SyncAccepted(s) /\ s.assigns THEN Assigned(group) ELSE group
    /\ client' = IF ~AwaitsSync(s) THEN client
                 ELSE IF SyncAccepted(s)
                 THEN [client EXCEPT ![s.from].pc = "synced",
                          ![s.from].assigned = s.member \in Members /\ group'.members[s.member]]
                 ELSE [client EXCEPT ![s.from].pc = "out"]
    /\ UNCHANGED <<nextMember, resets>>

(* Heartbeat changes nothing; a client it refuses joins again, without its *)
(* member id when that is unknown.                                         *)
Heartbeat(c) ==
    /\ client[c].pc = "synced"
    /\ \/ /\ group.exists => group.generation # client[c].generation
          /\ client' = [client EXCEPT ![c].pc = "out"]
       \/ /\ group.exists
          /\ group.generation = client[c].generation
          /\ client[c].member \notin Members
          /\ client' = [client EXCEPT ![c].pc = "out", ![c].member = NoMember]
    /\ UNCHANGED <<group, nextMember, syncs, resets>>

LeaderAfter_Kept(m) == {group.leader}

(* group.members.keys().next(): any member that remains. *)
LeaderAfter(m) ==
    IF Members \ {m} = {} THEN {NoMember}
    ELSE IF group.leader = m THEN Members \ {m} ELSE {group.leader}

StateAfterLeave(m) ==
    IF Members \ {m} = {} THEN "Empty"
    ELSE IF group.leader = m THEN "PreparingRebalance" ELSE group.state

(* A client leaves, with or without an answer to its SyncGroup. *)
LeaveGroup(c) ==
    /\ client[c].member # NoMember
    /\ \/ /\ group.exists
          /\ \E l \in LeaderAfter(client[c].member) :
                group' = [group EXCEPT !.members = Drop(@, client[c].member),
                                       !.leader = l,
                                       !.state = StateAfterLeave(client[c].member)]
       \/ ~group.exists /\ UNCHANGED group
    /\ client' = [client EXCEPT ![c].pc = "out", ![c].member = NoMember]
    /\ UNCHANGED <<nextMember, syncs, resets>>

(* OffsetCommit checks neither member nor generation. *)
CommitOffset(tp, offset) ==
    /\ group' = [OrNew EXCEPT !.offsets = Put(@, tp, offset)]
    /\ UNCHANGED <<nextMember, client, syncs, resets>>

Deletable_IfNotStable == group.state # "Stable"

(* delete_groups refuses a group that has members and a live state. *)
Deletable == Members = {} \/ group.state \in {"Empty", "Dead"}

DeleteGroups ==
    /\ group.exists
    /\ Deletable
    /\ group' = NoGroup
    /\ UNCHANGED <<nextMember, client, syncs, resets>>

Reset ==
    /\ resets < MaxResets
    /\ group' = NoGroup
    /\ resets' = resets + 1
    /\ UNCHANGED <<nextMember, client, syncs>>

Next ==
    \/ \E c \in Clients : JoinGroup(c) \/ SendSync(c) \/ Heartbeat(c) \/ LeaveGroup(c)
    \/ \E s \in syncs : SyncGroup(s)
    \/ \E tp \in TopicPartitions, offset \in Offsets : CommitOffset(tp, offset)
    \/ DeleteGroups
    \/ Reset

Spec == Init /\ [][Next]_vars

-----------------------------------------------------------------------------
(* Properties.                                                             *)

(* The group's fields hold what ConsumerGroup allows, and no member id is  *)
(* in use that the counter has not handed out.                             *)
TypeOK ==
    /\ group.exists =>
          /\ group.state \in {"Empty", "PreparingRebalance", "CompletingRebalance",
                              "Stable", "Dead"}
          /\ group.generation \in 0..MaxGeneration
          /\ Members \subseteq 1..(nextMember - 1)
          /\ group.leader \in 0..(nextMember - 1)
          /\ \A m \in Members : group.members[m] \in BOOLEAN
          /\ DOMAIN group.offsets \subseteq TopicPartitions
    /\ nextMember \in 1..(MaxMember + 1)
    /\ \A c \in Clients : client[c].pc \in {"out", "joined", "syncing", "synced"}
    /\ resets \in 0..MaxResets

(* handle_join_group and handle_leave_group keep a leader that is a member *)
(* whenever there are members, and none otherwise.                         *)
LeaderIsMember ==
    group.exists =>
        IF Members = {} THEN group.leader = NoMember ELSE group.leader \in Members

(* DeleteGroups' protection: committed offsets and members vanish only by  *)
(* a reset or by deleting a group that has no members.                     *)
MembersProtected ==
    [][group.exists /\ ~group'.exists => resets' # resets \/ Members = {}]_vars

(* handle_join_group: every join starts a generation of its own, also when *)
(* the group was deleted or reset in between, so of the members at most    *)
(* one passes the generation checks of SyncGroup and Heartbeat.            *)
OneHolderOfGeneration ==
    group.exists =>
        \A c, d \in Clients :
            /\ {client[c].member, client[d].member} \subseteq Members
            /\ {client[c].generation, client[d].generation} = {group.generation}
            => c = d

(* delete_groups: "Only groups in Empty or Dead state can be deleted."     *)
DeleteOnlyEmpty ==
    [][group.exists /\ ~group'.exists =>
          resets' # resets \/ group.state \in {"Empty", "Dead"}]_vars

(* handle_sync_group: "Distributes partition assignments computed by group *)
(* leader": a client whose SyncGroup succeeded has its assignment.         *)
SyncedIsAssigned ==
    \A c \in Clients : client[c].pc = "synced" => client[c].assigned

=============================================================================
