------------------------ MODULE GroupCoordinatorProofs ------------------------
(***************************************************************************)
(* Proofs that the consumer group coordinator keeps a leader among its     *)
(* members, protects them from deletion and lets one client at most hold   *)
(* the current generation, for any number of clients, joins and resets.    *)
(***************************************************************************)
EXTENDS GroupCoordinator, TLAPS

States == {"Empty", "PreparingRebalance", "CompletingRebalance", "Stable", "Dead"}

Fields == {"exists", "state", "generation", "leader", "members", "offsets"}

\* What a group is: offsets play no part.
GroupOK(g, next) ==
    g.exists =>
        /\ Fields \subseteq DOMAIN g
        /\ g.state \in States
        /\ g.generation \in Nat
        /\ DOMAIN g.members \subseteq 1 .. (next - 1)
        /\ \A m \in DOMAIN g.members : g.members[m] \in BOOLEAN
        /\ IF DOMAIN g.members = {} THEN g.leader = NoMember ELSE g.leader \in DOMAIN g.members
        /\ g.state \in {"Empty", "Dead"} => DOMAIN g.members = {}

\* What the clients know: no two have the same member id, and a member has a
\* generation that the group has reached.
ClientsOK ==
    /\ client \in [Clients -> [pc : {"out", "joined", "syncing", "synced"}, member : Nat,
                               generation : Nat, leader : Nat, assigned : BOOLEAN]]
    /\ \A c \in Clients : client[c].member < nextMember
    /\ \A c, d \in Clients : client[c].member = client[d].member =>
                                 c = d \/ client[c].member = NoMember
    /\ group.exists =>
           \A c \in Clients : client[c].member \in Members =>
                                  client[c].generation <= group.generation

GroupInv ==
    /\ nextMember \in Nat \ {0}
    /\ group.exists \in BOOLEAN
    /\ GroupOK(group, nextMember)
    /\ ClientsOK
    /\ \A s \in syncs : s.from \in Clients
    /\ OneHolderOfGeneration

LEMMA InitInv == Init => GroupInv
  <1> SUFFICES ASSUME Init PROVE GroupInv
    OBVIOUS
  <1>1. ~group.exists /\ group.exists \in BOOLEAN
    BY DEF Init, NoGroup
  <1>2. ClientsOK
    BY <1>1 DEF Init, ClientsOK, NoMember
  <1> QED
    BY <1>1, <1>2 DEF Init, GroupInv, GroupOK, OneHolderOfGeneration

\* The group a call finds, or makes.
LEMMA OrNewOK ==
    ASSUME GroupInv
    PROVE  /\ OrNew.exists /\ OrNew.exists \in BOOLEAN
           /\ GroupOK(OrNew, nextMember)
           /\ group.exists => OrNew = group
           /\ ~group.exists => DOMAIN OrNew.members = {} /\ OrNew.generation = 0
  <1>1. CASE group.exists
    BY <1>1, Zenon DEF OrNew, GroupInv
  <1>2. CASE ~group.exists
    <2>1. OrNew = NewGroup
      BY <1>2 DEF OrNew
    <2>2. DOMAIN NewGroup.members = {}
      BY DEF NewGroup
    <2>3. /\ NewGroup.exists = TRUE /\ NewGroup.state = "Empty" /\ NewGroup.generation = 0
          /\ NewGroup.leader = NoMember
          /\ Fields \subseteq DOMAIN NewGroup
      BY DEF NewGroup, Fields
    <2>4. OrNew.exists /\ OrNew.exists \in BOOLEAN
      BY <2>1, <2>3, Zenon
    <2>5. GroupOK(NewGroup, nextMember)
      BY <2>2, <2>3 DEF GroupOK, States
    <2>6. DOMAIN OrNew.members = {} /\ OrNew.generation = 0
      BY <2>1, <2>2, <2>3
    <2> QED
      BY <1>2, <2>1, <2>4, <2>5, <2>6, Zenon
  <1> QED
    BY <1>1, <1>2 DEF GroupInv

\* A group after a join, field by field.
LEMMA JoinedIs ==
    ASSUME NEW g, NEW m, Fields \subseteq DOMAIN g
    PROVE  /\ DOMAIN Joined(g, m) = DOMAIN g
           /\ Joined(g, m).exists = g.exists
           /\ Joined(g, m).state = "CompletingRebalance"
           /\ Joined(g, m).generation = g.generation + 1
           /\ Joined(g, m).leader = LeaderOnJoin(g, m)
           /\ Joined(g, m).members = Put(g.members, m, FALSE)
  BY DEF Joined, Fields

\* A join starts a generation that no other client has.
LEMMA JoinInv ==
    ASSUME GroupInv, NEW c \in Clients, JoinGroup(c)
    PROVE  GroupInv' /\ group'.exists
  <1> DEFINE new == client[c].member = NoMember
             m == IF new THEN nextMember ELSE client[c].member
             g == OrNew
  <1>1. /\ nextMember' = CounterAfter(new)
        /\ group' = Joined(g, m)
        /\ client' = [client EXCEPT ![c] =
                  [pc |-> "joined", member |-> m, generation |-> group'.generation,
                   leader |-> group'.leader, assigned |-> FALSE]]
        /\ syncs' = syncs
    BY Zenon DEF JoinGroup
  <1>2. /\ nextMember \in Nat \ {0} /\ nextMember' \in Nat \ {0}
        /\ nextMember <= nextMember' /\ m \in Nat \ {0} /\ m < nextMember'
        /\ new => nextMember' = nextMember + 1
    BY <1>1 DEF CounterAfter, GroupInv, ClientsOK, NoMember
  <1>3. /\ g.exists /\ g.exists \in BOOLEAN /\ GroupOK(g, nextMember)
        /\ group.exists => g = group
        /\ ~group.exists => DOMAIN g.members = {} /\ g.generation = 0
    BY OrNewOK, Zenon
  <1>4. Fields \subseteq DOMAIN g
    BY <1>3, Zenon DEF GroupOK
  <1>5. /\ Fields \subseteq DOMAIN group'
        /\ group'.exists = g.exists
        /\ group'.state = "CompletingRebalance"
        /\ group'.generation = g.generation + 1
        /\ group'.leader = LeaderOnJoin(g, m)
        /\ group'.members = Put(g.members, m, FALSE)
    <2> HIDE DEF g, m
    <2> QED
      BY <1>1, <1>4, JoinedIs, Zenon
  <1>6. /\ DOMAIN group'.members = DOMAIN g.members \cup {m}
        /\ \A x \in DOMAIN group'.members : group'.members[x] \in BOOLEAN
    BY <1>3, <1>5, Zenon DEF Put, GroupOK
  <1>7. group'.leader \in DOMAIN group'.members
    <2>1. group'.leader = LeaderOnJoin(g, m)
      BY <1>5
    <2>2. DOMAIN g.members # {} => g.leader \in DOMAIN g.members
      BY <1>3 DEF GroupOK
    <2> QED
      BY <2>1, <2>2, <1>6 DEF LeaderOnJoin
  <1>8. g.generation \in Nat /\ DOMAIN g.members \subseteq 1 .. (nextMember - 1)
    BY <1>3 DEF GroupOK
  <1>9. GroupOK(group', nextMember')
    <2>1. group'.state \in States /\ group'.state \notin {"Empty", "Dead"}
      BY <1>5 DEF States
    <2>2. group'.generation \in Nat
      BY <1>5, <1>8
    <2>3. DOMAIN group'.members \subseteq 1 .. (nextMember' - 1)
      BY <1>2, <1>6, <1>8
    <2>4. DOMAIN group'.members # {}
      BY <1>7
    <2> QED
      BY <2>1, <2>2, <2>3, <2>4, <1>5, <1>6, <1>7, Zenon DEF GroupOK
  <1>10. \A d \in Clients \ {c} : client'[d] = client[d] /\ client[d].member # m
    BY <1>1, <1>2 DEF GroupInv, ClientsOK, NoMember
  <1>11. /\ group'.exists /\ group'.exists \in BOOLEAN
         /\ group'.generation \in Nat /\ g.generation < group'.generation
    <2>1. group'.exists /\ group'.exists \in BOOLEAN
      BY <1>3, <1>5, Zenon
    <2>2. group'.generation \in Nat /\ g.generation < group'.generation
      BY <1>5, <1>8
    <2> QED
      BY <2>1, <2>2
  <1>12. /\ client'[c] = [pc |-> "joined", member |-> m, generation |-> group'.generation,
                          leader |-> group'.leader, assigned |-> FALSE]
         /\ group'.leader \in Nat
    <2>1. client \in [Clients -> [pc : {"out", "joined", "syncing", "synced"}, member : Nat,
                               generation : Nat, leader : Nat, assigned : BOOLEAN]]
      BY DEF GroupInv, ClientsOK
    <2>2. group'.leader \in DOMAIN g.members \cup {m}
      BY <1>6, <1>7
    <2>3. group'.leader \in Nat
      BY <2>2, <1>8, <1>2
    <2> HIDE DEF g, m
    <2> QED
      BY <1>1, <2>1, <2>3
  <1>13. \A d \in Clients \ {c} : client[d].member \in DOMAIN group'.members =>
                client[d].generation <= g.generation
    <2> SUFFICES ASSUME NEW d \in Clients \ {c}, client[d].member \in DOMAIN group'.members
                 PROVE  client[d].generation <= g.generation
      OBVIOUS
    <2>1. client[d].member \in DOMAIN g.members
      BY <1>6, <1>10
    <2> QED
      BY <2>1, <1>3 DEF GroupInv, ClientsOK, Members
  <1>14. ClientsOK'
    <2>1. client' \in [Clients -> [pc : {"out", "joined", "syncing", "synced"}, member : Nat,
                               generation : Nat, leader : Nat, assigned : BOOLEAN]]
      BY <1>1, <1>2, <1>12, <1>11 DEF GroupInv, ClientsOK
    <2>2. \A d \in Clients : client'[d].member < nextMember'
      BY <1>2, <1>10, <1>12 DEF GroupInv, ClientsOK
    <2>3. \A d, e \in Clients : client'[d].member = client'[e].member =>
                                 d = e \/ client'[d].member = NoMember
      BY <1>10, <1>12 DEF GroupInv, ClientsOK
    <2>4. \A d \in Clients : client'[d].member \in Members' =>
                                  client'[d].generation <= group'.generation
      <3> SUFFICES ASSUME NEW d \in Clients, client'[d].member \in DOMAIN group'.members
                   PROVE  client'[d].generation <= group'.generation
        BY DEF Members
      <3>1. CASE d = c
        BY <3>1, <1>12, <1>11
      <3>2. CASE d # c
        <4>1. client'[d] = client[d] /\ client[d].generation \in Nat
          BY <3>2, <1>10 DEF GroupInv, ClientsOK
        <4>2. client[d].generation <= g.generation
          BY <3>2, <4>1, <1>13
        <4> QED
          BY <4>1, <4>2, <1>8, <1>11
      <3> QED
        BY <3>1, <3>2
    <2> QED
      BY <2>1, <2>2, <2>3, <2>4 DEF ClientsOK
  <1>15. OneHolderOfGeneration'
    <2> SUFFICES ASSUME NEW d \in Clients \ {c}, client[d].member \in DOMAIN group'.members,
                        client[d].generation = group'.generation
                 PROVE  FALSE
      <3>1. ASSUME NEW d \in Clients, NEW e \in Clients, d # e,
                   client'[d].member \in DOMAIN group'.members,
                   client'[e].member \in DOMAIN group'.members,
                   client'[d].generation = group'.generation,
                   client'[e].generation = group'.generation
            PROVE  FALSE
        <4>1. CASE d # c
          BY <3>1, <4>1, <1>10
        <4>2. CASE e # c
          BY <3>1, <4>2, <1>10
        <4> QED
          BY <3>1, <4>1, <4>2
      <3>2. ASSUME NEW d \in Clients, NEW e \in Clients,
                   {client'[d].member, client'[e].member} \subseteq Members',
                   {client'[d].generation, client'[e].generation} = {group'.generation}
            PROVE  d = e
        BY <3>1, <3>2 DEF Members
      <3> QED
        BY <3>2, Zenon DEF OneHolderOfGeneration
    <2>1. client[d].generation <= g.generation /\ client[d].generation \in Nat
      BY <1>13 DEF GroupInv, ClientsOK
    <2> QED
      BY <2>1, <1>8, <1>11
  <1> QED
    BY <1>1, <1>2, <1>9, <1>14, <1>15, <1>11 DEF GroupInv

ClientType == [pc : {"out", "joined", "syncing", "synced"}, member : Nat, generation : Nat,
               leader : Nat, assigned : BOOLEAN]

\* Every other step keeps the generation, adds no member and gives no client a
\* member id, or leaves a group without members.
LEMMA ShrinkInv ==
    ASSUME GroupInv,
           nextMember' = nextMember,
           group'.exists \in BOOLEAN,
           GroupOK(group', nextMember),
           \A s \in syncs' : s.from \in Clients,
           group'.exists =>
               \/ DOMAIN group'.members = {}
               \/ /\ group.exists
                  /\ group'.generation = group.generation
                  /\ DOMAIN group'.members \subseteq DOMAIN group.members,
           client' \in [Clients -> ClientType],
           \A c \in Clients :
               /\ client'[c].generation = client[c].generation
               /\ client'[c].member = client[c].member \/ client'[c].member = NoMember
    PROVE  GroupInv'
  <1>1. /\ nextMember \in Nat \ {0}
        /\ client \in [Clients -> ClientType]
        /\ \A c \in Clients : client[c].member < nextMember
        /\ \A c, d \in Clients : client[c].member = client[d].member =>
                                     c = d \/ client[c].member = NoMember
    BY DEF GroupInv, ClientsOK, ClientType
  <1>2. \A c \in Clients : client'[c].member < nextMember'
    BY <1>1 DEF NoMember
  <1>3. \A c, d \in Clients : client'[c].member = client'[d].member =>
                                 c = d \/ client'[c].member = NoMember
    BY <1>1
  <1>4. ASSUME group'.exists, NEW c \in Clients, client'[c].member \in DOMAIN group'.members
        PROVE  /\ group.exists /\ group'.generation = group.generation
               /\ client[c].member \in DOMAIN group.members
    <2>1. /\ group.exists /\ group'.generation = group.generation
          /\ DOMAIN group'.members \subseteq DOMAIN group.members
      BY <1>4
    <2>2. NoMember \notin DOMAIN group'.members
      BY <1>4, <1>1 DEF GroupOK, NoMember
    <2>3. client'[c].member = client[c].member
      BY <1>4, <2>2
    <2> QED
      BY <1>4, <2>1, <2>3
  <1>5. ASSUME group'.exists
        PROVE  \A c \in Clients : client'[c].member \in Members' =>
                                      client'[c].generation <= group'.generation
    BY <1>4, <1>5 DEF Members, GroupInv, ClientsOK
  <1>6. ClientsOK'
    BY <1>2, <1>3, <1>5, Zenon DEF ClientsOK, ClientType
  <1>7. OneHolderOfGeneration'
    <2> SUFFICES ASSUME group'.exists, NEW c \in Clients, NEW d \in Clients,
                        {client'[c].member, client'[d].member} \subseteq DOMAIN group'.members,
                        {client'[c].generation, client'[d].generation} = {group'.generation}
                 PROVE  c = d
      BY Zenon DEF OneHolderOfGeneration, Members
    <2>1. /\ group.exists /\ group'.generation = group.generation
          /\ {client[c].member, client[d].member} \subseteq DOMAIN group.members
      BY <1>4
    <2>2. {client[c].generation, client[d].generation} = {group.generation}
      BY <2>1, Zenon
    <2> QED
      BY <2>1, <2>2, Zenon DEF GroupInv, OneHolderOfGeneration, Members
  <1> QED
    BY <1>1, <1>6, <1>7, Zenon DEF GroupInv

\* Sending a SyncGroup, and a heartbeat, change a client only.
LEMMA SendSyncInv ==
    ASSUME GroupInv, NEW c \in Clients, SendSync(c)
    PROVE  GroupInv'
  <1>1. client \in [Clients -> ClientType]
    BY DEF GroupInv, ClientsOK, ClientType
  <1>2. /\ group' = group /\ nextMember' = nextMember
        /\ client' = [client EXCEPT ![c].pc = "syncing"]
        /\ syncs' = syncs \cup
              {[from |-> c, member |-> client[c].member, generation |-> client[c].generation,
                assigns |-> client[c].member = client[c].leader]}
    BY Zenon DEF SendSync
  <1>3. \A s \in syncs' : s.from \in Clients
    BY <1>2 DEF GroupInv
  <1>4. client' \in [Clients -> ClientType]
    BY <1>1, <1>2 DEF ClientType
  <1>5. \A d \in Clients : client'[d].generation = client[d].generation
                           /\ client'[d].member = client[d].member
    BY <1>1, <1>2 DEF ClientType
  <1>6. group'.exists \in BOOLEAN /\ GroupOK(group', nextMember)
    BY <1>2, Zenon DEF GroupInv
  <1> QED
    BY <1>2, <1>3, <1>4, <1>5, <1>6, ShrinkInv

LEMMA HeartbeatInv ==
    ASSUME GroupInv, NEW c \in Clients, Heartbeat(c)
    PROVE  GroupInv'
  <1>1. client \in [Clients -> ClientType]
    BY DEF GroupInv, ClientsOK, ClientType
  <1>2. /\ group' = group /\ nextMember' = nextMember /\ syncs' = syncs
        /\ \/ client' = [client EXCEPT ![c].pc = "out"]
           \/ client' = [client EXCEPT ![c].pc = "out", ![c].member = NoMember]
    BY Zenon DEF Heartbeat
  <1>3. \A s \in syncs' : s.from \in Clients
    BY <1>2 DEF GroupInv
  <1>4. client' \in [Clients -> ClientType]
    BY <1>1, <1>2 DEF ClientType, NoMember
  <1>5. \A d \in Clients :
            /\ client'[d].generation = client[d].generation
            /\ client'[d].member = client[d].member \/ client'[d].member = NoMember
    BY <1>1, <1>2 DEF ClientType
  <1>6. group'.exists \in BOOLEAN /\ GroupOK(group', nextMember)
    BY <1>2, Zenon DEF GroupInv
  <1> QED
    BY <1>2, <1>3, <1>4, <1>5, <1>6, ShrinkInv

\* A SyncGroup assigns to the members there are.
LEMMA SyncGroupInv ==
    ASSUME GroupInv, NEW s \in syncs, SyncGroup(s)
    PROVE  GroupInv'
  <1>1. client \in [Clients -> ClientType] /\ s.from \in Clients
    BY DEF GroupInv, ClientsOK, ClientType
  <1>2. /\ nextMember' = nextMember /\ syncs' = syncs \ {s}
        /\ group' = IF SyncAccepted(s) /\ s.assigns THEN Assigned(group) ELSE group
    BY Zenon DEF SyncGroup
  <1>3. \A t \in syncs' : t.from \in Clients
    BY <1>2 DEF GroupInv
  <1>4. /\ group'.exists \in BOOLEAN /\ GroupOK(group', nextMember)
        /\ group'.exists => /\ group.exists
                            /\ group'.generation = group.generation
                            /\ DOMAIN group'.members = DOMAIN group.members
    <2>1. CASE SyncAccepted(s) /\ s.assigns
      <3>1. group.exists /\ group.exists \in BOOLEAN /\ GroupOK(group, nextMember)
        BY <2>1, Zenon DEF SyncAccepted, GroupInv
      <3>2. Fields \subseteq DOMAIN group
        BY <3>1, Zenon DEF GroupOK
      <3>3. group' = Assigned(group)
        BY <1>2, <2>1
      <3>4. /\ Fields \subseteq DOMAIN group'
            /\ group'.exists = group.exists
            /\ group'.state = "Stable"
            /\ group'.generation = group.generation
            /\ group'.leader = group.leader
            /\ group'.members = [m \in DOMAIN group.members |-> TRUE]
        BY <3>2, <3>3 DEF Assigned, Fields
      <3>5. /\ DOMAIN group'.members = DOMAIN group.members
            /\ \A m \in DOMAIN group'.members : group'.members[m] \in BOOLEAN
        BY <3>4, Zenon
      <3>6. group'.state \in States /\ group'.state \notin {"Empty", "Dead"}
        BY <3>4 DEF States
      <3>7. GroupOK(group', nextMember)
        BY <3>1, <3>4, <3>5, <3>6, Zenon DEF GroupOK
      <3> QED
        BY <3>1, <3>4, <3>5, <3>7, Zenon
    <2>2. CASE ~(SyncAccepted(s) /\ s.assigns)
      <3>1. group' = group
        BY <1>2, <2>2
      <3> QED
        BY <3>1, Zenon DEF GroupInv
    <2> QED
      BY <2>1, <2>2
  <1>5. /\ client' \in [Clients -> ClientType]
        /\ \A d \in Clients : client'[d].generation = client[d].generation
                              /\ client'[d].member = client[d].member
    <2> DEFINE a == s.member \in Members /\ group'.members[s.member]
    <2>1. CASE ~AwaitsSync(s)
      <3>1. client' = client
        BY <2>1, Zenon DEF SyncGroup
      <3> QED
        BY <3>1, <1>1
    <2>2. CASE AwaitsSync(s) /\ SyncAccepted(s)
      <3>1. client' = [client EXCEPT ![s.from].pc = "synced", ![s.from].assigned = a]
        BY <2>2, Zenon DEF SyncGroup
      <3>2. a \in BOOLEAN
        OBVIOUS
      <3> HIDE DEF a
      <3> QED
        BY <1>1, <3>1, <3>2 DEF ClientType
    <2>3. CASE AwaitsSync(s) /\ ~SyncAccepted(s)
      <3>1. client' = [client EXCEPT ![s.from].pc = "out"]
        BY <2>3, Zenon DEF SyncGroup
      <3> QED
        BY <1>1, <3>1 DEF ClientType
    <2> QED
      BY <2>1, <2>2, <2>3
  <1> QED
    BY <1>2, <1>3, <1>4, <1>5, ShrinkInv

\* A client that leaves takes its membership along; if it led, another member
\* leads.
LEMMA LeaveInv ==
    ASSUME GroupInv, NEW c \in Clients, LeaveGroup(c)
    PROVE  GroupInv'
  <1> DEFINE m == client[c].member
  <1>1. client \in [Clients -> ClientType]
    BY DEF GroupInv, ClientsOK, ClientType
  <1>2. /\ nextMember' = nextMember /\ syncs' = syncs
        /\ client' = [client EXCEPT ![c].pc = "out", ![c].member = NoMember]
    BY Zenon DEF LeaveGroup
  <1>3. \A t \in syncs' : t.from \in Clients
    BY <1>2 DEF GroupInv
  <1>4. /\ client' \in [Clients -> ClientType]
        /\ \A d \in Clients :
               /\ client'[d].generation = client[d].generation
               /\ client'[d].member = client[d].member \/ client'[d].member = NoMember
    BY <1>1, <1>2, Zenon DEF ClientType, NoMember
  <1>5. /\ group'.exists \in BOOLEAN /\ GroupOK(group', nextMember)
        /\ group'.exists => /\ group.exists
                            /\ group'.generation = group.generation
                            /\ DOMAIN group'.members \subseteq DOMAIN group.members
    <2>1. CASE ~group.exists
      <3>1. group' = group
        BY <2>1, Zenon DEF LeaveGroup
      <3> QED
        BY <3>1, Zenon DEF GroupInv
    <2>2. CASE group.exists
      <3>1. GroupOK(group, nextMember) /\ group.exists \in BOOLEAN /\ Fields \subseteq DOMAIN group
        BY <2>2, Zenon DEF GroupInv, GroupOK
      <3>2. PICK l \in LeaderAfter(m) :
                group' = [group EXCEPT !.members = Drop(@, m), !.leader = l,
                                       !.state = StateAfterLeave(m)]
        BY <2>2, Zenon DEF LeaveGroup
      <3>3. /\ Fields \subseteq DOMAIN group'
            /\ group'.exists = group.exists
            /\ group'.state = StateAfterLeave(m)
            /\ group'.generation = group.generation
            /\ group'.leader = l
            /\ group'.members = Drop(group.members, m)
        <4> HIDE DEF m
        <4> QED
          BY <3>1, <3>2 DEF Fields
      <3>4. /\ DOMAIN group'.members = DOMAIN group.members \ {m}
            /\ \A x \in DOMAIN group'.members : group'.members[x] = group.members[x]
        <4> HIDE DEF m
        <4> QED
          BY <3>3 DEF Drop
      <3>5. \A x \in DOMAIN group'.members : group'.members[x] \in BOOLEAN
        BY <2>2, <3>1, <3>4, Zenon DEF GroupOK
      <3>6. IF DOMAIN group'.members = {} THEN group'.leader = NoMember
            ELSE group'.leader \in DOMAIN group'.members
        <4>1. DOMAIN group.members # {} => group.leader \in DOMAIN group.members
          BY <2>2, <3>1 DEF GroupOK
        <4> HIDE DEF m
        <4> QED
          BY <3>3, <3>4, <4>1 DEF LeaderAfter, Members
      <3>7. /\ group'.state \in States
            /\ group'.state \in {"Empty", "Dead"} => DOMAIN group'.members = {}
        <4>1. /\ group.state \in States
              /\ group.state \in {"Empty", "Dead"} => DOMAIN group.members = {}
          BY <2>2, <3>1 DEF GroupOK
        <4> HIDE DEF m
        <4> QED
          BY <3>3, <3>4, <4>1 DEF StateAfterLeave, Members, States
      <3>8. DOMAIN group'.members \subseteq 1 .. (nextMember - 1) /\ group'.generation \in Nat
        BY <2>2, <3>1, <3>3, <3>4 DEF GroupOK
      <3>9. GroupOK(group', nextMember)
        BY <3>3, <3>5, <3>6, <3>7, <3>8, Zenon DEF GroupOK
      <3>10. DOMAIN group'.members \subseteq DOMAIN group.members
        BY <3>4
      <3> QED
        BY <2>2, <3>1, <3>3, <3>9, <3>10, Zenon
    <2> QED
      BY <2>1, <2>2
  <1> QED
    BY <1>2, <1>3, <1>4, <1>5, ShrinkInv

\* A commit may make a group without members.
LEMMA CommitInv ==
    ASSUME GroupInv, NEW tp \in TopicPartitions, NEW offset \in Offsets, CommitOffset(tp, offset)
    PROVE  GroupInv'
  <1>1. /\ nextMember' = nextMember /\ syncs' = syncs /\ client' = client
        /\ group' = [OrNew EXCEPT !.offsets = Put(@, tp, offset)]
    BY Zenon DEF CommitOffset
  <1>2. /\ OrNew.exists /\ OrNew.exists \in BOOLEAN /\ GroupOK(OrNew, nextMember)
        /\ group.exists => OrNew = group
        /\ ~group.exists => DOMAIN OrNew.members = {} /\ OrNew.generation = 0
    BY OrNewOK, Zenon
  <1>3. Fields \subseteq DOMAIN OrNew
    BY <1>2, Zenon DEF GroupOK
  <1>4. /\ Fields \subseteq DOMAIN group'
        /\ group'.exists = OrNew.exists
        /\ group'.state = OrNew.state
        /\ group'.generation = OrNew.generation
        /\ group'.leader = OrNew.leader
        /\ group'.members = OrNew.members
    BY <1>1, <1>3 DEF Fields
  <1>5. group'.exists \in BOOLEAN /\ GroupOK(group', nextMember)
    BY <1>2, <1>4, Zenon DEF GroupOK
  <1>6. \/ DOMAIN group'.members = {}
        \/ /\ group.exists
           /\ group'.generation = group.generation
           /\ DOMAIN group'.members \subseteq DOMAIN group.members
    BY <1>2, <1>4
  <1>7. /\ \A s \in syncs' : s.from \in Clients
        /\ client' \in [Clients -> ClientType]
    BY <1>1 DEF GroupInv, ClientsOK, ClientType
  <1> QED
    BY <1>1, <1>5, <1>6, <1>7, ShrinkInv

\* Without a group there is little to keep.
LEMMA GoneInv ==
    ASSUME GroupInv, DeleteGroups \/ Reset
    PROVE  GroupInv'
  <1>1. nextMember' = nextMember /\ syncs' = syncs /\ client' = client /\ group' = NoGroup
    BY Zenon DEF DeleteGroups, Reset
  <1>2. ~group'.exists /\ group'.exists \in BOOLEAN
    BY <1>1 DEF NoGroup
  <1>3. GroupOK(group', nextMember)
    BY <1>2, Zenon DEF GroupOK
  <1>4. /\ \A s \in syncs' : s.from \in Clients
        /\ client' \in [Clients -> ClientType]
    BY <1>1 DEF GroupInv, ClientsOK, ClientType
  <1> QED
    BY <1>1, <1>2, <1>3, <1>4, ShrinkInv

LEMMA StepInv == GroupInv /\ [Next]_vars => GroupInv'
  <1> SUFFICES ASSUME GroupInv, [Next]_vars PROVE GroupInv'
    OBVIOUS
  <1>1. ASSUME NEW c \in Clients, JoinGroup(c) PROVE GroupInv'
    BY <1>1, JoinInv
  <1>2. ASSUME NEW c \in Clients, SendSync(c) PROVE GroupInv'
    BY <1>2, SendSyncInv
  <1>3. ASSUME NEW c \in Clients, Heartbeat(c) PROVE GroupInv'
    BY <1>3, HeartbeatInv
  <1>4. ASSUME NEW c \in Clients, LeaveGroup(c) PROVE GroupInv'
    BY <1>4, LeaveInv
  <1>5. ASSUME NEW s \in syncs, SyncGroup(s) PROVE GroupInv'
    BY <1>5, SyncGroupInv
  <1>6. ASSUME NEW tp \in TopicPartitions, NEW offset \in Offsets, CommitOffset(tp, offset)
        PROVE  GroupInv'
    BY <1>6, CommitInv
  <1>7. CASE DeleteGroups \/ Reset
    BY <1>7, GoneInv
  <1>8. CASE UNCHANGED vars
    BY <1>8 DEF vars, GroupInv, ClientsOK, GroupOK, OneHolderOfGeneration, Members
  <1> QED
    BY <1>1, <1>2, <1>3, <1>4, <1>5, <1>6, <1>7, <1>8, Zenon DEF Next

\* The invariant, for every behaviour.
LEMMA GroupInvariance == Spec => []GroupInv
  <1>1. Init => GroupInv
    BY InitInv
  <1>2. GroupInv /\ [Next]_vars => GroupInv'
    BY StepInv
  <1> QED
    BY <1>1, <1>2, PTL DEF Spec

\* However clients join, leave, time out and are reset, a group that has members
\* has one of them as leader.
THEOREM LeaderAlwaysMember == Spec => []LeaderIsMember
  <1>1. GroupInv => LeaderIsMember
    BY Zenon DEF GroupInv, GroupOK, LeaderIsMember, Members
  <1> QED
    BY <1>1, GroupInvariance, PTL

\* For any number of clients, at most one member passes the generation checks.
THEOREM OneHolderAlways == Spec => []OneHolderOfGeneration
  <1>1. GroupInv => OneHolderOfGeneration
    BY DEF GroupInv
  <1> QED
    BY <1>1, GroupInvariance, PTL

Counted == resets \in Nat

\* The count of resets is a number.
LEMMA ResetsInvariance == Spec => []Counted
  <1>1. Init => Counted
    BY DEF Init, Counted
  <1>2. [Next]_vars => resets' = resets \/ resets' = resets + 1
    <2>1. UNCHANGED vars => resets' = resets
      BY DEF vars
    <2>2. Next => resets' = resets \/ resets' = resets + 1
      BY Zenon DEF Next, JoinGroup, SendSync, Heartbeat, LeaveGroup, SyncGroup, CommitOffset,
                   DeleteGroups, Reset
    <2> QED
      BY <2>1, <2>2
  <1>3. Counted /\ [Next]_vars => Counted'
    BY <1>2 DEF Counted
  <1> QED
    BY <1>1, <1>3, PTL DEF Spec

\* Only a deletion or a reset removes a group.
LEMMA GroupStays ==
    ASSUME GroupInv, group.exists, Next, ~DeleteGroups, ~Reset
    PROVE  group'.exists
  <1>1. Fields \subseteq DOMAIN group
    BY Zenon DEF GroupInv, GroupOK
  <1>2. ASSUME NEW c \in Clients, JoinGroup(c) PROVE group'.exists
    BY <1>2, JoinInv, Zenon
  <1>3. ASSUME NEW c \in Clients, SendSync(c) \/ Heartbeat(c) PROVE group'.exists
    BY <1>3, Zenon DEF SendSync, Heartbeat
  <1>4. ASSUME NEW c \in Clients, LeaveGroup(c) PROVE group'.exists
    <2> DEFINE m == client[c].member
    <2>1. PICK l \in LeaderAfter(m) :
              group' = [group EXCEPT !.members = Drop(@, m), !.leader = l,
                                     !.state = StateAfterLeave(m)]
      BY <1>4, Zenon DEF LeaveGroup
    <2> HIDE DEF m
    <2>2. group'.exists = group.exists
      BY <2>1, <1>1, Zenon DEF Fields
    <2> QED
      BY <2>2, Zenon
  <1>5. ASSUME NEW s \in syncs, SyncGroup(s) PROVE group'.exists
    <2>1. group' = Assigned(group) \/ group' = group
      BY <1>5 DEF SyncGroup
    <2>2. Assigned(group).exists = group.exists
      BY <1>1, Zenon DEF Assigned, Fields
    <2> QED
      BY <2>1, <2>2, Zenon
  <1>6. ASSUME NEW tp \in TopicPartitions, NEW offset \in Offsets, CommitOffset(tp, offset)
        PROVE  group'.exists
    <2>1. OrNew = group
      BY Zenon, OrNewOK
    <2>2. group' = [group EXCEPT !.offsets = Put(@, tp, offset)]
      BY <1>6, <2>1, Zenon DEF CommitOffset
    <2>3. group'.exists = group.exists
      BY <2>2, <1>1, Zenon DEF Fields
    <2> QED
      BY <2>3, Zenon
  <1> QED
    BY <1>2, <1>3, <1>4, <1>5, <1>6, Zenon DEF Next

\* No deletion removes a group that has members.
THEOREM MembersAlwaysProtected == Spec => MembersProtected
  <1>1. GroupInv /\ Counted /\ [Next]_vars =>
            [group.exists /\ ~group'.exists => resets' # resets \/ Members = {}]_vars
    <2> SUFFICES ASSUME GroupInv, Counted, Next, group.exists, ~group'.exists
                 PROVE  resets' # resets \/ Members = {}
      BY Zenon
    <2>1. CASE DeleteGroups
      <3>1. Members = {} \/ group.state \in {"Empty", "Dead"}
        BY <2>1, Zenon DEF DeleteGroups, Deletable
      <3>2. group.state \in {"Empty", "Dead"} => Members = {}
        BY Zenon DEF GroupInv, GroupOK, Members
      <3> QED
        BY <3>1, <3>2
    <2>2. CASE Reset
      BY <2>2 DEF Reset, Counted
    <2> QED
      BY <2>1, <2>2, GroupStays
  <1> QED
    BY <1>1, GroupInvariance, ResetsInvariance, PTL DEF Spec, MembersProtected
==============================================================================
