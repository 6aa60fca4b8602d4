----------------------------- MODULE TopicsProofs -----------------------------
(***************************************************************************)
(* Proofs about the topics and partitions of the broker, for any number of *)
(* threads, calls, topics and partitions: calls do not wait for each       *)
(* other, a produce appends to the Partition of the map, a fetch returns   *)
(* records of its own partition, what is announced was provisioned, a load *)
(* restores its snapshot, and the listings of configurations agree.        *)
(***************************************************************************)
EXTENDS Topics, FiniteSetTheorems, TLAPS

TaskFields == {"pc", "call", "held", "parked", "todo", "at", "offsets", "overtaken", "alone"}

\* The sections that take two locks, and those that begin with a write lock.
Pairs == {"check", "has", "count", "delete", "update"}
Writers == {"provision", "clear_partitions", "register", "clear_topics", "delete", "update"}

\* A thread holds one lock at most, and parks where it wants to write.
LocksOK(w) ==
    /\ w.held \in {0, 1}
    /\ w.held = 1 => w.pc \in Pairs
    /\ w.parked => IF w.held = 1 THEN w.pc = "delete" ELSE w.pc \in Writers

\* The sections a call goes through.
Stages(op) ==
    CASE op = "create_topic" -> {"check", "lookup", "provision", "register"}
      [] op = "create_partitions" -> {"has", "count", "lookup", "provision", "register"}
      [] op = "update_topic_configs" -> {"has", "update"}
      [] op = "delete_topic" -> {"delete"}
      [] op = "build_metadata" -> {"scan", "lookup", "provision"}
      [] op = "produce" -> {"lookup", "provision", "append"}
      [] op = "commit_offset" -> {"commit"}
      [] op = "reset" -> {"clear_topics", "clear_partitions", "restart_ids", "clear_groups"}
      [] op = "dump" -> {"dump", "dump_groups"}
      [] op = "load" -> {"clear_topics", "clear_partitions", "restart_ids", "clear_groups",
                         "lookup", "provision", "restore"}

\* A produce looks for its partition, then holds one; ps and md are the map
\* and the Partitions.
ProducesOK(w, ps, md) ==
    /\ w.call.op = "produce" /\ w.pc # "append" => w.todo = <<w.call.tp>>
    /\ w.pc = "append" =>
           /\ w.at \in 1 .. Len(md)
           /\ \/ md[w.at].gone
              \/ w.call.tp \in DOMAIN ps /\ ps[w.call.tp] = w.at

Creators == {"create_topic", "create_partitions"}
Announced(call) == IF call.op = "create_topic" THEN Count(call) ELSE call.count
Targets(call) == {<<call.name, i>> : i \in Int}

\* A call that creates or grows a topic which nobody deletes meanwhile has made
\* the partitions it will announce, but for those still to do.
ProvidesOK(w, ps) ==
    w.call.op \in Creators /\ w.pc \in {"lookup", "provision", "register"} /\ ~w.overtaken =>
        /\ w.call.name \in ValidNames
        /\ Announced(w.call) \in Nat
        /\ w.todo \in Seq(Targets(w.call))
        /\ w.pc = "register" => w.todo = <<>>
        /\ w.pc # "register" => w.todo # <<>>
        /\ \A i \in 0 .. Announced(w.call) - 1 :
               \/ <<w.call.name, i>> \in DOMAIN ps
               \/ \E j \in 1 .. Len(w.todo) : w.todo[j] = <<w.call.name, i>>

CallOK(call) ==
    /\ call.op \in {"create_topic", "create_partitions", "update_topic_configs", "delete_topic",
                    "build_metadata", "produce", "commit_offset", "reset", "dump", "load"}
    /\ call.op \in Creators => call.count \in Int
    /\ call.op = "create_topic" => call.name \in ValidNames /\ Count(call) \in 1 .. MaxCount

TaskOK(w, ps, md) ==
    \/ w = Idle
    \/ /\ w # Idle
       /\ TaskFields \subseteq DOMAIN w
       /\ CallOK(w.call)
       /\ w.pc \in Stages(w.call.op)
       /\ LocksOK(w)
       /\ ProducesOK(w, ps, md)
       /\ ProvidesOK(w, ps)

\* The map leads to Partitions; until the ids restart, the i-th Partition has
\* the stream i - 1, in which only its records are.
StoreOK ==
    /\ made \in Seq([stream : Nat, next : Nat, gone : BOOLEAN])
    /\ \A tp \in DOMAIN partitions : partitions[tp] \in 1 .. Len(made)
    /\ next_stream_id \in 0 .. Len(made)
    /\ next_stream_id = Len(made) =>
           /\ \A i \in 1 .. Len(made) : made[i].stream = i - 1
           /\ \A s \in DOMAIN log_cache :
                  /\ s \in 0 .. Len(made) - 1
                  /\ \A o \in DOMAIN log_cache[s] : log_cache[s][o] = s + 1

CreatedOK ==
    \A n \in created :
        /\ n \in ValidNames
        /\ n \in DOMAIN topics
        /\ "num_partitions" \in DOMAIN topics[n]
        /\ topics[n].num_partitions \in Nat
        /\ \A i \in 0 .. topics[n].num_partitions - 1 : <<n, i>> \in DOMAIN partitions

TopicsInv ==
    /\ thread = [t \in Threads |-> thread[t]]
    /\ \A t \in Threads : TaskOK(thread[t], partitions, made)
    /\ StoreOK
    /\ CreatedOK

LEMMA InitInv == Init => TopicsInv
  <1> SUFFICES ASSUME Init PROVE TopicsInv
    OBVIOUS
  <1>1. /\ thread = [t \in Threads |-> Idle]
        /\ made = <<>> /\ partitions = <<>> /\ log_cache = <<>> /\ created = {}
        /\ next_stream_id = 0
    BY Zenon DEF Init
  <1>2. /\ thread = [t \in Threads |-> thread[t]]
        /\ \A t \in Threads : TaskOK(thread[t], partitions, made)
    BY <1>1, Zenon DEF TaskOK
  <1>3. StoreOK
    BY <1>1 DEF StoreOK
  <1>4. CreatedOK
    BY <1>1, Zenon DEF CreatedOK
  <1> QED
    BY <1>2, <1>3, <1>4, Zenon DEF TopicsInv

------------------------------------------------------------------------------
(* No call waits for another that waits for it. *)

\* What a thread may hold, and what it may wait for.
LEMMA HoldsTopics ==
    ASSUME TopicsInv, NEW u \in Threads
    PROVE  \A h \in Holds(u) : h.lock = "topics"
  <1>1. CASE thread[u] = Idle \/ thread[u].held # 1
    BY <1>1, Zenon DEF Holds
  <1>2. CASE thread[u] # Idle /\ thread[u].held = 1
    <2>1. thread[u].pc \in Pairs
      BY <1>2, Zenon DEF TopicsInv, TaskOK, LocksOK
    <2>2. Locks(u)[1].lock = "topics"
      BY <1>2, <2>1 DEF Locks, Both, DeleteLocks, Lock, Pairs
    <2>3. Holds(u) = {Locks(u)[1]}
      BY <1>2, Zenon DEF Holds
    <2> QED
      BY <2>2, <2>3, Zenon
  <1> QED
    BY <1>1, <1>2, Zenon

LEMMA WaitsToWrite ==
    ASSUME TopicsInv, NEW u \in Threads, NEW l \in Waits(u)
    PROVE  l = Locks(u)[thread[u].held + 1] /\ l.mode = "write"
  <1>1. thread[u] # Idle /\ thread[u].parked /\ l = Locks(u)[thread[u].held + 1]
    BY Zenon DEF Waits
  <1>2. thread[u].held \in {0, 1}
    BY <1>1, Zenon DEF TopicsInv, TaskOK, LocksOK
  <1>3. CASE thread[u].held = 1
    <2>1. thread[u].pc = "delete"
      BY <1>1, <1>3, Zenon DEF TopicsInv, TaskOK, LocksOK
    <2>2. Locks(u) = DeleteLocks
      BY <2>1 DEF Locks
    <2> QED
      BY <1>1, <1>3, <2>2 DEF DeleteLocks, Lock
  <1>4. CASE thread[u].held = 0
    <2>0. thread[u].held # 1
      BY <1>4
    <2>1. thread[u].pc \in Writers
      BY <1>1, <2>0, Zenon DEF TopicsInv, TaskOK, LocksOK
    <2>2. Locks(u)[1].mode = "write"
      BY <1>4, <2>1 DEF Locks, DeleteLocks, Lock, Writers
    <2> QED
      BY <1>1, <1>4, <2>2
  <1> QED
    BY <1>2, <1>3, <1>4

\* A thread that has a lock wants partitions next.
LEMMA WantsPartitions ==
    ASSUME TopicsInv, NEW u \in Threads, thread[u] # Idle, thread[u].held = 1,
           thread[u].held < Len(Locks(u))
    PROVE  Locks(u)[2].lock = "partitions"
  <1>1. thread[u].pc \in Pairs
    BY Zenon DEF TopicsInv, TaskOK, LocksOK
  <1> QED
    BY <1>1 DEF Pairs, Locks, Both, DeleteLocks, Lock

LEMMA InvImpliesNoDeadlock == TopicsInv => NoDeadlock
  <1> SUFFICES ASSUME TopicsInv, NEW us \in (SUBSET Active) \ {{}}
               PROVE  \E t \in us : ~KeptOut(t, us \ {t})
    BY Zenon DEF NoDeadlock
  <1>1. us \subseteq Threads /\ us # {} /\ \A u \in us : thread[u] # Idle
    BY Zenon DEF Active
  <1>2. \A u \in us : \A h \in Holds(u) : h.lock = "topics"
    BY <1>1, HoldsTopics, Zenon
  <1>3. \A u \in us : \A l \in Waits(u) : l = Locks(u)[thread[u].held + 1] /\ l.mode = "write"
    BY <1>1, WaitsToWrite, Zenon
  <1>4. CASE \E u \in us : \E l \in Waits(u) : l.lock = "partitions"
    <2>1. PICK u \in us : \E l \in Waits(u) : l.lock = "partitions"
      BY <1>4, Zenon
    <2>2. /\ Locks(u)[thread[u].held + 1].lock = "partitions"
          /\ Locks(u)[thread[u].held + 1].mode = "write"
      BY <1>3, <2>1, Zenon
    <2>3. ~KeptOut(u, us \ {u})
      BY <1>2, <2>2, Zenon DEF KeptOut
    <2> QED
      BY <2>3, Zenon
  <1>5. CASE /\ \A u \in us : \A l \in Waits(u) : l.lock # "partitions"
             /\ \E u \in us : thread[u].held = 1
    <2>1. PICK u \in us : thread[u].held = 1
      BY <1>5, Zenon
    <2>2. CASE thread[u].held < Len(Locks(u))
      <3>1. Locks(u)[thread[u].held + 1].lock = "partitions"
        BY <1>1, <2>1, <2>2, WantsPartitions
      <3>2. \A v \in us : Lock("partitions", "write") \notin Waits(v)
        BY <1>5 DEF Lock
      <3>3. ~KeptOut(u, us \ {u})
        BY <1>2, <3>1, <3>2, Zenon DEF KeptOut
      <3> QED
        BY <3>3, Zenon
    <2>3. CASE ~(thread[u].held < Len(Locks(u)))
      BY <2>3, Zenon DEF KeptOut
    <2> QED
      BY <2>2, <2>3, Zenon
  <1>6. CASE \A u \in us : thread[u].held # 1
    <2>1. \A u \in us : Holds(u) = {}
      BY <1>6, Zenon DEF Holds
    <2>2. CASE \E u \in us : Waits(u) # {}
      <3>1. PICK u \in us : Waits(u) # {}
        BY <2>2, Zenon
      <3>2. Locks(u)[thread[u].held + 1].mode = "write"
        BY <1>3, <3>1, Zenon
      <3>3. ~KeptOut(u, us \ {u})
        BY <2>1, <3>2, Zenon DEF KeptOut
      <3> QED
        BY <3>3, Zenon
    <2>3. CASE \A u \in us : Waits(u) = {}
      <3>1. PICK u \in us : TRUE
        BY <1>1, Zenon
      <3>2. ~KeptOut(u, us \ {u})
        BY <2>1, <2>3, Zenon DEF KeptOut
      <3> QED
        BY <3>2, Zenon
    <2> QED
      BY <2>2, <2>3, Zenon
  <1> QED
    BY <1>4, <1>5, <1>6, Zenon

------------------------------------------------------------------------------
(* What the invariant says about produce, fetch and registrations. *)

LEMMA InvImpliesHeld == TopicsInv => HeldOrRemoved
  <1> SUFFICES ASSUME TopicsInv, NEW t \in Active, thread[t].pc = "append"
               PROVE  \/ made[thread[t].at].gone
                      \/ /\ thread[t].call.tp \in DOMAIN partitions
                         /\ partitions[thread[t].call.tp] = thread[t].at
    BY Zenon DEF HeldOrRemoved
  <1>1. t \in Threads /\ thread[t] # Idle
    BY Zenon DEF Active
  <1>2. ProducesOK(thread[t], partitions, made)
    BY <1>1, Zenon DEF TopicsInv, TaskOK
  <1> QED
    BY <1>2, Zenon DEF ProducesOK

LEMMA InvImpliesOwn == TopicsInv => OwnRecords
  <1> SUFFICES ASSUME TopicsInv, next_stream_id = Len(made), NEW p \in DOMAIN made,
                      NEW from \in 0 .. MaxAppends
               PROVE  fetch(p, from) \subseteq {p}
    BY Zenon DEF OwnRecords
  <1>1. p \in 1 .. Len(made)
    BY DEF TopicsInv, StoreOK
  <1>2. made[p].stream = p - 1
    BY <1>1 DEF TopicsInv, StoreOK
  <1>3. \A s \in DOMAIN log_cache : \A o \in DOMAIN log_cache[s] : log_cache[s][o] = s + 1
    BY DEF TopicsInv, StoreOK
  <1>4. CASE made[p].stream \in DOMAIN log_cache
    <2>1. \A o \in DOMAIN log_cache[made[p].stream] : log_cache[made[p].stream][o] = p
      BY <1>1, <1>2, <1>3, <1>4
    <2>2. read_range(made[p].stream, from) \subseteq {p}
      BY <2>1, Zenon DEF read_range
    <2> QED
      BY <2>2, Zenon DEF fetch
  <1>5. CASE made[p].stream \notin DOMAIN log_cache
    BY <1>5, Zenon DEF fetch
  <1> QED
    BY <1>4, <1>5, Zenon

LEMMA InvImpliesRegistered == TopicsInv => RegisteredIsProvisioned
  BY Zenon DEF TopicsInv, CreatedOK, RegisteredIsProvisioned

------------------------------------------------------------------------------
(* How threads change. *)

\* The map and the Partitions only gain.
Grows(ps, ps2, md, md2) ==
    /\ \A tp \in DOMAIN ps : tp \in DOMAIN ps2 /\ ps2[tp] = ps[tp]
    /\ \A i \in 1 .. Len(md) : i \in 1 .. Len(md2) /\ md2[i].gone = md[i].gone

\* v is w, but for what locks, offsets and histories say.
Similar(w, v) ==
    \/ v = w
    \/ /\ w # Idle
       /\ DOMAIN v = DOMAIN w
       /\ v.pc = w.pc /\ v.call = w.call /\ v.todo = w.todo /\ v.at = w.at
       /\ v.held = w.held /\ v.parked = w.parked
       /\ v.overtaken = w.overtaken \/ v.overtaken

LEMMA NotIdle == \A v : TaskFields \subseteq DOMAIN v => v # Idle
  BY DEF Idle, TaskFields

LEMMA ProducesGrow ==
    ASSUME NEW w, NEW v, NEW ps, NEW ps2, NEW md, NEW md2,
           ProducesOK(w, ps, md), Grows(ps, ps2, md, md2),
           v.pc = w.pc, v.call = w.call, v.todo = w.todo, v.at = w.at
    PROVE  ProducesOK(v, ps2, md2)
  BY Zenon DEF ProducesOK, Grows

LEMMA ProvidesGrow ==
    ASSUME NEW w, NEW v, NEW ps, NEW ps2,
           ProvidesOK(w, ps), \A tp \in DOMAIN ps : tp \in DOMAIN ps2,
           v.pc = w.pc, v.call = w.call, v.todo = w.todo,
           v.overtaken = w.overtaken \/ v.overtaken
    PROVE  ProvidesOK(v, ps2)
  BY Zenon DEF ProvidesOK

LEMMA SimilarOK ==
    ASSUME NEW w, NEW v, NEW ps, NEW ps2, NEW md, NEW md2,
           TaskOK(w, ps, md), Similar(w, v), Grows(ps, ps2, md, md2)
    PROVE  TaskOK(v, ps2, md2)
  <1>1. CASE w = Idle
    BY <1>1, Zenon DEF TaskOK, Similar
  <1>2. CASE w # Idle
    <2>1. /\ DOMAIN v = DOMAIN w
          /\ v.pc = w.pc /\ v.call = w.call /\ v.todo = w.todo /\ v.at = w.at
          /\ v.held = w.held /\ v.parked = w.parked
          /\ v.overtaken = w.overtaken \/ v.overtaken
      BY <1>2, Zenon DEF Similar
    <2>2. /\ TaskFields \subseteq DOMAIN w /\ CallOK(w.call) /\ w.pc \in Stages(w.call.op)
          /\ LocksOK(w) /\ ProducesOK(w, ps, md) /\ ProvidesOK(w, ps)
      BY <1>2, Zenon DEF TaskOK
    <2>3. ProducesOK(v, ps2, md2)
      BY <2>1, <2>2, ProducesGrow, Zenon
    <2>4. \A tp \in DOMAIN ps : tp \in DOMAIN ps2
      BY Zenon DEF Grows
    <2>5. ProvidesOK(v, ps2)
      BY <2>1, <2>2, <2>4, ProvidesGrow, Zenon
    <2>6. TaskFields \subseteq DOMAIN v /\ CallOK(v.call) /\ v.pc \in Stages(v.call.op)
      BY <2>1, <2>2, Zenon
    <2>7. v # Idle
      BY <2>6, NotIdle, Zenon
    <2>8. LocksOK(v)
      BY <2>1, <2>2, Zenon DEF LocksOK
    <2> QED
      BY <2>3, <2>5, <2>6, <2>7, <2>8, Zenon DEF TaskOK
  <1> QED
    BY <1>1, <1>2, Zenon

LEMMA GrowsReflexive ==
    ASSUME NEW ps, NEW md
    PROVE  Grows(ps, ps, md, md)
  BY Zenon DEF Grows

\* A step of thread t.
LEMMA StepOfOne ==
    ASSUME TopicsInv, NEW t \in Threads,
           thread' = [u \in Threads |-> thread'[u]],
           \A u \in Threads \ {t} : Similar(thread[u], thread'[u]),
           TaskOK(thread'[t], partitions', made'),
           Grows(partitions, partitions', made, made'),
           StoreOK', CreatedOK'
    PROVE  TopicsInv'
  <1>1. \A u \in Threads : TaskOK(thread[u], partitions, made)
    BY Zenon DEF TopicsInv
  <1>2. \A u \in Threads : TaskOK(thread'[u], partitions', made')
    BY <1>1, SimilarOK, Zenon
  <1> QED
    BY <1>2, Zenon DEF TopicsInv

\* A step that changes nothing but threads, groups and the snapshot.
LEMMA StepOfThreads ==
    ASSUME TopicsInv, NEW t \in Threads,
           thread' = [u \in Threads |-> thread'[u]],
           \A u \in Threads \ {t} : Similar(thread[u], thread'[u]),
           TaskOK(thread'[t], partitions, made),
           UNCHANGED <<topics, partitions, next_stream_id, made, log_cache, created>>
    PROVE  TopicsInv'
  <1>1. Grows(partitions, partitions', made, made')
    BY GrowsReflexive, Zenon
  <1>2. StoreOK'
    BY Zenon DEF TopicsInv, StoreOK
  <1>3. CreatedOK'
    BY Zenon DEF TopicsInv, CreatedOK
  <1> QED
    BY <1>1, <1>2, <1>3, StepOfOne, Zenon

LEMMA BecomesOne ==
    ASSUME TopicsInv, NEW t \in Threads, NEW v, thread' = [thread EXCEPT ![t] = v]
    PROVE  /\ thread' = [u \in Threads |-> thread'[u]]
           /\ \A u \in Threads \ {t} : Similar(thread[u], thread'[u])
           /\ thread'[t] = v
  <1>1. thread = [u \in Threads |-> thread[u]]
    BY Zenon DEF TopicsInv
  <1>2. thread' = [u \in Threads |-> IF u = t THEN v ELSE thread[u]]
    BY <1>1, Zenon
  <1>3. \A u \in Threads : thread'[u] = IF u = t THEN v ELSE thread[u]
    BY <1>2, Zenon
  <1>4. thread' = [u \in Threads |-> thread'[u]]
    BY <1>2, Zenon
  <1> QED
    BY <1>3, <1>4, Zenon DEF Similar

------------------------------------------------------------------------------
(* A thread that goes on to its next section. *)

\* v is w, with its locks released, at another section.
Moved(w, v, pc) ==
    /\ DOMAIN v = DOMAIN w
    /\ v.pc = pc /\ v.call = w.call /\ v.at = w.at /\ v.overtaken = w.overtaken
    /\ v.held = 0 /\ v.parked = FALSE

LEMMA GotoFields ==
    ASSUME TopicsInv, NEW t \in Threads, thread[t] # Idle, NEW pc
    PROVE  Moved(thread[t], Goto(t, pc), pc) /\ Goto(t, pc).todo = thread[t].todo
  <1>1. TaskFields \subseteq DOMAIN thread[t]
    BY Zenon DEF TopicsInv, TaskOK
  <1> QED
    BY <1>1 DEF Goto, Moved, TaskFields

LEMMA GotoWithFields ==
    ASSUME TopicsInv, NEW t \in Threads, thread[t] # Idle, NEW pc, NEW todo
    PROVE  Moved(thread[t], GotoWith(t, pc, todo), pc) /\ GotoWith(t, pc, todo).todo = todo
  <1>1. TaskFields \subseteq DOMAIN thread[t]
    BY Zenon DEF TopicsInv, TaskOK
  <1> QED
    BY <1>1 DEF GotoWith, Goto, Moved, TaskFields

LEMMA AppendOnlyProduces ==
    ASSUME NEW call, CallOK(call), "append" \in Stages(call.op)
    PROVE  call.op = "produce"
  BY DEF CallOK, Stages

LEMMA FreshLocks ==
    ASSUME NEW v, v.held = 0, v.parked = FALSE
    PROVE  LocksOK(v)
  <1>1. v.held \in {0, 1} /\ v.held # 1
    OBVIOUS
  <1> QED
    BY <1>1, Zenon DEF LocksOK

\* Where produce and the making of partitions have no part.
LEMMA PlainOK ==
    ASSUME NEW v, NEW ps, NEW md,
           TaskFields \subseteq DOMAIN v, CallOK(v.call), v.pc \in Stages(v.call.op),
           v.held = 0, v.parked = FALSE, v.call.op # "produce",
           \/ v.call.op \notin Creators
           \/ v.pc \notin {"lookup", "provision", "register"}
           \/ v.overtaken
    PROVE  TaskOK(v, ps, md)
  <1>1. v # Idle
    BY NotIdle, Zenon
  <1>2. LocksOK(v)
    BY FreshLocks, Zenon
  <1>3. ProducesOK(v, ps, md)
    BY AppendOnlyProduces, Zenon DEF ProducesOK
  <1>4. ProvidesOK(v, ps)
    BY Zenon DEF ProvidesOK
  <1> QED
    BY <1>1, <1>2, <1>3, <1>4, Zenon DEF TaskOK

\* What the invariant says of a thread in a section.
LEMMA AtSection ==
    ASSUME TopicsInv, NEW t \in Threads, NEW pc, At(t, pc)
    PROVE  /\ thread[t] # Idle /\ thread[t].pc = pc
           /\ TaskFields \subseteq DOMAIN thread[t]
           /\ CallOK(thread[t].call)
           /\ pc \in Stages(thread[t].call.op)
           /\ ProducesOK(thread[t], partitions, made)
           /\ ProvidesOK(thread[t], partitions)
           /\ TaskOK(thread[t], partitions, made)
  BY Zenon DEF TopicsInv, TaskOK, At, Entered

LEMMA TailOf ==
    ASSUME NEW S, NEW s \in Seq(S), s # <<>>
    PROVE  Tail(s) \in Seq(S)
  OBVIOUS

\* The thread has what it looked for first: p, which ps2 leads to.
LEMMA ProvidedOK ==
    ASSUME TopicsInv, NEW t \in Threads, NEW pc \in {"lookup", "provision"}, At(t, pc),
           NEW p, NEW ps2, NEW md2,
           Grows(partitions, ps2, made, md2),
           Head(thread[t].todo) \in DOMAIN ps2, p = ps2[Head(thread[t].todo)],
           p \in 1 .. Len(md2)
    PROVE  TaskOK(Provided(t, p), ps2, md2)
  <1> DEFINE w == thread[t]
             op == w.call.op
             rest == Tail(w.todo)
  <1>0. /\ w # Idle /\ w.pc = pc /\ TaskFields \subseteq DOMAIN w /\ CallOK(w.call)
        /\ pc \in Stages(op) /\ ProducesOK(w, partitions, made) /\ ProvidesOK(w, partitions)
    BY AtSection, Zenon
  <1>1. CASE op = "produce"
    <2>1. w.todo = <<w.call.tp>>
      BY <1>0, <1>1 DEF ProducesOK
    <2>2. rest = <<>> /\ Head(w.todo) = w.call.tp
      BY <2>1
    <2> DEFINE g == GotoWith(t, "append", <<>>)
               v == [g EXCEPT !.at = p]
    <2>3. Provided(t, p) = v
      BY <1>1, <2>2 DEF Provided
    <2>4. Moved(w, g, "append")
      BY <1>0, GotoWithFields, Zenon
    <2> HIDE DEF g
    <2>5. /\ DOMAIN v = DOMAIN w /\ v.pc = "append" /\ v.call = w.call /\ v.at = p
          /\ v.held = 0 /\ v.parked = FALSE
      BY <1>0, <2>4 DEF Moved, TaskFields
    <2> HIDE DEF v
    <2>6. v # Idle /\ TaskFields \subseteq DOMAIN v /\ CallOK(v.call)
      BY <1>0, <2>5, NotIdle, Zenon
    <2>7. LocksOK(v)
      BY <2>5, FreshLocks, Zenon
    <2>8. "append" \in Stages("produce")
      BY DEF Stages
    <2>9. ProducesOK(v, ps2, md2)
      BY <2>2, <2>5, Zenon DEF ProducesOK
    <2>10. ProvidesOK(v, ps2)
      BY <2>5 DEF ProvidesOK
    <2> QED
      BY <1>1, <2>3, <2>5, <2>6, <2>7, <2>8, <2>9, <2>10, Zenon DEF TaskOK
  <1>2. CASE op \notin Creators /\ op # "produce"
    <2>1. op \in {"build_metadata", "load"}
      BY <1>0, <1>2 DEF CallOK, Creators, Stages
    <2>2. CASE rest # <<>>
      <3> DEFINE v == GotoWith(t, "lookup", rest)
      <3>1. Provided(t, p) = v
        BY <2>2 DEF Provided
      <3>2. Moved(w, v, "lookup")
        BY <1>0, GotoWithFields, Zenon
      <3>3. "lookup" \in Stages(op)
        BY <2>1 DEF Stages
      <3> HIDE DEF v
      <3> QED
        BY <1>0, <1>2, <3>1, <3>2, <3>3, PlainOK, Zenon DEF Moved
    <2>3. CASE rest = <<>> /\ op = "load"
      <3> DEFINE v == GotoWith(t, "restore", <<>>)
      <3>1. Provided(t, p) = v
        BY <2>3 DEF Provided
      <3>2. Moved(w, v, "restore")
        BY <1>0, GotoWithFields, Zenon
      <3>3. "restore" \in Stages(op)
        BY <2>3 DEF Stages
      <3> HIDE DEF v
      <3> QED
        BY <1>0, <1>2, <3>1, <3>2, <3>3, PlainOK, Zenon DEF Moved
    <2>4. CASE rest = <<>> /\ op = "build_metadata"
      <3>1. Provided(t, p) = Idle
        BY <2>4 DEF Provided
      <3> QED
        BY <3>1, Zenon DEF TaskOK
    <2> QED
      BY <2>1, <2>2, <2>3, <2>4, Zenon
  <1> DEFINE next == IF rest # <<>> THEN "lookup" ELSE "register"
             v == GotoWith(t, next, rest)
  <1>3. ASSUME op \in Creators
        PROVE  /\ Provided(t, p) = v /\ Moved(w, v, next) /\ v.todo = rest
               /\ next \in Stages(op) /\ op # "produce"
    <2>1. op # "produce" /\ op # "load" /\ op # "build_metadata"
      BY <1>3 DEF Creators
    <2>2. Provided(t, p) = v
      BY <2>1, Zenon DEF Provided
    <2>3. next \in Stages(op)
      BY <1>3 DEF Stages, Creators
    <2>4. Moved(w, v, next) /\ v.todo = rest
      BY <1>0, GotoWithFields, Zenon
    <2> QED
      BY <2>1, <2>2, <2>3, <2>4, Zenon
  <1> HIDE DEF v
  <1>4. CASE op \in Creators /\ w.overtaken
    BY <1>0, <1>3, <1>4, PlainOK, Zenon DEF Moved
  <1>5. CASE op \in Creators /\ ~w.overtaken
    <2>0. w.call.name \in ValidNames /\ Announced(w.call) \in Nat
      <3>1. pc \in {"lookup", "provision", "register"}
        OBVIOUS
      <3> QED
        BY <1>0, <1>5, <3>1, Zenon DEF ProvidesOK
    <2>1. /\ w.todo \in Seq(Targets(w.call)) /\ w.todo # <<>>
          /\ \A i \in 0 .. Announced(w.call) - 1 :
                 \/ <<w.call.name, i>> \in DOMAIN partitions
                 \/ \E j \in 1 .. Len(w.todo) : w.todo[j] = <<w.call.name, i>>
      <3>1. pc # "register" /\ pc \in {"lookup", "provision", "register"}
        OBVIOUS
      <3> QED
        BY <1>0, <1>5, <3>1, Zenon DEF ProvidesOK
    <2>2. rest \in Seq(Targets(w.call))
      BY <2>1, TailOf, Zenon
    <2>3. ASSUME NEW i \in 0 .. Announced(w.call) - 1
          PROVE  \/ <<w.call.name, i>> \in DOMAIN ps2
                 \/ \E j \in 1 .. Len(rest) : rest[j] = <<w.call.name, i>>
      <3>1. CASE <<w.call.name, i>> \in DOMAIN partitions
        BY <3>1, Zenon DEF Grows
      <3>2. CASE \E j \in 1 .. Len(w.todo) : w.todo[j] = <<w.call.name, i>>
        <4>1. PICK j \in 1 .. Len(w.todo) : w.todo[j] = <<w.call.name, i>>
          BY <3>2
        <4>2. CASE j = 1
          <5>1. Head(w.todo) = w.todo[1]
            BY <2>1
          <5> QED
            BY <4>1, <4>2, <5>1, Zenon
        <4>3. CASE j # 1
          <5>1. j - 1 \in 1 .. Len(rest) /\ rest[j - 1] = w.todo[j]
            BY <2>1, <4>1, <4>3
          <5> QED
            BY <4>1, <5>1, Zenon
        <4> QED
          BY <4>2, <4>3, Zenon
      <3> QED
        BY <2>1, <3>1, <3>2, Zenon
    <2>4. /\ v.call = w.call /\ v.todo = rest /\ v.pc = next
          /\ DOMAIN v = DOMAIN w /\ v.held = 0 /\ v.parked = FALSE
      BY <1>3, <1>5, Zenon DEF Moved
    <2>5. /\ next = "register" => rest = <<>>
          /\ next # "register" => rest # <<>>
      OBVIOUS
    <2> HIDE DEF rest, next
    <2>6. ProvidesOK(v, ps2)
      <3>1. /\ v.call.name \in ValidNames /\ v.todo \in Seq(Targets(v.call))
            /\ Announced(v.call) \in Nat
            /\ v.pc = "register" => v.todo = <<>>
            /\ v.pc # "register" => v.todo # <<>>
        BY <2>0, <2>2, <2>4, <2>5, Zenon
      <3>2. \A i \in 0 .. Announced(v.call) - 1 :
                \/ <<v.call.name, i>> \in DOMAIN ps2
                \/ \E j \in 1 .. Len(v.todo) : v.todo[j] = <<v.call.name, i>>
        <4>1. \A i \in 0 .. Announced(w.call) - 1 :
                  \/ <<w.call.name, i>> \in DOMAIN ps2
                  \/ \E j \in 1 .. Len(rest) : rest[j] = <<w.call.name, i>>
          BY <2>3, Zenon
        <4>2. v.call = w.call /\ v.todo = rest
          BY <2>4, Zenon
        <4> QED
          BY <4>1, <4>2, Zenon
      <3> QED
        BY <3>1, <3>2, Zenon DEF ProvidesOK
    <2>7. v # Idle /\ TaskFields \subseteq DOMAIN v /\ CallOK(v.call) /\ v.pc \in Stages(v.call.op)
      BY <1>0, <1>3, <1>5, <2>4, NotIdle, Zenon
    <2>8. LocksOK(v)
      BY <2>4, FreshLocks, Zenon
    <2>9. ProducesOK(v, ps2, md2)
      <3>1. next # "append"
        BY DEF next
      <3> QED
        BY <1>3, <1>5, <2>4, <3>1, Zenon DEF ProducesOK
    <2> QED
      BY <1>3, <1>5, <2>6, <2>7, <2>8, <2>9, Zenon DEF TaskOK
  <1> QED
    BY <1>1, <1>2, <1>4, <1>5, Zenon

------------------------------------------------------------------------------
(* The sections that read. *)

LEMMA RangeOf ==
    ASSUME NEW call, NEW from \in Nat, NEW to \in Int, from < to
    PROVE  /\ Range0(call.name, from, to) \in Seq(Targets(call))
           /\ Range0(call.name, from, to) # <<>>
           /\ \A i \in from .. to - 1 :
                  \E j \in 1 .. Len(Range0(call.name, from, to)) :
                      Range0(call.name, from, to)[j] = <<call.name, i>>
  <1> DEFINE r == Range0(call.name, from, to)
  <1>1. r = [i \in 1 .. to - from |-> <<call.name, from + i - 1>>]
    BY Zenon DEF Range0
  <1>2. \A i \in 1 .. to - from : <<call.name, from + i - 1>> \in Targets(call)
    BY DEF Targets
  <1> HIDE DEF r
  <1>3. r \in Seq(Targets(call)) /\ Len(r) = to - from
    <2>1. r \in [1 .. to - from -> Targets(call)]
      BY <1>1, <1>2, Zenon
    <2>2. to - from \in Nat
      OBVIOUS
    <2> QED
      BY <2>1, <2>2
  <1>4. r # <<>>
    BY <1>3
  <1>5. ASSUME NEW i \in from .. to - 1
        PROVE  \E j \in 1 .. Len(r) : r[j] = <<call.name, i>>
    <2>1. i - from + 1 \in 1 .. to - from /\ from + (i - from + 1) - 1 = i
      OBVIOUS
    <2>2. r[i - from + 1] = <<call.name, i>>
      BY <1>1, <2>1
    <2> QED
      BY <1>3, <2>1, <2>2, Zenon
  <1> QED
    BY <1>3, <1>4, <1>5, Zenon DEF r

\* A thread begins to make the partitions its call announces from an index on;
\* those below it are there.
LEMMA BeginsProviding ==
    ASSUME NEW v, NEW ps, NEW md, NEW from \in Nat,
           TaskFields \subseteq DOMAIN v, CallOK(v.call), v.call.op \in Creators,
           v.pc = "lookup", v.held = 0, v.parked = FALSE,
           v.call.name \in ValidNames, from < Announced(v.call), Announced(v.call) \in Int,
           v.todo = Range0(v.call.name, from, Announced(v.call)),
           \A i \in 0 .. from - 1 : <<v.call.name, i>> \in DOMAIN ps
    PROVE  TaskOK(v, ps, md)
  <1>1. v # Idle
    BY NotIdle, Zenon
  <1>2. LocksOK(v)
    BY FreshLocks, Zenon
  <1>3. v.pc \in Stages(v.call.op) /\ v.pc # "append" /\ v.pc # "register" /\ v.call.op # "produce"
    BY DEF Stages, Creators
  <1>4. ProducesOK(v, ps, md)
    BY <1>3, Zenon DEF ProducesOK
  <1>5. /\ v.todo \in Seq(Targets(v.call)) /\ v.todo # <<>>
        /\ \A i \in from .. Announced(v.call) - 1 :
               \E j \in 1 .. Len(v.todo) : v.todo[j] = <<v.call.name, i>>
    <2> DEFINE to == Announced(v.call)
               r == Range0(v.call.name, from, to)
    <2>1. /\ r \in Seq(Targets(v.call)) /\ r # <<>>
          /\ \A i \in from .. to - 1 : \E j \in 1 .. Len(r) : r[j] = <<v.call.name, i>>
      BY RangeOf, Zenon
    <2> HIDE DEF r
    <2>2. v.todo = r
      BY Zenon DEF r
    <2> QED
      BY <2>1, <2>2, Zenon
  <1>6. \A i \in 0 .. Announced(v.call) - 1 : i \in 0 .. from - 1 \/ i \in from .. Announced(v.call) - 1
    OBVIOUS
  <1>7. Announced(v.call) \in Nat
    OBVIOUS
  <1>8. ProvidesOK(v, ps)
    BY <1>3, <1>5, <1>6, <1>7, Zenon DEF ProvidesOK
  <1> QED
    BY <1>1, <1>2, <1>3, <1>4, <1>8, Zenon DEF TaskOK

LEMMA IdleOK == \A ps, md : TaskOK(Idle, ps, md)
  BY Zenon DEF TaskOK

\* A thread that releases its locks and goes to a section in which neither
\* produce nor the making of partitions has a part.
LEMMA MovedOK ==
    ASSUME NEW w, NEW v, NEW pc, NEW ps, NEW md,
           Moved(w, v, pc), TaskFields \subseteq DOMAIN w, CallOK(w.call),
           pc \in Stages(w.call.op), w.call.op # "produce",
           w.call.op \notin Creators \/ pc \notin {"lookup", "provision", "register"}
    PROVE  TaskOK(v, ps, md)
  BY PlainOK, Zenon DEF Moved

\* A section after which the call is done, or its thread is v.
LEMMA EndsOrGoesOn ==
    ASSUME TopicsInv, NEW t \in Threads, NEW v,
           thread' = [thread EXCEPT ![t] = Idle] \/ thread' = [thread EXCEPT ![t] = v],
           TaskOK(v, partitions, made),
           UNCHANGED <<topics, partitions, next_stream_id, made, log_cache, created>>
    PROVE  TopicsInv'
  <1>1. /\ thread' = [u \in Threads |-> thread'[u]]
        /\ \A u \in Threads \ {t} : Similar(thread[u], thread'[u])
        /\ thread'[t] \in {Idle, v}
    BY BecomesOne, Zenon
  <1>2. TaskOK(thread'[t], partitions, made)
    BY <1>1, IdleOK, Zenon
  <1> QED
    BY <1>1, <1>2, StepOfThreads, Zenon

LEMMA CheckInv ==
    ASSUME TopicsInv, NEW t \in Threads, Check(t)
    PROVE  TopicsInv'
  <1> DEFINE w == thread[t]
             v == GotoWith(t, "lookup", Range0(w.call.name, 0, Count(w.call)))
  <1>1. At(t, "check")
    BY Zenon DEF Check
  <1>2. w # Idle /\ TaskFields \subseteq DOMAIN w /\ CallOK(w.call) /\ "check" \in Stages(w.call.op)
    BY <1>1, AtSection, Zenon
  <1>3. w.call.op = "create_topic"
    BY <1>2 DEF CallOK, Stages
  <1>4. w.call.name \in ValidNames /\ Count(w.call) \in 1 .. MaxCount /\ w.call.op \in Creators
        /\ Announced(w.call) = Count(w.call)
    BY <1>2, <1>3, Zenon DEF CallOK, Creators, Announced
  <1>5. Count(w.call) \in Int /\ 0 < Count(w.call)
    BY <1>4, CallsAssumption
  <1>6. Moved(w, v, "lookup") /\ v.todo = Range0(w.call.name, 0, Count(w.call))
    BY <1>2, GotoWithFields, Zenon
  <1> HIDE DEF v
  <1>7. TaskOK(v, partitions, made)
    <2>1. /\ DOMAIN v = DOMAIN w /\ v.call = w.call /\ v.pc = "lookup" /\ v.held = 0
          /\ v.parked = FALSE
      BY <1>6, Zenon DEF Moved
    <2>2. 0 \in Nat /\ \A i \in 0 .. 0 - 1 : <<v.call.name, i>> \in DOMAIN partitions
      OBVIOUS
    <2> QED
      BY <1>2, <1>4, <1>5, <1>6, <2>1, <2>2, BeginsProviding, Zenon
  <1>8. \/ thread' = [thread EXCEPT ![t] = Idle]
        \/ thread' = [thread EXCEPT ![t] = v]
    BY Zenon DEF Check, Becomes, v
  <1>9. UNCHANGED <<topics, partitions, next_stream_id, made, log_cache, created>>
    BY Zenon DEF Check
  <1> QED
    BY <1>7, <1>8, <1>9, EndsOrGoesOn, Zenon

LEMMA HasInv ==
    ASSUME TopicsInv, NEW t \in Threads, Has(t)
    PROVE  TopicsInv'
  <1> DEFINE w == thread[t]
             next == IF w.call.op = "create_partitions" THEN "count" ELSE "update"
             v == Goto(t, next)
  <1>1. At(t, "has")
    BY Zenon DEF Has
  <1>2. w # Idle /\ TaskFields \subseteq DOMAIN w /\ CallOK(w.call) /\ "has" \in Stages(w.call.op)
    BY <1>1, AtSection, Zenon
  <1>3. /\ next \in Stages(w.call.op) /\ w.call.op # "produce"
        /\ next \notin {"lookup", "provision", "register"}
    BY <1>2 DEF CallOK, Stages
  <1> HIDE DEF next
  <1>4. Moved(w, v, next)
    BY <1>2, GotoFields, Zenon
  <1>5. \/ thread' = [thread EXCEPT ![t] = Idle]
        \/ thread' = [thread EXCEPT ![t] = v]
    BY Zenon DEF Has, Becomes, next
  <1> HIDE DEF v
  <1>6. TaskOK(v, partitions, made)
    BY <1>2, <1>3, <1>4, MovedOK, Zenon
  <1>7. UNCHANGED <<topics, partitions, next_stream_id, made, log_cache, created>>
    BY Zenon DEF Has
  <1> QED
    BY <1>5, <1>6, <1>7, EndsOrGoesOn, Zenon

LEMMA CountPartitionsInv ==
    ASSUME TopicsInv, NEW t \in Threads, CountPartitions(t)
    PROVE  TopicsInv'
  <1> DEFINE w == thread[t]
             current == CurrentCount(w.call.name)
             todo == Range0(w.call.name, current, w.call.count)
             g == GotoWith(t, "lookup", todo)
             v == [g EXCEPT !.overtaken = w.call.name \notin created]
  <1>1. At(t, "count")
    BY Zenon DEF CountPartitions
  <1>2. w # Idle /\ TaskFields \subseteq DOMAIN w /\ CallOK(w.call) /\ "count" \in Stages(w.call.op)
    BY <1>1, AtSection, Zenon
  <1>3. w.call.op = "create_partitions"
    BY <1>2 DEF CallOK, Stages
  <1>4. /\ w.call.op \in Creators /\ w.call.op # "produce" /\ w.call.count \in Int
        /\ Announced(w.call) = w.call.count
    <2>1. w.call.op \in Creators /\ w.call.op # "produce" /\ w.call.op # "create_topic"
      BY <1>3 DEF Creators
    <2> QED
      BY <1>2, <2>1, Zenon DEF CallOK, Announced
  <1>5. \/ thread' = [thread EXCEPT ![t] = Idle]
        \/ w.call.count \in current + 1 .. MaxCount /\ thread' = [thread EXCEPT ![t] = v]
    BY Zenon DEF CountPartitions, Becomes
  <1>6. Moved(w, g, "lookup") /\ g.todo = todo
    BY <1>2, GotoWithFields, Zenon
  <1> HIDE DEF g
  <1>7. /\ TaskFields \subseteq DOMAIN v /\ v.call = w.call /\ v.pc = "lookup" /\ v.held = 0
        /\ v.parked = FALSE /\ v.todo = todo /\ v.overtaken = (w.call.name \notin created)
    BY <1>2, <1>6 DEF Moved, TaskFields
  <1> HIDE DEF v
  <1>8. UNCHANGED <<topics, partitions, next_stream_id, made, log_cache, created>>
    BY Zenon DEF CountPartitions
  <1>9. CASE w.call.name \notin created
    <2>1. "lookup" \in Stages(w.call.op)
      BY <1>3 DEF Stages
    <2>2. TaskOK(v, partitions, made)
      BY <1>2, <1>4, <1>7, <1>9, <2>1, PlainOK, Zenon
    <2> QED
      BY <1>5, <1>8, <2>2, EndsOrGoesOn, Zenon
  <1>10. CASE w.call.name \in created /\ w.call.count \in current + 1 .. MaxCount
    <2>1. /\ w.call.name \in ValidNames /\ w.call.name \in DOMAIN topics
          /\ topics[w.call.name].num_partitions \in Nat
          /\ \A i \in 0 .. topics[w.call.name].num_partitions - 1 :
                 <<w.call.name, i>> \in DOMAIN partitions
      BY <1>10, Zenon DEF TopicsInv, CreatedOK
    <2>2. current = topics[w.call.name].num_partitions
      BY <2>1, Zenon DEF CurrentCount
    <2> HIDE DEF current
    <2>3. current \in Nat /\ current < w.call.count
      BY <1>4, <1>10, <2>1, <2>2, CallsAssumption
    <2>4. \A i \in 0 .. current - 1 : <<v.call.name, i>> \in DOMAIN partitions
      BY <1>7, <2>1, <2>2, Zenon
    <2>5. v.todo = Range0(v.call.name, current, Announced(v.call))
      BY <1>4, <1>7, Zenon
    <2>6. TaskOK(v, partitions, made)
      BY <1>2, <1>4, <1>7, <2>1, <2>3, <2>4, <2>5, BeginsProviding, Zenon
    <2> QED
      BY <1>5, <1>8, <2>6, EndsOrGoesOn, Zenon
  <1>11. CASE thread' = [thread EXCEPT ![t] = Idle]
    BY <1>8, <1>11, IdleOK, EndsOrGoesOn, Zenon
  <1> QED
    BY <1>5, <1>9, <1>10, <1>11, Zenon

LEMMA LookupInv ==
    ASSUME TopicsInv, NEW t \in Threads, Lookup(t)
    PROVE  TopicsInv'
  <1> DEFINE w == thread[t]
             tp == Head(w.todo)
  <1>1. At(t, "lookup")
    BY Zenon DEF Lookup
  <1>2. /\ w # Idle /\ w.pc = "lookup" /\ TaskFields \subseteq DOMAIN w /\ CallOK(w.call)
        /\ "lookup" \in Stages(w.call.op)
        /\ ProducesOK(w, partitions, made) /\ ProvidesOK(w, partitions)
    BY <1>1, AtSection, Zenon
  <1>3. UNCHANGED <<topics, partitions, next_stream_id, made, log_cache, created>>
    BY Zenon DEF Lookup
  <1>4. CASE tp \in DOMAIN partitions
    <2>1. partitions[tp] \in 1 .. Len(made)
      BY <1>4, Zenon DEF TopicsInv, StoreOK
    <2>2. TaskOK(Provided(t, partitions[tp]), partitions, made)
      BY <1>1, <1>4, <2>1, GrowsReflexive, ProvidedOK, Zenon
    <2>3. thread' = [thread EXCEPT ![t] = Provided(t, partitions[tp])]
      BY <1>4, Zenon DEF Lookup, Becomes
    <2> QED
      BY <1>3, <2>2, <2>3, EndsOrGoesOn, Zenon
  <1>5. CASE tp \notin DOMAIN partitions
    <2> DEFINE v == Goto(t, "provision")
    <2>1. thread' = [thread EXCEPT ![t] = v]
      BY <1>5, Zenon DEF Lookup, Becomes
    <2>2. Moved(w, v, "provision") /\ v.todo = w.todo
      BY <1>2, GotoFields, Zenon
    <2> HIDE DEF v
    <2>3. "provision" \in Stages(w.call.op)
      BY <1>2, Zenon DEF CallOK, Stages
    <2>4. ProducesOK(v, partitions, made)
      <3>1. v.pc = "provision" /\ v.call = w.call /\ v.todo = w.todo
        BY <2>2, Zenon DEF Moved
      <3>2. w.call.op = "produce" => w.todo = <<w.call.tp>>
        BY <1>2, Zenon DEF ProducesOK
      <3> QED
        BY <3>1, <3>2, Zenon DEF ProducesOK
    <2>5. ProvidesOK(v, partitions)
      BY <1>2, <2>2, Zenon DEF ProvidesOK, Moved
    <2>6. TaskFields \subseteq DOMAIN v /\ v # Idle /\ CallOK(v.call) /\ v.pc \in Stages(v.call.op)
      BY <1>2, <2>2, <2>3, NotIdle, Zenon DEF Moved
    <2>7. LocksOK(v)
      BY <2>2, FreshLocks, Zenon DEF Moved
    <2>8. TaskOK(v, partitions, made)
      BY <2>4, <2>5, <2>6, <2>7, Zenon DEF TaskOK
    <2> QED
      BY <1>3, <2>1, <2>8, EndsOrGoesOn, Zenon
  <1> QED
    BY <1>4, <1>5, Zenon

LEMMA ScanInv ==
    ASSUME TopicsInv, NEW t \in Threads, Scan(t)
    PROVE  TopicsInv'
  <1> DEFINE w == thread[t]
             missing == SelectSeq(w.call.names, LAMBDA n : Indices(n) = {})
             v == GotoWith(t, "lookup", [i \in DOMAIN missing |-> <<missing[i], 0>>])
  <1>1. At(t, "scan")
    BY Zenon DEF Scan
  <1>2. w # Idle /\ TaskFields \subseteq DOMAIN w /\ CallOK(w.call) /\ "scan" \in Stages(w.call.op)
    BY <1>1, AtSection, Zenon
  <1>3. /\ "lookup" \in Stages(w.call.op)
        /\ w.call.op # "produce" /\ w.call.op \notin Creators
    BY <1>2, Zenon DEF CallOK, Stages, Creators
  <1>4. Moved(w, v, "lookup")
    BY <1>2, GotoWithFields, Zenon
  <1>5. \/ thread' = [thread EXCEPT ![t] = Idle]
        \/ thread' = [thread EXCEPT ![t] = v]
    BY Zenon DEF Scan, Becomes
  <1> HIDE DEF v
  <1>6. TaskOK(v, partitions, made)
    BY <1>2, <1>3, <1>4, MovedOK, Zenon
  <1>7. UNCHANGED <<topics, partitions, next_stream_id, made, log_cache, created>>
    BY Zenon DEF Scan
  <1> QED
    BY <1>5, <1>6, <1>7, EndsOrGoesOn, Zenon

\* The calls that end without a trace in topics and partitions.
LEMMA EndInv ==
    ASSUME TopicsInv, NEW t \in Threads, CommitOffset(t) \/ DumpGroups(t) \/ Restored(t)
    PROVE  TopicsInv'
  <1>1. /\ thread' = [thread EXCEPT ![t] = Idle]
        /\ UNCHANGED <<topics, partitions, next_stream_id, made, log_cache, created>>
    BY Zenon DEF CommitOffset, DumpGroups, Restored, Becomes
  <1> QED
    BY <1>1, IdleOK, EndsOrGoesOn, Zenon

LEMMA DumpPartitionsInv ==
    ASSUME TopicsInv, NEW t \in Threads, DumpPartitions(t)
    PROVE  TopicsInv'
  <1> DEFINE w == thread[t]
             v == GotoWith(t, "dump_groups", InSomeOrder(DOMAIN partitions))
  <1>1. At(t, "dump")
    BY Zenon DEF DumpPartitions
  <1>2. w # Idle /\ TaskFields \subseteq DOMAIN w /\ CallOK(w.call) /\ "dump" \in Stages(w.call.op)
    BY <1>1, AtSection, Zenon
  <1>3. /\ "dump_groups" \in Stages(w.call.op)
        /\ w.call.op # "produce" /\ w.call.op \notin Creators
    <2> DEFINE op == w.call.op
    <2>1. op \in {"create_topic", "create_partitions", "update_topic_configs", "delete_topic",
                  "build_metadata", "produce", "commit_offset", "reset", "dump", "load"}
      BY <1>2, Zenon DEF CallOK
    <2>2. "dump" \in Stages(op)
      BY <1>2, Zenon
    <2> HIDE DEF op
    <2>3. op = "dump"
      BY <2>1, <2>2 DEF Stages
    <2>4. "dump_groups" \in Stages(op) /\ op # "produce" /\ op \notin Creators
      BY <2>3 DEF Stages, Creators
    <2> QED
      BY <2>4, Zenon DEF op
  <1>4. Moved(w, v, "dump_groups")
    BY <1>2, GotoWithFields, Zenon
  <1>5. thread' = [thread EXCEPT ![t] = v]
    BY Zenon DEF DumpPartitions, Becomes
  <1> HIDE DEF v
  <1>6. TaskOK(v, partitions, made)
    BY <1>2, <1>3, <1>4, MovedOK, Zenon
  <1>7. UNCHANGED <<topics, partitions, next_stream_id, made, log_cache, created>>
    BY Zenon DEF DumpPartitions
  <1> QED
    BY <1>5, <1>6, <1>7, EndsOrGoesOn, Zenon

LEMMA ClearGroupsInv ==
    ASSUME TopicsInv, NEW t \in Threads, ClearGroups(t)
    PROVE  TopicsInv'
  <1> DEFINE w == thread[t]
             s == CHOOSE s \in snapshot : TRUE
             todo == InSomeOrder(s.partitions)
             next == IF todo = <<>> THEN "restore" ELSE "lookup"
             g == Provide(t, todo, "restore")
             v == [g EXCEPT !.offsets = Restorable(s.offsets)]
  <1>1. At(t, "clear_groups")
    BY Zenon DEF ClearGroups
  <1>2. /\ w # Idle /\ TaskFields \subseteq DOMAIN w /\ CallOK(w.call)
        /\ "clear_groups" \in Stages(w.call.op)
    BY <1>1, AtSection, Zenon
  <1>3. UNCHANGED <<topics, partitions, next_stream_id, made, log_cache, created>>
    BY Zenon DEF ClearGroups
  <1>4. CASE w.call.op = "reset"
    <2>1. thread' = [thread EXCEPT ![t] = Idle]
      BY <1>4, Zenon DEF ClearGroups, Becomes
    <2> QED
      BY <1>3, <2>1, IdleOK, EndsOrGoesOn, Zenon
  <1>5. CASE w.call.op # "reset"
    <2>1. w.call.op = "load"
      BY <1>2, <1>5 DEF CallOK, Stages
    <2>2. next \in Stages(w.call.op) /\ w.call.op # "produce" /\ w.call.op \notin Creators
      BY <2>1 DEF Stages, Creators
    <2>3. thread' = [thread EXCEPT ![t] = v]
      BY <1>5, Zenon DEF ClearGroups, Becomes
    <2>4. Moved(w, g, next)
      <3>1. CASE todo = <<>>
        BY <1>2, <3>1, GotoFields, Zenon DEF Provide
      <3>2. CASE todo # <<>>
        BY <1>2, <3>2, GotoWithFields, Zenon DEF Provide
      <3> QED
        BY <3>1, <3>2, Zenon
    <2> HIDE DEF g, next
    <2>5. Moved(w, v, next)
      BY <1>2, <2>4 DEF Moved, TaskFields
    <2> HIDE DEF v
    <2>6. TaskOK(v, partitions, made)
      BY <1>2, <2>2, <2>5, MovedOK, Zenon
    <2> QED
      BY <1>3, <2>3, <2>6, EndsOrGoesOn, Zenon
  <1> QED
    BY <1>4, <1>5, Zenon

LEMMA RestoreInv ==
    ASSUME TopicsInv, NEW t \in Threads, Restore(t)
    PROVE  TopicsInv'
  <1> DEFINE w == thread[t]
  <1>1. At(t, "restore")
    BY Zenon DEF Restore
  <1>2. w # Idle /\ TaskFields \subseteq DOMAIN w /\ TaskOK(w, partitions, made)
    BY <1>1, AtSection, Zenon
  <1>3. PICK tp \in DOMAIN w.offsets :
            thread' = [thread EXCEPT ![t].offsets = Without(@, {tp})]
    BY Zenon DEF Restore
  <1> DEFINE v == [w EXCEPT !.offsets = Without(w.offsets, {tp})]
  <1>4. thread' = [thread EXCEPT ![t] = v]
    BY <1>3, Zenon
  <1>5. Similar(w, v)
    BY <1>2 DEF Similar, TaskFields
  <1> HIDE DEF v
  <1>6. TaskOK(v, partitions, made)
    BY <1>2, <1>5, GrowsReflexive, SimilarOK, Zenon
  <1>7. UNCHANGED <<topics, partitions, next_stream_id, made, log_cache, created>>
    BY Zenon DEF Restore
  <1> QED
    BY <1>4, <1>6, <1>7, EndsOrGoesOn, Zenon

------------------------------------------------------------------------------
(* Locks, and the beginning of a call. *)

\* v is w but for its locks.
LEMMA RelockedOK ==
    ASSUME NEW w, NEW v, NEW ps, NEW md, TaskOK(w, ps, md), w # Idle,
           DOMAIN v = DOMAIN w, v.pc = w.pc, v.call = w.call, v.todo = w.todo, v.at = w.at,
           v.overtaken = w.overtaken, LocksOK(v)
    PROVE  TaskOK(v, ps, md)
  <1>1. /\ TaskFields \subseteq DOMAIN w /\ CallOK(w.call) /\ w.pc \in Stages(w.call.op)
        /\ ProducesOK(w, ps, md) /\ ProvidesOK(w, ps)
    BY Zenon DEF TaskOK
  <1>2. ProducesOK(v, ps, md)
    BY <1>1, GrowsReflexive, ProducesGrow, Zenon
  <1>3. ProvidesOK(v, ps)
    BY <1>1, ProvidesGrow, Zenon
  <1>4. v # Idle
    BY <1>1, NotIdle, Zenon
  <1> QED
    BY <1>1, <1>2, <1>3, <1>4, Zenon DEF TaskOK

LEMMA AcquireInv ==
    ASSUME TopicsInv, NEW t \in Threads, Acquire(t)
    PROVE  TopicsInv'
  <1> DEFINE w == thread[t]
             v == [w EXCEPT !.held = 1, !.parked = FALSE]
  <1>1. w # Idle /\ w.held = 0 /\ Len(Locks(t)) = 2
    BY Zenon DEF Acquire
  <1>2. TaskOK(w, partitions, made) /\ TaskFields \subseteq DOMAIN w
    BY <1>1, Zenon DEF TopicsInv, TaskOK
  <1>3. thread' = [thread EXCEPT ![t] = v]
    BY Zenon DEF Acquire
  <1>4. w.pc \in Pairs
    BY <1>1 DEF Locks, Both, DeleteLocks, Lock, Pairs
  <1>5. /\ DOMAIN v = DOMAIN w /\ v.pc = w.pc /\ v.call = w.call /\ v.todo = w.todo
        /\ v.at = w.at /\ v.overtaken = w.overtaken /\ v.held = 1 /\ v.parked = FALSE
    BY <1>2 DEF TaskFields
  <1> HIDE DEF v
  <1>6. LocksOK(v)
    BY <1>4, <1>5, Zenon DEF LocksOK
  <1>7. TaskOK(v, partitions, made)
    BY <1>1, <1>2, <1>5, <1>6, RelockedOK, Zenon
  <1>8. UNCHANGED <<topics, partitions, next_stream_id, made, log_cache, created>>
    BY Zenon DEF Acquire
  <1> QED
    BY <1>3, <1>7, <1>8, EndsOrGoesOn, Zenon

LEMMA ParkInv ==
    ASSUME TopicsInv, NEW t \in Threads, Park(t)
    PROVE  TopicsInv'
  <1> DEFINE w == thread[t]
             v == [w EXCEPT !.parked = TRUE]
  <1>1. /\ w # Idle /\ w.held < Len(Locks(t)) /\ Locks(t)[w.held + 1].mode = "write"
    BY Zenon DEF Park, KeptOut
  <1>2. TaskOK(w, partitions, made) /\ TaskFields \subseteq DOMAIN w /\ LocksOK(w)
    BY <1>1, Zenon DEF TopicsInv, TaskOK
  <1>3. thread' = [thread EXCEPT ![t] = v]
    BY Zenon DEF Park
  <1>4. w.held \in {0, 1} /\ (w.held = 1 => w.pc \in Pairs)
    BY <1>2, Zenon DEF LocksOK
  <1>5. w.held = 1 => w.pc = "delete"
    BY <1>1, <1>4 DEF Locks, Both, DeleteLocks, Lock, Pairs
  <1>6. w.held = 0 => w.pc \in Writers
    BY <1>1 DEF Locks, Both, DeleteLocks, Lock, Writers
  <1>7. /\ DOMAIN v = DOMAIN w /\ v.pc = w.pc /\ v.call = w.call /\ v.todo = w.todo
        /\ v.at = w.at /\ v.overtaken = w.overtaken /\ v.held = w.held
    BY <1>2 DEF TaskFields
  <1> HIDE DEF v
  <1>8. LocksOK(v)
    BY <1>4, <1>5, <1>6, <1>7, Zenon DEF LocksOK
  <1>9. TaskOK(v, partitions, made)
    BY <1>1, <1>2, <1>7, <1>8, RelockedOK, Zenon
  <1>10. UNCHANGED <<topics, partitions, next_stream_id, made, log_cache, created>>
    BY Zenon DEF Park
  <1> QED
    BY <1>3, <1>9, <1>10, EndsOrGoesOn, Zenon

LEMMA BeginInv ==
    ASSUME TopicsInv, NEW t \in Threads, NEW call \in Calls(t), Begin(t, call)
    PROVE  TopicsInv'
  <1> DEFINE v == [pc |-> First(call), call |-> call, held |-> 0, parked |-> FALSE,
                   todo |-> IF call.op = "produce" THEN <<call.tp>> ELSE <<>>, at |-> 0,
                   offsets |-> <<>>, overtaken |-> FALSE,
                   alone |-> call.op = "load" /\ Active = {}]
  <1>1. thread' = [u \in Threads |-> IF u = t THEN v
                                     ELSE IF u \in Active THEN [thread[u] EXCEPT !.alone = FALSE]
                                     ELSE Idle]
    BY Zenon DEF Begin
  <1>2. /\ TaskFields \subseteq DOMAIN v /\ v.call = call /\ v.pc = First(call) /\ v.held = 0
        /\ v.parked = FALSE
        /\ v.todo = IF call.op = "produce" THEN <<call.tp>> ELSE <<>>
    BY DEF TaskFields
  <1> HIDE DEF v
  <1>3. CallOK(call)
    <2>1. Valid(call)
      BY Zenon DEF Begin
    <2>2. call.op = "create_topic" => call.name \in ValidNames /\ Count(call) \in 1 .. MaxCount
      BY <2>1 DEF Valid
    <2>3. /\ call.op \in {"create_topic", "create_partitions", "update_topic_configs",
                         "delete_topic", "build_metadata", "produce", "commit_offset",
                         "reset", "dump", "load"}
          /\ call.op \in Creators => call.count \in Int
      BY CallsAssumption, Zenon DEF Creators
    <2> QED
      BY <2>2, <2>3, Zenon DEF CallOK
  <1>4. /\ First(call) \in Stages(call.op) /\ First(call) # "append"
        /\ call.op \in Creators => First(call) \notin {"lookup", "provision", "register"}
    <2> DEFINE op == call.op
    <2>1. op \in {"create_topic", "create_partitions", "update_topic_configs", "delete_topic",
                  "build_metadata", "produce", "commit_offset", "reset", "dump", "load"}
      BY <1>3, Zenon DEF CallOK
    <2>2. op \in Creators => First(call) \notin {"lookup", "provision", "register"}
      BY DEF First, Creators
    <2>3. First(call) \in Stages(op)
      BY <2>1 DEF First, Stages
    <2>4. First(call) # "append"
      BY <2>1 DEF First
    <2> QED
      BY <2>2, <2>3, <2>4, Zenon
  <1>5. LocksOK(v)
    BY <1>2, FreshLocks, Zenon
  <1>6. ProducesOK(v, partitions, made)
    BY <1>2, <1>4, Zenon DEF ProducesOK
  <1>7. ProvidesOK(v, partitions)
    BY <1>2, <1>4, Zenon DEF ProvidesOK
  <1>8. v # Idle
    BY <1>2, NotIdle, Zenon
  <1>9. TaskOK(v, partitions, made)
    BY <1>2, <1>3, <1>4, <1>5, <1>6, <1>7, <1>8, Zenon DEF TaskOK
  <1>10. thread' = [u \in Threads |-> thread'[u]] /\ thread'[t] = v
    BY <1>1, Zenon
  <1>11. ASSUME NEW u \in Threads \ {t}
         PROVE  Similar(thread[u], thread'[u])
    <2>1. CASE u \in Active
      <3>1. thread'[u] = [thread[u] EXCEPT !.alone = FALSE]
        BY <1>1, <2>1, Zenon
      <3>2. thread[u] # Idle /\ TaskFields \subseteq DOMAIN thread[u]
        BY <2>1, Zenon DEF Active, TopicsInv, TaskOK
      <3> QED
        BY <3>1, <3>2 DEF Similar, TaskFields
    <2>2. CASE u \notin Active
      BY <1>1, <2>2, Zenon DEF Active, Similar
    <2> QED
      BY <2>1, <2>2, Zenon
  <1>12. UNCHANGED <<topics, partitions, next_stream_id, made, log_cache, created>>
    BY Zenon DEF Begin
  <1> QED
    BY <1>9, <1>10, <1>11, <1>12, StepOfThreads, Zenon

------------------------------------------------------------------------------
(* The sections that write. *)

LEMMA CreatedGrows ==
    ASSUME CreatedOK, topics' = topics, created' = created,
           \A tp \in DOMAIN partitions : tp \in DOMAIN partitions'
    PROVE  CreatedOK'
  BY Zenon DEF CreatedOK

\* reset and load clear in one order.
LEMMA ClearingStages ==
    ASSUME NEW call, CallOK(call),
           \/ "clear_topics" \in Stages(call.op) \/ "clear_partitions" \in Stages(call.op)
           \/ "restart_ids" \in Stages(call.op)
    PROVE  /\ "clear_partitions" \in Stages(call.op) /\ "restart_ids" \in Stages(call.op)
           /\ "clear_groups" \in Stages(call.op)
           /\ call.op # "produce" /\ call.op \notin Creators
  <1> DEFINE op == call.op
  <1>1. op \in {"create_topic", "create_partitions", "update_topic_configs", "delete_topic",
                "build_metadata", "produce", "commit_offset", "reset", "dump", "load"}
    BY Zenon DEF CallOK
  <1>2. \/ "clear_topics" \in Stages(op) \/ "clear_partitions" \in Stages(op)
        \/ "restart_ids" \in Stages(op)
    BY Zenon
  <1> HIDE DEF op
  <1>3. op \in {"reset", "load"}
    BY <1>1, <1>2, Zenon DEF Stages
  <1>4. /\ "clear_partitions" \in Stages(op) /\ "restart_ids" \in Stages(op)
        /\ "clear_groups" \in Stages(op)
        /\ op # "produce" /\ op \notin Creators
    BY <1>3, Zenon DEF Stages, Creators
  <1> QED
    BY <1>4, Zenon DEF op

LEMMA RestartIdsInv ==
    ASSUME TopicsInv, NEW t \in Threads, RestartIds(t)
    PROVE  TopicsInv'
  <1> DEFINE w == thread[t]
             v == Goto(t, "clear_groups")
  <1>1. At(t, "restart_ids")
    BY Zenon DEF RestartIds
  <1>2. /\ w # Idle /\ TaskFields \subseteq DOMAIN w /\ CallOK(w.call)
        /\ "restart_ids" \in Stages(w.call.op)
    BY <1>1, AtSection, Zenon
  <1>3. /\ "clear_groups" \in Stages(w.call.op)
        /\ w.call.op # "produce" /\ w.call.op \notin Creators
    BY <1>2, ClearingStages, Zenon
  <1>4. Moved(w, v, "clear_groups")
    BY <1>2, GotoFields, Zenon
  <1>5. thread' = [thread EXCEPT ![t] = v]
    BY Zenon DEF RestartIds, Becomes
  <1> HIDE DEF v
  <1>6. TaskOK(v, partitions, made)
    BY <1>2, <1>3, <1>4, MovedOK, Zenon
  <1>7. /\ next_stream_id' = 0
        /\ UNCHANGED <<topics, partitions, made, log_cache, created>>
    BY Zenon DEF RestartIds
  <1>8. StoreOK'
    BY <1>7 DEF TopicsInv, StoreOK
  <1>9. CreatedOK'
    BY <1>7, CreatedGrows, Zenon DEF TopicsInv
  <1>10. Grows(partitions, partitions', made, made')
    BY <1>7, GrowsReflexive, Zenon
  <1>11. /\ thread' = [u \in Threads |-> thread'[u]]
         /\ \A u \in Threads \ {t} : Similar(thread[u], thread'[u])
         /\ TaskOK(thread'[t], partitions', made')
    BY <1>5, <1>6, <1>7, BecomesOne, Zenon
  <1> QED
    BY <1>8, <1>9, <1>10, <1>11, StepOfOne, Zenon

\* A new Partition.
LEMMA InstallStore ==
    ASSUME StoreOK, NEW tp, Install(tp, next_stream_id), next_stream_id' = next_stream_id + 1,
           log_cache' = log_cache, tp \notin DOMAIN partitions
    PROVE  /\ StoreOK'
           /\ Grows(partitions, partitions', made, made')
           /\ tp \in DOMAIN partitions' /\ partitions'[tp] = Len(made) + 1
           /\ Len(made) + 1 \in 1 .. Len(made')
  <1> DEFINE new == [stream |-> next_stream_id, next |-> 0, gone |-> FALSE]
  <1>1. made' = Append(made, new) /\ partitions' = Put(partitions, tp, Len(made) + 1)
    BY Zenon DEF Install
  <1>2. /\ DOMAIN partitions' = DOMAIN partitions \cup {tp}
        /\ partitions'[tp] = Len(made) + 1
        /\ \A x \in DOMAIN partitions : partitions'[x] = partitions[x]
    <2>1. \A x \in DOMAIN partitions : x # tp
      BY Zenon
    <2> DEFINE n == Len(made) + 1
    <2>2. partitions' = Put(partitions, tp, n)
      BY <1>1, Zenon
    <2> HIDE DEF n
    <2>3. /\ DOMAIN partitions' = DOMAIN partitions \cup {tp}
          /\ partitions'[tp] = n
          /\ \A x \in DOMAIN partitions : x # tp => partitions'[x] = partitions[x]
      BY <2>2 DEF Put
    <2> QED
      BY <2>1, <2>3, Zenon DEF n
  <1>3. /\ made \in Seq([stream : Nat, next : Nat, gone : BOOLEAN])
        /\ next_stream_id \in 0 .. Len(made)
    BY Zenon DEF StoreOK
  <1>4. new \in [stream : Nat, next : Nat, gone : BOOLEAN] /\ new.stream = next_stream_id
    BY <1>3
  <1> HIDE DEF new
  <1>5. /\ made' \in Seq([stream : Nat, next : Nat, gone : BOOLEAN])
        /\ Len(made') = Len(made) + 1 /\ Len(made) \in Nat
        /\ \A i \in 1 .. Len(made) : made'[i] = made[i]
        /\ made'[Len(made) + 1] = new
    BY <1>1, <1>3, <1>4
  <1>6. Grows(partitions, partitions', made, made')
    <2>1. \A i \in 1 .. Len(made) : i \in 1 .. Len(made')
      BY <1>5
    <2>2. \A i \in 1 .. Len(made) : made'[i].gone = made[i].gone
      BY <1>5, Zenon
    <2> QED
      BY <1>2, <2>1, <2>2, Zenon DEF Grows
  <1>7. \A x \in DOMAIN partitions' : partitions'[x] \in 1 .. Len(made')
    <2>1. \A x \in DOMAIN partitions : partitions[x] \in 1 .. Len(made)
      BY Zenon DEF StoreOK
    <2>2. 1 .. Len(made) \subseteq 1 .. Len(made') /\ Len(made) + 1 \in 1 .. Len(made')
      BY <1>5
    <2> QED
      BY <1>2, <2>1, <2>2, Zenon
  <1>8. next_stream_id' \in 0 .. Len(made')
    BY <1>3, <1>5
  <1>9. ASSUME next_stream_id' = Len(made')
        PROVE  /\ \A i \in 1 .. Len(made') : made'[i].stream = i - 1
               /\ \A s \in DOMAIN log_cache' :
                      /\ s \in 0 .. Len(made') - 1
                      /\ \A o \in DOMAIN log_cache'[s] : log_cache'[s][o] = s + 1
    <2>1. next_stream_id = Len(made)
      BY <1>3, <1>5, <1>9
    <2>2. /\ \A i \in 1 .. Len(made) : made[i].stream = i - 1
          /\ \A s \in DOMAIN log_cache :
                 /\ s \in 0 .. Len(made) - 1
                 /\ \A o \in DOMAIN log_cache[s] : log_cache[s][o] = s + 1
      BY <2>1, Zenon DEF StoreOK
    <2>3. \A i \in 1 .. Len(made') : made'[i].stream = i - 1
      <3> SUFFICES ASSUME NEW i \in 1 .. Len(made') PROVE made'[i].stream = i - 1
        BY Zenon
      <3>1. CASE i = Len(made) + 1
        BY <1>4, <1>5, <2>1, <3>1
      <3>2. CASE i # Len(made) + 1
        <4>1. i \in 1 .. Len(made)
          BY <1>5, <3>2
        <4> QED
          BY <1>5, <2>2, <4>1, Zenon
      <3> QED
        BY <3>1, <3>2
    <2>4. \A s \in 0 .. Len(made) - 1 : s \in 0 .. Len(made') - 1
      BY <1>5
    <2> QED
      BY <2>2, <2>3, <2>4, Zenon
  <1>10. StoreOK'
    BY <1>5, <1>7, <1>8, <1>9, Zenon DEF StoreOK
  <1>11. Len(made) + 1 \in 1 .. Len(made')
    BY <1>5
  <1> QED
    BY <1>2, <1>6, <1>10, <1>11, Zenon

LEMMA ProvisionInv ==
    ASSUME TopicsInv, NEW t \in Threads, Provision(t)
    PROVE  TopicsInv'
  <1> DEFINE tp == Head(thread[t].todo)
  <1>1. At(t, "provision")
    BY Zenon DEF Provision
  <1>2. topics' = topics /\ log_cache' = log_cache /\ created' = created
    BY Zenon DEF Provision
  <1>3. CASE tp \in DOMAIN partitions
    <2>1. /\ thread' = [thread EXCEPT ![t] = Provided(t, partitions[tp])]
          /\ UNCHANGED <<made, partitions, next_stream_id>>
      BY <1>3, Zenon DEF Provision, Becomes
    <2>2. partitions[tp] \in 1 .. Len(made)
      BY <1>3, Zenon DEF TopicsInv, StoreOK
    <2>3. TaskOK(Provided(t, partitions[tp]), partitions, made)
      BY <1>1, <1>3, <2>2, GrowsReflexive, ProvidedOK, Zenon
    <2> QED
      BY <1>2, <2>1, <2>3, EndsOrGoesOn, Zenon
  <1>4. CASE tp \notin DOMAIN partitions
    <2> DEFINE v == Provided(t, Len(made) + 1)
    <2>1. /\ Install(tp, next_stream_id)
          /\ next_stream_id' = next_stream_id + 1
          /\ thread' = [thread EXCEPT ![t] = v]
      BY <1>4, Zenon DEF Provision, Becomes
    <2>2. StoreOK
      BY Zenon DEF TopicsInv
    <2>3. /\ StoreOK'
          /\ Grows(partitions, partitions', made, made')
          /\ tp \in DOMAIN partitions' /\ partitions'[tp] = Len(made) + 1
          /\ Len(made) + 1 \in 1 .. Len(made')
      BY <1>2, <1>4, <2>1, <2>2, InstallStore, Zenon
    <2>4. TaskOK(v, partitions', made')
      BY <1>1, <2>3, ProvidedOK, Zenon
    <2> HIDE DEF v
    <2>5. /\ thread' = [u \in Threads |-> thread'[u]]
          /\ \A u \in Threads \ {t} : Similar(thread[u], thread'[u])
          /\ thread'[t] = v
      BY <2>1, BecomesOne, Zenon
    <2>6. CreatedOK'
      BY <1>2, <2>3, CreatedGrows, Zenon DEF TopicsInv, Grows
    <2>7. TaskOK(thread'[t], partitions', made')
      BY <2>4, <2>5, Zenon
    <2> QED
      BY <2>3, <2>5, <2>6, <2>7, StepOfOne, Zenon
  <1> QED
    BY <1>3, <1>4, Zenon

LEMMA ElementOf ==
    ASSUME NEW S, NEW s \in Seq(S), NEW i \in 1 .. Len(s)
    PROVE  s[i] \in S
  OBVIOUS

LEMMA ReplacedElement ==
    ASSUME NEW S, NEW s \in Seq(S), NEW i \in 1 .. Len(s), NEW e \in S,
           NEW r, r = [s EXCEPT ![i] = e]
    PROVE  r \in Seq(S) /\ Len(r) = Len(s)
  OBVIOUS

LEMMA AppendRecordsInv ==
    ASSUME TopicsInv, NEW t \in Threads, AppendRecords(t)
    PROVE  TopicsInv'
  <1> DEFINE p == thread[t].at
             stream == made[p].stream
             old == IF stream \in DOMAIN log_cache THEN log_cache[stream] ELSE <<>>
             new == Put(old, made[p].next, p)
  <1>1. At(t, "append")
    BY Zenon DEF AppendRecords
  <1>2. thread[t].pc = "append" /\ ProducesOK(thread[t], partitions, made)
    BY <1>1, AtSection, Zenon
  <1>3. p \in 1 .. Len(made)
    BY <1>2, Zenon DEF ProducesOK
  <1>4. /\ log_cache' = Put(log_cache, stream, new)
        /\ made' = [made EXCEPT ![p].next = @ + 1]
        /\ thread' = [thread EXCEPT ![t] = Idle]
        /\ UNCHANGED <<topics, partitions, next_stream_id, created>>
    BY Zenon DEF AppendRecords, Becomes
  <1> HIDE DEF p, stream, old, new
  <1>5. /\ made \in Seq([stream : Nat, next : Nat, gone : BOOLEAN])
        /\ next_stream_id \in 0 .. Len(made)
        /\ \A tp \in DOMAIN partitions : partitions[tp] \in 1 .. Len(made)
    BY Zenon DEF TopicsInv, StoreOK
  <1>6. /\ made' \in Seq([stream : Nat, next : Nat, gone : BOOLEAN])
        /\ Len(made') = Len(made)
    <2> DEFINE R == [stream : Nat, next : Nat, gone : BOOLEAN]
               q == [made[p] EXCEPT !.next = @ + 1]
    <2>1. made[p] \in R
      BY <1>3, <1>5, ElementOf, Zenon
    <2>2. q \in R
      BY <2>1
    <2>3. made' = [made EXCEPT ![p] = q]
      BY <1>4, Zenon
    <2>4. made \in Seq(R)
      BY <1>5, Zenon
    <2> HIDE DEF q, R
    <2>5. made' \in Seq(R) /\ Len(made') = Len(made)
      BY <1>3, <2>2, <2>3, <2>4, ReplacedElement
    <2> QED
      BY <2>5, Zenon DEF R
  <1>7. \A i \in 1 .. Len(made) : made'[i].gone = made[i].gone /\ made'[i].stream = made[i].stream
    BY <1>3, <1>4, <1>5
  <1>8. Grows(partitions, partitions', made, made')
    BY <1>4, <1>6, <1>7, Zenon DEF Grows
  <1>9. ASSUME next_stream_id' = Len(made')
        PROVE  /\ \A i \in 1 .. Len(made') : made'[i].stream = i - 1
               /\ \A s \in DOMAIN log_cache' :
                      /\ s \in 0 .. Len(made') - 1
                      /\ \A o \in DOMAIN log_cache'[s] : log_cache'[s][o] = s + 1
    <2>1. /\ \A i \in 1 .. Len(made) : made[i].stream = i - 1
          /\ \A s \in DOMAIN log_cache :
                 /\ s \in 0 .. Len(made) - 1
                 /\ \A o \in DOMAIN log_cache[s] : log_cache[s][o] = s + 1
      BY <1>4, <1>6, <1>9, Zenon DEF TopicsInv, StoreOK
    <2>2. \A i \in 1 .. Len(made') : made'[i].stream = i - 1
      BY <1>6, <1>7, <2>1, Zenon
    <2>3. stream = p - 1 /\ stream \in 0 .. Len(made) - 1 /\ stream + 1 = p
      <3>1. made[p].stream = p - 1 /\ p \in Int /\ Len(made) \in Nat
        BY <1>3, <1>5, <2>1
      <3>2. stream = p - 1
        BY <3>1, Zenon DEF stream
      <3> QED
        BY <1>3, <3>1, <3>2
    <2>4. \A o \in DOMAIN old : old[o] = p
      <3>1. CASE stream \in DOMAIN log_cache
        BY <2>1, <2>3, <3>1 DEF old
      <3>2. CASE stream \notin DOMAIN log_cache
        BY <3>2 DEF old
      <3> QED
        BY <3>1, <3>2
    <2>5. \A o \in DOMAIN new : new[o] = p
      BY <2>4, Zenon DEF Put, new
    <2>6. /\ DOMAIN log_cache' = DOMAIN log_cache \cup {stream}
          /\ log_cache'[stream] = new
          /\ \A s \in DOMAIN log_cache : s # stream => log_cache'[s] = log_cache[s]
      BY <1>4 DEF Put
    <2>7. ASSUME NEW s \in DOMAIN log_cache'
          PROVE  /\ s \in 0 .. Len(made') - 1
                 /\ \A o \in DOMAIN log_cache'[s] : log_cache'[s][o] = s + 1
      <3>1. CASE s = stream
        BY <1>6, <2>3, <2>5, <2>6, <3>1, Zenon
      <3>2. CASE s # stream
        BY <1>6, <2>1, <2>6, <3>2, Zenon
      <3> QED
        BY <3>1, <3>2, Zenon
    <2> QED
      BY <2>2, <2>7, Zenon
  <1>10. StoreOK'
    BY <1>4, <1>5, <1>6, <1>9, Zenon DEF StoreOK
  <1>11. CreatedOK'
    BY <1>4, CreatedGrows, Zenon DEF TopicsInv
  <1>12. /\ thread' = [u \in Threads |-> thread'[u]]
         /\ \A u \in Threads \ {t} : Similar(thread[u], thread'[u])
         /\ TaskOK(thread'[t], partitions', made')
    BY <1>4, BecomesOne, IdleOK, Zenon
  <1> QED
    BY <1>8, <1>10, <1>11, <1>12, StepOfOne, Zenon

\* A call that ends with a registration.
LEMMA RegisteredStep ==
    ASSUME TopicsInv, NEW t \in Threads, thread' = [thread EXCEPT ![t] = Idle], CreatedOK',
           UNCHANGED <<partitions, next_stream_id, made, log_cache>>
    PROVE  TopicsInv'
  <1>1. /\ thread' = [u \in Threads |-> thread'[u]]
        /\ \A u \in Threads \ {t} : Similar(thread[u], thread'[u])
        /\ TaskOK(thread'[t], partitions', made')
    BY BecomesOne, IdleOK, Zenon
  <1>2. StoreOK'
    BY Zenon DEF TopicsInv, StoreOK
  <1>3. Grows(partitions, partitions', made, made')
    BY GrowsReflexive, Zenon
  <1> QED
    BY <1>1, <1>2, <1>3, StepOfOne, Zenon

LEMMA RegisterInv ==
    ASSUME TopicsInv, NEW t \in Threads, Register(t)
    PROVE  TopicsInv'
  <1> DEFINE w == thread[t]
             name == w.call.name
             r == Registration(w.call)
  <1>1. At(t, "register")
    BY Zenon DEF Register
  <1>2. /\ w # Idle /\ w.pc = "register" /\ CallOK(w.call) /\ "register" \in Stages(w.call.op)
        /\ ProvidesOK(w, partitions)
    BY <1>1, AtSection, Zenon
  <1>3. w.call.op \in Creators
    BY <1>2 DEF CallOK, Stages, Creators
  <1>4. /\ topics' = Put(topics, name, r)
        /\ created' = IF w.overtaken THEN created \ {name}
                      ELSE IF w.call.op = "create_topic" THEN created \cup {name}
                      ELSE created
        /\ thread' = [thread EXCEPT ![t] = Idle]
        /\ UNCHANGED <<partitions, next_stream_id, made, log_cache>>
    BY Zenon DEF Register, Becomes
  <1>5. "num_partitions" \in DOMAIN r /\ r.num_partitions = Announced(w.call)
    BY <1>3 DEF Registration, Announced, Creators
  <1> HIDE DEF r
  <1>6. /\ DOMAIN topics' = DOMAIN topics \cup {name} /\ topics'[name] = r
        /\ \A n \in DOMAIN topics : n # name => topics'[n] = topics[n]
    BY <1>4 DEF Put
  <1>7. ASSUME NEW n \in created', n # name
        PROVE  n \in created /\ topics'[n] = topics[n] /\ n \in DOMAIN topics /\ n \in DOMAIN topics'
    <2>1. n \in created
      BY <1>4, <1>7, Zenon
    <2>2. n \in DOMAIN topics
      BY <2>1, Zenon DEF TopicsInv, CreatedOK
    <2> QED
      BY <1>6, <1>7, <2>1, <2>2, Zenon
  <1>8. ASSUME name \in created'
        PROVE  /\ name \in ValidNames
               /\ Announced(w.call) \in Nat
               /\ \A i \in 0 .. Announced(w.call) - 1 : <<name, i>> \in DOMAIN partitions
    <2>1. ~w.overtaken
      BY <1>4, <1>8, Zenon
    <2>2. /\ name \in ValidNames /\ w.todo = <<>> /\ Announced(w.call) \in Nat
          /\ \A i \in 0 .. Announced(w.call) - 1 :
                 \/ <<name, i>> \in DOMAIN partitions
                 \/ \E j \in 1 .. Len(w.todo) : w.todo[j] = <<name, i>>
      BY <1>2, <1>3, <2>1, Zenon DEF ProvidesOK
    <2>3. \A i \in 0 .. Announced(w.call) - 1 : <<name, i>> \in DOMAIN partitions
      BY <2>2
    <2> QED
      BY <2>2, <2>3, Zenon
  <1>9. CreatedOK'
    <2> SUFFICES ASSUME NEW n \in created'
                 PROVE  /\ n \in ValidNames
                        /\ n \in DOMAIN topics'
                        /\ "num_partitions" \in DOMAIN topics'[n]
                        /\ topics'[n].num_partitions \in Nat
                        /\ \A i \in 0 .. topics'[n].num_partitions - 1 :
                               <<n, i>> \in DOMAIN partitions'
      BY Zenon DEF CreatedOK
    <2>1. CASE n = name
      BY <1>4, <1>5, <1>6, <1>8, <2>1, Zenon
    <2>2. CASE n # name
      BY <1>4, <1>7, <2>2, Zenon DEF TopicsInv, CreatedOK
    <2> QED
      BY <2>1, <2>2, Zenon
  <1> QED
    BY <1>4, <1>9, RegisteredStep, Zenon

LEMMA UpdateInv ==
    ASSUME TopicsInv, NEW t \in Threads, Update(t)
    PROVE  TopicsInv'
  <1> DEFINE name == thread[t].call.name
             old == IF name \in DOMAIN topics THEN topics[name]
                    ELSE [num_partitions |-> Max({Cardinality(Indices(name)), 1}), configs |-> <<>>]
             new == [old EXCEPT !.configs = Altered(@, thread[t].call.changes)]
  <1>1. /\ topics' = Put(topics, name, new)
        /\ thread' = [thread EXCEPT ![t] = Idle]
        /\ UNCHANGED <<partitions, next_stream_id, made, log_cache, created>>
    BY Zenon DEF Update, Becomes
  <1>2. ASSUME name \in DOMAIN topics, "num_partitions" \in DOMAIN topics[name]
        PROVE  /\ "num_partitions" \in DOMAIN new
               /\ new.num_partitions = topics[name].num_partitions
    BY <1>2
  <1> HIDE DEF new, old
  <1>3. /\ DOMAIN topics' = DOMAIN topics \cup {name} /\ topics'[name] = new
        /\ \A n \in DOMAIN topics : n # name => topics'[n] = topics[n]
    BY <1>1 DEF Put
  <1> HIDE DEF name
  <1>4. CreatedOK'
    <2> SUFFICES ASSUME NEW n \in created'
                 PROVE  /\ n \in ValidNames
                        /\ n \in DOMAIN topics'
                        /\ "num_partitions" \in DOMAIN topics'[n]
                        /\ topics'[n].num_partitions \in Nat
                        /\ \A i \in 0 .. topics'[n].num_partitions - 1 :
                               <<n, i>> \in DOMAIN partitions'
      BY Zenon DEF CreatedOK
    <2>1. /\ n \in ValidNames /\ n \in DOMAIN topics
          /\ "num_partitions" \in DOMAIN topics[n]
          /\ topics[n].num_partitions \in Nat
          /\ \A i \in 0 .. topics[n].num_partitions - 1 : <<n, i>> \in DOMAIN partitions
      BY <1>1, Zenon DEF TopicsInv, CreatedOK
    <2>2. CASE n = name
      BY <1>1, <1>2, <1>3, <2>1, <2>2, Zenon
    <2>3. CASE n # name
      BY <1>1, <1>3, <2>1, <2>3, Zenon
    <2> QED
      BY <2>2, <2>3, Zenon
  <1> QED
    BY <1>1, <1>4, RegisteredStep, Zenon

------------------------------------------------------------------------------
(* The sections that remove. *)

LEMMA OvertakingOthers ==
    ASSUME TopicsInv, NEW t \in Threads, NEW names, NEW v, thread' = Overtaking(t, names, v)
    PROVE  /\ thread' = [u \in Threads |-> thread'[u]]
           /\ thread'[t] = v
           /\ \A u \in Threads \ {t} :
                  /\ Similar(thread[u], thread'[u])
                  /\ thread[u] # Idle /\ thread[u].call.op \in Creators
                     /\ thread[u].call.name \in names => thread'[u].overtaken
  <1>1. /\ thread' = [u \in Threads |-> thread'[u]]
        /\ \A u \in Threads :
               thread'[u] = IF u = t THEN v
                            ELSE IF u \in Active /\ thread[u].call.op \in Creators
                                    /\ thread[u].call.name \in names
                            THEN [thread[u] EXCEPT !.overtaken = TRUE]
                            ELSE thread[u]
    BY Zenon DEF Overtaking, Creators
  <1>2. thread'[t] = v
    BY <1>1, Zenon
  <1>3. ASSUME NEW u \in Threads \ {t}
        PROVE  /\ Similar(thread[u], thread'[u])
               /\ thread[u] # Idle /\ thread[u].call.op \in Creators
                  /\ thread[u].call.name \in names => thread'[u].overtaken
    <2>1. CASE thread[u] # Idle /\ thread[u].call.op \in Creators /\ thread[u].call.name \in names
      <3>1. TaskFields \subseteq DOMAIN thread[u]
        BY <2>1, Zenon DEF TopicsInv, TaskOK
      <3>2. thread'[u] = [thread[u] EXCEPT !.overtaken = TRUE]
        BY <1>1, <2>1, Zenon DEF Active
      <3> DEFINE w == thread[u]
                 x == [w EXCEPT !.overtaken = TRUE]
      <3> HIDE DEF w
      <3>3. TaskFields \subseteq DOMAIN w
        BY <3>1, Zenon DEF w
      <3>4. /\ DOMAIN x = DOMAIN w
            /\ x.pc = w.pc /\ x.call = w.call /\ x.todo = w.todo /\ x.at = w.at
            /\ x.held = w.held /\ x.parked = w.parked
        BY <3>3 DEF TaskFields
      <3>5. x.overtaken
        <4>1. "overtaken" \in DOMAIN w
          BY <3>3, Zenon DEF TaskFields
        <4> QED
          BY <4>1, Zenon
      <3> HIDE DEF x
      <3>6. Similar(w, x) /\ x.overtaken
        BY <2>1, <3>4, <3>5, Zenon DEF Similar, w
      <3>7. thread'[u] = x
        BY <3>2, Zenon DEF x, w
      <3> QED
        BY <3>6, <3>7, Zenon DEF w
    <2>2. CASE ~(thread[u] # Idle /\ thread[u].call.op \in Creators /\ thread[u].call.name \in names)
      <3>1. thread'[u] = thread[u]
        BY <1>1, <2>2, Zenon DEF Active
      <3> QED
        BY <2>2, <3>1, Zenon DEF Similar
    <2> QED
      BY <2>1, <2>2, Zenon
  <1> QED
    BY <1>1, <1>2, <1>3, Zenon

\* What leaves the map is gone, and the rest stays.
Leaves(tps, ps, ps2, md, md2) ==
    /\ \A tp \in DOMAIN ps : tp \notin tps => tp \in DOMAIN ps2 /\ ps2[tp] = ps[tp]
    /\ \A i \in 1 .. Len(md) : i \in 1 .. Len(md2) /\ (md[i].gone => md2[i].gone)
    /\ \A tp \in tps : md2[ps[tp]].gone

LEMMA GoneRecord ==
    ASSUME NEW f \in [stream : Nat, next : Nat, gone : BOOLEAN], NEW e, e = [f EXCEPT !.gone = TRUE]
    PROVE  e \in [stream : Nat, next : Nat, gone : BOOLEAN] /\ e.stream = f.stream
  <1>1. DOMAIN e = DOMAIN f /\ e.stream = f.stream /\ e.next = f.next
    OBVIOUS
  <1>2. e.gone = TRUE
    OBVIOUS
  <1>3. e = [stream |-> f.stream, next |-> f.next, gone |-> TRUE]
    BY <1>1, <1>2, Zenon
  <1> QED
    BY <1>1, <1>3, Zenon

LEMMA DropStore ==
    ASSUME StoreOK, NEW tps \in SUBSET (DOMAIN partitions), Drop(tps),
           next_stream_id' = next_stream_id, log_cache' = log_cache
    PROVE  StoreOK' /\ Leaves(tps, partitions, partitions', made, made')
  <1> DEFINE R == [stream : Nat, next : Nat, gone : BOOLEAN]
             out(i) == \E tp \in tps : partitions[tp] = i
             m(i) == IF out(i) THEN [made[i] EXCEPT !.gone = TRUE] ELSE made[i]
  <1>1. /\ made \in Seq(R)
        /\ \A tp \in DOMAIN partitions : partitions[tp] \in 1 .. Len(made)
        /\ next_stream_id \in 0 .. Len(made)
    BY Zenon DEF StoreOK
  <1>2. DOMAIN made = 1 .. Len(made) /\ Len(made) \in Nat
    BY <1>1
  <1>3. made' = [i \in 1 .. Len(made) |-> m(i)]
    BY <1>2, Zenon DEF Drop
  <1>4. ASSUME NEW i \in 1 .. Len(made)
        PROVE  /\ m(i) \in R /\ m(i).stream = made[i].stream
               /\ out(i) => m(i).gone
               /\ made[i].gone => m(i).gone
    <2>1. made[i] \in R
      BY <1>1, ElementOf, Zenon
    <2>2. CASE out(i)
      <3> DEFINE e == [made[i] EXCEPT !.gone = TRUE]
      <3>1. e \in R /\ e.stream = made[i].stream
        BY <2>1, GoneRecord, Zenon
      <3>2. e.gone
        <4>1. "gone" \in DOMAIN made[i]
          BY <2>1
        <4> QED
          BY <4>1, Zenon
      <3>3. m(i) = e
        BY <2>2, Zenon
      <3> QED
        BY <3>1, <3>2, <3>3, Zenon
    <2>3. CASE ~out(i)
      <3>1. m(i) = made[i]
        BY <2>3, Zenon
      <3> QED
        BY <2>1, <2>3, <3>1, Zenon
    <2> QED
      BY <2>2, <2>3, Zenon
  <1>5. \A i \in 1 .. Len(made) : m(i) \in R
    BY <1>4, Zenon
  <1>6. /\ \A i \in 1 .. Len(made) : made'[i].stream = made[i].stream
        /\ \A i \in 1 .. Len(made) : out(i) => made'[i].gone
        /\ \A i \in 1 .. Len(made) : made[i].gone => made'[i].gone
    BY <1>3, <1>4, Zenon
  <1> HIDE DEF R, m
  <1>7. made' \in Seq(R) /\ Len(made') = Len(made)
    BY <1>2, <1>3, <1>5
  <1>8. partitions' = [tp \in DOMAIN partitions \ tps |-> partitions[tp]]
    BY Zenon DEF Drop, Without, Restrict
  <1>9. /\ \A tp \in DOMAIN partitions : tp \notin tps =>
               tp \in DOMAIN partitions' /\ partitions'[tp] = partitions[tp]
        /\ \A tp \in DOMAIN partitions' : partitions'[tp] \in 1 .. Len(made)
    BY <1>1, <1>8, Zenon
  <1>10. \A tp \in tps : out(partitions[tp]) /\ partitions[tp] \in 1 .. Len(made)
    BY <1>1, Zenon
  <1> HIDE DEF out
  <1>11. Leaves(tps, partitions, partitions', made, made')
    BY <1>6, <1>7, <1>9, <1>10, Zenon DEF Leaves
  <1>12. StoreOK'
    BY <1>1, <1>6, <1>7, <1>9, Zenon DEF StoreOK, R
  <1> QED
    BY <1>11, <1>12, Zenon

LEMMA LeavesTask ==
    ASSUME NEW w, NEW v, NEW tps, NEW ps, NEW ps2, NEW md, NEW md2,
           TaskOK(w, ps, md), Similar(w, v), Leaves(tps, ps, ps2, md, md2),
           w # Idle /\ w.call.op \in Creators /\ w.call.name \in ValidNames =>
               v.overtaken \/ (\A i \in Int : <<w.call.name, i>> \notin tps)
    PROVE  TaskOK(v, ps2, md2)
  <1>1. CASE w = Idle
    BY <1>1, Zenon DEF TaskOK, Similar
  <1>2. CASE w # Idle
    <2>1. /\ DOMAIN v = DOMAIN w
          /\ v.pc = w.pc /\ v.call = w.call /\ v.todo = w.todo /\ v.at = w.at
          /\ v.held = w.held /\ v.parked = w.parked
          /\ v.overtaken = w.overtaken \/ v.overtaken
      BY <1>2, Zenon DEF Similar
    <2>2. /\ TaskFields \subseteq DOMAIN w /\ CallOK(w.call) /\ w.pc \in Stages(w.call.op)
          /\ LocksOK(w) /\ ProducesOK(w, ps, md) /\ ProvidesOK(w, ps)
      BY <1>2, Zenon DEF TaskOK
    <2>3. ProducesOK(v, ps2, md2)
      <3>1. ASSUME w.pc = "append"
            PROVE  /\ w.at \in 1 .. Len(md2)
                   /\ \/ md2[w.at].gone
                      \/ w.call.tp \in DOMAIN ps2 /\ ps2[w.call.tp] = w.at
        <4>1. /\ w.at \in 1 .. Len(md)
              /\ \/ md[w.at].gone
                 \/ w.call.tp \in DOMAIN ps /\ ps[w.call.tp] = w.at
          BY <2>2, <3>1, Zenon DEF ProducesOK
        <4> QED
          BY <4>1, Zenon DEF Leaves
      <3> QED
        BY <2>1, <2>2, <3>1, Zenon DEF ProducesOK
    <2>4. ProvidesOK(v, ps2)
      <3> SUFFICES ASSUME v.call.op \in Creators, v.pc \in {"lookup", "provision", "register"},
                          ~v.overtaken
                   PROVE  /\ v.call.name \in ValidNames
                          /\ Announced(v.call) \in Nat
                          /\ v.todo \in Seq(Targets(v.call))
                          /\ v.pc = "register" => v.todo = <<>>
                          /\ v.pc # "register" => v.todo # <<>>
                          /\ \A i \in 0 .. Announced(v.call) - 1 :
                                 \/ <<v.call.name, i>> \in DOMAIN ps2
                                 \/ \E j \in 1 .. Len(v.todo) : v.todo[j] = <<v.call.name, i>>
        BY Zenon DEF ProvidesOK
      <3>1. w.call.op \in Creators /\ w.pc \in {"lookup", "provision", "register"} /\ ~w.overtaken
        BY <2>1, Zenon
      <3>2. /\ w.call.name \in ValidNames
            /\ Announced(w.call) \in Nat
            /\ w.todo \in Seq(Targets(w.call))
            /\ w.pc = "register" => w.todo = <<>>
            /\ w.pc # "register" => w.todo # <<>>
            /\ \A i \in 0 .. Announced(w.call) - 1 :
                   \/ <<w.call.name, i>> \in DOMAIN ps
                   \/ \E j \in 1 .. Len(w.todo) : w.todo[j] = <<w.call.name, i>>
        BY <2>2, <3>1, Zenon DEF ProvidesOK
      <3>3. \A i \in Int : <<w.call.name, i>> \notin tps
        BY <1>2, <3>1, <3>2, Zenon
      <3>4. \A i \in 0 .. Announced(w.call) - 1 : i \in Int
        BY <3>2
      <3>5. \A i \in 0 .. Announced(w.call) - 1 :
                <<w.call.name, i>> \in DOMAIN ps => <<w.call.name, i>> \in DOMAIN ps2
        BY <3>3, <3>4, Zenon DEF Leaves
      <3> QED
        BY <2>1, <3>2, <3>5, Zenon
    <2>5. TaskFields \subseteq DOMAIN v /\ CallOK(v.call) /\ v.pc \in Stages(v.call.op)
      BY <2>1, <2>2, Zenon
    <2>6. v # Idle
      BY <2>5, NotIdle, Zenon
    <2>7. LocksOK(v)
      BY <2>1, <2>2, Zenon DEF LocksOK
    <2> QED
      BY <2>3, <2>4, <2>5, <2>6, <2>7, Zenon DEF TaskOK
  <1> QED
    BY <1>1, <1>2, Zenon

\* A step of thread t that removes tps, all of them of names.
LEMMA RemovingStep ==
    ASSUME TopicsInv, NEW t \in Threads, NEW tps \in SUBSET (DOMAIN partitions), NEW names, NEW v,
           Drop(tps), thread' = Overtaking(t, names, v), TaskOK(v, partitions', made'),
           \A n \in ValidNames : n \in names \/ (\A i \in Int : <<n, i>> \notin tps),
           next_stream_id' = next_stream_id, log_cache' = log_cache, CreatedOK'
    PROVE  TopicsInv'
  <1>1. StoreOK' /\ Leaves(tps, partitions, partitions', made, made')
    BY DropStore, Zenon DEF TopicsInv
  <1>2. /\ thread' = [u \in Threads |-> thread'[u]]
        /\ thread'[t] = v
        /\ \A u \in Threads \ {t} :
               /\ Similar(thread[u], thread'[u])
               /\ thread[u] # Idle /\ thread[u].call.op \in Creators
                  /\ thread[u].call.name \in names => thread'[u].overtaken
    BY OvertakingOthers, Zenon
  <1>3. ASSUME NEW u \in Threads \ {t}
        PROVE  TaskOK(thread'[u], partitions', made')
    <2>1. TaskOK(thread[u], partitions, made)
      BY Zenon DEF TopicsInv
    <2>2. thread[u] # Idle /\ thread[u].call.op \in Creators /\ thread[u].call.name \in ValidNames =>
              thread'[u].overtaken \/ (\A i \in Int : <<thread[u].call.name, i>> \notin tps)
      BY <1>2, Zenon
    <2> QED
      BY <1>1, <1>2, <2>1, <2>2, LeavesTask, Zenon
  <1> QED
    BY <1>1, <1>2, <1>3, Zenon DEF TopicsInv

LEMMA DeleteInv ==
    ASSUME TopicsInv, NEW t \in Threads, Delete(t)
    PROVE  TopicsInv'
  <1> DEFINE name == thread[t].call.name
             tps == {tp \in DOMAIN partitions : tp[1] = name}
  <1>1. /\ topics' = Without(topics, {name})
        /\ Drop(tps)
        /\ created' = created \ {name}
        /\ thread' = Overtaking(t, {name}, Idle)
        /\ next_stream_id' = next_stream_id /\ log_cache' = log_cache
    BY Zenon DEF Delete
  <1> HIDE DEF name
  <1>2. \A n : n # name => \A i \in Int : <<n, i>> \notin tps
    OBVIOUS
  <1>3. tps \in SUBSET (DOMAIN partitions)
    OBVIOUS
  <1> HIDE DEF tps
  <1>4. /\ \A n \in DOMAIN topics : n # name => n \in DOMAIN topics' /\ topics'[n] = topics[n]
        /\ \A tp \in DOMAIN partitions : tp \notin tps => tp \in DOMAIN partitions'
    BY <1>1, Zenon DEF Without, Restrict, Drop
  <1>5. CreatedOK'
    <2> SUFFICES ASSUME NEW n \in created'
                 PROVE  /\ n \in ValidNames
                        /\ n \in DOMAIN topics'
                        /\ "num_partitions" \in DOMAIN topics'[n]
                        /\ topics'[n].num_partitions \in Nat
                        /\ \A i \in 0 .. topics'[n].num_partitions - 1 :
                               <<n, i>> \in DOMAIN partitions'
      BY Zenon DEF CreatedOK
    <2>1. n \in created /\ n # name
      BY <1>1, Zenon
    <2>2. /\ n \in ValidNames /\ n \in DOMAIN topics
          /\ "num_partitions" \in DOMAIN topics[n]
          /\ topics[n].num_partitions \in Nat
          /\ \A i \in 0 .. topics[n].num_partitions - 1 : <<n, i>> \in DOMAIN partitions
      BY <2>1, Zenon DEF TopicsInv, CreatedOK
    <2>3. \A i \in 0 .. topics[n].num_partitions - 1 : i \in Int
      BY <2>2
    <2>4. \A i \in 0 .. topics[n].num_partitions - 1 : <<n, i>> \in DOMAIN partitions'
      BY <1>2, <1>4, <2>1, <2>2, <2>3, Zenon
    <2> QED
      BY <1>4, <2>1, <2>2, <2>4, Zenon
  <1>6. \A n \in ValidNames : n \in {name} \/ (\A i \in Int : <<n, i>> \notin tps)
    BY <1>2, Zenon
  <1> QED
    BY <1>1, <1>3, <1>5, <1>6, IdleOK, RemovingStep, Zenon

LEMMA ClearTopicsInv ==
    ASSUME TopicsInv, NEW t \in Threads, ClearTopics(t)
    PROVE  TopicsInv'
  <1> DEFINE w == thread[t]
             v == Goto(t, "clear_partitions")
  <1>1. At(t, "clear_topics")
    BY Zenon DEF ClearTopics
  <1>2. /\ w # Idle /\ TaskFields \subseteq DOMAIN w /\ CallOK(w.call)
        /\ "clear_topics" \in Stages(w.call.op)
    BY <1>1, AtSection, Zenon
  <1>3. /\ "clear_partitions" \in Stages(w.call.op)
        /\ w.call.op # "produce" /\ w.call.op \notin Creators
    BY <1>2, ClearingStages, Zenon
  <1>4. Moved(w, v, "clear_partitions")
    BY <1>2, GotoFields, Zenon
  <1>5. /\ created' = {} /\ thread' = Overtaking(t, ValidNames, v)
        /\ UNCHANGED <<partitions, next_stream_id, made, log_cache>>
    BY Zenon DEF ClearTopics
  <1> HIDE DEF v
  <1>6. TaskOK(v, partitions', made')
    BY <1>2, <1>3, <1>4, MovedOK, Zenon
  <1>7. /\ thread' = [u \in Threads |-> thread'[u]]
        /\ \A u \in Threads \ {t} : Similar(thread[u], thread'[u])
        /\ thread'[t] = v
    BY <1>5, OvertakingOthers, Zenon
  <1>8. StoreOK'
    BY <1>5, Zenon DEF TopicsInv, StoreOK
  <1>9. CreatedOK'
    BY <1>5, Zenon DEF CreatedOK
  <1>10. Grows(partitions, partitions', made, made')
    BY <1>5, GrowsReflexive, Zenon
  <1> QED
    BY <1>6, <1>7, <1>8, <1>9, <1>10, StepOfOne, Zenon

LEMMA ClearPartitionsInv ==
    ASSUME TopicsInv, NEW t \in Threads, ClearPartitions(t)
    PROVE  TopicsInv'
  <1> DEFINE w == thread[t]
             v == Goto(t, "restart_ids")
  <1>1. At(t, "clear_partitions")
    BY Zenon DEF ClearPartitions
  <1>2. /\ w # Idle /\ TaskFields \subseteq DOMAIN w /\ CallOK(w.call)
        /\ "clear_partitions" \in Stages(w.call.op)
    BY <1>1, AtSection, Zenon
  <1>3. /\ "restart_ids" \in Stages(w.call.op)
        /\ w.call.op # "produce" /\ w.call.op \notin Creators
    BY <1>2, ClearingStages, Zenon
  <1>4. Moved(w, v, "restart_ids")
    BY <1>2, GotoFields, Zenon
  <1>5. /\ Drop(DOMAIN partitions) /\ created' = {}
        /\ thread' = Overtaking(t, ValidNames, v)
        /\ next_stream_id' = next_stream_id /\ log_cache' = log_cache
    BY Zenon DEF ClearPartitions
  <1> HIDE DEF v
  <1>6. TaskOK(v, partitions', made')
    BY <1>2, <1>3, <1>4, MovedOK, Zenon
  <1>7. CreatedOK'
    BY <1>5, Zenon DEF CreatedOK
  <1>8. DOMAIN partitions \in SUBSET (DOMAIN partitions)
    BY Zenon
  <1> QED
    BY <1>5, <1>6, <1>7, <1>8, RemovingStep, Zenon

------------------------------------------------------------------------------
(* The theorems. *)

LEMMA StepInv == TopicsInv /\ [Next]_vars => TopicsInv'
  <1> SUFFICES ASSUME TopicsInv, [Next]_vars PROVE TopicsInv'
    OBVIOUS
  <1>1. ASSUME NEW t \in Threads, NEW call \in Calls(t), Begin(t, call) PROVE TopicsInv'
    BY <1>1, BeginInv, Zenon
  <1>2. ASSUME NEW t \in Threads, Acquire(t) \/ Park(t) PROVE TopicsInv'
    BY <1>2, AcquireInv, ParkInv, Zenon
  <1>3. ASSUME NEW t \in Threads, Section(t) PROVE TopicsInv'
    <2>1. CASE Check(t) \/ Has(t) \/ CountPartitions(t) \/ Lookup(t) \/ Provision(t)
      BY <2>1, CheckInv, HasInv, CountPartitionsInv, LookupInv, ProvisionInv, Zenon
    <2>2. CASE Register(t) \/ Update(t) \/ Delete(t) \/ Scan(t) \/ AppendRecords(t)
      BY <2>2, RegisterInv, UpdateInv, DeleteInv, ScanInv, AppendRecordsInv, Zenon
    <2>3. CASE ClearTopics(t) \/ ClearPartitions(t) \/ RestartIds(t) \/ ClearGroups(t)
      BY <2>3, ClearTopicsInv, ClearPartitionsInv, RestartIdsInv, ClearGroupsInv, Zenon
    <2>4. CASE CommitOffset(t) \/ Restore(t) \/ Restored(t) \/ DumpPartitions(t) \/ DumpGroups(t)
      BY <2>4, EndInv, RestoreInv, DumpPartitionsInv, Zenon
    <2> QED
      BY <1>3, <2>1, <2>2, <2>3, <2>4, Zenon DEF Section
  <1>4. CASE UNCHANGED vars
    BY <1>4, Zenon DEF vars, TopicsInv, StoreOK, CreatedOK
  <1> QED
    BY <1>1, <1>2, <1>3, <1>4, Zenon DEF Next

\* The inductive invariant, for any threads, calls and names.
THEOREM TopicsInvariance == Spec => []TopicsInv
  BY InitInv, StepInv, PTL DEF Spec

\* However many calls create, grow, configure, delete, reset, dump, load and
\* produce at a time, some call of any that are under way is not kept out of
\* its next lock by the others: topics comes before partitions, and no call
\* holds partitions while it waits.
THEOREM NeverDeadlocked == Spec => []NoDeadlock
  BY TopicsInvariance, InvImpliesNoDeadlock, PTL

\* The two looks of get_or_create_partition leave one Partition of a topic and
\* index: what a produce appends to is the one in the map, or was removed.
THEOREM ProduceHolds == Spec => []HeldOrRemoved
  BY TopicsInvariance, InvImpliesHeld, PTL

\* As long as no reset or load restarts next_stream_id, a fetch through the
\* shared LogCache finds records of its own partition only.
THEOREM FetchesOwn == Spec => []OwnRecords
  BY TopicsInvariance, InvImpliesOwn, PTL

\* A topic that create_topic registered has every partition it announces, for
\* as long as no delete, reset or load reaches it.
THEOREM RegisteredAlwaysProvisioned == Spec => []RegisteredIsProvisioned
  BY TopicsInvariance, InvImpliesRegistered, PTL

------------------------------------------------------------------------------
(* The two views of a configuration. *)

LEMMA ViewsOfTopic ==
    ASSUME NEW configs, NEW ks, ks # {}
    PROVE  {e \in describe_topic_configs(configs, ks) : e.value # {}}
             = {e \in describe_topic_configs(configs, {}) : e.name \in ks}
  <1> DEFINE Named(k) == TopicEntry(configs, k)
             all == describe_topic_configs(configs, {})
             some == describe_topic_configs(configs, ks)
             known == DOMAIN configs \cup DOMAIN Defaults
  <1>1. \A k : Named(k).name = k /\ (Named(k).value # {} <=> k \in known)
    BY DEF TopicEntry, Entry
  <1>2. some = {Named(k) : k \in ks}
    BY Zenon DEF describe_topic_configs
  <1>3. \A e : e \in all <=> \E k \in known : e = Named(k)
    BY Zenon DEF describe_topic_configs, TopicEntry
  <1> HIDE DEF Named, all, some, known
  <1>4. ASSUME NEW e
        PROVE  (e \in some /\ e.value # {}) <=> (e \in all /\ e.name \in ks)
    <2>1. ASSUME NEW k \in ks, e = Named(k), e.value # {}
          PROVE  e \in all /\ e.name \in ks
      BY <1>1, <1>3, <2>1, Zenon
    <2>2. ASSUME NEW k \in known, e = Named(k), e.name \in ks
          PROVE  e \in some /\ e.value # {}
      BY <1>1, <1>2, <2>2, Zenon
    <2> QED
      BY <1>2, <1>3, <2>1, <2>2, Zenon
  <1>5. {e \in some : e.value # {}} = {e \in all : e.name \in ks}
    BY <1>4, Zenon
  <1> QED
    BY <1>5, Zenon DEF all, some

LEMMA ViewsOfBroker ==
    ASSUME NEW ks, ks # {}
    PROVE  {e \in describe_broker_configs(ks) : e.value # {}}
             = {e \in describe_broker_configs({}) : e.name \in ks}
  <1> DEFINE Named(k) == IF k \in DOMAIN BrokerConfigs THEN Entry(k, {BrokerConfigs[k]}, 4)
                         ELSE Entry(k, {}, 0)
             all == describe_broker_configs({})
             some == describe_broker_configs(ks)
  <1>1. \A k : Named(k).name = k /\ (Named(k).value # {} <=> k \in DOMAIN BrokerConfigs)
    BY DEF Entry
  <1>2. some = {Named(k) : k \in ks}
    BY Zenon DEF describe_broker_configs
  <1>3. \A e : e \in all <=> \E k \in DOMAIN BrokerConfigs : e = Named(k)
    BY Zenon DEF describe_broker_configs
  <1> HIDE DEF Named, all, some
  <1>4. ASSUME NEW e
        PROVE  (e \in some /\ e.value # {}) <=> (e \in all /\ e.name \in ks)
    <2>1. ASSUME NEW k \in ks, e = Named(k), e.value # {}
          PROVE  e \in all /\ e.name \in ks
      BY <1>1, <1>3, <2>1, Zenon
    <2>2. ASSUME NEW k \in DOMAIN BrokerConfigs, e = Named(k), e.name \in ks
          PROVE  e \in some /\ e.value # {}
      BY <1>1, <1>2, <2>2, Zenon
    <2> QED
      BY <1>2, <1>3, <2>1, <2>2, Zenon
  <1>5. {e \in some : e.value # {}} = {e \in all : e.name \in ks}
    BY <1>4, Zenon
  <1> QED
    BY <1>5, Zenon DEF all, some

LEMMA ViewsAgree == ConfigViewsAgree
  <1>1. ASSUME NEW ks \in (SUBSET Keys) \ {{}}
        PROVE  /\ \A n \in DOMAIN topics :
                      {e \in describe_topic_configs(topics[n].configs, ks) : e.value # {}}
                        = {e \in describe_topic_configs(topics[n].configs, {}) : e.name \in ks}
               /\ {e \in describe_broker_configs(ks) : e.value # {}}
                    = {e \in describe_broker_configs({}) : e.name \in ks}
    <2>1. ks # {}
      OBVIOUS
    <2> QED
      BY <2>1, ViewsOfTopic, ViewsOfBroker, Zenon
  <1> QED
    BY <1>1, Zenon DEF ConfigViewsAgree

\* Whatever the topics are configured with, DescribeConfigs for some keys and
\* for all of them agree on every value.
THEOREM ConfigViewsAlwaysAgree == Spec => []ConfigViewsAgree
  BY ViewsAgree, PTL

------------------------------------------------------------------------------
(* A list of a finite set. *)

LEMMA OrderOf ==
    ASSUME NEW S, IsFiniteSet(S)
    PROVE  InSomeOrder(S) \in Seq(S) /\ Range(InSomeOrder(S)) = S
  <1> DEFINE n == Cardinality(S)
  <1>1. n \in Nat /\ ExistsBijection(1 .. n, S)
    BY FS_CardinalityType, Zenon
  <1> HIDE DEF n
  <1>2. PICK f \in [1 .. n -> S] : \A x \in S : \E i \in 1 .. n : f[i] = x
    BY <1>1, Zenon DEF ExistsBijection, Bijection, Surjection
  <1>3. Range(f) = S
    BY <1>2 DEF Range
  <1>4. \E s \in [1 .. n -> S] : Range(s) = S
    BY <1>3, Zenon
  <1>5. InSomeOrder(S) \in [1 .. n -> S] /\ Range(InSomeOrder(S)) = S
    BY <1>4, Zenon DEF InSomeOrder, n
  <1>6. \A s \in [1 .. n -> S] : s \in Seq(S)
    BY <1>1
  <1> QED
    BY <1>5, <1>6, Zenon

LEMMA RangeOfTail ==
    ASSUME NEW S, NEW s \in Seq(S), s # <<>>
    PROVE  Range(s) = {Head(s)} \cup Range(Tail(s)) /\ Tail(s) \in Seq(S) /\ Head(s) \in S
  <1>1. /\ Len(s) \in Nat /\ Len(s) >= 1 /\ DOMAIN s = 1 .. Len(s)
        /\ Head(s) = s[1] /\ Head(s) \in S
        /\ Tail(s) \in Seq(S) /\ DOMAIN Tail(s) = 1 .. Len(s) - 1
    OBVIOUS
  <1>2. \A i \in 1 .. Len(s) - 1 : Tail(s)[i] = s[i + 1]
    OBVIOUS
  <1>3. ASSUME NEW x
        PROVE  x \in Range(s) <=> x = Head(s) \/ x \in Range(Tail(s))
    <2>1. x \in Range(s) <=> \E i \in 1 .. Len(s) : s[i] = x
      BY <1>1, Zenon DEF Range
    <2>2. x \in Range(Tail(s)) <=> \E i \in 1 .. Len(s) - 1 : s[i + 1] = x
      BY <1>1, <1>2, Zenon DEF Range
    <2>3. (\E i \in 1 .. Len(s) : s[i] = x) <=> s[1] = x \/ \E i \in 1 .. Len(s) - 1 : s[i + 1] = x
      <3>1. ASSUME NEW i \in 1 .. Len(s), s[i] = x, s[1] # x
            PROVE  \E j \in 1 .. Len(s) - 1 : s[j + 1] = x
        <4>1. i - 1 \in 1 .. Len(s) - 1 /\ s[(i - 1) + 1] = x
          BY <1>1, <3>1
        <4> QED
          BY <4>1, Zenon
      <3>2. 1 \in 1 .. Len(s) /\ \A j \in 1 .. Len(s) - 1 : j + 1 \in 1 .. Len(s)
        BY <1>1
      <3> QED
        BY <3>1, <3>2, Zenon
    <2> QED
      BY <1>1, <2>1, <2>2, <2>3, Zenon
  <1> QED
    BY <1>1, <1>3

LEMMA RangeOfNone == Range(<<>>) = {}
  BY DEF Range

------------------------------------------------------------------------------
(* What a load that no other call overlaps has done so far; tps, ps, gs and ss *)
(* are the topics, the partitions, the groups and the snapshot.                *)

\* The partitions it found or made and those to do are those of the snapshot.
ProvidingOK(w, ps, gs, ss) ==
    /\ gs = <<>>
    /\ w.todo # <<>>
    /\ \A s \in ss :
           /\ w.todo \in Seq(s.partitions)
           /\ DOMAIN ps \cup Range(w.todo) = s.partitions
           /\ w.offsets = Restorable(s.offsets)

\* The offsets it committed and those to do are those of the snapshot.
RestoringOK(w, ps, gs, ss) ==
    /\ gs = [tp \in DOMAIN gs |-> gs[tp]]
    /\ \A s \in ss :
           /\ DOMAIN ps = s.partitions
           /\ DOMAIN gs \cup DOMAIN w.offsets = DOMAIN Restorable(s.offsets)
           /\ \A tp \in DOMAIN gs : gs[tp] = Restorable(s.offsets)[tp]
           /\ \A tp \in DOMAIN w.offsets : w.offsets[tp] = Restorable(s.offsets)[tp]

LoadOK(w, tps, ps, gs, ss) ==
    /\ w.call.op = "load"
    /\ w.pc # "clear_topics" => tps = <<>>
    /\ w.pc \in {"restart_ids", "clear_groups"} => DOMAIN ps = {}
    /\ w.pc \in {"lookup", "provision"} => ProvidingOK(w, ps, gs, ss)
    /\ w.pc = "restore" => RestoringOK(w, ps, gs, ss)

LEMMA SameLoad ==
    ASSUME NEW w, NEW v, v.pc = w.pc, v.call = w.call, v.todo = w.todo, v.offsets = w.offsets,
           NEW tps, NEW ps, NEW gs, NEW ss, LoadOK(w, tps, ps, gs, ss)
    PROVE  LoadOK(v, tps, ps, gs, ss)
  <1>1. ProvidingOK(w, ps, gs, ss) => ProvidingOK(v, ps, gs, ss)
    BY Zenon DEF ProvidingOK
  <1>2. RestoringOK(w, ps, gs, ss) => RestoringOK(v, ps, gs, ss)
    BY Zenon DEF RestoringOK
  <1> QED
    BY <1>1, <1>2, Zenon DEF LoadOK

Lone(w) == w # Idle /\ w.alone

\* The partitions dump listed are finitely many.
ListOK(w) == w # Idle /\ w.pc = "dump_groups" => IsFiniteSet(Range(w.todo))
SnapshotOK(ss) == \A s \in ss : ss = {s} /\ IsFiniteSet(s.partitions)

LoadInv ==
    /\ \A t \in Threads : ListOK(thread[t])
    /\ \A t \in Threads : Lone(thread[t]) =>
           /\ \A u \in Threads \ {t} : thread[u] = Idle
           /\ LoadOK(thread[t], topics, partitions, groups, snapshot)
    /\ IsFiniteSet(DOMAIN partitions)
    /\ SnapshotOK(snapshot)

LEMMA InitLoad == Init => LoadInv
  <1> SUFFICES ASSUME Init PROVE LoadInv
    OBVIOUS
  <1>1. thread = [t \in Threads |-> Idle] /\ partitions = <<>> /\ snapshot = {}
    BY Zenon DEF Init
  <1>2. \A t \in Threads : thread[t] = Idle
    BY <1>1, Zenon
  <1>3. DOMAIN partitions = {}
    BY <1>1
  <1> QED
    BY <1>1, <1>2, <1>3, FS_EmptySet, Zenon DEF LoadInv, ListOK, Lone, SnapshotOK

\* v, which follows w, is not the only load under way if w was not.
Follows(w, v) == Lone(v) => Lone(w)

\* Of a thread other than the one that takes the step.
Aside(w, v) == Similar(w, v) /\ Follows(w, v)

LEMMA AsideList ==
    ASSUME NEW w, NEW v, Similar(w, v), ListOK(w)
    PROVE  ListOK(v)
  BY Zenon DEF Similar, ListOK

\* A step of thread t, which becomes v.
LEMMA LoadStep ==
    ASSUME LoadInv, NEW t \in Threads, thread[t] # Idle, NEW v,
           \A u \in Threads \ {t} : Aside(thread[u], thread'[u]), thread'[t] = v,
           Follows(thread[t], v), ListOK(v),
           Lone(v) => LoadOK(v, topics', partitions', groups', snapshot'),
           IsFiniteSet(DOMAIN partitions'), SnapshotOK(snapshot')
    PROVE  LoadInv'
  <1>1. ASSUME NEW u \in Threads
        PROVE  ListOK(thread'[u])
    BY AsideList, Zenon DEF LoadInv, Aside
  <1>2. ASSUME NEW u \in Threads, Lone(thread'[u])
        PROVE  /\ \A x \in Threads \ {u} : thread'[x] = Idle
               /\ LoadOK(thread'[u], topics', partitions', groups', snapshot')
    <2>1. u = t
      BY <1>2, Zenon DEF LoadInv, Aside, Follows
    <2>2. Lone(thread[t])
      BY <1>2, <2>1, Zenon DEF Follows
    <2>3. \A x \in Threads \ {t} : thread[x] = Idle
      BY <2>2, Zenon DEF LoadInv
    <2>4. \A x \in Threads \ {t} : thread'[x] = Idle
      BY <2>3, Zenon DEF Aside, Similar
    <2> QED
      BY <1>2, <2>1, <2>4, Zenon
  <1> QED
    BY <1>1, <1>2, Zenon DEF LoadInv

\* A thread that becomes v, and no other changes.
LEMMA BecomesLoad ==
    ASSUME TopicsInv, LoadInv, NEW t \in Threads, thread[t] # Idle, NEW v,
           thread' = [thread EXCEPT ![t] = v],
           Follows(thread[t], v), ListOK(v),
           Lone(v) => LoadOK(v, topics', partitions', groups', snapshot'),
           IsFiniteSet(DOMAIN partitions'), SnapshotOK(snapshot')
    PROVE  LoadInv'
  <1>1. thread = [u \in Threads |-> thread[u]]
    BY Zenon DEF TopicsInv
  <1>2. thread'[t] = v /\ \A u \in Threads \ {t} : thread'[u] = thread[u]
    BY <1>1, Zenon
  <1>3. \A u \in Threads \ {t} : Aside(thread[u], thread'[u])
    BY <1>2, Zenon DEF Aside, Similar, Follows
  <1> QED
    BY <1>2, <1>3, LoadStep, Zenon

\* A call that ends.
LEMMA EndsLoad ==
    ASSUME TopicsInv, LoadInv, NEW t \in Threads, thread[t] # Idle,
           thread' = [thread EXCEPT ![t] = Idle],
           IsFiniteSet(DOMAIN partitions'), SnapshotOK(snapshot')
    PROVE  LoadInv'
  <1>1. Follows(thread[t], Idle) /\ ListOK(Idle) /\ ~Lone(Idle)
    BY Zenon DEF Follows, ListOK, Lone
  <1> QED
    BY <1>1, BecomesLoad, Zenon

\* The fields of a thread that goes on to its next section.
LEMMA GotoKeeps ==
    ASSUME TopicsInv, NEW t \in Threads, thread[t] # Idle, NEW pc
    PROVE  Goto(t, pc).alone = thread[t].alone /\ Goto(t, pc).offsets = thread[t].offsets
  <1>1. TaskFields \subseteq DOMAIN thread[t]
    BY Zenon DEF TopicsInv, TaskOK
  <1> QED
    BY <1>1 DEF Goto, TaskFields

LEMMA GotoWithKeeps ==
    ASSUME TopicsInv, NEW t \in Threads, thread[t] # Idle, NEW pc, NEW todo
    PROVE  /\ GotoWith(t, pc, todo).alone = thread[t].alone
           /\ GotoWith(t, pc, todo).offsets = thread[t].offsets
  <1>1. TaskFields \subseteq DOMAIN thread[t]
    BY Zenon DEF TopicsInv, TaskOK
  <1> QED
    BY <1>1 DEF GotoWith, Goto, TaskFields

\* v is w at pc, and as alone as w.
GoesTo(w, v, pc) == DOMAIN v = DOMAIN w /\ v.pc = pc /\ v.alone = w.alone

LEMMA GotoWithMoves ==
    ASSUME TopicsInv, NEW t \in Threads, thread[t] # Idle, NEW pc, NEW todo
    PROVE  GoesTo(thread[t], GotoWith(t, pc, todo), pc)
  <1> DEFINE v == GotoWith(t, pc, todo)
  <1>1. Moved(thread[t], v, pc)
    BY GotoWithFields, Zenon
  <1>2. v.alone = thread[t].alone
    BY GotoWithKeeps, Zenon
  <1> HIDE DEF v
  <1>3. DOMAIN v = DOMAIN thread[t] /\ v.pc = pc
    BY <1>1, Zenon DEF Moved
  <1>4. GoesTo(thread[t], v, pc)
    BY <1>2, <1>3, Zenon DEF GoesTo
  <1> QED
    BY <1>4, Zenon DEF v

LoadStages == {"clear_topics", "clear_partitions", "restart_ids", "clear_groups",
               "lookup", "provision", "restore"}

\* What the invariant says of the only load, in a section.
LEMMA LoneSection ==
    ASSUME TopicsInv, LoadInv, NEW t \in Threads, NEW pc, At(t, pc), Lone(thread[t])
    PROVE  pc \in LoadStages /\ LoadOK(thread[t], topics, partitions, groups, snapshot)
  <1>1. LoadOK(thread[t], topics, partitions, groups, snapshot)
    BY Zenon DEF LoadInv
  <1>2. pc \in Stages(thread[t].call.op)
    BY AtSection, Zenon
  <1>3. pc \in Stages("load")
    BY <1>1, <1>2, Zenon DEF LoadOK
  <1>4. Stages("load") = LoadStages
    BY DEF Stages, LoadStages
  <1> QED
    BY <1>1, <1>3, <1>4, Zenon

\* A section of another call than load, which ends the call or goes on.
LEMMA OtherSection ==
    ASSUME TopicsInv, LoadInv, NEW t \in Threads, NEW pc, At(t, pc), pc \notin LoadStages,
           NEW v, thread' = [thread EXCEPT ![t] = Idle] \/ thread' = [thread EXCEPT ![t] = v],
           v.alone = thread[t].alone, ListOK(v),
           IsFiniteSet(DOMAIN partitions'), SnapshotOK(snapshot')
    PROVE  LoadInv'
  <1>1. thread[t] # Idle
    BY AtSection, Zenon
  <1>2. ~Lone(thread[t])
    BY LoneSection, Zenon
  <1>3. ~Lone(v)
    BY <1>1, <1>2, Zenon DEF Lone
  <1>4. Follows(thread[t], v)
    BY <1>3, Zenon DEF Follows
  <1> QED
    BY <1>1, <1>3, <1>4, BecomesLoad, EndsLoad, Zenon

LEMMA SameStore ==
    ASSUME LoadInv, UNCHANGED <<partitions, snapshot>>
    PROVE  IsFiniteSet(DOMAIN partitions') /\ SnapshotOK(snapshot')
  BY Zenon DEF LoadInv

\* A section whose list is not that of a dump.
LEMMA NoList ==
    ASSUME NEW w, NEW v, NEW pc, Moved(w, v, pc), pc # "dump_groups"
    PROVE  ListOK(v)
  BY Zenon DEF Moved, ListOK

------------------------------------------------------------------------------
(* The sections of the other calls. *)

LEMMA NotInLoad ==
    ASSUME NEW pc \in {"check", "has", "count", "register", "update", "delete", "scan", "append",
                       "commit", "dump", "dump_groups"}
    PROVE  pc \notin LoadStages
  BY DEF LoadStages

LEMMA CheckLoad ==
    ASSUME TopicsInv, LoadInv, NEW t \in Threads, Check(t)
    PROVE  LoadInv'
  <1> DEFINE todo == Range0(thread[t].call.name, 0, Count(thread[t].call))
             v == GotoWith(t, "lookup", todo)
  <1>1. At(t, "check") /\ UNCHANGED <<partitions, snapshot>>
    BY Zenon DEF Check
  <1>2. \/ thread' = [thread EXCEPT ![t] = Idle]
        \/ thread' = [thread EXCEPT ![t] = v]
    BY Zenon DEF Check, Becomes
  <1>3. thread[t] # Idle
    BY <1>1, AtSection, Zenon
  <1> HIDE DEF todo
  <1>4. Moved(thread[t], v, "lookup") /\ v.alone = thread[t].alone
    <2>1. Moved(thread[t], v, "lookup")
      BY <1>3, GotoWithFields, Zenon
    <2>2. v.alone = thread[t].alone
      BY <1>3, GotoWithKeeps, Zenon
    <2> QED
      BY <2>1, <2>2, Zenon
  <1> HIDE DEF v
  <1>5. ListOK(v)
    BY <1>4, NoList
  <1> QED
    BY <1>1, <1>2, <1>4, <1>5, NotInLoad, SameStore, OtherSection, Zenon

LEMMA HasLoad ==
    ASSUME TopicsInv, LoadInv, NEW t \in Threads, Has(t)
    PROVE  LoadInv'
  <1> DEFINE pc == IF thread[t].call.op = "create_partitions" THEN "count" ELSE "update"
             v == Goto(t, pc)
  <1>1. At(t, "has") /\ UNCHANGED <<partitions, snapshot>>
    BY Zenon DEF Has
  <1>2. \/ thread' = [thread EXCEPT ![t] = Idle]
        \/ thread' = [thread EXCEPT ![t] = v]
    BY Zenon DEF Has, Becomes
  <1>3. thread[t] # Idle
    BY <1>1, AtSection, Zenon
  <1>4. pc # "dump_groups"
    OBVIOUS
  <1> HIDE DEF pc
  <1>5. Moved(thread[t], v, pc) /\ v.alone = thread[t].alone
    BY <1>3, GotoFields, GotoKeeps, Zenon
  <1> HIDE DEF v
  <1>6. ListOK(v)
    BY <1>4, <1>5, NoList, Zenon
  <1> QED
    BY <1>1, <1>2, <1>5, <1>6, NotInLoad, SameStore, OtherSection, Zenon

LEMMA CountPartitionsLoad ==
    ASSUME TopicsInv, LoadInv, NEW t \in Threads, CountPartitions(t)
    PROVE  LoadInv'
  <1> DEFINE call == thread[t].call
             todo == Range0(call.name, CurrentCount(call.name), call.count)
             g == GotoWith(t, "lookup", todo)
             v == [g EXCEPT !.overtaken = call.name \notin created]
  <1>1. At(t, "count") /\ UNCHANGED <<partitions, snapshot>>
    BY Zenon DEF CountPartitions
  <1>2. \/ thread' = [thread EXCEPT ![t] = Idle]
        \/ thread' = [thread EXCEPT ![t] = v]
    BY Zenon DEF CountPartitions, Becomes
  <1>3. thread[t] # Idle /\ TaskFields \subseteq DOMAIN thread[t]
    BY <1>1, AtSection, Zenon
  <1> HIDE DEF todo
  <1>4. Moved(thread[t], g, "lookup") /\ g.alone = thread[t].alone
    <2>1. Moved(thread[t], g, "lookup")
      BY <1>3, GotoWithFields, Zenon
    <2>2. g.alone = thread[t].alone
      BY <1>3, GotoWithKeeps, Zenon
    <2> QED
      BY <2>1, <2>2, Zenon
  <1> HIDE DEF g
  <1>5. v.alone = thread[t].alone /\ v.pc = "lookup"
    BY <1>3, <1>4 DEF Moved, TaskFields
  <1> HIDE DEF v
  <1>6. ListOK(v)
    BY <1>5 DEF ListOK
  <1> QED
    BY <1>1, <1>2, <1>5, <1>6, NotInLoad, SameStore, OtherSection, Zenon

LEMMA ScanLoad ==
    ASSUME TopicsInv, LoadInv, NEW t \in Threads, Scan(t)
    PROVE  LoadInv'
  <1> DEFINE missing == SelectSeq(thread[t].call.names, LAMBDA n : Indices(n) = {})
             todo == [i \in DOMAIN missing |-> <<missing[i], 0>>]
             v == GotoWith(t, "lookup", todo)
  <1>1. At(t, "scan") /\ UNCHANGED <<partitions, snapshot>>
    BY Zenon DEF Scan
  <1>2. \/ thread' = [thread EXCEPT ![t] = Idle]
        \/ thread' = [thread EXCEPT ![t] = v]
    BY Zenon DEF Scan, Becomes
  <1>3. thread[t] # Idle
    BY <1>1, AtSection, Zenon
  <1> HIDE DEF todo
  <1>4. Moved(thread[t], v, "lookup") /\ v.alone = thread[t].alone
    <2>1. Moved(thread[t], v, "lookup")
      BY <1>3, GotoWithFields, Zenon
    <2>2. v.alone = thread[t].alone
      BY <1>3, GotoWithKeeps, Zenon
    <2> QED
      BY <2>1, <2>2, Zenon
  <1> HIDE DEF v
  <1>5. ListOK(v)
    BY <1>4, NoList
  <1> QED
    BY <1>1, <1>2, <1>4, <1>5, NotInLoad, SameStore, OtherSection, Zenon

\* The calls that end here, and change neither the partitions nor the snapshot.
LEMMA EndLoad ==
    ASSUME TopicsInv, LoadInv, NEW t \in Threads,
           Register(t) \/ Update(t) \/ AppendRecords(t) \/ CommitOffset(t) \/ Restored(t)
    PROVE  LoadInv'
  <1>1. /\ thread' = [thread EXCEPT ![t] = Idle]
        /\ UNCHANGED <<partitions, snapshot>>
        /\ thread[t] # Idle
    BY Zenon DEF Register, Update, AppendRecords, CommitOffset, Restored, Becomes, At, Entered
  <1> QED
    BY <1>1, SameStore, EndsLoad, Zenon

LEMMA DumpPartitionsLoad ==
    ASSUME TopicsInv, LoadInv, NEW t \in Threads, DumpPartitions(t)
    PROVE  LoadInv'
  <1> DEFINE todo == InSomeOrder(DOMAIN partitions)
             v == GotoWith(t, "dump_groups", todo)
  <1>1. /\ At(t, "dump") /\ UNCHANGED <<partitions, snapshot>>
        /\ thread' = [thread EXCEPT ![t] = v]
    BY Zenon DEF DumpPartitions, Becomes
  <1>2. thread[t] # Idle
    BY <1>1, AtSection, Zenon
  <1>3. IsFiniteSet(DOMAIN partitions)
    BY Zenon DEF LoadInv
  <1>4. IsFiniteSet(Range(todo))
    BY <1>3, OrderOf, Zenon
  <1> HIDE DEF todo
  <1>5. v.todo = todo
    BY <1>2, GotoWithFields, Zenon
  <1>6. v.alone = thread[t].alone
    BY <1>2, GotoWithKeeps, Zenon
  <1> HIDE DEF v
  <1>7. ListOK(v)
    BY <1>4, <1>5, Zenon DEF ListOK
  <1> QED
    BY <1>1, <1>6, <1>7, NotInLoad, SameStore, OtherSection, Zenon

LEMMA DumpGroupsLoad ==
    ASSUME TopicsInv, LoadInv, NEW t \in Threads, DumpGroups(t)
    PROVE  LoadInv'
  <1> DEFINE s == [partitions |-> Range(thread[t].todo), offsets |-> groups]
  <1>1. /\ At(t, "dump_groups") /\ partitions' = partitions
        /\ thread' = [thread EXCEPT ![t] = Idle]
        /\ snapshot' = {s}
    BY Zenon DEF DumpGroups, Becomes
  <1>2. thread[t] # Idle /\ thread[t].pc = "dump_groups"
    BY <1>1, AtSection, Zenon
  <1>3. s.partitions = Range(thread[t].todo)
    OBVIOUS
  <1> HIDE DEF s
  <1>4. IsFiniteSet(s.partitions) /\ IsFiniteSet(DOMAIN partitions)
    BY <1>2, <1>3, Zenon DEF LoadInv, ListOK
  <1>5. SnapshotOK(snapshot')
    BY <1>1, <1>4, Zenon DEF SnapshotOK
  <1> QED
    BY <1>1, <1>2, <1>4, <1>5, EndsLoad, Zenon

\* The other threads of a section that overtakes them.
LEMMA OvertakingAside ==
    ASSUME TopicsInv, NEW t \in Threads, NEW names, NEW v, thread' = Overtaking(t, names, v)
    PROVE  thread'[t] = v /\ \A u \in Threads \ {t} : Aside(thread[u], thread'[u])
  <1>1. /\ thread'[t] = v
        /\ \A u \in Threads \ {t} : Similar(thread[u], thread'[u])
    BY OvertakingOthers, Zenon
  <1>2. \A u \in Threads \ {t} :
            \/ thread'[u] = thread[u]
            \/ thread[u] # Idle /\ thread'[u] = [thread[u] EXCEPT !.overtaken = TRUE]
    BY Zenon DEF Overtaking, Active
  <1>3. ASSUME NEW u \in Threads \ {t}
        PROVE  Follows(thread[u], thread'[u])
    <2>1. CASE thread'[u] = thread[u]
      BY <2>1, Zenon DEF Follows
    <2>2. CASE thread[u] # Idle /\ thread'[u] = [thread[u] EXCEPT !.overtaken = TRUE]
      <3>1. TaskFields \subseteq DOMAIN thread[u]
        BY <2>2, Zenon DEF TopicsInv, TaskOK
      <3>2. thread'[u].alone = thread[u].alone
        BY <2>2, <3>1 DEF TaskFields
      <3> QED
        BY <2>2, <3>2, Zenon DEF Follows, Lone
    <2> QED
      BY <1>2, <2>1, <2>2, Zenon
  <1> QED
    BY <1>1, <1>3, Zenon DEF Aside

LEMMA DropFinite ==
    ASSUME LoadInv, NEW tps, Drop(tps)
    PROVE  IsFiniteSet(DOMAIN partitions') /\ DOMAIN partitions' = DOMAIN partitions \ tps
  <1>1. DOMAIN partitions' = DOMAIN partitions \ tps
    BY Zenon DEF Drop, Without, Restrict
  <1>2. DOMAIN partitions \ tps \in SUBSET DOMAIN partitions /\ IsFiniteSet(DOMAIN partitions)
    BY Zenon DEF LoadInv
  <1> QED
    BY <1>1, <1>2, FS_Subset, Zenon

LEMMA DeleteLoad ==
    ASSUME TopicsInv, LoadInv, NEW t \in Threads, Delete(t)
    PROVE  LoadInv'
  <1> DEFINE name == thread[t].call.name
  <1>1. /\ At(t, "delete")
        /\ Drop({tp \in DOMAIN partitions : tp[1] = name})
        /\ thread' = Overtaking(t, {name}, Idle)
        /\ snapshot' = snapshot
    BY Zenon DEF Delete
  <1>2. thread[t] # Idle
    BY <1>1, AtSection, Zenon
  <1>3. thread'[t] = Idle /\ \A u \in Threads \ {t} : Aside(thread[u], thread'[u])
    BY <1>1, OvertakingAside, Zenon
  <1>4. IsFiniteSet(DOMAIN partitions')
    BY <1>1, DropFinite, Zenon
  <1>5. SnapshotOK(snapshot')
    BY <1>1, Zenon DEF LoadInv
  <1>6. Follows(thread[t], Idle) /\ ListOK(Idle) /\ ~Lone(Idle)
    BY Zenon DEF Follows, ListOK, Lone
  <1> QED
    BY <1>2, <1>3, <1>4, <1>5, <1>6, LoadStep, Zenon

------------------------------------------------------------------------------
(* The sections of load. *)

LEMMA ClearTopicsLoad ==
    ASSUME TopicsInv, LoadInv, NEW t \in Threads, ClearTopics(t)
    PROVE  LoadInv'
  <1> DEFINE v == Goto(t, "clear_partitions")
  <1>1. /\ At(t, "clear_topics") /\ topics' = <<>> /\ UNCHANGED <<partitions, snapshot>>
        /\ thread' = Overtaking(t, ValidNames, v)
    BY Zenon DEF ClearTopics
  <1>2. thread[t] # Idle
    BY <1>1, AtSection, Zenon
  <1>3. Moved(thread[t], v, "clear_partitions") /\ v.alone = thread[t].alone
    BY <1>2, GotoFields, GotoKeeps, Zenon
  <1> HIDE DEF v
  <1>4. thread'[t] = v /\ \A u \in Threads \ {t} : Aside(thread[u], thread'[u])
    BY <1>1, OvertakingAside, Zenon
  <1>5. ListOK(v)
    BY <1>3, NoList
  <1>6. Follows(thread[t], v)
    BY <1>2, <1>3, Zenon DEF Follows, Lone
  <1>7. ASSUME Lone(v)
        PROVE  LoadOK(v, topics', partitions', groups', snapshot')
    <2>1. Lone(thread[t])
      BY <1>6, <1>7, Zenon DEF Follows
    <2>2. thread[t].call.op = "load"
      BY <1>1, <2>1, LoneSection, Zenon DEF LoadOK
    <2>3. v.call = thread[t].call /\ v.pc = "clear_partitions"
      BY <1>3, Zenon DEF Moved
    <2>4. v.pc \notin {"restart_ids", "clear_groups", "lookup", "provision", "restore"}
      BY <2>3
    <2> QED
      BY <1>1, <2>2, <2>3, <2>4, Zenon DEF LoadOK
  <1> QED
    BY <1>1, <1>2, <1>4, <1>5, <1>6, <1>7, SameStore, LoadStep, Zenon

LEMMA ClearPartitionsLoad ==
    ASSUME TopicsInv, LoadInv, NEW t \in Threads, ClearPartitions(t)
    PROVE  LoadInv'
  <1> DEFINE v == Goto(t, "restart_ids")
  <1>1. /\ At(t, "clear_partitions") /\ UNCHANGED <<topics, snapshot>> /\ Drop(DOMAIN partitions)
        /\ thread' = Overtaking(t, ValidNames, v)
    BY Zenon DEF ClearPartitions
  <1>2. thread[t] # Idle /\ thread[t].pc = "clear_partitions"
    BY <1>1, AtSection, Zenon
  <1>3. Moved(thread[t], v, "restart_ids") /\ v.alone = thread[t].alone
    BY <1>2, GotoFields, GotoKeeps, Zenon
  <1> HIDE DEF v
  <1>4. thread'[t] = v /\ \A u \in Threads \ {t} : Aside(thread[u], thread'[u])
    BY <1>1, OvertakingAside, Zenon
  <1>5. ListOK(v)
    BY <1>3, NoList
  <1>6. Follows(thread[t], v)
    BY <1>2, <1>3, Zenon DEF Follows, Lone
  <1>7. IsFiniteSet(DOMAIN partitions') /\ DOMAIN partitions' = DOMAIN partitions \ DOMAIN partitions
    BY <1>1, DropFinite, Zenon
  <1>8. DOMAIN partitions' = {}
    BY <1>7, Zenon
  <1>9. ASSUME Lone(v)
        PROVE  LoadOK(v, topics', partitions', groups', snapshot')
    <2>1. Lone(thread[t])
      BY <1>6, <1>9, Zenon DEF Follows
    <2>2. LoadOK(thread[t], topics, partitions, groups, snapshot)
      BY <1>1, <2>1, LoneSection, Zenon
    <2>3. thread[t].call.op = "load" /\ topics' = <<>>
      BY <1>1, <1>2, <2>2, Zenon DEF LoadOK
    <2>4. v.call = thread[t].call /\ v.pc = "restart_ids"
      BY <1>3, Zenon DEF Moved
    <2>5. v.pc \notin {"lookup", "provision", "restore"}
      BY <2>4
    <2> QED
      BY <1>8, <2>3, <2>4, <2>5, Zenon DEF LoadOK
  <1>10. SnapshotOK(snapshot')
    BY <1>1, Zenon DEF LoadInv
  <1> QED
    BY <1>1, <1>2, <1>4, <1>5, <1>6, <1>7, <1>9, <1>10, LoadStep, Zenon

LEMMA RestartIdsLoad ==
    ASSUME TopicsInv, LoadInv, NEW t \in Threads, RestartIds(t)
    PROVE  LoadInv'
  <1> DEFINE v == Goto(t, "clear_groups")
  <1>1. /\ At(t, "restart_ids") /\ UNCHANGED <<topics, partitions, groups, snapshot>>
        /\ thread' = [thread EXCEPT ![t] = v]
    BY Zenon DEF RestartIds, Becomes
  <1>2. thread[t] # Idle /\ thread[t].pc = "restart_ids"
    BY <1>1, AtSection, Zenon
  <1>3. Moved(thread[t], v, "clear_groups") /\ v.alone = thread[t].alone
    BY <1>2, GotoFields, GotoKeeps, Zenon
  <1> HIDE DEF v
  <1>4. ListOK(v)
    BY <1>3, NoList
  <1>5. Follows(thread[t], v)
    BY <1>2, <1>3, Zenon DEF Follows, Lone
  <1>6. ASSUME Lone(v)
        PROVE  LoadOK(v, topics', partitions', groups', snapshot')
    <2>1. Lone(thread[t])
      BY <1>5, <1>6, Zenon DEF Follows
    <2>2. LoadOK(thread[t], topics, partitions, groups, snapshot)
      BY <1>1, <2>1, LoneSection, Zenon
    <2>3. thread[t].call.op = "load" /\ topics' = <<>> /\ DOMAIN partitions' = {}
      BY <1>1, <1>2, <2>2, Zenon DEF LoadOK
    <2>4. v.call = thread[t].call /\ v.pc = "clear_groups"
      BY <1>3, Zenon DEF Moved
    <2>5. v.pc \notin {"lookup", "provision", "restore"}
      BY <2>4
    <2> QED
      BY <2>3, <2>4, <2>5, Zenon DEF LoadOK
  <1> QED
    BY <1>1, <1>2, <1>4, <1>5, <1>6, SameStore, BecomesLoad, Zenon

LEMMA EmptyFunction == <<>> = [tp \in DOMAIN <<>> |-> <<>>[tp]] /\ DOMAIN <<>> = {}
  OBVIOUS

\* The partitions the load is to provide, at the beginning of it.
LEMMA ProvidingBegins ==
    ASSUME NEW w, NEW ps, NEW ss, SnapshotOK(ss), DOMAIN ps = {},
           w.todo = InSomeOrder((CHOOSE s \in ss : TRUE).partitions), w.todo # <<>>,
           w.offsets = Restorable((CHOOSE s \in ss : TRUE).offsets)
    PROVE  ProvidingOK(w, ps, <<>>, ss)
  <1> SUFFICES ASSUME NEW s \in ss
               PROVE  /\ w.todo \in Seq(s.partitions)
                      /\ DOMAIN ps \cup Range(w.todo) = s.partitions
                      /\ w.offsets = Restorable(s.offsets)
    BY Zenon DEF ProvidingOK
  <1>1. ss = {s} /\ IsFiniteSet(s.partitions)
    BY Zenon DEF SnapshotOK
  <1>2. (CHOOSE x \in ss : TRUE) = s
    BY <1>1, Zenon
  <1>3. w.todo = InSomeOrder(s.partitions) /\ w.offsets = Restorable(s.offsets)
    BY <1>2, Zenon
  <1>4. w.todo \in Seq(s.partitions) /\ Range(w.todo) = s.partitions
    BY <1>1, <1>3, OrderOf, Zenon
  <1> QED
    BY <1>3, <1>4, Zenon

\* There are none, and the load goes on to the offsets.
LEMMA RestoringBegins ==
    ASSUME NEW w, NEW ps, NEW ss, SnapshotOK(ss), DOMAIN ps = {},
           InSomeOrder((CHOOSE s \in ss : TRUE).partitions) = <<>>,
           w.offsets = Restorable((CHOOSE s \in ss : TRUE).offsets)
    PROVE  RestoringOK(w, ps, <<>>, ss)
  <1> SUFFICES ASSUME NEW s \in ss
               PROVE  DOMAIN ps = s.partitions /\ w.offsets = Restorable(s.offsets)
    BY EmptyFunction, Zenon DEF RestoringOK
  <1>1. ss = {s} /\ IsFiniteSet(s.partitions)
    BY Zenon DEF SnapshotOK
  <1>2. (CHOOSE x \in ss : TRUE) = s
    BY <1>1, Zenon
  <1>3. Range(<<>>) = s.partitions
    BY <1>1, <1>2, OrderOf, Zenon
  <1> QED
    BY <1>2, <1>3, RangeOfNone, Zenon

LEMMA ClearGroupsLoad ==
    ASSUME TopicsInv, LoadInv, NEW t \in Threads, ClearGroups(t)
    PROVE  LoadInv'
  <1> DEFINE w == thread[t]
             s == CHOOSE s \in snapshot : TRUE
             todo == InSomeOrder(s.partitions)
             next == IF todo = <<>> THEN "restore" ELSE "lookup"
             g == Provide(t, todo, "restore")
             v == [g EXCEPT !.offsets = Restorable(s.offsets)]
  <1>1. /\ At(t, "clear_groups") /\ groups' = <<>> /\ UNCHANGED <<topics, partitions, snapshot>>
    BY Zenon DEF ClearGroups
  <1>2. /\ w # Idle /\ w.pc = "clear_groups" /\ TaskFields \subseteq DOMAIN w
    BY <1>1, AtSection, Zenon
  <1>3. CASE w.call.op = "reset"
    <2>1. thread' = [thread EXCEPT ![t] = Idle]
      BY <1>3, Zenon DEF ClearGroups, Becomes
    <2> QED
      BY <1>1, <1>2, <2>1, SameStore, EndsLoad, Zenon
  <1>4. CASE w.call.op # "reset"
    <2>1. thread' = [thread EXCEPT ![t] = v]
      BY <1>4, Zenon DEF ClearGroups, Becomes
    <2>2. /\ Moved(w, g, next) /\ g.alone = w.alone
          /\ todo # <<>> => g.todo = todo
      <3>1. CASE todo = <<>>
        BY <1>2, <3>1, GotoFields, GotoKeeps, Zenon DEF Provide
      <3>2. CASE todo # <<>>
        <4>1. g = GotoWith(t, "lookup", todo) /\ next = "lookup"
          BY <3>2, Zenon DEF Provide
        <4> HIDE DEF todo
        <4>2. Moved(w, GotoWith(t, "lookup", todo), "lookup") /\ GotoWith(t, "lookup", todo).todo = todo
          BY <1>2, GotoWithFields, Zenon
        <4>3. GotoWith(t, "lookup", todo).alone = w.alone
          BY <1>2, GotoWithKeeps, Zenon
        <4> HIDE DEF g, next
        <4> QED
          BY <4>1, <4>2, <4>3, Zenon
      <3> QED
        BY <3>1, <3>2, Zenon
    <2>3. next \in {"restore", "lookup"} /\ (next = "restore" <=> todo = <<>>)
      OBVIOUS
    <2> HIDE DEF g, next
    <2>4. /\ Moved(w, v, next) /\ v.alone = w.alone /\ v.todo = g.todo
          /\ v.offsets = Restorable(s.offsets)
      BY <1>2, <2>2 DEF Moved, TaskFields
    <2> HIDE DEF v
    <2>5. v.pc = next /\ v.call = w.call
      BY <2>4, Zenon DEF Moved
    <2>6. next # "dump_groups"
      BY <2>3
    <2>7. ListOK(v)
      BY <2>4, <2>6, NoList, Zenon
    <2>8. Follows(w, v)
      BY <1>2, <2>4, Zenon DEF Follows, Lone
    <2>9. ASSUME Lone(v)
          PROVE  LoadOK(v, topics', partitions', groups', snapshot')
      <3>1. LoadOK(w, topics, partitions, groups, snapshot)
        BY <1>1, <2>8, <2>9, LoneSection, Zenon DEF Follows
      <3>2. "clear_groups" # "clear_topics" /\ "clear_groups" \in {"restart_ids", "clear_groups"}
        OBVIOUS
      <3>3. w.call.op = "load" /\ topics' = <<>> /\ DOMAIN partitions' = {}
        BY <1>1, <1>2, <3>1, <3>2, Zenon DEF LoadOK
      <3>4. SnapshotOK(snapshot') /\ snapshot' = snapshot /\ groups' = <<>>
        BY <1>1, Zenon DEF LoadInv
      <3>5. CASE todo = <<>>
        <4>1. RestoringOK(v, partitions', <<>>, snapshot')
          BY <2>4, <3>3, <3>4, <3>5, RestoringBegins, Zenon
        <4>2. v.pc = "restore" /\ v.pc \notin {"restart_ids", "clear_groups", "lookup", "provision"}
          BY <2>3, <2>5, <3>5
        <4> QED
          BY <2>5, <3>3, <3>4, <4>1, <4>2, Zenon DEF LoadOK
      <3>6. CASE todo # <<>>
        <4>1. v.todo = todo
          BY <2>2, <2>4, <3>6, Zenon
        <4>2. ProvidingOK(v, partitions', <<>>, snapshot')
          BY <2>4, <3>3, <3>4, <3>6, <4>1, ProvidingBegins, Zenon
        <4>3. v.pc = "lookup" /\ v.pc \notin {"restart_ids", "clear_groups", "restore"}
          BY <2>3, <2>5, <3>6
        <4> QED
          BY <2>5, <3>3, <3>4, <4>2, <4>3, Zenon DEF LoadOK
      <3> QED
        BY <3>5, <3>6, Zenon
    <2> QED
      BY <1>1, <1>2, <2>1, <2>7, <2>8, <2>9, SameStore, BecomesLoad, Zenon
  <1> QED
    BY <1>3, <1>4, Zenon

\* One partition of the list is there.
LEMMA ProvidingGoesOn ==
    ASSUME NEW w, NEW v, NEW ps, NEW ps2, NEW gs, NEW ss, ProvidingOK(w, ps, gs, ss),
           DOMAIN ps2 = DOMAIN ps \cup {Head(w.todo)}, Tail(w.todo) # <<>>,
           v.todo = Tail(w.todo), v.offsets = w.offsets
    PROVE  ProvidingOK(v, ps2, gs, ss)
  <1>1. gs = <<>> /\ w.todo # <<>>
    BY Zenon DEF ProvidingOK
  <1>2. ASSUME NEW s \in ss
        PROVE  /\ v.todo \in Seq(s.partitions)
               /\ DOMAIN ps2 \cup Range(v.todo) = s.partitions
               /\ v.offsets = Restorable(s.offsets)
    <2>1. /\ w.todo \in Seq(s.partitions)
          /\ DOMAIN ps \cup Range(w.todo) = s.partitions
          /\ w.offsets = Restorable(s.offsets)
      BY Zenon DEF ProvidingOK
    <2>2. /\ Range(w.todo) = {Head(w.todo)} \cup Range(Tail(w.todo))
          /\ Tail(w.todo) \in Seq(s.partitions)
      BY <1>1, <2>1, RangeOfTail, Zenon
    <2> QED
      BY <2>1, <2>2, Zenon
  <1> QED
    BY <1>1, <1>2, Zenon DEF ProvidingOK

\* It was the last.
LEMMA ProvidingEnds ==
    ASSUME NEW w, NEW v, NEW ps, NEW ps2, NEW gs, NEW ss, ProvidingOK(w, ps, gs, ss),
           DOMAIN ps2 = DOMAIN ps \cup {Head(w.todo)}, Tail(w.todo) = <<>>,
           v.offsets = w.offsets
    PROVE  RestoringOK(v, ps2, gs, ss)
  <1>1. gs = <<>> /\ w.todo # <<>>
    BY Zenon DEF ProvidingOK
  <1>2. ASSUME NEW s \in ss
        PROVE  DOMAIN ps2 = s.partitions /\ v.offsets = Restorable(s.offsets)
    <2>1. /\ w.todo \in Seq(s.partitions)
          /\ DOMAIN ps \cup Range(w.todo) = s.partitions
          /\ w.offsets = Restorable(s.offsets)
      BY Zenon DEF ProvidingOK
    <2>2. Range(w.todo) = {Head(w.todo)} \cup Range(Tail(w.todo))
      BY <1>1, <2>1, RangeOfTail, Zenon
    <2>3. Range(w.todo) = {Head(w.todo)}
      BY <2>2, RangeOfNone, Zenon
    <2> QED
      BY <2>1, <2>3, Zenon
  <1> QED
    BY <1>1, <1>2, EmptyFunction, Zenon DEF RestoringOK

\* A thread that has its partition.
LEMMA ProvidedFields ==
    ASSUME TopicsInv, NEW t \in Threads, thread[t] # Idle, NEW p
    PROVE  \/ Provided(t, p) = Idle
           \/ /\ Provided(t, p).alone = thread[t].alone
              /\ Provided(t, p).pc # "dump_groups"
  <1> DEFINE w == thread[t]
             rest == Tail(w.todo)
             a == GotoWith(t, "append", <<>>)
  <1>1. TaskFields \subseteq DOMAIN w
    BY Zenon DEF TopicsInv, TaskOK
  <1>2. \/ Provided(t, p) = GotoWith(t, "lookup", rest)
        \/ Provided(t, p) = [a EXCEPT !.at = p]
        \/ Provided(t, p) = GotoWith(t, "restore", <<>>)
        \/ Provided(t, p) = Idle
        \/ Provided(t, p) = GotoWith(t, "register", <<>>)
    BY DEF Provided
  <1> HIDE DEF rest
  <1>3. GoesTo(w, a, "append")
    BY GotoWithMoves, Zenon
  <1>5. DOMAIN a = DOMAIN w /\ a.pc = "append" /\ a.alone = w.alone
    BY <1>3, Zenon DEF GoesTo
  <1> HIDE DEF a
  <1>6. [a EXCEPT !.at = p].pc = "append" /\ [a EXCEPT !.at = p].alone = w.alone
    BY <1>1, <1>5 DEF TaskFields
  <1>7. "append" # "dump_groups" /\ "lookup" # "dump_groups" /\ "restore" # "dump_groups"
        /\ "register" # "dump_groups"
    OBVIOUS
  <1>8. ASSUME NEW pc \in {"lookup", "restore", "register"}, NEW todo,
               Provided(t, p) = GotoWith(t, pc, todo)
        PROVE  Provided(t, p).alone = w.alone /\ Provided(t, p).pc # "dump_groups"
    <2>1. pc # "dump_groups"
      OBVIOUS
    <2>2. GoesTo(w, GotoWith(t, pc, todo), pc)
      BY GotoWithMoves, Zenon
    <2> QED
      BY <1>8, <2>1, <2>2, Zenon DEF GoesTo
  <1>9. "lookup" \in {"lookup", "restore", "register"} /\ "restore" \in {"lookup", "restore", "register"}
        /\ "register" \in {"lookup", "restore", "register"}
    OBVIOUS
  <1>10. CASE Provided(t, p) = [a EXCEPT !.at = p]
    BY <1>6, <1>7, <1>10, Zenon
  <1> QED
    BY <1>2, <1>8, <1>9, <1>10, Zenon

LEMMA ProvidedLoad ==
    ASSUME TopicsInv, LoadInv, NEW t \in Threads, NEW pc \in {"lookup", "provision"}, At(t, pc),
           NEW p, NEW ps2, DOMAIN ps2 = DOMAIN partitions \cup {Head(thread[t].todo)},
           NEW v, v = Provided(t, p)
    PROVE  /\ Follows(thread[t], v) /\ ListOK(v)
           /\ Lone(v) => LoadOK(v, topics, ps2, groups, snapshot)
  <1> DEFINE w == thread[t]
             rest == Tail(w.todo)
  <1>1. w # Idle /\ w.pc = pc
    BY AtSection, Zenon
  <1>2. v = Idle \/ (v.alone = w.alone /\ v.pc # "dump_groups")
    BY <1>1, ProvidedFields, Zenon
  <1>3. Follows(w, v) /\ ListOK(v)
    BY <1>1, <1>2, Zenon DEF Follows, Lone, ListOK
  <1>4. ASSUME Lone(v)
        PROVE  LoadOK(v, topics, ps2, groups, snapshot)
    <2>1. LoadOK(w, topics, partitions, groups, snapshot)
      BY <1>3, <1>4, LoneSection, Zenon DEF Follows
    <2>2. w.pc # "clear_topics" /\ w.pc \in {"lookup", "provision"}
      BY <1>1
    <2>3. w.call.op = "load" /\ topics = <<>> /\ ProvidingOK(w, partitions, groups, snapshot)
      BY <2>1, <2>2, Zenon DEF LoadOK
    <2>4. CASE rest # <<>>
      <3>1. v = GotoWith(t, "lookup", rest)
        BY <2>4, Zenon DEF Provided
      <3> HIDE DEF rest
      <3>2. Moved(w, v, "lookup") /\ v.todo = rest
        <4>1. /\ Moved(w, GotoWith(t, "lookup", rest), "lookup")
              /\ GotoWith(t, "lookup", rest).todo = rest
          BY <1>1, GotoWithFields, Zenon
        <4> QED
          BY <3>1, <4>1, Zenon
      <3>3. v.offsets = w.offsets
        BY <1>1, <3>1, GotoWithKeeps, Zenon
      <3>4. ProvidingOK(v, ps2, groups, snapshot)
        BY <2>3, <2>4, <3>2, <3>3, ProvidingGoesOn, Zenon DEF rest
      <3>5. v.call = w.call /\ v.pc = "lookup"
        BY <3>2, Zenon DEF Moved
      <3>6. v.pc \notin {"restart_ids", "clear_groups", "restore"}
        BY <3>5
      <3> QED
        BY <2>3, <3>4, <3>5, <3>6, Zenon DEF LoadOK
    <2>5. CASE rest = <<>>
      <3>1. v = GotoWith(t, "restore", <<>>)
        <4>1. w.call.op # "produce" /\ w.call.op # "build_metadata"
          BY <2>3
        <4> QED
          BY <2>3, <2>5, <4>1 DEF Provided
      <3>2. Moved(w, v, "restore")
        BY <1>1, <3>1, GotoWithFields, Zenon
      <3>3. v.offsets = w.offsets
        BY <1>1, <3>1, GotoWithKeeps, Zenon
      <3>4. RestoringOK(v, ps2, groups, snapshot)
        BY <2>3, <2>5, <3>3, ProvidingEnds, Zenon
      <3>5. v.call = w.call /\ v.pc = "restore"
        BY <3>2, Zenon DEF Moved
      <3>6. v.pc \notin {"restart_ids", "clear_groups", "lookup", "provision"}
        BY <3>5
      <3> QED
        BY <2>3, <3>4, <3>5, <3>6, Zenon DEF LoadOK
    <2> QED
      BY <2>4, <2>5, Zenon
  <1> QED
    BY <1>3, <1>4, Zenon

LEMMA LookupLoad ==
    ASSUME TopicsInv, LoadInv, NEW t \in Threads, Lookup(t)
    PROVE  LoadInv'
  <1> DEFINE w == thread[t]
             tp == Head(w.todo)
  <1>1. At(t, "lookup") /\ UNCHANGED <<topics, partitions, groups, snapshot>>
    BY Zenon DEF Lookup
  <1>2. w # Idle /\ w.pc = "lookup"
    BY <1>1, AtSection, Zenon
  <1>3. CASE tp \in DOMAIN partitions
    <2> DEFINE v == Provided(t, partitions[tp])
    <2>1. thread' = [thread EXCEPT ![t] = v]
      BY <1>3, Zenon DEF Lookup, Becomes
    <2>2. DOMAIN partitions = DOMAIN partitions \cup {tp}
      BY <1>3, Zenon
    <2>3. /\ Follows(w, v) /\ ListOK(v)
          /\ Lone(v) => LoadOK(v, topics, partitions, groups, snapshot)
      BY <1>1, <2>2, ProvidedLoad, Zenon
    <2> HIDE DEF v
    <2> QED
      BY <1>1, <1>2, <2>1, <2>3, SameStore, BecomesLoad, Zenon
  <1>4. CASE tp \notin DOMAIN partitions
    <2> DEFINE v == Goto(t, "provision")
    <2>1. thread' = [thread EXCEPT ![t] = v]
      BY <1>4, Zenon DEF Lookup, Becomes
    <2>2. Moved(w, v, "provision") /\ v.todo = w.todo
      BY <1>2, GotoFields, Zenon
    <2>3. v.alone = w.alone /\ v.offsets = w.offsets
      BY <1>2, GotoKeeps, Zenon
    <2> HIDE DEF v
    <2>4. ListOK(v)
      BY <2>2, NoList
    <2>5. Follows(w, v)
      BY <1>2, <2>3, Zenon DEF Follows, Lone
    <2>6. ASSUME Lone(v)
          PROVE  LoadOK(v, topics, partitions, groups, snapshot)
      <3>1. LoadOK(w, topics, partitions, groups, snapshot)
        BY <1>1, <2>5, <2>6, LoneSection, Zenon DEF Follows
      <3>2. w.pc # "clear_topics" /\ w.pc \in {"lookup", "provision"}
        BY <1>2
      <3>3. w.call.op = "load" /\ topics = <<>> /\ ProvidingOK(w, partitions, groups, snapshot)
        BY <3>1, <3>2, Zenon DEF LoadOK
      <3>4. ProvidingOK(v, partitions, groups, snapshot)
        BY <2>2, <2>3, <3>3, Zenon DEF ProvidingOK
      <3>5. v.call = w.call /\ v.pc = "provision"
        BY <2>2, Zenon DEF Moved
      <3>6. v.pc \notin {"restart_ids", "clear_groups", "restore"}
        BY <3>5
      <3> QED
        BY <3>3, <3>4, <3>5, <3>6, Zenon DEF LoadOK
    <2> QED
      BY <1>1, <1>2, <2>1, <2>4, <2>5, <2>6, SameStore, BecomesLoad, Zenon
  <1> QED
    BY <1>3, <1>4, Zenon

LEMMA ProvisionLoad ==
    ASSUME TopicsInv, LoadInv, NEW t \in Threads, Provision(t)
    PROVE  LoadInv'
  <1> DEFINE w == thread[t]
             tp == Head(w.todo)
  <1>1. At(t, "provision") /\ UNCHANGED <<topics, groups, snapshot>>
    BY Zenon DEF Provision
  <1>2. w # Idle
    BY <1>1, AtSection, Zenon
  <1>3. PICK p : /\ thread' = [thread EXCEPT ![t] = Provided(t, p)]
                 /\ DOMAIN partitions' = DOMAIN partitions \cup {tp}
    <2>1. CASE tp \in DOMAIN partitions
      <3>1. /\ thread' = [thread EXCEPT ![t] = Provided(t, partitions[tp])]
            /\ partitions' = partitions
        BY <2>1, Zenon DEF Provision, Becomes
      <3>2. DOMAIN partitions' = DOMAIN partitions \cup {tp}
        BY <2>1, <3>1, Zenon
      <3> QED
        BY <3>1, <3>2, Zenon
    <2>2. CASE tp \notin DOMAIN partitions
      <3>1. /\ thread' = [thread EXCEPT ![t] = Provided(t, Len(made) + 1)]
            /\ partitions' = Put(partitions, tp, Len(made) + 1)
        BY <2>2, Zenon DEF Provision, Becomes, Install
      <3>2. DOMAIN partitions' = DOMAIN partitions \cup {tp}
        BY <3>1, Zenon DEF Put
      <3> QED
        BY <3>1, <3>2, Zenon
    <2> QED
      BY <2>1, <2>2, Zenon
  <1> DEFINE v == Provided(t, p)
  <1>4. thread' = [thread EXCEPT ![t] = v]
    BY <1>3, Zenon
  <1>5. /\ Follows(w, v) /\ ListOK(v)
        /\ Lone(v) => LoadOK(v, topics, partitions', groups, snapshot)
    BY <1>1, <1>3, ProvidedLoad, Zenon
  <1> HIDE DEF v
  <1>6. IsFiniteSet(DOMAIN partitions') /\ SnapshotOK(snapshot')
    BY <1>1, <1>3, FS_AddElement, Zenon DEF LoadInv
  <1> QED
    BY <1>1, <1>2, <1>4, <1>5, <1>6, BecomesLoad, Zenon

LEMMA RestoringGoesOn ==
    ASSUME NEW w, NEW v, NEW ps, NEW gs, NEW ss, RestoringOK(w, ps, gs, ss),
           NEW tp \in DOMAIN w.offsets, v.offsets = Without(w.offsets, {tp})
    PROVE  RestoringOK(v, ps, Put(gs, tp, w.offsets[tp]), ss)
  <1> DEFINE gs2 == Put(gs, tp, w.offsets[tp])
  <1>1. /\ gs2 = [x \in DOMAIN gs2 |-> gs2[x]]
        /\ DOMAIN gs2 = DOMAIN gs \cup {tp}
        /\ gs2[tp] = w.offsets[tp]
        /\ \A x \in DOMAIN gs : x # tp => gs2[x] = gs[x]
    BY Zenon DEF Put
  <1>2. /\ DOMAIN v.offsets = DOMAIN w.offsets \ {tp}
        /\ \A x \in DOMAIN v.offsets : v.offsets[x] = w.offsets[x]
    BY Zenon DEF Without, Restrict
  <1> HIDE DEF gs2
  <1>3. ASSUME NEW s \in ss
        PROVE  /\ DOMAIN ps = s.partitions
               /\ DOMAIN gs2 \cup DOMAIN v.offsets = DOMAIN Restorable(s.offsets)
               /\ \A x \in DOMAIN gs2 : gs2[x] = Restorable(s.offsets)[x]
               /\ \A x \in DOMAIN v.offsets : v.offsets[x] = Restorable(s.offsets)[x]
    <2> DEFINE r == Restorable(s.offsets)
    <2>1. /\ DOMAIN ps = s.partitions
          /\ DOMAIN gs \cup DOMAIN w.offsets = DOMAIN r
          /\ \A x \in DOMAIN gs : gs[x] = r[x]
          /\ \A x \in DOMAIN w.offsets : w.offsets[x] = r[x]
      BY Zenon DEF RestoringOK
    <2> HIDE DEF r
    <2>2. DOMAIN gs2 \cup DOMAIN v.offsets = DOMAIN r
      BY <1>1, <1>2, <2>1
    <2>3. \A x \in DOMAIN gs2 : gs2[x] = r[x]
      BY <1>1, <2>1, Zenon
    <2>4. \A x \in DOMAIN v.offsets : v.offsets[x] = r[x]
      BY <1>2, <2>1, Zenon
    <2> QED
      BY <2>1, <2>2, <2>3, <2>4, Zenon DEF r
  <1>4. RestoringOK(v, ps, gs2, ss)
    BY <1>1, <1>3, Zenon DEF RestoringOK
  <1> QED
    BY <1>4, Zenon DEF gs2

LEMMA RestoreLoad ==
    ASSUME TopicsInv, LoadInv, NEW t \in Threads, Restore(t)
    PROVE  LoadInv'
  <1> DEFINE w == thread[t]
  <1>1. At(t, "restore") /\ UNCHANGED <<topics, partitions, snapshot>>
    BY Zenon DEF Restore
  <1>2. w # Idle /\ w.pc = "restore" /\ TaskFields \subseteq DOMAIN w
    BY <1>1, AtSection, Zenon
  <1>3. PICK tp \in DOMAIN w.offsets :
            /\ groups' = Put(groups, tp, w.offsets[tp])
            /\ thread' = [thread EXCEPT ![t].offsets = Without(@, {tp})]
    BY Zenon DEF Restore
  <1> DEFINE v == [w EXCEPT !.offsets = Without(w.offsets, {tp})]
  <1>4. thread' = [thread EXCEPT ![t] = v]
    BY <1>3, Zenon
  <1>5. /\ v.pc = w.pc /\ v.call = w.call /\ v.alone = w.alone
        /\ v.offsets = Without(w.offsets, {tp})
    BY <1>2 DEF TaskFields
  <1> HIDE DEF v
  <1>6. v.pc = "restore"
        /\ v.pc \notin {"clear_topics", "restart_ids", "clear_groups", "lookup", "provision",
                        "dump_groups"}
    BY <1>2, <1>5
  <1>7. Follows(w, v) /\ ListOK(v)
    BY <1>2, <1>5, <1>6, Zenon DEF Follows, Lone, ListOK
  <1>8. ASSUME Lone(v)
        PROVE  LoadOK(v, topics', partitions', groups', snapshot')
    <2>1. LoadOK(w, topics, partitions, groups, snapshot)
      BY <1>1, <1>7, <1>8, LoneSection, Zenon DEF Follows
    <2>2. w.call.op = "load" /\ topics = <<>> /\ RestoringOK(w, partitions, groups, snapshot)
      BY <1>5, <1>6, <2>1, Zenon DEF LoadOK
    <2>3. RestoringOK(v, partitions, groups', snapshot)
      BY <1>3, <1>5, <2>2, RestoringGoesOn, Zenon
    <2> QED
      BY <1>1, <1>5, <1>6, <2>2, <2>3, Zenon DEF LoadOK
  <1> QED
    BY <1>1, <1>2, <1>4, <1>7, <1>8, SameStore, BecomesLoad, Zenon

------------------------------------------------------------------------------
(* Locks, and the beginning of a call. *)

LEMMA AcquireLoad ==
    ASSUME TopicsInv, LoadInv, NEW t \in Threads, Acquire(t) \/ Park(t)
    PROVE  LoadInv'
  <1> DEFINE w == thread[t]
  <1>1. w # Idle /\ UNCHANGED <<topics, partitions, groups, snapshot>>
    BY Zenon DEF Acquire, Park
  <1>2. TaskFields \subseteq DOMAIN w
    BY <1>1, Zenon DEF TopicsInv, TaskOK
  <1>3. \/ thread' = [thread EXCEPT ![t] = [w EXCEPT !.held = 1, !.parked = FALSE]]
        \/ thread' = [thread EXCEPT ![t] = [w EXCEPT !.parked = TRUE]]
    BY Zenon DEF Acquire, Park
  <1>4. PICK v : /\ thread' = [thread EXCEPT ![t] = v]
                 /\ \/ v = [w EXCEPT !.held = 1, !.parked = FALSE]
                    \/ v = [w EXCEPT !.parked = TRUE]
    BY <1>3, Zenon
  <1>5. /\ v.pc = w.pc /\ v.call = w.call /\ v.todo = w.todo /\ v.offsets = w.offsets
        /\ v.alone = w.alone
    BY <1>2, <1>4, Zenon DEF TaskFields
  <1>6. Follows(w, v)
    BY <1>1, <1>5, Zenon DEF Follows, Lone
  <1>7. ListOK(v)
    BY <1>1, <1>5, Zenon DEF LoadInv, ListOK
  <1>8. ASSUME Lone(v)
        PROVE  LoadOK(v, topics, partitions, groups, snapshot)
    <2>1. LoadOK(w, topics, partitions, groups, snapshot)
      BY <1>6, <1>8, Zenon DEF LoadInv, Follows
    <2> QED
      BY <1>5, <2>1, SameLoad, Zenon
  <1> QED
    BY <1>1, <1>4, <1>6, <1>7, <1>8, SameStore, BecomesLoad, Zenon

LEMMA BeginLoad ==
    ASSUME TopicsInv, LoadInv, NEW t \in Threads, NEW call \in Calls(t), Begin(t, call)
    PROVE  LoadInv'
  <1> DEFINE v == [pc |-> First(call), call |-> call, held |-> 0, parked |-> FALSE,
                   todo |-> IF call.op = "produce" THEN <<call.tp>> ELSE <<>>, at |-> 0,
                   offsets |-> <<>>, overtaken |-> FALSE,
                   alone |-> call.op = "load" /\ Active = {}]
  <1>1. thread' = [u \in Threads |-> IF u = t THEN v
                                     ELSE IF u \in Active THEN [thread[u] EXCEPT !.alone = FALSE]
                                     ELSE Idle]
    BY Zenon DEF Begin
  <1>2. UNCHANGED <<topics, partitions, groups, snapshot>>
    BY Zenon DEF Begin
  <1>3. v.pc = First(call) /\ v.call = call
    OBVIOUS
  <1>4. v.alone <=> call.op = "load" /\ Active = {}
    BY Zenon
  <1> HIDE DEF v
  <1>5. thread'[t] = v
    BY <1>1, Zenon
  <1>6. ASSUME NEW u \in Threads \ {t}
        PROVE  ListOK(thread'[u]) /\ ~Lone(thread'[u]) /\ (Active = {} => thread'[u] = Idle)
    <2>1. CASE u \in Active
      <3>1. thread'[u] = [thread[u] EXCEPT !.alone = FALSE]
        BY <1>1, <2>1, Zenon
      <3>2. thread[u] # Idle /\ TaskFields \subseteq DOMAIN thread[u]
        BY <2>1, Zenon DEF Active, TopicsInv, TaskOK
      <3>3. /\ thread'[u].pc = thread[u].pc /\ thread'[u].todo = thread[u].todo
            /\ thread'[u].alone = FALSE
        BY <3>1, <3>2 DEF TaskFields
      <3>4. ListOK(thread[u])
        BY Zenon DEF LoadInv
      <3>5. ListOK(thread'[u])
        BY <3>2, <3>3, <3>4, Zenon DEF ListOK
      <3>6. ~Lone(thread'[u])
        BY <3>3, Zenon DEF Lone
      <3> QED
        BY <2>1, <3>5, <3>6, Zenon
    <2>2. CASE u \notin Active
      <3>1. thread'[u] = Idle
        BY <1>1, <2>2, Zenon
      <3> QED
        BY <3>1, Zenon DEF ListOK, Lone
    <2> QED
      BY <2>1, <2>2, Zenon
  <1>7. First(call) # "dump_groups"
    <2>1. call.op \in {"create_topic", "create_partitions", "update_topic_configs",
                       "delete_topic", "build_metadata", "produce", "commit_offset",
                       "reset", "dump", "load"}
      BY CallsAssumption, Zenon
    <2> QED
      BY <2>1 DEF First
  <1>8. ListOK(v)
    BY <1>3, <1>7, Zenon DEF ListOK
  <1>9. ASSUME Lone(v)
        PROVE  /\ \A u \in Threads \ {t} : thread'[u] = Idle
               /\ LoadOK(v, topics', partitions', groups', snapshot')
    <2>1. call.op = "load" /\ Active = {}
      BY <1>4, <1>9, Zenon DEF Lone
    <2>2. First(call) = "clear_topics"
      BY <2>1 DEF First
    <2>3. /\ v.pc = "clear_topics"
          /\ v.pc \notin {"restart_ids", "clear_groups", "lookup", "provision", "restore"}
      BY <1>3, <2>2
    <2>4. LoadOK(v, topics', partitions', groups', snapshot')
      BY <1>3, <2>1, <2>3, Zenon DEF LoadOK
    <2> QED
      BY <1>6, <2>1, <2>4, Zenon
  <1>10. \A u \in Threads : ListOK(thread'[u])
    BY <1>5, <1>6, <1>8, Zenon
  <1>11. ASSUME NEW u \in Threads, Lone(thread'[u])
         PROVE  /\ \A x \in Threads \ {u} : thread'[x] = Idle
                /\ LoadOK(thread'[u], topics', partitions', groups', snapshot')
    BY <1>5, <1>6, <1>9, <1>11, Zenon
  <1>12. IsFiniteSet(DOMAIN partitions') /\ SnapshotOK(snapshot')
    BY <1>2, SameStore, Zenon
  <1> QED
    BY <1>10, <1>11, <1>12, Zenon DEF LoadInv

LEMMA StepLoad == TopicsInv /\ LoadInv /\ [Next]_vars => LoadInv'
  <1> SUFFICES ASSUME TopicsInv, LoadInv, [Next]_vars PROVE LoadInv'
    OBVIOUS
  <1>1. ASSUME NEW t \in Threads, NEW call \in Calls(t), Begin(t, call) PROVE LoadInv'
    BY <1>1, BeginLoad, Zenon
  <1>2. ASSUME NEW t \in Threads, Acquire(t) \/ Park(t) PROVE LoadInv'
    BY <1>2, AcquireLoad, Zenon
  <1>3. ASSUME NEW t \in Threads, Section(t) PROVE LoadInv'
    <2>1. CASE Check(t) \/ Has(t) \/ CountPartitions(t) \/ Lookup(t) \/ Provision(t)
      BY <2>1, CheckLoad, HasLoad, CountPartitionsLoad, LookupLoad, ProvisionLoad, Zenon
    <2>2. CASE Register(t) \/ Update(t) \/ AppendRecords(t) \/ CommitOffset(t) \/ Restored(t)
      BY <2>2, EndLoad, Zenon
    <2>3. CASE ClearTopics(t) \/ ClearPartitions(t) \/ RestartIds(t) \/ ClearGroups(t)
      BY <2>3, ClearTopicsLoad, ClearPartitionsLoad, RestartIdsLoad, ClearGroupsLoad, Zenon
    <2>4. CASE Delete(t) \/ Scan(t) \/ Restore(t) \/ DumpPartitions(t) \/ DumpGroups(t)
      BY <2>4, DeleteLoad, ScanLoad, RestoreLoad, DumpPartitionsLoad, DumpGroupsLoad, Zenon
    <2> QED
      BY <1>3, <2>1, <2>2, <2>3, <2>4, Zenon DEF Section
  <1>4. CASE UNCHANGED vars
    BY <1>4, Zenon DEF vars, LoadInv
  <1> QED
    BY <1>1, <1>2, <1>3, <1>4, Zenon DEF Next

LEMMA InvImpliesLoad == LoadInv => LoadRestores
  <1> SUFFICES ASSUME LoadInv, NEW t \in Active, NEW s \in snapshot,
                      thread[t].pc = "restore", thread[t].offsets = <<>>, thread[t].alone
               PROVE  /\ DOMAIN partitions = s.partitions
                      /\ groups = Restorable(s.offsets)
                      /\ topics = <<>>
    BY Zenon DEF LoadRestores
  <1> DEFINE w == thread[t]
             r == Restorable(s.offsets)
  <1>1. LoadOK(w, topics, partitions, groups, snapshot)
    BY Zenon DEF LoadInv, Active, Lone
  <1>2. w.pc # "clear_topics"
    OBVIOUS
  <1>3. topics = <<>> /\ RestoringOK(w, partitions, groups, snapshot)
    BY <1>1, <1>2, Zenon DEF LoadOK
  <1>4. /\ groups = [tp \in DOMAIN groups |-> groups[tp]]
        /\ DOMAIN partitions = s.partitions
        /\ DOMAIN groups \cup DOMAIN w.offsets = DOMAIN r
        /\ \A tp \in DOMAIN groups : groups[tp] = r[tp]
    BY <1>3, Zenon DEF RestoringOK
  <1>5. r = [tp \in DOMAIN r |-> r[tp]]
    BY Zenon DEF Restorable, Restrict
  <1> HIDE DEF r
  <1>6. DOMAIN groups = DOMAIN r
    BY <1>4, EmptyFunction, Zenon
  <1>7. groups = r
    BY <1>4, <1>5, <1>6
  <1> QED
    BY <1>3, <1>4, <1>7, Zenon DEF r

\* A load that no other call overlaps leaves the partitions and the offsets of
\* the snapshot dump took last, whatever they are, and nothing else.
THEOREM LoadAlwaysRestores == Spec => []LoadRestores
  BY TopicsInvariance, InitLoad, StepLoad, InvImpliesLoad, PTL DEF Spec
===============================================================================
