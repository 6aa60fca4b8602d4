------------------------- MODULE TransactionsProofs -------------------------
(***************************************************************************)
(* Proofs about transactions, for any number of producers, partitions,     *)
(* fetches, batches and transactions: what each step does, the order of    *)
(* the control batches, and the open transactions of a partition.          *)
(* TransactionsReadProofs goes on from here to what consumers read.        *)
(***************************************************************************)
EXTENDS Transactions, TLAPS

-----------------------------------------------------------------------------
(* What the variables hold.                                                *)

PidMaps == UNION {[S -> Nat] : S \in SUBSET Nat}

LEMMA OpenNumbers ==
    ASSUME NEW open \in PidMaps
    PROVE  DOMAIN open \in SUBSET Nat /\ \A pid \in DOMAIN open : open[pid] \in Nat
  <1> PICK S \in SUBSET Nat : open \in [S -> Nat]
    BY Zenon DEF PidMaps
  <1> QED
    OBVIOUS

Pcs == {"new", "idle", "producing", "ending", "retry", "fenced"}

Batches == [kind : Kinds, pid : Nat, epoch : Nat,
            txn : {None} \cup [who : Producers, n : Nat]]

Clients == [pc : Pcs, pid : Nat, epoch : Nat, parts : SUBSET Partitions, n : Nat,
            committed : BOOLEAN]

Entries == [pid : Nat, epoch : Nat,
            state : {"Empty", "Ongoing", "PrepareCommit", "PrepareAbort"},
            parts : SUBSET Partitions]

TxnMaps == UNION {[S -> Entries] : S \in SUBSET Ids}

\* An end_txn before its first control batch, and after one.
Starting == [by : Producers, pid : Nat, epoch : Nat, committed : BOOLEAN,
             todo : SUBSET Partitions, step : {"mark"}]

Continuing == [by : Producers, pid : Nat, epoch : Nat, committed : BOOLEAN,
               todo : SUBSET Partitions, step : {"mark", "close", "push"},
               p : Partitions, first : Nat]

EndOK(e) == e = NoEnd \/ e \in Starting \/ e \in Continuing

Shape ==
    /\ log \in [Partitions -> Seq(Batches)]
    /\ ongoing \in [Partitions -> PidMaps]
    /\ lock \in [Partitions -> Producers \cup {None}]
    /\ txns \in TxnMaps
    /\ nextPid \in Nat
    /\ EndOK(ending)
    /\ prod \in [Producers -> Clients]

LEMMA Entry ==
    ASSUME NEW t \in TxnMaps
    PROVE  DOMAIN t \in SUBSET Ids /\ \A id \in DOMAIN t : t[id] \in Entries
  <1> PICK S \in SUBSET Ids : t \in [S -> Entries]
    BY Zenon DEF TxnMaps
  <1> QED
    OBVIOUS

\* A map of transactions with one entry changed or added.
LEMMA EntryPut ==
    ASSUME NEW t \in TxnMaps, NEW id \in Ids, NEW e \in Entries, NEW u,
           u = [x \in DOMAIN t \cup {id} |-> IF x = id THEN e ELSE t[x]]
    PROVE  /\ u \in TxnMaps
           /\ DOMAIN u = DOMAIN t \cup {id}
           /\ u[id] = e
           /\ \A x \in DOMAIN t : x # id => u[x] = t[x]
  <1>1. DOMAIN t \in SUBSET Ids /\ \A x \in DOMAIN t : t[x] \in Entries
    BY Entry, Zenon
  <1>2. u \in [DOMAIN t \cup {id} -> Entries] /\ DOMAIN t \cup {id} \in SUBSET Ids
    BY <1>1, Zenon
  <1>3. u \in TxnMaps
    BY <1>2, Zenon DEF TxnMaps
  <1> QED
    BY <1>3, Zenon

LEMMA EntrySet ==
    ASSUME NEW t \in TxnMaps, NEW id \in DOMAIN t, NEW e \in Entries, NEW u,
           u = [t EXCEPT ![id] = e]
    PROVE  /\ u \in TxnMaps
           /\ DOMAIN u = DOMAIN t
           /\ u[id] = e
           /\ \A x \in DOMAIN t : x # id => u[x] = t[x]
  <1>1. DOMAIN t \in SUBSET Ids /\ \A x \in DOMAIN t : t[x] \in Entries
    BY Entry, Zenon
  <1>2. u \in [DOMAIN t -> Entries]
    BY <1>1, Zenon
  <1>3. u \in TxnMaps
    BY <1>1, <1>2, Zenon DEF TxnMaps
  <1> QED
    BY <1>3, Zenon

\* A client's record with another pc.
LEMMA ClientPc ==
    ASSUME NEW r \in Clients, NEW pc \in Pcs, NEW q, q = [r EXCEPT !.pc = pc]
    PROVE  /\ q \in Clients
           /\ q.pc = pc /\ q.pid = r.pid /\ q.epoch = r.epoch /\ q.parts = r.parts /\ q.n = r.n
  BY Zenon DEF Clients

\* The clients, one of which changes.
LEMMA ClientSet ==
    ASSUME NEW f \in [Producers -> Clients], NEW c \in Producers, NEW r \in Clients, NEW g,
           g = [f EXCEPT ![c] = r]
    PROVE  /\ g \in [Producers -> Clients]
           /\ g[c] = r
           /\ \A d \in Producers : d # c => g[d] = f[d]
  OBVIOUS

\* The logs, one of which gets a batch.
LEMMA LogAppend ==
    ASSUME NEW f \in [Partitions -> Seq(Batches)], NEW p \in Partitions, NEW b \in Batches, NEW g,
           g = [f EXCEPT ![p] = Append(@, b)]
    PROVE  /\ g \in [Partitions -> Seq(Batches)]
           /\ Len(g[p]) = Len(f[p]) + 1
           /\ g[p][Len(f[p]) + 1] = b
           /\ \A i \in 1 .. Len(f[p]) : g[p][i] = f[p][i]
           /\ \A q \in Partitions : q # p => g[q] = f[q]
  <1>1. f[p] \in Seq(Batches) /\ g[p] = Append(f[p], b)
    OBVIOUS
  <1>2. g \in [Partitions -> Seq(Batches)]
    BY <1>1
  <1>3. /\ Len(g[p]) = Len(f[p]) + 1
        /\ g[p][Len(f[p]) + 1] = b
        /\ \A i \in 1 .. Len(f[p]) : g[p][i] = f[p][i]
    BY <1>1
  <1> QED
    BY <1>2, <1>3, Zenon


-----------------------------------------------------------------------------
(* What each step does, field by field.                                    *)

SameBut(r, q, pc) ==
    q.pc = pc /\ q.pid = r.pid /\ q.epoch = r.epoch /\ q.parts = r.parts /\ q.n = r.n

OthersSame(f, g, c) == \A d \in Producers : d # c => g[d] = f[d]

Grown(s, t, b) ==
    /\ Len(t) = Len(s) + 1
    /\ t[Len(s) + 1] = b
    /\ \A i \in 1 .. Len(s) : t[i] = s[i]

LogsSame(f, g, p) == \A q \in Partitions : q # p => g[q] = f[q]

AppendedTo(f, p, b, g) == g = [f EXCEPT ![p] = Append(@, b)]

LEMMA LogGrows ==
    ASSUME NEW f \in [Partitions -> Seq(Batches)], NEW p \in Partitions, NEW b \in Batches, NEW g,
           AppendedTo(f, p, b, g)
    PROVE  g \in [Partitions -> Seq(Batches)] /\ Grown(f[p], g[p], b) /\ LogsSame(f, g, p)
  BY LogAppend DEF AppendedTo, Grown, LogsSame

LEMMA RegisteredPids ==
    ASSUME Shape, NEW p \in Partitions, NEW pid \in Nat
    PROVE  /\ Registered(p, pid) \in PidMaps
           /\ DOMAIN Registered(p, pid) = DOMAIN ongoing[p] \cup {pid}
           /\ \A x \in DOMAIN ongoing[p] : Registered(p, pid)[x] = ongoing[p][x]
           /\ pid \notin DOMAIN ongoing[p] => Registered(p, pid)[pid] = Len(log[p])
  <1>1. DOMAIN ongoing[p] \in SUBSET Nat /\ \A x \in DOMAIN ongoing[p] : ongoing[p][x] \in Nat
    BY OpenNumbers, Zenon DEF Shape
  <1>2. Len(log[p]) \in Nat
    BY DEF Shape
  <1>3. Registered(p, pid) \in [DOMAIN ongoing[p] \cup {pid} -> Nat]
    BY <1>1, <1>2, Zenon DEF Registered, HighWatermark
  <1>4. DOMAIN ongoing[p] \cup {pid} \in SUBSET Nat
    BY <1>1, Zenon
  <1>5. Registered(p, pid) \in PidMaps
    BY <1>3, <1>4, Zenon DEF PidMaps
  <1> QED
    BY <1>5, Zenon DEF Registered, HighWatermark

LEMMA WithoutPids ==
    ASSUME Shape, NEW p \in Partitions, NEW pid
    PROVE  /\ Without(p, pid) \in PidMaps
           /\ DOMAIN Without(p, pid) = DOMAIN ongoing[p] \ {pid}
           /\ \A x \in DOMAIN ongoing[p] \ {pid} : Without(p, pid)[x] = ongoing[p][x]
  <1>1. DOMAIN ongoing[p] \in SUBSET Nat /\ \A x \in DOMAIN ongoing[p] : ongoing[p][x] \in Nat
    BY OpenNumbers, Zenon DEF Shape
  <1>2. Without(p, pid) \in [DOMAIN ongoing[p] \ {pid} -> Nat]
    BY <1>1, Zenon DEF Without
  <1>3. DOMAIN ongoing[p] \ {pid} \in SUBSET Nat
    BY <1>1, Zenon
  <1>4. Without(p, pid) \in PidMaps
    BY <1>2, <1>3, Zenon DEF PidMaps
  <1> QED
    BY <1>4, Zenon DEF Without

ProduceBeginDoes(c, p) ==
    /\ prod[c].pc = "idle" /\ p \in prod[c].parts /\ lock[p] = None
    /\ SameBut(prod[c], prod'[c], "producing") /\ OthersSame(prod, prod', c)
    /\ lock'[p] = c /\ LogsSame(lock, lock', p)
    /\ ongoing'[p] = Registered(p, prod[c].pid) /\ LogsSame(ongoing, ongoing', p)
    /\ UNCHANGED <<log, txns, nextPid, ending, fetch, asked, answered>>

LEMMA ProduceBeginEffect ==
    ASSUME Shape, NEW c \in Producers, NEW p \in Partitions, ProduceBegin(c, p)
    PROVE  Shape' /\ ProduceBeginDoes(c, p)
  <1>1. /\ prod[c].pc = "idle" /\ p \in prod[c].parts /\ lock[p] = None
        /\ UNCHANGED <<log, txns, nextPid, ending, fetch, asked, answered>>
    BY Zenon DEF ProduceBegin, coord
  <1>2. prod[c] \in Clients /\ prod[c].pid \in Nat
    BY Zenon DEF Shape, Clients
  <1> DEFINE r == [prod[c] EXCEPT !.pc = "producing"]
  <1>3. r \in Clients /\ SameBut(prod[c], r, "producing")
    BY <1>2, ClientPc DEF SameBut, Pcs
  <1>4. prod' = [prod EXCEPT ![c] = r]
    BY Zenon DEF ProduceBegin
  <1> HIDE DEF r
  <1>5. /\ prod' \in [Producers -> Clients]
        /\ SameBut(prod[c], prod'[c], "producing") /\ OthersSame(prod, prod', c)
    BY <1>3, <1>4, ClientSet, Zenon DEF Shape, OthersSame
  <1>6. /\ lock' \in [Partitions -> Producers \cup {None}]
        /\ lock'[p] = c /\ LogsSame(lock, lock', p)
    BY Zenon DEF ProduceBegin, Shape, LogsSame
  <1>7. /\ ongoing' \in [Partitions -> PidMaps]
        /\ ongoing'[p] = Registered(p, prod[c].pid) /\ LogsSame(ongoing, ongoing', p)
    BY <1>2, RegisteredPids, Zenon DEF ProduceBegin, Shape, LogsSame
  <1>8. Shape'
    BY <1>1, <1>5, <1>6, <1>7, Zenon DEF Shape
  <1> QED
    BY <1>1, <1>5, <1>6, <1>7, <1>8, Zenon DEF ProduceBeginDoes
ProduceAppendDoes(c, p) ==
    /\ prod[c].pc = "producing" /\ lock[p] = c
    /\ SameBut(prod[c], prod'[c], "idle") /\ OthersSame(prod, prod', c)
    /\ lock'[p] = None /\ LogsSame(lock, lock', p)
    /\ \E b \in {Gap, Batch("data", prod[c].pid, prod[c].epoch, Txn(c))} :
           Grown(log[p], log'[p], b)
    /\ LogsSame(log, log', p)
    /\ UNCHANGED <<ongoing, txns, nextPid, ending, fetch, asked, answered>>

LEMMA ProduceAppendEffect ==
    ASSUME Shape, NEW c \in Producers, NEW p \in Partitions, ProduceAppend(c, p)
    PROVE  Shape' /\ ProduceAppendDoes(c, p)
  <1>1. /\ prod[c].pc = "producing" /\ lock[p] = c
        /\ UNCHANGED <<ongoing, txns, nextPid, ending, fetch, asked, answered>>
    BY Zenon DEF ProduceAppend, coord
  <1>2. prod[c] \in Clients
    BY Zenon DEF Shape
  <1> DEFINE r == [prod[c] EXCEPT !.pc = "idle"]
             data == Batch("data", prod[c].pid, prod[c].epoch, Txn(c))
  <1>3. r \in Clients /\ SameBut(prod[c], r, "idle")
    BY <1>2, ClientPc DEF SameBut, Pcs
  <1>4. prod' = [prod EXCEPT ![c] = r]
    BY Zenon DEF ProduceAppend
  <1>5. Gap \in Batches /\ data \in Batches
    BY <1>2, Zenon DEF Gap, Batch, Batches, Kinds, Txn, Clients
  <1>6. PICK b \in {Gap, data} : log' = [log EXCEPT ![p] = Append(@, b)]
    BY Zenon DEF ProduceAppend, FailAppend, AppendTo
  <1> HIDE DEF r, data
  <1>7. /\ prod' \in [Producers -> Clients]
        /\ SameBut(prod[c], prod'[c], "idle") /\ OthersSame(prod, prod', c)
    BY <1>3, <1>4, ClientSet, Zenon DEF Shape, OthersSame
  <1>8. /\ lock' \in [Partitions -> Producers \cup {None}]
        /\ lock'[p] = None /\ LogsSame(lock, lock', p)
    BY Zenon DEF ProduceAppend, ReleaseAfter, Shape, LogsSame
  <1>9. b \in Batches
    BY <1>5, Zenon
  <1>10. /\ log' \in [Partitions -> Seq(Batches)]
         /\ Grown(log[p], log'[p], b) /\ LogsSame(log, log', p)
    <2>1. log \in [Partitions -> Seq(Batches)]
      BY Zenon DEF Shape
    <2>2. AppendedTo(log, p, b, log')
      BY <1>6, Zenon DEF AppendedTo
    <2> QED
      BY <1>9, <2>1, <2>2, LogGrows, Zenon
  <1>11. Shape'
    BY <1>1, <1>7, <1>8, <1>10, Zenon DEF Shape
  <1>12. \E x \in {Gap, data} : Grown(log[p], log'[p], x)
    BY <1>10, Zenon
  <1> QED
    BY <1>1, <1>7, <1>8, <1>10, <1>11, <1>12, Zenon DEF data, ProduceAppendDoes


ProducePlainDoes(p) ==
    /\ \E b \in {Gap, Plain} : Grown(log[p], log'[p], b)
    /\ LogsSame(log, log', p)
    /\ UNCHANGED <<ongoing, lock, txns, nextPid, ending, prod, fetch, asked, answered>>

LEMMA ProducePlainEffect ==
    ASSUME Shape, NEW p \in Partitions, ProducePlain(p)
    PROVE  Shape' /\ ProducePlainDoes(p)
  <1>1. UNCHANGED <<ongoing, lock, txns, nextPid, ending, prod, fetch, asked, answered>>
    BY Zenon DEF ProducePlain, coord
  <1>2. PICK b \in {Gap, Plain} : log' = [log EXCEPT ![p] = Append(@, b)]
    BY Zenon DEF ProducePlain, FailAppend, AppendTo
  <1>3. b \in Batches
    BY DEF Gap, Plain, Batch, Batches, Kinds
  <1>4. /\ log' \in [Partitions -> Seq(Batches)]
        /\ Grown(log[p], log'[p], b) /\ LogsSame(log, log', p)
    <2>1. log \in [Partitions -> Seq(Batches)]
      BY Zenon DEF Shape
    <2>2. AppendedTo(log, p, b, log')
      BY <1>2, Zenon DEF AppendedTo
    <2> QED
      BY <1>3, <2>1, <2>2, LogGrows, Zenon
  <1>5. Shape'
    BY <1>1, <1>4, Zenon DEF Shape
  <1> QED
    BY <1>1, <1>4, <1>5, Zenon DEF ProducePlainDoes

NewEntry == [pid |-> nextPid, epoch |-> 0, state |-> "Empty", parts |-> {}]

LEMMA EntryAgain ==
    ASSUME NEW e \in Entries
    PROVE  LET q == [e EXCEPT !.epoch = @ + 1, !.parts = {}, !.state = "Empty"]
           IN  q \in Entries /\ q.pid = e.pid /\ q.epoch = e.epoch + 1
  <1> DEFINE e1 == [e EXCEPT !.epoch = e.epoch + 1]
             e2 == [e1 EXCEPT !.parts = {}]
             q == [e EXCEPT !.epoch = @ + 1, !.parts = {}, !.state = "Empty"]
  <1>1. e1 \in Entries /\ e1.pid = e.pid /\ e1.epoch = e.epoch + 1
    BY DEF Entries
  <1>2. q = [e2 EXCEPT !.state = "Empty"]
    OBVIOUS
  <1> HIDE DEF e1
  <1>3. e2 \in Entries /\ e2.pid = e1.pid /\ e2.epoch = e1.epoch
    BY <1>1, Zenon DEF Entries
  <1> HIDE DEF e2, q
  <1>4. q \in Entries /\ q.pid = e2.pid /\ q.epoch = e2.epoch
    BY <1>2, <1>3, Zenon DEF Entries
  <1>5. q \in Entries /\ q.pid = e.pid /\ q.epoch = e.epoch + 1
    BY <1>1, <1>3, <1>4, Zenon
  <1> QED
    BY <1>5, Zenon DEF q

LEMMA IdOf ==
    ASSUME NEW c \in Producers
    PROVE  Id(c) \in Ids
  BY Zenon DEF Ids

InitProducerIdDoes(c) ==
    /\ prod[c].pc \in {"new", "idle", "retry"} /\ LockFree
    /\ \/ /\ Id(c) \in DOMAIN txns /\ txns[Id(c)].epoch < MaxEpoch
          /\ DOMAIN txns' = DOMAIN txns
          /\ txns'[Id(c)].pid = txns[Id(c)].pid
          /\ txns'[Id(c)].epoch = txns[Id(c)].epoch + 1
          /\ nextPid' = nextPid
       \/ /\ Id(c) \notin DOMAIN txns
          /\ DOMAIN txns' = DOMAIN txns \cup {Id(c)}
          /\ txns'[Id(c)] = NewEntry
          /\ nextPid' = nextPid + 1
    /\ \A id \in DOMAIN txns : id # Id(c) => txns'[id] = txns[id]
    /\ prod'[c].pc = "idle" /\ prod'[c].pid = txns'[Id(c)].pid
    /\ prod'[c].parts = {} /\ prod'[c].epoch = txns'[Id(c)].epoch
    /\ prod'[c].n = IF prod[c].pc = "new" THEN 0 ELSE prod[c].n + 1
    /\ OthersSame(prod, prod', c)
    /\ UNCHANGED <<log, ongoing, lock, ending, fetch, asked, answered>>

LEMMA InitProducerIdEffect ==
    ASSUME Shape, NEW c \in Producers, InitProducerId(c)
    PROVE  Shape' /\ InitProducerIdDoes(c)
  <1>1. /\ prod[c].pc \in {"new", "idle", "retry"} /\ LockFree
        /\ UNCHANGED <<log, ongoing, lock, ending, fetch, asked, answered>>
    BY Zenon DEF InitProducerId, parts
  <1>2. Id(c) \in Ids /\ txns \in TxnMaps /\ nextPid \in Nat /\ prod \in [Producers -> Clients]
    BY IdOf, Zenon DEF Shape
  <1>3. /\ txns' \in TxnMaps /\ nextPid' \in Nat
        /\ Id(c) \in DOMAIN txns'
        /\ \/ /\ Id(c) \in DOMAIN txns /\ txns[Id(c)].epoch < MaxEpoch
              /\ DOMAIN txns' = DOMAIN txns
              /\ txns'[Id(c)].pid = txns[Id(c)].pid
              /\ txns'[Id(c)].epoch = txns[Id(c)].epoch + 1
              /\ nextPid' = nextPid
           \/ /\ Id(c) \notin DOMAIN txns
              /\ DOMAIN txns' = DOMAIN txns \cup {Id(c)}
              /\ txns'[Id(c)] = NewEntry
              /\ nextPid' = nextPid + 1
        /\ \A id \in DOMAIN txns : id # Id(c) => txns'[id] = txns[id]
    <2>1. CASE /\ Id(c) \in DOMAIN txns /\ txns[Id(c)].epoch < MaxEpoch
               /\ txns' = [txns EXCEPT ![Id(c)] = Reinitialised(Id(c))]
               /\ UNCHANGED nextPid
      <3>1. txns[Id(c)] \in Entries
        BY <1>2, <2>1, Entry, Zenon
      <3>2. /\ Reinitialised(Id(c)) \in Entries
            /\ Reinitialised(Id(c)).pid = txns[Id(c)].pid
            /\ Reinitialised(Id(c)).epoch = txns[Id(c)].epoch + 1
        BY <3>1, EntryAgain, Zenon DEF Reinitialised
      <3>3. /\ txns' \in TxnMaps /\ DOMAIN txns' = DOMAIN txns
            /\ txns'[Id(c)] = Reinitialised(Id(c))
            /\ \A id \in DOMAIN txns : id # Id(c) => txns'[id] = txns[id]
        BY <1>2, <2>1, <3>2, EntrySet, Zenon
      <3> QED
        BY <1>2, <2>1, <3>2, <3>3, Zenon
    <2>2. CASE /\ Id(c) \notin DOMAIN txns
               /\ txns' = [id \in DOMAIN txns \cup {Id(c)} |->
                              IF id = Id(c) THEN NewEntry ELSE txns[id]]
               /\ nextPid' = nextPid + 1
      <3>1. NewEntry \in Entries
        BY <1>2, Zenon DEF NewEntry, Entries
      <3>2. /\ txns' \in TxnMaps /\ DOMAIN txns' = DOMAIN txns \cup {Id(c)}
            /\ txns'[Id(c)] = NewEntry
            /\ \A id \in DOMAIN txns : id # Id(c) => txns'[id] = txns[id]
        BY <1>2, <2>2, <3>1, EntryPut
      <3> QED
        BY <1>2, <2>2, <3>2
    <2> QED
      BY <2>1, <2>2, Zenon DEF InitProducerId, NewEntry
  <1>4. txns'[Id(c)] \in Entries
    BY <1>3, Entry, Zenon
  <1> DEFINE n == IF prod[c].pc = "new" THEN 0 ELSE prod[c].n + 1
             r == [pc |-> "idle", pid |-> txns'[Id(c)].pid, epoch |-> txns'[Id(c)].epoch,
                   parts |-> {}, n |-> n, committed |-> FALSE]
  <1>5. n \in Nat
    BY <1>2 DEF Clients
  <1>6. prod' = [prod EXCEPT ![c] = r]
    BY Zenon DEF InitProducerId
  <1> HIDE DEF n
  <1>7. /\ r \in Clients /\ r.pc = "idle" /\ r.pid = txns'[Id(c)].pid /\ r.parts = {}
        /\ r.epoch = txns'[Id(c)].epoch /\ r.n = n
    BY <1>4, <1>5, Zenon DEF Clients, Entries, Pcs
  <1> HIDE DEF r
  <1>8. prod' \in [Producers -> Clients] /\ prod'[c] = r /\ OthersSame(prod, prod', c)
    BY <1>2, <1>6, <1>7, ClientSet, Zenon DEF OthersSame
  <1>9. Shape'
    BY <1>1, <1>3, <1>8, Zenon DEF Shape
  <1>10. prod'[c].n = n
    BY <1>7, <1>8, Zenon
  <1> QED
    BY <1>1, <1>3, <1>7, <1>8, <1>9, <1>10, Zenon DEF n, InitProducerIdDoes
FencedDoes(c) ==
    /\ prod[c].pc \in {"idle", "retry"} /\ ~Accepts(c)
    /\ SameBut(prod[c], prod'[c], "fenced") /\ OthersSame(prod, prod', c)
    /\ UNCHANGED <<log, ongoing, lock, txns, nextPid, ending, fetch, asked, answered>>

LEMMA FencedEffect ==
    ASSUME Shape, NEW c \in Producers, Fenced(c)
    PROVE  Shape' /\ FencedDoes(c)
  <1>1. /\ prod[c].pc \in {"idle", "retry"} /\ ~Accepts(c)
        /\ UNCHANGED <<log, ongoing, lock, txns, nextPid, ending, fetch, asked, answered>>
    BY Zenon DEF Fenced, coord, parts
  <1> DEFINE r == [prod[c] EXCEPT !.pc = "fenced"]
  <1>2. r \in Clients /\ SameBut(prod[c], r, "fenced")
    BY ClientPc DEF SameBut, Pcs, Shape
  <1>3. prod' = [prod EXCEPT ![c] = r]
    BY Zenon DEF Fenced
  <1> HIDE DEF r
  <1>4. /\ prod' \in [Producers -> Clients]
        /\ SameBut(prod[c], prod'[c], "fenced") /\ OthersSame(prod, prod', c)
    BY <1>2, <1>3, ClientSet, Zenon DEF Shape, OthersSame
  <1>5. Shape'
    BY <1>1, <1>4, Zenon DEF Shape
  <1> QED
    BY <1>1, <1>4, <1>5, Zenon DEF FencedDoes


LEMMA StateField ==
    ASSUME NEW e \in Entries,
           NEW s \in {"Empty", "Ongoing", "PrepareCommit", "PrepareAbort"}
    PROVE  /\ [e EXCEPT !.state = s] \in Entries
           /\ [e EXCEPT !.state = s].pid = e.pid
           /\ [e EXCEPT !.state = s].epoch = e.epoch
           /\ [e EXCEPT !.state = s].parts = e.parts
  BY Zenon DEF Entries

LEMMA PartsField ==
    ASSUME NEW e \in Entries, NEW ps \in SUBSET Partitions
    PROVE  /\ [e EXCEPT !.parts = ps] \in Entries
           /\ [e EXCEPT !.parts = ps].pid = e.pid
           /\ [e EXCEPT !.parts = ps].epoch = e.epoch
           /\ [e EXCEPT !.parts = ps].parts = ps
  BY Zenon DEF Entries

\* An entry whose partitions are drained.
Drained(e, ps, s, q) == q = [[e EXCEPT !.parts = ps] EXCEPT !.state = s]

DrainedTo(e, ps, q) == q \in Entries /\ q.pid = e.pid /\ q.epoch = e.epoch /\ q.parts = ps

LEMMA EntryDrained ==
    ASSUME NEW e \in Entries, NEW ps \in SUBSET Partitions,
           NEW s \in {"Empty", "Ongoing", "PrepareCommit", "PrepareAbort"}, NEW q,
           Drained(e, ps, s, q)
    PROVE  DrainedTo(e, ps, q)
  <1> DEFINE m == [e EXCEPT !.parts = ps]
  <1>1. m \in Entries /\ m.pid = e.pid /\ m.epoch = e.epoch /\ m.parts = ps
    BY PartsField, Zenon
  <1> HIDE DEF m
  <1>2. q \in Entries /\ q.pid = m.pid /\ q.epoch = m.epoch /\ q.parts = m.parts
    BY <1>1, StateField, Zenon DEF m, Drained
  <1> QED
    BY <1>1, <1>2, Zenon DEF DrainedTo

AddPartitionsToTxnDoes(c, p) ==
    /\ prod[c].pc = "idle" /\ LockFree /\ Accepts(c)
    /\ DOMAIN txns' = DOMAIN txns
    /\ txns'[Id(c)].pid = txns[Id(c)].pid /\ txns'[Id(c)].epoch = txns[Id(c)].epoch
    /\ txns'[Id(c)].parts = txns[Id(c)].parts \cup {p}
    /\ \A id \in DOMAIN txns : id # Id(c) => txns'[id] = txns[id]
    /\ prod'[c].pc = "idle" /\ prod'[c].pid = prod[c].pid
    /\ prod'[c].epoch = prod[c].epoch /\ prod'[c].n = prod[c].n
    /\ prod'[c].parts = prod[c].parts \cup {p}
    /\ OthersSame(prod, prod', c)
    /\ UNCHANGED <<log, ongoing, lock, nextPid, ending, fetch, asked, answered>>

LEMMA AddPartitionsToTxnEffect ==
    ASSUME Shape, NEW c \in Producers, NEW p \in Partitions, AddPartitionsToTxn(c, p)
    PROVE  Shape' /\ AddPartitionsToTxnDoes(c, p)
  <1>1. /\ prod[c].pc = "idle" /\ LockFree /\ Accepts(c) /\ Id(c) \in DOMAIN txns
        /\ UNCHANGED <<log, ongoing, lock, nextPid, ending, fetch, asked, answered>>
    BY Zenon DEF AddPartitionsToTxn, parts, Accepts
  <1>2. txns \in TxnMaps /\ txns[Id(c)] \in Entries /\ prod[c] \in Clients
    BY <1>1, Entry, Zenon DEF Shape
  <1> DEFINE ps == txns[Id(c)].parts \cup {p}
             r == [prod[c] EXCEPT !.parts = @ \cup {p}]
  <1>3. ps \in SUBSET Partitions
    BY <1>2, Zenon DEF Entries
  <1> DEFINE e == [[txns[Id(c)] EXCEPT !.state = "Ongoing"] EXCEPT !.parts = ps]
  <1>4. txns' = [txns EXCEPT ![Id(c)] = e]
    BY <1>1, <1>2, Zenon DEF AddPartitionsToTxn, Entries
  <1>5. /\ r \in Clients /\ r.pc = prod[c].pc /\ r.pid = prod[c].pid /\ r.epoch = prod[c].epoch
        /\ r.n = prod[c].n /\ r.parts = prod[c].parts \cup {p}
    BY <1>2, Zenon DEF Clients
  <1>6. prod' = [prod EXCEPT ![c] = r]
    BY Zenon DEF AddPartitionsToTxn
  <1> HIDE DEF ps, r
  <1>7. /\ txns' \in TxnMaps /\ DOMAIN txns' = DOMAIN txns
        /\ txns'[Id(c)].pid = txns[Id(c)].pid /\ txns'[Id(c)].epoch = txns[Id(c)].epoch
        /\ txns'[Id(c)].parts = ps
        /\ \A id \in DOMAIN txns : id # Id(c) => txns'[id] = txns[id]
    <2>1. e \in Entries /\ e.pid = txns[Id(c)].pid /\ e.epoch = txns[Id(c)].epoch /\ e.parts = ps
      <3> DEFINE s == "Ongoing"
      <3>1. s \in {"Empty", "Ongoing", "PrepareCommit", "PrepareAbort"}
        OBVIOUS
      <3> DEFINE m == [txns[Id(c)] EXCEPT !.state = s]
      <3>2. e = [m EXCEPT !.parts = ps]
        OBVIOUS
      <3> HIDE DEF s
      <3>3. m \in Entries /\ m.pid = txns[Id(c)].pid /\ m.epoch = txns[Id(c)].epoch
        BY <1>2, <3>1, StateField, Zenon
      <3> HIDE DEF m, e
      <3>4. e \in Entries /\ e.pid = m.pid /\ e.epoch = m.epoch /\ e.parts = ps
        BY <1>3, <3>2, <3>3, PartsField, Zenon
      <3> QED
        BY <3>3, <3>4, Zenon
    <2> HIDE DEF e
    <2>2. /\ txns' \in TxnMaps /\ DOMAIN txns' = DOMAIN txns /\ txns'[Id(c)] = e
          /\ \A id \in DOMAIN txns : id # Id(c) => txns'[id] = txns[id]
      BY <1>1, <1>2, <1>4, <2>1, EntrySet, Zenon
    <2> QED
      BY <2>1, <2>2, Zenon
  <1>8. prod' \in [Producers -> Clients] /\ prod'[c] = r /\ OthersSame(prod, prod', c)
    BY <1>5, <1>6, ClientSet, Zenon DEF Shape, OthersSame
  <1>9. Shape'
    BY <1>1, <1>7, <1>8, Zenon DEF Shape
  <1> QED
    BY <1>1, <1>5, <1>7, <1>8, <1>9, Zenon DEF ps, AddPartitionsToTxnDoes

\* A client that goes to wait for its EndTxn, and one that got the answer.
LEMMA ClientEnding ==
    ASSUME NEW r \in Clients, NEW b \in BOOLEAN, NEW q,
           q = [[r EXCEPT !.pc = "ending"] EXCEPT !.committed = b]
    PROVE  q \in Clients /\ SameBut(r, q, "ending")
  <1> DEFINE m == [r EXCEPT !.pc = "ending"]
  <1>1. m \in Clients /\ SameBut(r, m, "ending")
    BY ClientPc DEF SameBut, Pcs
  <1> HIDE DEF m
  <1>2. /\ q \in Clients /\ q.pc = m.pc /\ q.pid = m.pid /\ q.epoch = m.epoch
        /\ q.parts = m.parts /\ q.n = m.n
    BY <1>1, Zenon DEF Clients, m
  <1> QED
    BY <1>1, <1>2, Zenon DEF SameBut

LEMMA ClientAnswered ==
    ASSUME NEW r \in Clients, NEW q,
           q = [[[r EXCEPT !.pc = "idle"] EXCEPT !.parts = {}] EXCEPT !.n = r.n + 1]
    PROVE  /\ q \in Clients /\ q.pc = "idle" /\ q.pid = r.pid /\ q.epoch = r.epoch
           /\ q.parts = {} /\ q.n = r.n + 1
  <1> DEFINE m == [r EXCEPT !.pc = "idle"]
             k == [m EXCEPT !.parts = {}]
  <1>1. m \in Clients /\ SameBut(r, m, "idle") /\ r.n + 1 \in Nat
    BY ClientPc DEF SameBut, Pcs, Clients
  <1> HIDE DEF m
  <1>2. /\ k \in Clients /\ k.pc = m.pc /\ k.pid = m.pid /\ k.epoch = m.epoch
        /\ k.parts = {}
    BY <1>1, Zenon DEF Clients
  <1> HIDE DEF k
  <1>3. /\ q \in Clients /\ q.pc = k.pc /\ q.pid = k.pid /\ q.epoch = k.epoch
        /\ q.parts = k.parts /\ q.n = r.n + 1
    BY <1>1, <1>2, Zenon DEF Clients, k, m
  <1> QED
    BY <1>1, <1>2, <1>3, Zenon DEF SameBut

EndTxnDoes(c, committed) ==
    /\ (prod[c].pc = "idle" /\ prod[c].parts # {}) \/ prod[c].pc = "retry"
    /\ LockFree /\ Accepts(c)
    /\ ending' = [by |-> c, pid |-> prod[c].pid, epoch |-> prod[c].epoch,
                  committed |-> committed, todo |-> txns[Id(c)].parts, step |-> "mark"]
    /\ DOMAIN txns' = DOMAIN txns
    /\ txns'[Id(c)].pid = txns[Id(c)].pid /\ txns'[Id(c)].epoch = txns[Id(c)].epoch
    /\ \A id \in DOMAIN txns : id # Id(c) => txns'[id] = txns[id]
    /\ SameBut(prod[c], prod'[c], "ending") /\ OthersSame(prod, prod', c)
    /\ asked' = asked \cup {Txn(c)}
    /\ UNCHANGED <<log, ongoing, lock, nextPid, fetch, answered>>

LEMMA EndTxnEffect ==
    ASSUME Shape, NEW c \in Producers, NEW committed \in BOOLEAN, EndTxn(c, committed)
    PROVE  Shape' /\ EndTxnDoes(c, committed)
  <1>1. /\ (prod[c].pc = "idle" /\ prod[c].parts # {}) \/ prod[c].pc = "retry"
        /\ LockFree /\ Accepts(c) /\ Id(c) \in DOMAIN txns
        /\ ending' = [by |-> c, pid |-> prod[c].pid, epoch |-> prod[c].epoch,
                      committed |-> committed, todo |-> txns[Id(c)].parts, step |-> "mark"]
        /\ asked' = asked \cup {Txn(c)}
        /\ UNCHANGED <<log, ongoing, lock, nextPid, fetch, answered>>
    BY Zenon DEF EndTxn, parts, Accepts
  <1>2. txns \in TxnMaps /\ txns[Id(c)] \in Entries /\ prod[c] \in Clients
    BY <1>1, Entry, Zenon DEF Shape
  <1> DEFINE s == IF committed THEN "PrepareCommit" ELSE "PrepareAbort"
             r == [[prod[c] EXCEPT !.pc = "ending"] EXCEPT !.committed = committed]
  <1>3. s \in {"Empty", "Ongoing", "PrepareCommit", "PrepareAbort"}
    OBVIOUS
  <1> DEFINE e == [[txns[Id(c)] EXCEPT !.parts = {}] EXCEPT !.state = s]
  <1>4. txns' = [txns EXCEPT ![Id(c)] = e]
    <2>1. txns' = [txns EXCEPT ![Id(c)].parts = {}, ![Id(c)].state = s]
      BY Zenon DEF EndTxn
    <2> HIDE DEF s
    <2> QED
      BY <1>1, <2>1, Zenon
  <1>5. r \in Clients /\ SameBut(prod[c], r, "ending")
    BY <1>2, ClientEnding, Zenon
  <1>6. prod' = [prod EXCEPT ![c] = r]
    <2>1. prod' = [prod EXCEPT ![c].pc = "ending", ![c].committed = committed]
      BY Zenon DEF EndTxn
    <2>2. prod \in [Producers -> Clients]
      BY Zenon DEF Shape
    <2> QED
      BY <2>1, <2>2, Zenon
  <1> HIDE DEF s, r
  <1>7. /\ txns' \in TxnMaps /\ DOMAIN txns' = DOMAIN txns
        /\ txns'[Id(c)].pid = txns[Id(c)].pid /\ txns'[Id(c)].epoch = txns[Id(c)].epoch
        /\ \A id \in DOMAIN txns : id # Id(c) => txns'[id] = txns[id]
    <2>0. Drained(txns[Id(c)], {}, s, e) /\ {} \in SUBSET Partitions
      BY Zenon DEF Drained
    <2> HIDE DEF e
    <2>1. e \in Entries /\ e.pid = txns[Id(c)].pid /\ e.epoch = txns[Id(c)].epoch /\ e.parts = {}
      <3>1. DrainedTo(txns[Id(c)], {}, e)
        BY <1>2, <1>3, <2>0, EntryDrained, Zenon
      <3> QED
        BY <3>1, Zenon DEF DrainedTo
    <2>2. /\ txns' \in TxnMaps /\ DOMAIN txns' = DOMAIN txns /\ txns'[Id(c)] = e
          /\ \A id \in DOMAIN txns : id # Id(c) => txns'[id] = txns[id]
      BY <1>1, <1>2, <1>4, <2>1, EntrySet, Zenon
    <2> QED
      BY <2>1, <2>2, Zenon
  <1>8. prod' \in [Producers -> Clients] /\ prod'[c] = r /\ OthersSame(prod, prod', c)
    BY <1>5, <1>6, ClientSet, Zenon DEF Shape, OthersSame
  <1>9. ending' \in Starting
    BY <1>1, <1>2, Zenon DEF Starting, Clients, Entries
  <1>10. Shape'
    BY <1>1, <1>7, <1>8, <1>9, Zenon DEF Shape, EndOK
  <1> QED
    BY <1>1, <1>5, <1>7, <1>8, <1>10, Zenon DEF EndTxnDoes


LEMMA EndingFields ==
    ASSUME Shape, ending.step # "none"
    PROVE  /\ ending.by \in Producers /\ ending.pid \in Nat /\ ending.epoch \in Nat
           /\ ending.todo \in SUBSET Partitions
           /\ ending.committed \in BOOLEAN
           /\ ending.step \in {"mark", "close", "push"}
           /\ ending.step # "mark" => ending \in Continuing
  <1>1. ending # NoEnd
    BY DEF NoEnd
  <1>2. CASE ending \in Starting
    BY <1>2, Zenon DEF Starting
  <1>3. CASE ending \in Continuing
    BY <1>3, Zenon DEF Continuing
  <1> QED
    BY <1>1, <1>2, <1>3, Zenon DEF Shape, EndOK

AppendMarkerDoes(p) ==
    /\ ending.step = "mark" /\ p \in ending.todo /\ lock[p] = None
    /\ Grown(log[p], log'[p], Marker) /\ LogsSame(log, log', p)
    /\ ending'.by = ending.by /\ ending'.pid = ending.pid /\ ending'.epoch = ending.epoch
    /\ ending'.committed = ending.committed
    /\ ending'.todo = ending.todo \ {p} /\ ending'.step = "close" /\ ending'.p = p
    /\ UNCHANGED <<ongoing, lock, txns, nextPid, prod, fetch, asked, answered>>

LEMMA AppendMarkerEffect ==
    ASSUME Shape, NEW p \in Partitions, AppendMarker(p)
    PROVE  Shape' /\ AppendMarkerDoes(p)
  <1>1. /\ ending.step = "mark" /\ p \in ending.todo /\ lock[p] = None
        /\ log' = [log EXCEPT ![p] = Append(@, Marker)]
        /\ ending' = [by |-> ending.by, pid |-> ending.pid, epoch |-> ending.epoch,
                      committed |-> ending.committed, todo |-> ending.todo \ {p},
                      step |-> "close", p |-> p, first |-> HighWatermark(p)]
        /\ UNCHANGED <<ongoing, lock, txns, nextPid, prod, fetch, asked, answered>>
    BY Zenon DEF AppendMarker, AppendTo
  <1>2. /\ ending.by \in Producers /\ ending.pid \in Nat /\ ending.epoch \in Nat
        /\ ending.todo \in SUBSET Partitions /\ ending.committed \in BOOLEAN
    BY <1>1, EndingFields, Zenon
  <1>3. prod[ending.by].n \in Nat /\ HighWatermark(p) \in Nat
    BY <1>2 DEF Shape, Clients, HighWatermark
  <1> DEFINE kind == IF ending.committed THEN "commit" ELSE "abort"
  <1>4. kind \in Kinds
    BY Zenon DEF Kinds
  <1>5. Marker = Batch(kind, ending.pid, ending.epoch, Txn(ending.by))
    BY Zenon DEF Marker
  <1> HIDE DEF kind
  <1>6. Marker \in Batches
    BY <1>2, <1>3, <1>4, <1>5, Zenon DEF Batches, Batch, Txn
  <1>7. /\ log' \in [Partitions -> Seq(Batches)]
        /\ Grown(log[p], log'[p], Marker) /\ LogsSame(log, log', p)
    <2>1. log \in [Partitions -> Seq(Batches)]
      BY Zenon DEF Shape
    <2>2. AppendedTo(log, p, Marker, log')
      BY <1>1, Zenon DEF AppendedTo
    <2> QED
      BY <1>6, <2>1, <2>2, LogGrows, Zenon
  <1>8. ending' \in Continuing
    BY <1>1, <1>2, <1>3, Zenon DEF Continuing
  <1>9. Shape'
    BY <1>1, <1>7, <1>8, Zenon DEF Shape, EndOK
  <1>10. /\ ending'.by = ending.by /\ ending'.pid = ending.pid /\ ending'.epoch = ending.epoch
         /\ ending'.todo = ending.todo \ {p} /\ ending'.step = "close" /\ ending'.p = p
    BY <1>1, Zenon
  <1>11. ending'.committed = ending.committed
    BY <1>1, Zenon
  <1> QED
    BY <1>1, <1>7, <1>9, <1>10, <1>11, Zenon DEF AppendMarkerDoes
MarkerFailsDoes(p) ==
    /\ ending.step = "mark" /\ faults < MaxFaults
    /\ Grown(log[p], log'[p], Gap) /\ LogsSame(log, log', p)
    /\ ending' = NoEnd
    /\ SameBut(prod[ending.by], prod'[ending.by], "retry")
    /\ OthersSame(prod, prod', ending.by)
    /\ UNCHANGED <<ongoing, lock, txns, nextPid, fetch, asked, answered>>

LEMMA MarkerFailsEffect ==
    ASSUME Shape, NEW p \in Partitions, MarkerFails(p)
    PROVE  Shape' /\ MarkerFailsDoes(p)
  <1>1. /\ ending.step = "mark" /\ faults < MaxFaults
        /\ log' = [log EXCEPT ![p] = Append(@, Gap)]
        /\ ending' = NoEnd
        /\ UNCHANGED <<ongoing, lock, txns, nextPid, fetch, asked, answered>>
    BY Zenon DEF MarkerFails, FailAppend, AppendTo
  <1>2. ending.by \in Producers
    BY <1>1, EndingFields, Zenon
  <1>3. Gap \in Batches
    BY Zenon DEF Gap, Batch, Batches, Kinds
  <1>4. /\ log' \in [Partitions -> Seq(Batches)]
        /\ Grown(log[p], log'[p], Gap) /\ LogsSame(log, log', p)
    <2>1. log \in [Partitions -> Seq(Batches)]
      BY Zenon DEF Shape
    <2>2. AppendedTo(log, p, Gap, log')
      BY <1>1, Zenon DEF AppendedTo
    <2> QED
      BY <1>3, <2>1, <2>2, LogGrows, Zenon
  <1> DEFINE c == ending.by
             r == [prod[c] EXCEPT !.pc = "retry"]
  <1>5. r \in Clients /\ SameBut(prod[c], r, "retry")
    BY <1>2, ClientPc DEF SameBut, Pcs, Shape
  <1>6. prod' = [prod EXCEPT ![c] = r]
    BY Zenon DEF MarkerFails
  <1> HIDE DEF r
  <1>7. /\ prod' \in [Producers -> Clients]
        /\ SameBut(prod[c], prod'[c], "retry") /\ OthersSame(prod, prod', c)
    BY <1>2, <1>5, <1>6, ClientSet, Zenon DEF Shape, OthersSame
  <1>8. Shape'
    BY <1>1, <1>4, <1>7, Zenon DEF Shape, EndOK
  <1> QED
    BY <1>1, <1>4, <1>7, <1>8, Zenon DEF MarkerFailsDoes

\* The last two steps for a partition leave by, pid, epoch, todo and committed.
SameEnd(e, f) ==
    /\ f.by = e.by /\ f.pid = e.pid /\ f.epoch = e.epoch /\ f.todo = e.todo
    /\ f.committed = e.committed /\ f.p = e.p

SteppedTo(e, s, f) == f = [e EXCEPT !.step = s]
OpenedAt(e, n, f) == f = [e EXCEPT !.first = n]

LEMMA EndSteps ==
    ASSUME NEW e \in Continuing, NEW s \in {"mark", "close", "push"}, NEW f, SteppedTo(e, s, f)
    PROVE  f \in Continuing /\ SameEnd(e, f) /\ f.step = s
  BY Zenon DEF Continuing, SameEnd, SteppedTo

LEMMA EndOpens ==
    ASSUME NEW e \in Continuing, NEW n \in Nat, NEW f, OpenedAt(e, n, f)
    PROVE  f \in Continuing /\ SameEnd(e, f) /\ f.step = e.step
  BY Zenon DEF Continuing, SameEnd, OpenedAt

CloseTxnDoes ==
    /\ ending.step = "close" /\ ending.p \in Partitions
    /\ ongoing'[ending.p] = Without(ending.p, ending.pid)
    /\ LogsSame(ongoing, ongoing', ending.p)
    /\ SameEnd(ending, ending') /\ ending'.step \in {"mark", "push"}
    /\ UNCHANGED <<log, lock, txns, nextPid, prod, fetch, asked, answered>>

LEMMA CloseTxnEffect ==
    ASSUME Shape, CloseTxn
    PROVE  Shape' /\ CloseTxnDoes
  <1>1. /\ ending.step = "close"
        /\ UNCHANGED <<log, lock, txns, nextPid, prod, fetch, asked, answered>>
    BY Zenon DEF CloseTxn
  <1>2. ending \in Continuing /\ ending.p \in Partitions /\ ending.pid \in Nat /\ ending.first \in Nat
    BY <1>1, EndingFields, Zenon DEF Continuing
  <1> DEFINE p == ending.p
             s == IF ending.committed THEN "mark" ELSE "push"
             n == IF ending.pid \in DOMAIN ongoing[p] THEN ongoing[p][ending.pid] ELSE ending.first
             e == [ending EXCEPT !.step = s]
  <1>3. s \in {"mark", "close", "push"} /\ s \in {"mark", "push"}
    OBVIOUS
  <1>4. n \in Nat
    BY <1>2, OpenNumbers, Zenon DEF Shape
  <1>5. ending' = [e EXCEPT !.first = n]
    <2>1. ending' = [ending EXCEPT !.step = s, !.first = n]
      BY <1>2, Zenon DEF CloseTxn, Continuing
    <2> HIDE DEF s, n
    <2> QED
      BY <2>1, Zenon
  <1> HIDE DEF s, n
  <1>6. e \in Continuing /\ SameEnd(ending, e) /\ e.step = s
    <2>1. SteppedTo(ending, s, e)
      BY Zenon DEF SteppedTo
    <2> HIDE DEF e
    <2> QED
      BY <1>2, <1>3, <2>1, EndSteps, Zenon
  <1> HIDE DEF e
  <1>7. ending' \in Continuing /\ SameEnd(e, ending') /\ ending'.step = e.step
    <2>1. OpenedAt(e, n, ending')
      BY <1>5, Zenon DEF OpenedAt
    <2> QED
      BY <1>4, <1>6, <2>1, EndOpens, Zenon
  <1>8. SameEnd(ending, ending')
    BY <1>6, <1>7, Zenon DEF SameEnd
  <1>9. /\ ongoing' \in [Partitions -> PidMaps]
        /\ ongoing'[p] = Without(p, ending.pid) /\ LogsSame(ongoing, ongoing', p)
    BY <1>2, WithoutPids, Zenon DEF CloseTxn, Shape, LogsSame
  <1>10. Shape'
    BY <1>1, <1>7, <1>9, Zenon DEF Shape, EndOK
  <1> QED
    BY <1>1, <1>2, <1>3, <1>6, <1>7, <1>8, <1>9, <1>10, Zenon DEF CloseTxnDoes
PushAbortedDoes ==
    /\ ending.step = "push"
    /\ SameEnd(ending, ending') /\ ending'.step = "mark"
    /\ UNCHANGED <<log, ongoing, lock, txns, nextPid, prod, fetch, asked, answered>>

LEMMA PushAbortedEffect ==
    ASSUME Shape, PushAborted
    PROVE  Shape' /\ PushAbortedDoes
  <1>1. /\ ending.step = "push" /\ ending' = [ending EXCEPT !.step = "mark"]
        /\ UNCHANGED <<log, ongoing, lock, txns, nextPid, prod, fetch, asked, answered>>
    BY Zenon DEF PushAborted
  <1>2. ending \in Continuing
    BY <1>1, EndingFields, Zenon
  <1>3. 0 \in Nat /\ "mark" \in {"mark", "close", "push"}
    OBVIOUS
  <1>4. ending' \in Continuing /\ SameEnd(ending, ending') /\ ending'.step = "mark"
    <2>1. SteppedTo(ending, "mark", ending')
      BY <1>1, Zenon DEF SteppedTo
    <2> QED
      BY <1>2, <1>3, <2>1, EndSteps, Zenon
  <1>5. Shape'
    BY <1>1, <1>4, Zenon DEF Shape, EndOK
  <1> QED
    BY <1>1, <1>4, <1>5, Zenon DEF PushAbortedDoes
FinishEndTxnDoes ==
    /\ ending.step = "mark" /\ ending.todo = {} /\ ending' = NoEnd
    /\ DOMAIN txns' = DOMAIN txns
    /\ \A id \in DOMAIN txns : /\ txns'[id].pid = txns[id].pid
                               /\ txns'[id].epoch = txns[id].epoch
                               /\ txns'[id].parts = txns[id].parts
    /\ prod'[ending.by].pc = "idle" /\ prod'[ending.by].pid = prod[ending.by].pid
    /\ prod'[ending.by].epoch = prod[ending.by].epoch /\ prod'[ending.by].parts = {}
    /\ prod'[ending.by].n = prod[ending.by].n + 1
    /\ OthersSame(prod, prod', ending.by)
    /\ answered' = answered \cup {<<Txn(ending.by), ending.committed>>}
    /\ UNCHANGED <<log, ongoing, lock, nextPid, fetch, asked>>

LEMMA FinishEndTxnEffect ==
    ASSUME Shape, FinishEndTxn, Id(ending.by) \in DOMAIN txns
    PROVE  Shape' /\ FinishEndTxnDoes
  <1>1. /\ ending.step = "mark" /\ ending.todo = {} /\ ending' = NoEnd
        /\ answered' = answered \cup {<<Txn(ending.by), ending.committed>>}
        /\ UNCHANGED <<log, ongoing, lock, nextPid, fetch, asked>>
    BY Zenon DEF FinishEndTxn, AllMarked, parts
  <1> DEFINE c == ending.by
             e == [txns[Id(c)] EXCEPT !.state = "Empty"]
             r == [[[prod[c] EXCEPT !.pc = "idle"] EXCEPT !.parts = {}] EXCEPT !.n = prod[c].n + 1]
  <1>2. c \in Producers /\ txns \in TxnMaps /\ txns[Id(c)] \in Entries /\ prod[c] \in Clients
    BY <1>1, EndingFields, Entry, Zenon DEF Shape
  <1>3. /\ e \in Entries /\ e.pid = txns[Id(c)].pid /\ e.epoch = txns[Id(c)].epoch
        /\ e.parts = txns[Id(c)].parts
    BY <1>2, StateField, Zenon
  <1>4. txns' = [txns EXCEPT ![Id(c)] = e]
    BY Zenon DEF FinishEndTxn
  <1>5. /\ r \in Clients /\ r.pc = "idle" /\ r.pid = prod[c].pid /\ r.epoch = prod[c].epoch
        /\ r.parts = {} /\ r.n = prod[c].n + 1
    BY <1>2, ClientAnswered, Zenon
  <1>6. prod' = [prod EXCEPT ![c] = r]
    <2>1. prod' = [prod EXCEPT ![c].pc = "idle", ![c].parts = {}, ![c].n = @ + 1]
      BY Zenon DEF FinishEndTxn
    <2>2. prod \in [Producers -> Clients]
      BY Zenon DEF Shape
    <2> QED
      BY <1>2, <2>1, <2>2, Zenon DEF Clients
  <1> HIDE DEF e, r
  <1>7. /\ txns' \in TxnMaps /\ DOMAIN txns' = DOMAIN txns /\ txns'[Id(c)] = e
        /\ \A id \in DOMAIN txns : id # Id(c) => txns'[id] = txns[id]
    BY <1>2, <1>3, <1>4, EntrySet, Zenon
  <1>8. prod' \in [Producers -> Clients] /\ prod'[c] = r /\ OthersSame(prod, prod', c)
    BY <1>2, <1>5, <1>6, ClientSet, Zenon DEF Shape, OthersSame
  <1>9. Shape'
    BY <1>1, <1>7, <1>8, Zenon DEF Shape, EndOK
  <1>10. \A id \in DOMAIN txns : /\ txns'[id].pid = txns[id].pid
                                 /\ txns'[id].epoch = txns[id].epoch
                                 /\ txns'[id].parts = txns[id].parts
    BY <1>3, <1>7, Zenon
  <1> QED
    BY <1>1, <1>5, <1>7, <1>8, <1>9, <1>10, Zenon DEF FinishEndTxnDoes


-----------------------------------------------------------------------------
(* Fencing.                                                                *)

\* The control batches of a log are of producer ids handed out, at epochs that
\* their transactional ids have reached, and in the order of epochs.
Reached(s, t, next) ==
    \A i \in 1 .. Len(s) : IsMarker(s[i]) =>
        /\ s[i].pid < next
        /\ \A id \in DOMAIN t : t[id].pid = s[i].pid => s[i].epoch <= t[id].epoch

Ordered(s) ==
    \A i, j \in 1 .. Len(s) :
        i < j /\ IsMarker(s[i]) /\ IsMarker(s[j]) /\ s[i].pid = s[j].pid
            => s[i].epoch <= s[j].epoch

\* An end_txn works for the current epoch of its transactional id.
EndsCurrent(e, t) ==
    e.step # "none" =>
        /\ Id(e.by) \in DOMAIN t
        /\ t[Id(e.by)].pid = e.pid
        /\ t[Id(e.by)].epoch = e.epoch

\* Producer ids are handed out once.
PidsUnique(t, next) ==
    /\ \A id \in DOMAIN t : t[id].pid < next
    /\ \A a, b \in DOMAIN t : t[a].pid = t[b].pid => a = b

FenceInv ==
    /\ Shape
    /\ EndsCurrent(ending, txns)
    /\ PidsUnique(txns, nextPid)
    /\ \A p \in Partitions : Reached(log[p], txns, nextPid) /\ Ordered(log[p])

LEMMA InitShape == Init => Shape
  <1> SUFFICES ASSUME Init PROVE Shape
    OBVIOUS
  <1>1. << >> \in [{} -> Nat] /\ << >> \in [{} -> Entries]
    OBVIOUS
  <1>2. << >> \in PidMaps
    BY <1>1, Zenon DEF PidMaps
  <1>3. << >> \in TxnMaps
    BY <1>1, Zenon DEF TxnMaps
  <1>4. log \in [Partitions -> Seq(Batches)] /\ lock \in [Partitions -> Producers \cup {None}]
    BY DEF Init
  <1>5. prod \in [Producers -> Clients]
    BY Zenon DEF Init, Clients, Pcs
  <1> QED
    BY <1>2, <1>3, <1>4, <1>5 DEF Init, Shape, EndOK

LEMMA InitFence == Init => FenceInv
  <1> SUFFICES ASSUME Init PROVE FenceInv
    OBVIOUS
  <1>1. \A p \in Partitions : log[p] = << >>
    BY Zenon DEF Init
  <1>2. DOMAIN txns = {} /\ ending = NoEnd
    BY DEF Init
  <1>3. EndsCurrent(ending, txns) /\ PidsUnique(txns, nextPid)
    BY <1>2, Zenon DEF EndsCurrent, PidsUnique, NoEnd
  <1>4. \A p \in Partitions : Reached(log[p], txns, nextPid) /\ Ordered(log[p])
    BY <1>1 DEF Reached, Ordered
  <1> QED
    BY <1>3, <1>4, InitShape, Zenon DEF FenceInv

LEMMA GrownElement ==
    ASSUME NEW s \in Seq(Batches), NEW u, NEW b, Grown(s, u, b), NEW i \in 1 .. Len(u)
    PROVE  \/ i \in 1 .. Len(s) /\ u[i] = s[i]
           \/ i = Len(s) + 1 /\ u[i] = b
  <1>1. Len(s) \in Nat /\ Len(u) = Len(s) + 1
    BY DEF Grown
  <1>2. i \in 1 .. Len(s) \/ i = Len(s) + 1
    BY <1>1
  <1> QED
    BY <1>2, Zenon DEF Grown

LEMMA LastElement ==
    ASSUME NEW s \in Seq(Batches), NEW u \in Seq(Batches), NEW b, Grown(s, u, b)
    PROVE  b \in Batches
  <1>1. Len(s) + 1 \in 1 .. Len(u) /\ u[Len(s) + 1] = b
    BY DEF Grown
  <1> QED
    BY <1>1

\* A log that gets a batch keeps both facts, if a control batch is not older
\* than those it follows.
LEMMA ReachedGrows ==
    ASSUME NEW s \in Seq(Batches), NEW u \in Seq(Batches), NEW b \in Batches, NEW t \in TxnMaps,
           NEW next \in Nat, Grown(s, u, b), Reached(s, t, next), Ordered(s),
           IsMarker(b) => /\ b.pid < next
                          /\ \A id \in DOMAIN t : t[id].pid = b.pid => b.epoch <= t[id].epoch
                          /\ \E id \in DOMAIN t : t[id].pid = b.pid /\ t[id].epoch = b.epoch
    PROVE  Reached(u, t, next) /\ Ordered(u)
  <1>1. /\ \A i \in 1 .. Len(u) : \/ i \in 1 .. Len(s) /\ u[i] = s[i]
                                  \/ i = Len(s) + 1 /\ u[i] = b
        /\ Len(u) = Len(s) + 1
    <2>1. Len(u) = Len(s) + 1
      BY Zenon DEF Grown
    <2>2. ASSUME NEW i \in 1 .. Len(u)
          PROVE  \/ i \in 1 .. Len(s) /\ u[i] = s[i]
                 \/ i = Len(s) + 1 /\ u[i] = b
      BY GrownElement
    <2> QED
      BY <2>1, <2>2, Zenon
  <1>2. Reached(u, t, next)
    BY <1>1, Zenon DEF Reached
  <1>3. ASSUME NEW i \in 1 .. Len(u), NEW j \in 1 .. Len(u), i < j, IsMarker(u[i]), IsMarker(u[j]),
               u[i].pid = u[j].pid
        PROVE  u[i].epoch <= u[j].epoch
    <2>1. i \in 1 .. Len(s) /\ u[i] = s[i]
      BY <1>1, <1>3
    <2>2. CASE j \in 1 .. Len(s) /\ u[j] = s[j]
      BY <1>3, <2>1, <2>2, Zenon DEF Ordered
    <2>3. CASE u[j] = b
      <3> PICK id \in DOMAIN t : t[id].pid = b.pid /\ t[id].epoch = b.epoch
        BY <1>3, <2>3, Zenon
      <3> QED
        BY <1>3, <2>1, <2>3, Zenon DEF Reached
    <2> QED
      BY <1>1, <2>2, <2>3, Zenon
  <1> QED
    BY <1>2, <1>3, Zenon DEF Ordered

\* The entries keep their producer ids, and no epoch falls.
Aged(t, u) ==
    /\ DOMAIN u = DOMAIN t
    /\ \A id \in DOMAIN t : u[id].pid = t[id].pid /\ u[id].epoch >= t[id].epoch

LEMMA ReachedAged ==
    ASSUME NEW s \in Seq(Batches), NEW t \in TxnMaps, NEW u \in TxnMaps, NEW next \in Nat,
           Reached(s, t, next), Aged(t, u)
    PROVE  Reached(s, u, next)
  <1>1. \A id \in DOMAIN t : t[id].epoch \in Nat /\ u[id].epoch \in Nat
    BY Entry, Zenon DEF Aged, Entries
  <1>2. \A i \in 1 .. Len(s) : s[i].epoch \in Nat
    <2>1. \A i \in 1 .. Len(s) : s[i] \in Batches
      OBVIOUS
    <2> QED
      BY <2>1, Zenon DEF Batches
  <1> QED
    BY <1>1, <1>2 DEF Reached, Aged

LEMMA FenceKept ==
    ASSUME FenceInv, Shape', UNCHANGED <<log, nextPid>>, Aged(txns, txns'),
           EndsCurrent(ending', txns')
    PROVE  FenceInv'
  <1>1. PidsUnique(txns', nextPid')
    BY Zenon DEF FenceInv, PidsUnique, Aged
  <1>2. \A p \in Partitions : Reached(log[p], txns', nextPid)
    <2> TAKE p \in Partitions
    <2>1. log[p] \in Seq(Batches) /\ nextPid \in Nat /\ txns \in TxnMaps /\ txns' \in TxnMaps
      BY DEF Shape, FenceInv
    <2> QED
      BY <2>1, ReachedAged, Zenon DEF FenceInv
  <1> QED
    BY <1>1, <1>2, Zenon DEF FenceInv

LEMMA FenceGrows ==
    ASSUME FenceInv, Shape', NEW p \in Partitions, NEW b \in Batches,
           Grown(log[p], log'[p], b), LogsSame(log, log', p),
           UNCHANGED <<txns, nextPid>>, EndsCurrent(ending', txns'),
           IsMarker(b) => /\ b.pid < nextPid
                          /\ \A id \in DOMAIN txns : txns[id].pid = b.pid => b.epoch <= txns[id].epoch
                          /\ \E id \in DOMAIN txns : txns[id].pid = b.pid /\ txns[id].epoch = b.epoch
    PROVE  FenceInv'
  <1>1. log[p] \in Seq(Batches) /\ log'[p] \in Seq(Batches) /\ nextPid \in Nat /\ txns \in TxnMaps
    BY Zenon DEF Shape, FenceInv
  <1>2. Reached(log'[p], txns, nextPid) /\ Ordered(log'[p])
    BY <1>1, ReachedGrows, Zenon DEF FenceInv
  <1>3. \A q \in Partitions : Reached(log'[q], txns', nextPid') /\ Ordered(log'[q])
    BY <1>2, Zenon DEF FenceInv, LogsSame
  <1>4. PidsUnique(txns', nextPid')
    BY Zenon DEF FenceInv
  <1> QED
    BY <1>3, <1>4, Zenon DEF FenceInv


LEMMA OtherStep ==
    ASSUME NEW f \in Fetchers,
           \/ \E p \in Partitions, iso \in Isolations : FetchRecords(f, p, iso)
           \/ FetchAborted(f) \/ FetchRespond(f) \/ FetchDone(f)
    PROVE  UNCHANGED <<log, ongoing, lock, txns, nextPid, ending, prod, asked, answered>>
  BY Zenon DEF FetchRecords, FetchAborted, FetchRespond, FetchDone, parts, coord

LEMMA SameTxns ==
    ASSUME Shape
    PROVE  Aged(txns, txns)
  <1>1. \A id \in DOMAIN txns : txns[id].epoch \in Nat
    BY Entry, Zenon DEF Shape, Entries
  <1> QED
    BY <1>1 DEF Aged

LEMMA EndsCurrentSame ==
    ASSUME NEW t, NEW e, NEW f, EndsCurrent(e, t), e.step # "none", SameEnd(e, f)
    PROVE  EndsCurrent(f, t)
  BY Zenon DEF EndsCurrent, SameEnd

LEMMA NextFence == FenceInv /\ [Next]_vars => FenceInv'
  <1> SUFFICES ASSUME FenceInv, [Next]_vars PROVE FenceInv'
    OBVIOUS
  <1> USE DEF IsMarker
  <1>0. Shape /\ EndsCurrent(ending, txns) /\ Aged(txns, txns)
    BY SameTxns, Zenon DEF FenceInv
  <1>g. /\ Gap \in Batches /\ ~IsMarker(Gap) /\ Plain \in Batches /\ ~IsMarker(Plain)
    BY Zenon DEF Gap, Plain, Batch, Batches, Kinds
  <1>1. ASSUME NEW c \in Producers, NEW p \in Partitions, ProduceBegin(c, p) PROVE FenceInv'
    <2>1. Shape' /\ UNCHANGED <<log, txns, nextPid, ending>>
      BY <1>0, <1>1, ProduceBeginEffect, Zenon DEF ProduceBeginDoes
    <2> QED
      BY <1>0, <2>1, FenceKept, Zenon
  <1>2. ASSUME NEW c \in Producers, NEW p \in Partitions, ProduceAppend(c, p) PROVE FenceInv'
    <2> DEFINE data == Batch("data", prod[c].pid, prod[c].epoch, Txn(c))
    <2>1. /\ Shape' /\ UNCHANGED <<txns, nextPid, ending>>
          /\ \E b \in {Gap, data} : Grown(log[p], log'[p], b)
          /\ LogsSame(log, log', p)
      BY <1>0, <1>2, ProduceAppendEffect, Zenon DEF ProduceAppendDoes
    <2>2. data \in Batches /\ ~IsMarker(data)
      BY <1>0, Zenon DEF Batch, Batches, Kinds, Txn, Shape, Clients
    <2> HIDE DEF data
    <2>3. PICK b \in Batches : Grown(log[p], log'[p], b) /\ ~IsMarker(b)
      BY <1>g, <2>1, <2>2, Zenon
    <2> QED
      BY <1>0, <2>1, <2>3, FenceGrows, Zenon
  <1>3. ASSUME NEW p \in Partitions, ProducePlain(p) PROVE FenceInv'
    <2>1. /\ Shape' /\ UNCHANGED <<txns, nextPid, ending>>
          /\ \E b \in {Gap, Plain} : Grown(log[p], log'[p], b)
          /\ LogsSame(log, log', p)
      BY <1>0, <1>3, ProducePlainEffect, Zenon DEF ProducePlainDoes
    <2>2. PICK b \in Batches : Grown(log[p], log'[p], b) /\ ~IsMarker(b)
      BY <1>g, <2>1, Zenon
    <2> QED
      BY <1>0, <2>1, <2>2, FenceGrows, Zenon
  <1>4. ASSUME NEW c \in Producers, InitProducerId(c) PROVE FenceInv'
    <2>1. /\ Shape' /\ UNCHANGED <<log, ending>> /\ ending.step = "none"
          /\ \A id \in DOMAIN txns : id # Id(c) => txns'[id] = txns[id]
      BY <1>0, <1>4, InitProducerIdEffect, Zenon DEF LockFree, InitProducerIdDoes
    <2>2. EndsCurrent(ending', txns')
      BY <2>1, Zenon DEF EndsCurrent
    <2>3. CASE /\ Id(c) \in DOMAIN txns /\ DOMAIN txns' = DOMAIN txns
               /\ txns'[Id(c)].pid = txns[Id(c)].pid
               /\ txns'[Id(c)].epoch = txns[Id(c)].epoch + 1
               /\ nextPid' = nextPid
      <3>1. Aged(txns, txns')
        <4>1. \A id \in DOMAIN txns : txns[id].epoch \in Nat
          BY <1>0, Entry, Zenon DEF Shape, Entries
        <4> QED
          BY <2>1, <2>3, <4>1 DEF Aged
      <3> QED
        BY <2>1, <2>2, <2>3, <3>1, FenceKept, Zenon
    <2>4. CASE /\ Id(c) \notin DOMAIN txns /\ DOMAIN txns' = DOMAIN txns \cup {Id(c)}
               /\ txns'[Id(c)] = NewEntry
               /\ nextPid' = nextPid + 1
      <3>1. txns'[Id(c)].pid = nextPid /\ nextPid \in Nat
        <4>1. NewEntry.pid = nextPid
          BY Zenon DEF NewEntry
        <4> QED
          BY <1>0, <2>4, <4>1, Zenon DEF Shape
      <3>2. \A id \in DOMAIN txns : txns[id].pid \in Nat /\ txns[id].pid < nextPid
        BY <1>0, Entry, Zenon DEF Shape, Entries, FenceInv, PidsUnique
      <3>3. PidsUnique(txns', nextPid')
        BY <2>1, <2>4, <3>1, <3>2 DEF FenceInv, PidsUnique
      <3>4. ASSUME NEW p \in Partitions PROVE Reached(log[p], txns', nextPid')
        <4>1. log[p] \in Seq(Batches) /\ Reached(log[p], txns, nextPid)
          BY <1>0, Zenon DEF FenceInv, Shape
        <4>2. \A i \in 1 .. Len(log[p]) : log[p][i].pid \in Nat
          <5>1. \A i \in 1 .. Len(log[p]) : log[p][i] \in Batches
            BY <4>1
          <5> QED
            BY <5>1, Zenon DEF Batches
        <4> HIDE DEF IsMarker
        <4> QED
          BY <2>1, <2>4, <3>1, <4>1, <4>2 DEF Reached
      <3> QED
        BY <2>1, <2>2, <3>3, <3>4, Zenon DEF FenceInv
    <2> QED
      BY <1>0, <1>4, <2>3, <2>4, InitProducerIdEffect, Zenon DEF InitProducerIdDoes
  <1>5. ASSUME NEW c \in Producers, Fenced(c) PROVE FenceInv'
    <2>1. Shape' /\ UNCHANGED <<log, txns, nextPid, ending>>
      BY <1>0, <1>5, FencedEffect, Zenon DEF FencedDoes
    <2> QED
      BY <1>0, <2>1, FenceKept, Zenon
  <1>6. ASSUME NEW c \in Producers, NEW p \in Partitions, AddPartitionsToTxn(c, p) PROVE FenceInv'
    <2>1. /\ Shape' /\ UNCHANGED <<log, nextPid, ending>> /\ ending.step = "none"
          /\ DOMAIN txns' = DOMAIN txns
          /\ \A id \in DOMAIN txns : txns'[id].pid = txns[id].pid /\ txns'[id].epoch = txns[id].epoch
      BY <1>0, <1>6, AddPartitionsToTxnEffect, Zenon DEF LockFree, AddPartitionsToTxnDoes
    <2>2. Aged(txns, txns') /\ EndsCurrent(ending', txns')
      BY <1>0, <2>1, Zenon DEF Aged, EndsCurrent
    <2> QED
      BY <2>1, <2>2, FenceKept, Zenon
  <1>7. ASSUME NEW c \in Producers, NEW committed \in BOOLEAN, EndTxn(c, committed) PROVE FenceInv'
    <2>1. /\ Shape' /\ UNCHANGED <<log, nextPid>> /\ Accepts(c)
          /\ ending' = [by |-> c, pid |-> prod[c].pid, epoch |-> prod[c].epoch,
                        committed |-> committed, todo |-> txns[Id(c)].parts, step |-> "mark"]
          /\ DOMAIN txns' = DOMAIN txns
          /\ txns'[Id(c)].pid = txns[Id(c)].pid /\ txns'[Id(c)].epoch = txns[Id(c)].epoch
          /\ \A id \in DOMAIN txns : id # Id(c) => txns'[id] = txns[id]
      BY <1>0, <1>7, EndTxnEffect, Zenon DEF EndTxnDoes
    <2>2. Aged(txns, txns')
      BY <1>0, <2>1, Zenon DEF Aged
    <2>3. ending'.by = c /\ ending'.pid = prod[c].pid /\ ending'.epoch = prod[c].epoch
      BY <2>1, Zenon
    <2>4. EndsCurrent(ending', txns')
      BY <2>1, <2>3, Zenon DEF EndsCurrent, Accepts
    <2> QED
      BY <2>1, <2>2, <2>4, FenceKept, Zenon
  <1>8. ASSUME NEW p \in Partitions, AppendMarker(p) PROVE FenceInv'
    <2>1. /\ Shape' /\ UNCHANGED <<txns, nextPid>> /\ ending.step = "mark"
          /\ Grown(log[p], log'[p], Marker) /\ LogsSame(log, log', p)
          /\ ending'.by = ending.by /\ ending'.pid = ending.pid /\ ending'.epoch = ending.epoch
      BY <1>0, <1>8, AppendMarkerEffect, Zenon DEF AppendMarkerDoes
    <2>2. /\ Id(ending.by) \in DOMAIN txns
          /\ txns[Id(ending.by)].pid = ending.pid
          /\ txns[Id(ending.by)].epoch = ending.epoch
      BY <1>0, <2>1, Zenon DEF EndsCurrent
    <2>3. Marker.pid = ending.pid /\ Marker.epoch = ending.epoch
      BY Zenon DEF Marker, Batch
    <2>4. Marker \in Batches
      BY <1>0, <2>1, LastElement, Zenon DEF Shape
    <2>5. ending.epoch \in Nat
      BY <1>0, <2>1, EndingFields, Zenon
    <2>6. /\ Marker.pid < nextPid
          /\ \A id \in DOMAIN txns : txns[id].pid = Marker.pid => Marker.epoch <= txns[id].epoch
          /\ \E id \in DOMAIN txns : txns[id].pid = Marker.pid /\ txns[id].epoch = Marker.epoch
      BY <2>2, <2>3, <2>5 DEF FenceInv, PidsUnique
    <2>7. EndsCurrent(ending', txns')
      BY <2>1, <2>2, Zenon DEF EndsCurrent
    <2> QED
      BY <2>1, <2>4, <2>6, <2>7, FenceGrows, Zenon
  <1>9. ASSUME NEW p \in Partitions, MarkerFails(p) PROVE FenceInv'
    <2>1. /\ Shape' /\ UNCHANGED <<txns, nextPid>> /\ ending' = NoEnd
          /\ Grown(log[p], log'[p], Gap) /\ LogsSame(log, log', p)
      BY <1>0, <1>9, MarkerFailsEffect, Zenon DEF MarkerFailsDoes
    <2>2. EndsCurrent(ending', txns')
      BY <2>1, Zenon DEF EndsCurrent, NoEnd
    <2> QED
      BY <1>g, <2>1, <2>2, FenceGrows, Zenon
  <1>10. CASE CloseTxn
    <2>1. /\ Shape' /\ UNCHANGED <<log, txns, nextPid>> /\ ending.step = "close"
          /\ SameEnd(ending, ending')
      BY <1>0, <1>10, CloseTxnEffect, Zenon DEF CloseTxnDoes
    <2>2. EndsCurrent(ending', txns')
      BY <1>0, <2>1, EndsCurrentSame, Zenon
    <2> QED
      BY <1>0, <2>1, <2>2, FenceKept, Zenon
  <1>11. CASE PushAborted
    <2>1. /\ Shape' /\ UNCHANGED <<log, txns, nextPid>> /\ ending.step = "push"
          /\ SameEnd(ending, ending')
      BY <1>0, <1>11, PushAbortedEffect, Zenon DEF PushAbortedDoes
    <2>2. EndsCurrent(ending', txns')
      BY <1>0, <2>1, EndsCurrentSame, Zenon
    <2> QED
      BY <1>0, <2>1, <2>2, FenceKept, Zenon
  <1>12. CASE FinishEndTxn
    <2>1. Id(ending.by) \in DOMAIN txns
      BY <1>0, <1>12, Zenon DEF EndsCurrent, FinishEndTxn, AllMarked
    <2>2. /\ Shape' /\ UNCHANGED <<log, nextPid>> /\ ending' = NoEnd
          /\ DOMAIN txns' = DOMAIN txns
          /\ \A id \in DOMAIN txns : txns'[id].pid = txns[id].pid /\ txns'[id].epoch = txns[id].epoch
      BY <1>0, <1>12, <2>1, FinishEndTxnEffect, Zenon DEF FinishEndTxnDoes
    <2>3. Aged(txns, txns') /\ EndsCurrent(ending', txns')
      BY <1>0, <2>2, Zenon DEF Aged, EndsCurrent, NoEnd
    <2> QED
      BY <2>2, <2>3, FenceKept, Zenon
  <1>13. CASE UNCHANGED <<log, ongoing, lock, txns, nextPid, ending, prod, asked, answered>>
    BY <1>13, Zenon DEF FenceInv, Shape
  <1>14. ASSUME NEW f \in Fetchers,
                \/ \E p \in Partitions, iso \in Isolations : FetchRecords(f, p, iso)
                \/ FetchAborted(f) \/ FetchRespond(f) \/ FetchDone(f)
         PROVE  FenceInv'
    BY <1>13, <1>14, OtherStep, Zenon
  <1>15. CASE UNCHANGED vars
    BY <1>13, <1>15, Zenon DEF vars, parts, coord
  <1> QED
    BY <1>1, <1>2, <1>3, <1>4, <1>5, <1>6, <1>7, <1>8, <1>9, <1>10, <1>11, <1>12, <1>14, <1>15, Zenon
    DEF Next, EndTxnStep

\* Fencing: for any number of producers, ids and restarts, and whichever appends
\* fail, the control batches of a producer id stand in every log in the order of
\* their epochs, since end_txn holds the lock from its epoch check to the end.
THEOREM MarkersAlwaysOrdered == Spec => []MarkerEpochsOrdered
  <1>1. FenceInv => MarkerEpochsOrdered
    <2> SUFFICES ASSUME FenceInv PROVE MarkerEpochsOrdered
      OBVIOUS
    <2> SUFFICES ASSUME NEW p \in Partitions, NEW i \in DOMAIN log[p], NEW j \in MarkersAfter(p, i),
                        IsMarker(log[p][i])
                 PROVE  log[p][i].epoch <= log[p][j].epoch
      BY Zenon DEF MarkerEpochsOrdered
    <2>1. log[p] \in Seq(Batches) /\ Ordered(log[p])
      BY Zenon DEF FenceInv, Shape
    <2>2. /\ i \in 1 .. Len(log[p]) /\ j \in 1 .. Len(log[p])
          /\ j > i /\ IsMarker(log[p][j]) /\ log[p][j].pid = log[p][i].pid
      BY <2>1 DEF MarkersAfter
    <2> QED
      BY <2>1, <2>2, Zenon DEF Ordered
  <1> QED
    BY <1>1, InitFence, NextFence, PTL DEF Spec

-----------------------------------------------------------------------------
(* What a step does to a partition.                                        *)

\* A step may add a batch to a log, and to its open transactions one that begins
\* at its end; it may remove open transactions.
LEMMA PartitionStep ==
    ASSUME FenceInv, [Next]_vars, NEW p \in Partitions
    PROVE  /\ log'[p] = log[p] \/ \E b \in Batches : Grown(log[p], log'[p], b)
           /\ \A pid \in DOMAIN ongoing'[p] :
                  \/ ongoing'[p][pid] = Len(log[p])
                  \/ pid \in DOMAIN ongoing[p] /\ ongoing'[p][pid] = ongoing[p][pid]
  <1> DEFINE A == log'[p] = log[p] \/ \E b \in Batches : Grown(log[p], log'[p], b)
             B == \A pid \in DOMAIN ongoing'[p] :
                      \/ ongoing'[p][pid] = Len(log[p])
                      \/ pid \in DOMAIN ongoing[p] /\ ongoing'[p][pid] = ongoing[p][pid]
  <1>0. Shape /\ Shape'
    BY NextFence, Zenon DEF FenceInv
  <1>a. ASSUME NEW q \in Partitions, NEW b, Grown(log[q], log'[q], b), LogsSame(log, log', q),
               UNCHANGED ongoing
        PROVE  A /\ B
    <2>1. log[q] \in Seq(Batches) /\ log'[q] \in Seq(Batches)
      BY <1>0, Zenon DEF Shape
    <2>2. b \in Batches
      BY <1>a, <2>1, LastElement, Zenon
    <2> QED
      BY <1>a, <2>2, Zenon DEF LogsSame
  <1>b. ASSUME UNCHANGED <<log, ongoing>> PROVE A /\ B
    BY <1>b, Zenon
  <1> DEFINE G == A /\ B
  <1> HIDE DEF A, B, G
  <1>1. ASSUME NEW c \in Producers, NEW q \in Partitions, ProduceBegin(c, q) PROVE G
    <2>1. /\ UNCHANGED log /\ LogsSame(ongoing, ongoing', q)
          /\ ongoing'[q] = Registered(q, prod[c].pid) /\ prod[c].pid \in Nat
      BY <1>0, <1>1, ProduceBeginEffect, Zenon DEF Shape, Clients, ProduceBeginDoes
    <2>2. A
      BY <2>1, Zenon DEF A
    <2>3. CASE q # p
      BY <2>1, <2>2, <2>3, Zenon DEF B, G, LogsSame
    <2>4. CASE q = p
      <3>1. /\ DOMAIN Registered(p, prod[c].pid) = DOMAIN ongoing[p] \cup {prod[c].pid}
            /\ \A x \in DOMAIN ongoing[p] : Registered(p, prod[c].pid)[x] = ongoing[p][x]
            /\ prod[c].pid \notin DOMAIN ongoing[p]
                   => Registered(p, prod[c].pid)[prod[c].pid] = Len(log[p])
        BY <1>0, <2>1, RegisteredPids, Zenon
      <3>2. ongoing'[p] = Registered(p, prod[c].pid)
        BY <2>1, <2>4, Zenon
      <3>3. B
        BY <3>1, <3>2, Zenon DEF B
      <3> QED
        BY <2>2, <3>3, Zenon DEF G
    <2> QED
      BY <2>3, <2>4, Zenon
  <1>2. ASSUME NEW c \in Producers, NEW q \in Partitions, ProduceAppend(c, q) PROVE G
    BY <1>0, <1>2, <1>a, ProduceAppendEffect, Zenon DEF G, ProduceAppendDoes
  <1>3. ASSUME NEW q \in Partitions, ProducePlain(q) PROVE G
    BY <1>0, <1>3, <1>a, ProducePlainEffect, Zenon DEF G, ProducePlainDoes
  <1>4. ASSUME NEW c \in Producers, InitProducerId(c) \/ Fenced(c) PROVE G
    BY <1>4, <1>b, Zenon DEF G, InitProducerId, Fenced, parts
  <1>5. ASSUME NEW c \in Producers, NEW q \in Partitions, AddPartitionsToTxn(c, q) PROVE G
    BY <1>5, <1>b, Zenon DEF G, AddPartitionsToTxn, parts
  <1>6. ASSUME NEW c \in Producers, NEW committed \in BOOLEAN, EndTxn(c, committed) PROVE G
    BY <1>6, <1>b, Zenon DEF G, EndTxn, parts
  <1>7. ASSUME NEW q \in Partitions, AppendMarker(q) PROVE G
    BY <1>0, <1>7, <1>a, AppendMarkerEffect, Zenon DEF G, AppendMarkerDoes
  <1>8. ASSUME NEW q \in Partitions, MarkerFails(q) PROVE G
    BY <1>0, <1>8, <1>a, MarkerFailsEffect, Zenon DEF G, MarkerFailsDoes
  <1>9. ASSUME CloseTxn PROVE G
    <2>1. /\ UNCHANGED log /\ LogsSame(ongoing, ongoing', ending.p) /\ ending.p \in Partitions
          /\ ongoing'[ending.p] = Without(ending.p, ending.pid)
      BY <1>0, <1>9, CloseTxnEffect, Zenon DEF CloseTxnDoes
    <2>2. A
      BY <2>1, Zenon DEF A
    <2>3. CASE ending.p # p
      BY <2>1, <2>2, <2>3, Zenon DEF B, G, LogsSame
    <2>4. CASE ending.p = p
      <3>1. /\ DOMAIN Without(p, ending.pid) = DOMAIN ongoing[p] \ {ending.pid}
            /\ \A x \in DOMAIN ongoing[p] \ {ending.pid} :
                   Without(p, ending.pid)[x] = ongoing[p][x]
        BY <1>0, WithoutPids, Zenon
      <3>2. ongoing'[p] = Without(p, ending.pid)
        BY <2>1, <2>4, Zenon
      <3>3. B
        BY <3>1, <3>2, Zenon DEF B
      <3> QED
        BY <2>2, <3>3, Zenon DEF G
    <2> QED
      BY <2>3, <2>4, Zenon
  <1>10. ASSUME PushAborted \/ FinishEndTxn PROVE G
    BY <1>10, <1>b, Zenon DEF G, PushAborted, FinishEndTxn, parts
  <1>11. ASSUME NEW f \in Fetchers,
                \/ \E q \in Partitions, iso \in Isolations : FetchRecords(f, q, iso)
                \/ FetchAborted(f) \/ FetchRespond(f) \/ FetchDone(f)
         PROVE  G
    BY <1>11, <1>b, OtherStep, Zenon DEF G
  <1>12. ASSUME UNCHANGED vars PROVE G
    BY <1>12, <1>b, Zenon DEF G, vars, parts
  <1>13. G
    BY <1>1, <1>2, <1>3, <1>4, <1>5, <1>6, <1>7, <1>8, <1>9, <1>10, <1>11, <1>12, Zenon
    DEF Next, EndTxnStep
  <1> QED
    BY <1>13, Zenon DEF A, B, G

-----------------------------------------------------------------------------
(* Open transactions, when no transactional id is initialised again        *)
(* (MaxEpoch = 0): every data batch whose transaction has not been asked   *)
(* to end is at or above its entry in ongoing_txns.                        *)

\* A producer that has started is the owner of its id's entry, and of its pid.
Owners(f, t) ==
    /\ \A c \in Producers : f[c].pc # "new" =>
           Id(c) \in DOMAIN t /\ t[Id(c)].pid = f[c].pid
    /\ \A c, d \in Producers :
           f[c].pc # "new" /\ f[d].pc # "new" /\ f[c].pid = f[d].pid => c = d

\* append_lock is held by a producer that is producing, there and nowhere else,
\* and whose transaction is open there.
Holders(l, f, on) ==
    /\ \A p \in Partitions : l[p] # None =>
           f[l[p]].pc = "producing" /\ f[l[p]].pid \in DOMAIN on[p]
    /\ \A p, q \in Partitions : l[p] # None /\ l[p] = l[q] => p = q

TxnOf(f, c) == [who |-> c, n |-> f[c].n]

\* A transaction being ended, or to be ended again, has been asked to end.
Enders(e, f, a) ==
    /\ e.step # "none" => f[e.by].pc = "ending" /\ f[e.by].pid = e.pid
    /\ \A c \in Producers : f[c].pc \in {"ending", "retry"} => TxnOf(f, c) \in a

\* The batch is of its producer's current transaction, or of one asked to end.
Attributed(b, f, a) ==
    /\ b.txn = [who |-> b.txn.who, n |-> b.txn.n]
    /\ b.txn.who \in Producers /\ b.txn.n \in Nat
    /\ f[b.txn.who].pc # "new" /\ f[b.txn.who].pid = b.pid
    /\ b.txn.n <= f[b.txn.who].n
    /\ b.txn.n < f[b.txn.who].n => b.txn \in a

\* Batch b, at index i, is at or above its open transaction's first offset.
Open(b, i, on, a) == b.txn \notin a => b.pid \in DOMAIN on /\ on[b.pid] <= i - 1

Placed(s, on, f, a) ==
    /\ \A pid \in DOMAIN on : on[pid] <= Len(s)
    /\ \A i \in 1 .. Len(s) : s[i].kind = "data" =>
           Attributed(s[i], f, a) /\ Open(s[i], i, on, a)

OpenInv ==
    /\ FenceInv
    /\ Owners(prod, txns)
    /\ Holders(lock, prod, ongoing)
    /\ Enders(ending, prod, asked)
    /\ \A p \in Partitions : Placed(log[p], ongoing[p], prod, asked)

\* A started producer keeps its pid, and moves on to a next transaction only
\* once the last was asked to end.
Onward(f, g, a) ==
    \A c \in Producers : f[c].pc # "new" =>
        /\ g[c].pc # "new" /\ g[c].pid = f[c].pid
        /\ \/ g[c].n = f[c].n
           \/ g[c].n = f[c].n + 1 /\ TxnOf(f, c) \in a

LEMMA AttributedStays ==
    ASSUME NEW f \in [Producers -> Clients], NEW g \in [Producers -> Clients],
           NEW a, NEW a2, a \subseteq a2, Onward(f, g, a2),
           NEW b, Attributed(b, f, a)
    PROVE  Attributed(b, g, a2)
  <1> DEFINE c == b.txn.who
  <1>1. /\ b.txn = [who |-> c, n |-> b.txn.n] /\ c \in Producers /\ b.txn.n \in Nat
        /\ f[c].pc # "new" /\ f[c].pid = b.pid /\ b.txn.n <= f[c].n
        /\ b.txn.n < f[c].n => b.txn \in a
    BY Zenon DEF Attributed
  <1> HIDE DEF c
  <1>2. f[c].n \in Nat /\ g[c].n \in Nat
    BY <1>1, Zenon DEF Clients
  <1>3. /\ g[c].pc # "new" /\ g[c].pid = b.pid
        /\ g[c].n = f[c].n \/ (g[c].n = f[c].n + 1 /\ TxnOf(f, c) \in a2)
    BY <1>1, Zenon DEF Onward
  <1>4. b.txn.n = f[c].n => b.txn = TxnOf(f, c)
    BY <1>1, Zenon DEF TxnOf
  <1>5. b.txn.n <= g[c].n /\ (b.txn.n < g[c].n => b.txn \in a2)
    <2>1. CASE g[c].n = f[c].n
      BY <1>1, <2>1, Zenon
    <2>2. CASE g[c].n = f[c].n + 1 /\ TxnOf(f, c) \in a2
      <3>1. b.txn.n <= g[c].n /\ (b.txn.n = f[c].n \/ b.txn.n < f[c].n)
        <4> DEFINE x == b.txn.n
                   y == f[c].n
        <4>1. x \in Nat /\ y \in Nat /\ x <= y /\ g[c].n = y + 1
          BY <1>1, <1>2, <2>2, Zenon
        <4> HIDE DEF x, y
        <4>2. x <= g[c].n /\ (x = y \/ x < y)
          BY <4>1
        <4> QED
          BY <4>2, Zenon DEF x, y
      <3> QED
        BY <1>1, <1>4, <2>2, <3>1, Zenon
    <2> QED
      BY <1>3, <2>1, <2>2, Zenon
  <1> QED
    BY <1>1, <1>3, <1>5, Zenon DEF Attributed, c

LEMMA PlacedStays ==
    ASSUME NEW f \in [Producers -> Clients], NEW g \in [Producers -> Clients],
           NEW a, NEW a2, a \subseteq a2, Onward(f, g, a2),
           NEW s, NEW on, Placed(s, on, f, a)
    PROVE  Placed(s, on, g, a2)
  <1>1. ASSUME NEW i \in 1 .. Len(s), s[i].kind = "data"
        PROVE  Attributed(s[i], g, a2) /\ Open(s[i], i, on, a2)
    <2>1. Attributed(s[i], f, a) /\ Open(s[i], i, on, a)
      BY <1>1, Zenon DEF Placed
    <2>2. Attributed(s[i], g, a2)
      BY <2>1, AttributedStays, Zenon
    <2>3. Open(s[i], i, on, a2)
      BY <2>1, Zenon DEF Open
    <2> QED
      BY <2>2, <2>3, Zenon
  <1> QED
    BY <1>1, Zenon DEF Placed

LEMMA PlacedGrows ==
    ASSUME NEW s \in Seq(Batches), NEW u, NEW b, Grown(s, u, b),
           NEW f, NEW a, NEW on \in PidMaps, Placed(s, on, f, a),
           b.kind = "data" => Attributed(b, f, a) /\ b.pid \in DOMAIN on
    PROVE  Placed(u, on, f, a)
  <1>1. Len(s) \in Nat /\ Len(u) = Len(s) + 1
    BY DEF Grown
  <1>2. \A pid \in DOMAIN on : on[pid] \in Nat /\ on[pid] <= Len(s)
    <2>1. \A pid \in DOMAIN on : on[pid] \in Nat
      BY OpenNumbers, Zenon
    <2>2. \A pid \in DOMAIN on : on[pid] <= Len(s)
      BY Zenon DEF Placed
    <2> QED
      BY <2>1, <2>2, Zenon
  <1>3. \A pid \in DOMAIN on : on[pid] <= Len(u)
    BY <1>1, <1>2
  <1>4. ASSUME NEW i \in 1 .. Len(u), u[i].kind = "data"
        PROVE  Attributed(u[i], f, a) /\ Open(u[i], i, on, a)
    <2>1. CASE i \in 1 .. Len(s) /\ u[i] = s[i]
      BY <1>4, <2>1, Zenon DEF Placed
    <2>2. CASE i = Len(s) + 1 /\ u[i] = b
      BY <1>1, <1>2, <1>4, <2>2 DEF Open
    <2> QED
      BY <1>4, <2>1, <2>2, GrownElement, Zenon
  <1> QED
    BY <1>3, <1>4, Zenon DEF Placed

LEMMA PlacedRegistered ==
    ASSUME NEW s \in Seq(Batches), NEW f, NEW a, NEW on, NEW on2, NEW pid,
           Placed(s, on, f, a),
           DOMAIN on2 = DOMAIN on \cup {pid}, \A x \in DOMAIN on : on2[x] = on[x],
           pid \notin DOMAIN on => on2[pid] = Len(s)
    PROVE  Placed(s, on2, f, a)
  <1>1. Len(s) \in Nat
    OBVIOUS
  <1> QED
    BY <1>1 DEF Placed, Open

LEMMA PlacedWithout ==
    ASSUME NEW s \in Seq(Batches), NEW f, NEW a, NEW on, NEW on2, NEW pid,
           Placed(s, on, f, a),
           DOMAIN on2 = DOMAIN on \ {pid}, \A x \in DOMAIN on \ {pid} : on2[x] = on[x],
           \A i \in 1 .. Len(s) : s[i].kind = "data" /\ s[i].pid = pid => s[i].txn \in a
    PROVE  Placed(s, on2, f, a)
  BY Zenon DEF Placed, Open

LEMMA InitOpen == Init => OpenInv
  <1> SUFFICES ASSUME Init PROVE OpenInv
    OBVIOUS
  <1>1. FenceInv
    BY InitFence, Zenon
  <1>2. \A c \in Producers : prod[c].pc = "new"
    BY Zenon DEF Init
  <1>3. \A p \in Partitions : lock[p] = None /\ log[p] = << >> /\ ongoing[p] = << >>
    BY Zenon DEF Init
  <1>4. ending.step = "none"
    BY Zenon DEF Init, NoEnd
  <1>5. \A p \in Partitions : Placed(log[p], ongoing[p], prod, asked)
    BY <1>3 DEF Placed
  <1> QED
    BY <1>1, <1>2, <1>3, <1>4, <1>5, Zenon DEF OpenInv, Owners, Holders, Enders


\* Every producer as it was, or one with only its control state changed.
LEMMA OnwardSame ==
    ASSUME NEW f \in [Producers -> Clients], NEW g \in [Producers -> Clients],
           NEW a, NEW c \in Producers, OthersSame(f, g, c),
           f[c].pc # "new" => /\ g[c].pc # "new" /\ g[c].pid = f[c].pid /\ g[c].n = f[c].n
    PROVE  Onward(f, g, a)
  BY Zenon DEF OthersSame, Onward

LEMMA OwnersSame ==
    ASSUME NEW f, NEW g, NEW t, NEW u, NEW c \in Producers,
           OthersSame(f, g, c), f[c].pc # "new", g[c].pid = f[c].pid, Owners(f, t),
           DOMAIN u = DOMAIN t, \A id \in DOMAIN t : u[id].pid = t[id].pid
    PROVE  Owners(g, u)
  <1>1. \A d \in Producers : g[d].pid = f[d].pid /\ (g[d].pc # "new" => f[d].pc # "new")
    BY Zenon DEF OthersSame
  <1>2. \A d \in Producers : g[d].pc # "new" => Id(d) \in DOMAIN u /\ u[Id(d)].pid = g[d].pid
    BY <1>1, Zenon DEF Owners
  <1>3. ASSUME NEW d \in Producers, NEW e \in Producers, g[d].pc # "new", g[e].pc # "new",
               g[d].pid = g[e].pid
        PROVE  d = e
    <2>1. f[d].pc # "new" /\ f[e].pc # "new" /\ f[d].pid = f[e].pid
      BY <1>1, <1>3, Zenon
    <2> QED
      BY <2>1, Zenon DEF Owners
  <1> QED
    BY <1>2, <1>3, Zenon DEF Owners

\* A producer that holds no lock may change as it likes.
LEMMA HoldersSame ==
    ASSUME NEW l \in [Partitions -> Producers \cup {None}], NEW f, NEW g, NEW on,
           NEW c \in Producers, OthersSame(f, g, c), f[c].pc # "producing",
           Holders(l, f, on)
    PROVE  Holders(l, g, on)
  BY Zenon DEF OthersSame, Holders

LEMMA EndersSame ==
    ASSUME NEW e, NEW f, NEW g, NEW a, NEW a2, a \subseteq a2, NEW c \in Producers,
           OthersSame(f, g, c), Enders(e, f, a),
           f[c].pc # "ending", e.step # "none" => e.by \in Producers,
           g[c].pc \in {"ending", "retry"} => TxnOf(g, c) \in a2
    PROVE  Enders(e, g, a2)
  BY Zenon DEF OthersSame, Enders, TxnOf

LEMMA NextOpen ==
    ASSUME MaxEpoch = 0, OpenInv, [Next]_vars
    PROVE  OpenInv'
  <1>0. /\ FenceInv /\ Shape /\ Owners(prod, txns) /\ Holders(lock, prod, ongoing)
        /\ Enders(ending, prod, asked)
        /\ \A p \in Partitions : Placed(log[p], ongoing[p], prod, asked)
        /\ FenceInv' /\ Shape'
    BY NextFence, Zenon DEF OpenInv, FenceInv
  <1>t. /\ prod \in [Producers -> Clients] /\ prod' \in [Producers -> Clients]
        /\ lock \in [Partitions -> Producers \cup {None}]
        /\ \A p \in Partitions : log[p] \in Seq(Batches) /\ ongoing[p] \in PidMaps
        /\ ending.step # "none" => ending.by \in Producers
    BY <1>0, EndingFields, Zenon DEF Shape
  <1>a. \A p \in Partitions : asked \subseteq asked
    OBVIOUS
  <1>1. ASSUME NEW c \in Producers, NEW p \in Partitions, ProduceBegin(c, p) PROVE OpenInv'
    <2>1. /\ prod[c].pc = "idle" /\ lock[p] = None
          /\ SameBut(prod[c], prod'[c], "producing") /\ OthersSame(prod, prod', c)
          /\ lock'[p] = c /\ LogsSame(lock, lock', p)
          /\ ongoing'[p] = Registered(p, prod[c].pid) /\ LogsSame(ongoing, ongoing', p)
          /\ UNCHANGED <<log, txns, ending, asked>>
      BY <1>0, <1>1, ProduceBeginEffect, Zenon DEF ProduceBeginDoes
    <2>2. prod'[c].pc = "producing" /\ prod'[c].pid = prod[c].pid /\ prod'[c].n = prod[c].n
      BY <2>1, Zenon DEF SameBut
    <2>3. /\ DOMAIN ongoing'[p] = DOMAIN ongoing[p] \cup {prod[c].pid}
          /\ \A x \in DOMAIN ongoing[p] : ongoing'[p][x] = ongoing[p][x]
          /\ prod[c].pid \notin DOMAIN ongoing[p] => ongoing'[p][prod[c].pid] = Len(log[p])
      <3>1. prod[c].pid \in Nat
        BY <1>t, Zenon DEF Clients
      <3>2. /\ DOMAIN Registered(p, prod[c].pid) = DOMAIN ongoing[p] \cup {prod[c].pid}
            /\ \A x \in DOMAIN ongoing[p] : Registered(p, prod[c].pid)[x] = ongoing[p][x]
            /\ prod[c].pid \notin DOMAIN ongoing[p]
                   => Registered(p, prod[c].pid)[prod[c].pid] = Len(log[p])
        BY <1>0, <3>1, RegisteredPids, Zenon
      <3> QED
        BY <2>1, <3>2, Zenon
    <2>4. Owners(prod', txns')
      BY <1>0, <2>1, <2>2, OwnersSame, Zenon
    <2>5. Holders(lock', prod', ongoing')
      <3>1. /\ Holders(lock, prod, ongoing) /\ lock'[p] = c
            /\ \A q \in Partitions : q # p => lock'[q] = lock[q] /\ ongoing'[q] = ongoing[q]
        BY <1>0, <2>1, Zenon DEF LogsSame
      <3>2. \A q \in Partitions : lock[q] # None /\ q # p => prod'[lock[q]] = prod[lock[q]] /\ lock[q] # c
        <4> SUFFICES ASSUME NEW q \in Partitions, lock[q] # None, q # p
                     PROVE  prod'[lock[q]] = prod[lock[q]] /\ lock[q] # c
          OBVIOUS
        <4>1. lock[q] \in Producers
          BY <1>t, Zenon
        <4>2. lock[q] # c
          BY <2>1, <3>1, NoneAssumption, Zenon DEF Holders
        <4> QED
          BY <2>1, <4>1, <4>2, Zenon DEF OthersSame
      <3>3. ASSUME NEW q \in Partitions, lock'[q] # None
            PROVE  prod'[lock'[q]].pc = "producing" /\ prod'[lock'[q]].pid \in DOMAIN ongoing'[q]
        <4>1. CASE q = p
          BY <2>2, <2>3, <3>1, <4>1, Zenon
        <4>2. CASE q # p
          BY <3>1, <3>2, <3>3, <4>2 DEF Holders
        <4> QED
          BY <4>1, <4>2, Zenon
      <3>4. ASSUME NEW q \in Partitions, NEW r \in Partitions, lock'[q] # None, lock'[q] = lock'[r]
            PROVE  q = r
        BY <3>1, <3>2, <3>4 DEF Holders
      <3> QED
        BY <3>3, <3>4, Zenon DEF Holders
    <2>6. Enders(ending', prod', asked')
      BY <1>0, <1>t, <2>1, <2>2, EndersSame, Zenon
    <2>7. Onward(prod, prod', asked)
      BY <1>t, <2>1, <2>2, OnwardSame, Zenon
    <2>8. ASSUME NEW q \in Partitions PROVE Placed(log'[q], ongoing'[q], prod', asked')
      <3>1. Placed(log[q], ongoing[q], prod', asked)
        BY <1>0, <1>t, <2>7, PlacedStays, Zenon
      <3>2. CASE q = p
        <4>1. Placed(log[p], ongoing[p], prod', asked) /\ log[p] \in Seq(Batches)
          BY <1>t, <3>1, <3>2, Zenon
        <4>2. Placed(log[p], ongoing'[p], prod', asked)
          BY <2>3, <4>1, PlacedRegistered, Zenon
        <4> QED
          BY <2>1, <3>2, <4>2, Zenon
      <3>3. CASE q # p
        BY <2>1, <3>1, <3>3, Zenon DEF LogsSame
      <3> QED
        BY <3>2, <3>3, Zenon
    <2> QED
      BY <1>0, <2>4, <2>5, <2>6, <2>8, Zenon DEF OpenInv
  <1>2. ASSUME NEW c \in Producers, NEW p \in Partitions, ProduceAppend(c, p) PROVE OpenInv'
    <2> DEFINE data == Batch("data", prod[c].pid, prod[c].epoch, Txn(c))
    <2>1. /\ prod[c].pc = "producing" /\ lock[p] = c
          /\ SameBut(prod[c], prod'[c], "idle") /\ OthersSame(prod, prod', c)
          /\ lock'[p] = None /\ LogsSame(lock, lock', p)
          /\ \E b \in {Gap, data} : Grown(log[p], log'[p], b)
          /\ LogsSame(log, log', p)
          /\ UNCHANGED <<ongoing, txns, ending, asked>>
      BY <1>0, <1>2, ProduceAppendEffect, Zenon DEF ProduceAppendDoes
    <2>2. prod'[c].pc = "idle" /\ prod'[c].pid = prod[c].pid /\ prod'[c].n = prod[c].n
      BY <2>1, Zenon DEF SameBut
    <2>3. prod[c].pid \in DOMAIN ongoing[p]
      BY <1>0, <2>1, NoneAssumption, Zenon DEF Holders
    <2>4. Owners(prod', txns')
      BY <1>0, <2>1, <2>2, OwnersSame, Zenon
    <2>5. Holders(lock', prod', ongoing')
      <3>1. /\ Holders(lock, prod, ongoing) /\ lock'[p] = None
            /\ \A q \in Partitions : q # p => lock'[q] = lock[q] /\ ongoing'[q] = ongoing[q]
        BY <1>0, <2>1, Zenon DEF LogsSame
      <3>2. \A q \in Partitions : lock[q] # None /\ q # p => prod'[lock[q]] = prod[lock[q]] /\ lock[q] # c
        <4> SUFFICES ASSUME NEW q \in Partitions, lock[q] # None, q # p
                     PROVE  prod'[lock[q]] = prod[lock[q]] /\ lock[q] # c
          OBVIOUS
        <4>1. lock[q] \in Producers
          BY <1>t, Zenon
        <4>2. lock[q] # c
          BY <2>1, <3>1, NoneAssumption, Zenon DEF Holders
        <4> QED
          BY <2>1, <4>1, <4>2, Zenon DEF OthersSame
      <3>3. ASSUME NEW q \in Partitions, lock'[q] # None
            PROVE  prod'[lock'[q]].pc = "producing" /\ prod'[lock'[q]].pid \in DOMAIN ongoing'[q]
        <4>1. CASE q = p
          BY <3>1, <3>3, <4>1, Zenon
        <4>2. CASE q # p
          BY <3>1, <3>2, <3>3, <4>2 DEF Holders
        <4> QED
          BY <4>1, <4>2, Zenon
      <3>4. ASSUME NEW q \in Partitions, NEW r \in Partitions, lock'[q] # None, lock'[q] = lock'[r]
            PROVE  q = r
        BY <3>1, <3>2, <3>4 DEF Holders
      <3> QED
        BY <3>3, <3>4, Zenon DEF Holders
    <2>6. Enders(ending', prod', asked')
      BY <1>0, <1>t, <2>1, <2>2, EndersSame, Zenon
    <2>7. Onward(prod, prod', asked)
      BY <1>t, <2>1, <2>2, OnwardSame, Zenon
    <2>b. Gap.kind # "data"
      BY Zenon DEF Gap, Batch
    <2>d. Attributed(data, prod', asked) /\ data.pid = prod[c].pid
      <3>1. data.txn = [who |-> c, n |-> prod[c].n] /\ data.pid = prod[c].pid
        BY Zenon DEF Batch, Txn
      <3>2. data.txn.who = c /\ data.txn.n = prod[c].n
        BY <3>1
      <3>3. prod[c].n \in Nat
        BY <1>t, Zenon DEF Clients
      <3> HIDE DEF data
      <3> QED
        BY <2>2, <3>1, <3>2, <3>3 DEF Attributed
    <2> HIDE DEF data
    <2>8. ASSUME NEW q \in Partitions PROVE Placed(log'[q], ongoing'[q], prod', asked')
      <3>1. Placed(log[q], ongoing[q], prod', asked)
        BY <1>0, <1>t, <2>7, PlacedStays, Zenon
      <3>2. CASE q = p
        <4>1. PICK b \in {Gap, data} : Grown(log[p], log'[p], b)
          BY <2>1, Zenon
        <4>2. b.kind = "data" => Attributed(b, prod', asked) /\ b.pid \in DOMAIN ongoing[p]
          BY <2>3, <2>b, <2>d, <4>1, Zenon
        <4> QED
          BY <1>t, <2>1, <3>1, <3>2, <4>1, <4>2, PlacedGrows, Zenon
      <3>3. CASE q # p
        BY <2>1, <3>1, <3>3, Zenon DEF LogsSame
      <3> QED
        BY <3>2, <3>3, Zenon
    <2> QED
      BY <1>0, <2>4, <2>5, <2>6, <2>8, Zenon DEF OpenInv
  <1>3. ASSUME NEW p \in Partitions, ProducePlain(p) PROVE OpenInv'
    <2>1. /\ \E b \in {Gap, Plain} : Grown(log[p], log'[p], b)
          /\ LogsSame(log, log', p)
          /\ UNCHANGED <<ongoing, lock, txns, ending, prod, asked>>
      BY <1>0, <1>3, ProducePlainEffect, Zenon DEF ProducePlainDoes
    <2>2. PICK b \in {Gap, Plain} : Grown(log[p], log'[p], b)
      BY <2>1, Zenon
    <2>3. b.kind # "data"
      BY DEF Gap, Plain, Batch
    <2>4. ASSUME NEW q \in Partitions PROVE Placed(log'[q], ongoing'[q], prod', asked')
      BY <1>0, <1>t, <2>1, <2>2, <2>3, PlacedGrows, Zenon DEF LogsSame
    <2> QED
      BY <1>0, <2>1, <2>4, Zenon DEF OpenInv
  <1>4. ASSUME NEW c \in Producers, InitProducerId(c) PROVE OpenInv'
    <2>1. /\ LockFree
          /\ \/ Id(c) \in DOMAIN txns /\ txns[Id(c)].epoch < MaxEpoch
             \/ /\ Id(c) \notin DOMAIN txns
                /\ DOMAIN txns' = DOMAIN txns \cup {Id(c)}
                /\ txns'[Id(c)] = NewEntry
          /\ \A id \in DOMAIN txns : id # Id(c) => txns'[id] = txns[id]
          /\ prod'[c].pc = "idle" /\ prod'[c].pid = txns'[Id(c)].pid
          /\ OthersSame(prod, prod', c)
          /\ UNCHANGED <<log, ongoing, lock, ending, asked>>
      BY <1>0, <1>4, InitProducerIdEffect, Zenon DEF InitProducerIdDoes
    <2>2. Id(c) \in DOMAIN txns => txns[Id(c)].epoch \in Nat
      BY <1>0, Entry, Zenon DEF Shape, Entries
    <2>3. /\ Id(c) \notin DOMAIN txns
          /\ DOMAIN txns' = DOMAIN txns \cup {Id(c)} /\ txns'[Id(c)].pid = nextPid
      <3>1. NewEntry.pid = nextPid
        BY Zenon DEF NewEntry
      <3>2. \A e \in Nat : ~(e < MaxEpoch)
        OBVIOUS
      <3> QED
        BY <2>1, <2>2, <3>1, <3>2, Zenon
    <2>4. prod[c].pc = "new"
      BY <1>0, <2>3, Zenon DEF Owners
    <2>5. \A d \in Producers : prod[d].pc # "new" => prod[d].pid # nextPid
      <3>1. Owners(prod, txns) /\ PidsUnique(txns, nextPid) /\ nextPid \in Nat
        BY <1>0, Zenon DEF FenceInv, Shape
      <3> QED
        BY <3>1 DEF Owners, PidsUnique
    <2>6. Owners(prod', txns')
      <3>1. \A d \in Producers : d # c => prod'[d] = prod[d]
        BY <2>1, Zenon DEF OthersSame
      <3>2. ASSUME NEW d \in Producers, prod'[d].pc # "new"
            PROVE  Id(d) \in DOMAIN txns' /\ txns'[Id(d)].pid = prod'[d].pid
        <4>1. CASE d = c
          BY <2>1, <2>3, <4>1, Zenon
        <4>2. CASE d # c
          <5>1. Id(d) \in DOMAIN txns /\ txns[Id(d)].pid = prod'[d].pid
            BY <1>0, <3>1, <3>2, <4>2, Zenon DEF Owners
          <5>2. txns'[Id(d)] = txns[Id(d)]
            BY <2>1, <2>3, <5>1, Zenon
          <5> QED
            BY <2>3, <5>1, <5>2, Zenon
        <4> QED
          BY <4>1, <4>2, Zenon
      <3>3. ASSUME NEW d \in Producers, NEW b \in Producers, prod'[d].pc # "new", prod'[b].pc # "new",
                   prod'[d].pid = prod'[b].pid
            PROVE  d = b
        <4>1. prod'[c].pid = nextPid
          BY <2>1, <2>3, Zenon
        <4>2. ASSUME d # c, b # c PROVE d = b
          <5>1. prod'[d] = prod[d] /\ prod'[b] = prod[b]
            BY <3>1, <4>2, Zenon
          <5>2. prod[d].pc # "new" /\ prod[b].pc # "new" /\ prod[d].pid = prod[b].pid
            BY <3>3, <5>1, Zenon
          <5> QED
            BY <1>0, <5>2, Zenon DEF Owners
        <4> QED
          BY <2>5, <3>1, <3>3, <4>1, <4>2, Zenon
      <3> QED
        BY <3>2, <3>3, Zenon DEF Owners
    <2>7. Holders(lock', prod', ongoing')
      BY <1>0, <1>t, <2>1, <2>4, HoldersSame, Zenon
    <2>8. Enders(ending', prod', asked')
      BY <1>0, <1>t, <2>1, <2>4, EndersSame, Zenon
    <2>9. Onward(prod, prod', asked)
      BY <1>t, <2>1, <2>4, OnwardSame, Zenon
    <2>10. ASSUME NEW q \in Partitions PROVE Placed(log'[q], ongoing'[q], prod', asked')
      BY <1>0, <1>t, <2>1, <2>9, PlacedStays, Zenon
    <2> QED
      BY <1>0, <2>6, <2>7, <2>8, <2>10, Zenon DEF OpenInv

  <1>b. ASSUME NEW c \in Producers, OthersSame(prod, prod', c), prod[c].pc \in {"idle", "retry"},
               prod'[c].pc \in {"idle", "fenced", "ending"}, prod'[c].pid = prod[c].pid,
               prod'[c].n = prod[c].n,
               DOMAIN txns' = DOMAIN txns, \A id \in DOMAIN txns : txns'[id].pid = txns[id].pid,
               UNCHANGED <<log, ongoing, lock>>, asked \subseteq asked',
               Enders(ending', prod', asked')
        PROVE  OpenInv'
    <2>1. Owners(prod', txns')
      BY <1>0, <1>b, OwnersSame, Zenon
    <2>2. Holders(lock', prod', ongoing')
      BY <1>0, <1>t, <1>b, HoldersSame, Zenon
    <2>3. Onward(prod, prod', asked')
      BY <1>t, <1>b, OnwardSame, Zenon
    <2>4. ASSUME NEW q \in Partitions PROVE Placed(log'[q], ongoing'[q], prod', asked')
      BY <1>0, <1>t, <1>b, <2>3, PlacedStays, Zenon
    <2> QED
      BY <1>0, <1>b, <2>1, <2>2, <2>4, Zenon DEF OpenInv
  <1>5. ASSUME NEW c \in Producers, Fenced(c) PROVE OpenInv'
    <2>1. /\ prod[c].pc \in {"idle", "retry"}
          /\ SameBut(prod[c], prod'[c], "fenced") /\ OthersSame(prod, prod', c)
          /\ UNCHANGED <<log, ongoing, lock, txns, ending, asked>>
      BY <1>0, <1>5, FencedEffect, Zenon DEF FencedDoes
    <2>2. prod'[c].pc = "fenced" /\ prod'[c].pid = prod[c].pid /\ prod'[c].n = prod[c].n
      BY <2>1, Zenon DEF SameBut
    <2>3. Enders(ending', prod', asked')
      BY <1>0, <1>t, <2>1, <2>2, EndersSame, Zenon
    <2> QED
      BY <1>b, <2>1, <2>2, <2>3, Zenon
  <1>6. ASSUME NEW c \in Producers, NEW p \in Partitions, AddPartitionsToTxn(c, p) PROVE OpenInv'
    <2>1. /\ prod[c].pc = "idle" /\ DOMAIN txns' = DOMAIN txns
          /\ txns'[Id(c)].pid = txns[Id(c)].pid
          /\ \A id \in DOMAIN txns : id # Id(c) => txns'[id] = txns[id]
          /\ prod'[c].pc = "idle" /\ prod'[c].pid = prod[c].pid /\ prod'[c].n = prod[c].n
          /\ OthersSame(prod, prod', c)
          /\ UNCHANGED <<log, ongoing, lock, ending, asked>>
      BY <1>0, <1>6, AddPartitionsToTxnEffect, Zenon DEF AddPartitionsToTxnDoes
    <2>2. Enders(ending', prod', asked')
      BY <1>0, <1>t, <2>1, EndersSame, Zenon
    <2>3. \A id \in DOMAIN txns : txns'[id].pid = txns[id].pid
      BY <2>1, Zenon
    <2> QED
      BY <1>b, <2>1, <2>2, <2>3, Zenon
  <1>7. ASSUME NEW c \in Producers, NEW committed \in BOOLEAN, EndTxn(c, committed) PROVE OpenInv'
    <2>1. /\ prod[c].pc \in {"idle", "retry"} /\ LockFree
          /\ ending' = [by |-> c, pid |-> prod[c].pid, epoch |-> prod[c].epoch,
                        committed |-> committed, todo |-> txns[Id(c)].parts, step |-> "mark"]
          /\ DOMAIN txns' = DOMAIN txns
          /\ txns'[Id(c)].pid = txns[Id(c)].pid
          /\ \A id \in DOMAIN txns : id # Id(c) => txns'[id] = txns[id]
          /\ SameBut(prod[c], prod'[c], "ending") /\ OthersSame(prod, prod', c)
          /\ asked' = asked \cup {Txn(c)}
          /\ UNCHANGED <<log, ongoing, lock>>
      BY <1>0, <1>7, EndTxnEffect, Zenon DEF EndTxnDoes
    <2>2. prod'[c].pc = "ending" /\ prod'[c].pid = prod[c].pid /\ prod'[c].n = prod[c].n
      BY <2>1, Zenon DEF SameBut
    <2>3. ending'.by = c /\ ending'.pid = prod[c].pid
      BY <2>1, Zenon
    <2>4. TxnOf(prod', c) = Txn(c)
      BY <2>2, Zenon DEF TxnOf, Txn
    <2>5. Enders(ending', prod', asked')
      <3>1. \A d \in Producers : prod'[d].pc \in {"ending", "retry"} => TxnOf(prod', d) \in asked'
        BY <1>0, <2>1, <2>4, Zenon DEF Enders, OthersSame, TxnOf
      <3> QED
        BY <2>2, <2>3, <3>1, Zenon DEF Enders
    <2>6. \A id \in DOMAIN txns : txns'[id].pid = txns[id].pid
      BY <2>1, Zenon
    <2> QED
      BY <1>b, <2>1, <2>2, <2>5, <2>6, Zenon
  <1>8. ASSUME NEW p \in Partitions, AppendMarker(p) PROVE OpenInv'
    <2>1. /\ ending.step = "mark" /\ Grown(log[p], log'[p], Marker) /\ LogsSame(log, log', p)
          /\ ending'.by = ending.by /\ ending'.pid = ending.pid
          /\ UNCHANGED <<ongoing, lock, txns, prod, asked>>
      BY <1>0, <1>8, AppendMarkerEffect, Zenon DEF AppendMarkerDoes
    <2>2. Marker.kind # "data"
      BY Zenon DEF Marker, Batch
    <2>3. ASSUME NEW q \in Partitions PROVE Placed(log'[q], ongoing'[q], prod', asked')
      BY <1>0, <1>t, <2>1, <2>2, PlacedGrows, Zenon DEF LogsSame
    <2>4. Enders(ending', prod', asked')
      BY <1>0, <2>1, Zenon DEF Enders
    <2> QED
      BY <1>0, <2>1, <2>3, <2>4, Zenon DEF OpenInv
  <1>9. ASSUME NEW p \in Partitions, MarkerFails(p) PROVE OpenInv'
    <2>1. /\ ending.step = "mark"
          /\ Grown(log[p], log'[p], Gap) /\ LogsSame(log, log', p)
          /\ ending' = NoEnd
          /\ SameBut(prod[ending.by], prod'[ending.by], "retry")
          /\ OthersSame(prod, prod', ending.by)
          /\ UNCHANGED <<ongoing, lock, txns, asked>>
      BY <1>0, <1>9, MarkerFailsEffect, Zenon DEF MarkerFailsDoes
    <2> DEFINE c == ending.by
    <2>2. /\ prod'[c].pc = "retry" /\ prod'[c].pid = prod[c].pid /\ prod'[c].n = prod[c].n
          /\ c \in Producers /\ prod[c].pc = "ending"
      BY <1>0, <1>t, <2>1, Zenon DEF SameBut, Enders
    <2>3. OthersSame(prod, prod', c)
      BY <2>1, Zenon
    <2> HIDE DEF c
    <2>4. Owners(prod', txns')
      BY <1>0, <2>1, <2>2, <2>3, OwnersSame, Zenon
    <2>5. Holders(lock', prod', ongoing')
      BY <1>0, <1>t, <2>1, <2>2, <2>3, HoldersSame, Zenon
    <2>6. Enders(ending', prod', asked')
      BY <1>0, <2>1, <2>2, <2>3, Zenon DEF Enders, OthersSame, TxnOf, NoEnd
    <2>7. Onward(prod, prod', asked)
      BY <1>t, <2>2, <2>3, OnwardSame, Zenon
    <2>b. Gap.kind # "data"
      BY Zenon DEF Gap, Batch
    <2>8. ASSUME NEW q \in Partitions PROVE Placed(log'[q], ongoing'[q], prod', asked')
      <3>1. Placed(log[q], ongoing[q], prod', asked)
        BY <1>0, <1>t, <2>7, PlacedStays, Zenon
      <3> QED
        BY <1>t, <2>1, <2>b, <3>1, PlacedGrows, Zenon DEF LogsSame
    <2> QED
      BY <1>0, <2>4, <2>5, <2>6, <2>8, Zenon DEF OpenInv
  <1>10. CASE CloseTxn
    <2> DEFINE p == ending.p
               c == ending.by
    <2>1. /\ ending.step = "close" /\ p \in Partitions
          /\ ongoing'[p] = Without(p, ending.pid) /\ LogsSame(ongoing, ongoing', p)
          /\ SameEnd(ending, ending')
          /\ UNCHANGED <<log, lock, txns, prod, asked>>
      BY <1>0, <1>10, CloseTxnEffect, Zenon DEF CloseTxnDoes
    <2>2. /\ c \in Producers /\ prod[c].pc = "ending" /\ prod[c].pid = ending.pid
          /\ TxnOf(prod, c) \in asked
      BY <1>0, <1>t, <2>1, Zenon DEF Enders
    <2>3. /\ DOMAIN ongoing'[p] = DOMAIN ongoing[p] \ {ending.pid}
          /\ \A x \in DOMAIN ongoing[p] \ {ending.pid} : ongoing'[p][x] = ongoing[p][x]
      <3>1. /\ DOMAIN Without(p, ending.pid) = DOMAIN ongoing[p] \ {ending.pid}
            /\ \A x \in DOMAIN ongoing[p] \ {ending.pid} :
                   Without(p, ending.pid)[x] = ongoing[p][x]
        BY <1>0, <2>1, WithoutPids, Zenon
      <3> HIDE DEF p
      <3> QED
        BY <2>1, <3>1, Zenon
    <2>4. Enders(ending', prod', asked')
      BY <1>0, <2>1, <2>2, Zenon DEF Enders, SameEnd
    <2> HIDE DEF p, c
    <2>5. ASSUME NEW q \in Partitions, lock[q] # None
          PROVE  lock[q] \in Producers /\ prod[lock[q]].pid # ending.pid
      <3>1. lock[q] \in Producers /\ prod[lock[q]].pc = "producing"
        <4>1. lock[q] \in Producers \cup {None}
          BY <1>t, Zenon
        <4>2. prod[lock[q]].pc = "producing"
          BY <1>0, <2>5, Zenon DEF Holders
        <4> QED
          BY <2>5, <4>1, <4>2, Zenon
      <3>2. prod[lock[q]].pid = ending.pid => lock[q] = c
        BY <1>0, <2>2, <3>1, Zenon DEF Owners
      <3> QED
        BY <2>2, <3>1, <3>2, Zenon
    <2>6. Holders(lock', prod', ongoing')
      BY <1>0, <2>1, <2>3, <2>5, Zenon DEF Holders, LogsSame
    <2>7. ASSUME NEW i \in 1 .. Len(log[p]), log[p][i].kind = "data", log[p][i].pid = ending.pid
          PROVE  log[p][i].txn \in asked
      <3> DEFINE b == log[p][i]
      <3>1. Attributed(b, prod, asked)
        BY <1>0, <2>1, <2>7, Zenon DEF Placed
      <3> HIDE DEF b
      <3>2. b.txn.who = c
        BY <1>0, <2>2, <2>7, <3>1, Zenon DEF Attributed, Owners, b
      <3>3. b.txn.n = prod[c].n => b.txn = TxnOf(prod, c)
        BY <3>1, <3>2, Zenon DEF Attributed, TxnOf
      <3>4. prod[c].n \in Nat
        BY <1>t, <2>2, Zenon DEF Clients
      <3>5. b.txn \in asked
        <4>1. /\ b.txn.n \in Nat /\ b.txn.n <= prod[c].n
              /\ b.txn.n < prod[c].n => b.txn \in asked
          BY <3>1, <3>2, Zenon DEF Attributed
        <4>2. b.txn.n = prod[c].n \/ b.txn.n < prod[c].n
          BY <3>4, <4>1
        <4> QED
          BY <2>2, <3>3, <4>1, <4>2, Zenon
      <3> QED
        BY <3>5, Zenon DEF b
    <2>8. ASSUME NEW q \in Partitions PROVE Placed(log'[q], ongoing'[q], prod', asked')
      <3>1. CASE q = p
        <4>1. Placed(log[p], ongoing[p], prod, asked) /\ log[p] \in Seq(Batches)
          BY <1>0, <1>t, <2>1, Zenon
        <4>2. Placed(log[p], ongoing'[p], prod, asked)
          BY <2>3, <2>7, <4>1, PlacedWithout, Zenon
        <4> QED
          BY <2>1, <3>1, <4>2, Zenon
      <3>2. CASE q # p
        BY <1>0, <2>1, <3>2, Zenon DEF LogsSame
      <3> QED
        BY <3>1, <3>2, Zenon
    <2> QED
      BY <1>0, <2>1, <2>4, <2>6, <2>8, Zenon DEF OpenInv
  <1>11. CASE PushAborted
    <2>1. /\ ending.step = "push" /\ SameEnd(ending, ending')
          /\ UNCHANGED <<log, ongoing, lock, txns, prod, asked>>
      BY <1>0, <1>11, PushAbortedEffect, Zenon DEF PushAbortedDoes
    <2>2. Enders(ending', prod', asked')
      BY <1>0, <2>1, Zenon DEF Enders, SameEnd
    <2> QED
      BY <1>0, <2>1, <2>2, Zenon DEF OpenInv
  <1>12. CASE FinishEndTxn
    <2> DEFINE c == ending.by
    <2>1. Id(ending.by) \in DOMAIN txns
      BY <1>0, <1>12, Zenon DEF FenceInv, EndsCurrent, FinishEndTxn, AllMarked
    <2>2. /\ ending.step = "mark" /\ ending' = NoEnd
          /\ DOMAIN txns' = DOMAIN txns
          /\ \A id \in DOMAIN txns : txns'[id].pid = txns[id].pid
          /\ prod'[c].pc = "idle" /\ prod'[c].pid = prod[c].pid /\ prod'[c].n = prod[c].n + 1
          /\ OthersSame(prod, prod', c)
          /\ UNCHANGED <<log, ongoing, lock, asked>>
      BY <1>0, <1>12, <2>1, FinishEndTxnEffect, Zenon DEF FinishEndTxnDoes
    <2>3. c \in Producers /\ prod[c].pc = "ending" /\ TxnOf(prod, c) \in asked
      BY <1>0, <1>t, <2>2, Zenon DEF Enders
    <2> HIDE DEF c
    <2>4. Owners(prod', txns')
      BY <1>0, <2>2, <2>3, OwnersSame, Zenon
    <2>5. Holders(lock', prod', ongoing')
      BY <1>0, <1>t, <2>2, <2>3, HoldersSame, Zenon
    <2>6. Enders(ending', prod', asked')
      BY <1>0, <2>2, <2>3, Zenon DEF Enders, OthersSame, TxnOf, NoEnd
    <2>7. Onward(prod, prod', asked)
      BY <2>2, <2>3, Zenon DEF Onward, OthersSame
    <2>8. ASSUME NEW q \in Partitions PROVE Placed(log'[q], ongoing'[q], prod', asked')
      BY <1>0, <1>t, <2>2, <2>7, PlacedStays, Zenon
    <2> QED
      BY <1>0, <2>4, <2>5, <2>6, <2>8, Zenon DEF OpenInv
  <1>13. CASE UNCHANGED <<log, ongoing, lock, txns, nextPid, ending, prod, asked, answered>>
    BY <1>0, <1>13, Zenon DEF OpenInv
  <1>14. ASSUME NEW f \in Fetchers,
                \/ \E p \in Partitions, iso \in Isolations : FetchRecords(f, p, iso)
                \/ FetchAborted(f) \/ FetchRespond(f) \/ FetchDone(f)
         PROVE  OpenInv'
    BY <1>13, <1>14, OtherStep, Zenon
  <1>15. CASE UNCHANGED vars
    BY <1>13, <1>15, Zenon DEF vars, parts, coord
  <1> QED
    BY <1>1, <1>2, <1>3, <1>4, <1>5, <1>6, <1>7, <1>8, <1>9, <1>10, <1>11, <1>12, <1>14, <1>15, Zenon
    DEF Next, EndTxnStep

=============================================================================
