---------------------------- MODULE Transactions ----------------------------
(***************************************************************************)
(* Transactional produce and read-committed fetch: the transaction         *)
(* coordinator (crates/oxidemq-broker/src/transaction.rs), the partitions  *)
(* it writes control batches to (partition.rs), and the Produce and Fetch  *)
(* arms of the request handler (handler.rs), with producers that restart,  *)
(* share a transactional id, and retry.                                    *)
(*                                                                         *)
(* A partition's log is a sequence of one-record batches; the batch at     *)
(* index i has offset i - 1.  A failed append consumes its offset          *)
(* (stream.rs:90) and is a batch of kind "gap".  A batch carries a ghost   *)
(* field txn: the transaction its producer wrote it in.                    *)
(*                                                                         *)
(* A definition D_Variant, just before D, is D with a plausible mistake;   *)
(* it is not part of the specification and shows that a property bites.    *)
(***************************************************************************)
EXTENDS Naturals, Sequences, FiniteSets, FiniteSetsExt

CONSTANTS
    Producers,   \* transactional producer clients
    Partitions,  \* topic partitions
    Fetchers,    \* connections that fetch
    Isolations,  \* isolation levels they ask for: 0 uncommitted, 1 committed
    SharedId,    \* do all producers use one transactional id?
    MaxBatches,  \* bound: data, plain and failed batches per partition
    MaxTxns,     \* bound: transactions a producer starts
    MaxEpoch,    \* bound: re-initialisations of a transactional id
    MaxFaults    \* bound: appends that fail

ASSUME ConstantsAssumption ==
    /\ SharedId \in BOOLEAN
    /\ Isolations \subseteq {0, 1}
    /\ {MaxBatches, MaxTxns, MaxEpoch, MaxFaults} \subseteq Nat

VARIABLES
    log,       \* partition -> the batches of its stream
    ongoing,   \* partition -> ongoing_txns: pid -> first offset
    aborted,   \* partition -> aborted_txns, in push order
    lock,      \* partition -> producer whose append holds append_lock, or None
    txns,      \* TransactionCoordinator.transactions
    nextPid,   \* next_producer_id
    ending,    \* the end_txn call that holds transactions.write(), or NoEnd
    prod,      \* each producer client
    fetch,     \* each fetching connection
    faults,    \* appends that have failed
    asked,     \* history: transactions whose EndTxn was accepted
    answered   \* history: <<transaction, committed>> whose EndTxn returned Ok

parts == <<log, ongoing, aborted, lock>>
coord == <<txns, nextPid, ending>>
vars == <<parts, coord, prod, fetch, faults, asked, answered>>

None == "none"

ASSUME NoneAssumption == None \notin Producers

NoEnd == [step |-> "none"]
Id(c) == IF SharedId THEN "shared" ELSE c
Ids == {Id(c) : c \in Producers}

Txn(c) == [who |-> c, n |-> prod[c].n]
Batch(kind, pid, epoch, txn) ==
    [kind |-> kind, pid |-> pid, epoch |-> epoch, txn |-> txn]

(* pid -1 and no transaction: a batch of a non-transactional producer. *)
Plain == Batch("plain", 0, 0, None)
Gap == Batch("gap", 0, 0, None)

HighWatermark(p) == Len(log[p])

LastStableOffset_Max(p) ==
    IF DOMAIN ongoing[p] = {} THEN HighWatermark(p)
    ELSE Max({ongoing[p][pid] : pid \in DOMAIN ongoing[p]})

LastStableOffset(p) ==
    Min({HighWatermark(p)} \cup {ongoing[p][pid] : pid \in DOMAIN ongoing[p]})

Init ==
    /\ log = [p \in Partitions |-> << >>]
    /\ ongoing = [p \in Partitions |-> << >>]
    /\ aborted = [p \in Partitions |-> << >>]
    /\ lock = [p \in Partitions |-> None]
    /\ txns = << >>
    /\ nextPid = 1000
    /\ ending = NoEnd
    /\ prod = [c \in Producers |-> [pc |-> "new", pid |-> 0, epoch |-> 0,
                                    parts |-> {}, n |-> 0, committed |-> FALSE]]
    /\ fetch = [f \in Fetchers |-> [pc |-> "idle"]]
    /\ faults = 0
    /\ asked = {}
    /\ answered = {}

-----------------------------------------------------------------------------
(* Partition.                                                              *)

DataBatches(p) ==
    Cardinality({i \in DOMAIN log[p] : log[p][i].kind \in {"data", "plain", "gap"}})

(* stream.append_with_count: the offset is taken first, then the WAL may   *)
(* refuse the record.                                                      *)
AppendTo(p, batch) == log' = [log EXCEPT ![p] = Append(@, batch)]

FailAppend(p) ==
    /\ faults < MaxFaults
    /\ faults' = faults + 1
    /\ AppendTo(p, Gap)

(* ongoing_txns.entry(pid).or_insert(base_offset) *)
Registered_Overwrites(p, pid) ==
    [x \in DOMAIN ongoing[p] \cup {pid} |->
        IF x = pid THEN HighWatermark(p) ELSE ongoing[p][x]]

Registered_OneTooLow(p, pid) ==
    [x \in DOMAIN ongoing[p] \cup {pid} |->
        IF x \in DOMAIN ongoing[p] THEN ongoing[p][x]
        ELSE IF HighWatermark(p) = 0 THEN 0 ELSE HighWatermark(p) - 1]

Registered(p, pid) ==
    [x \in DOMAIN ongoing[p] \cup {pid} |->
        IF x \in DOMAIN ongoing[p] THEN ongoing[p][x] ELSE HighWatermark(p)]

Without_Kept(p, pid) == ongoing[p]

Without(p, pid) == [x \in DOMAIN ongoing[p] \ {pid} |-> ongoing[p][x]]

(***************************************************************************)
(* A Produce request with a transactional batch, to a partition its client *)
(* has added to the transaction: append_records takes append_lock, makes   *)
(* the transaction known, and only then appends.                           *)
(***************************************************************************)
ProduceBegin(c, p) ==
    /\ prod[c].pc = "idle"
    /\ p \in prod[c].parts
    /\ lock[p] = None
    /\ DataBatches(p) < MaxBatches
    /\ lock' = [lock EXCEPT ![p] = c]
    /\ ongoing' = [ongoing EXCEPT ![p] = Registered(p, prod[c].pid)]
    /\ prod' = [prod EXCEPT ![c].pc = "producing"]
    /\ UNCHANGED <<log, aborted, coord, fetch, faults, asked, answered>>

ReleaseAfter_LeakedOnError(p) ==
    lock' = IF faults' # faults THEN lock ELSE [lock EXCEPT ![p] = None]

(* The guard of append_lock is dropped on success and on error alike. *)
ReleaseAfter(p) == lock' = [lock EXCEPT ![p] = None]

ProduceAppend(c, p) ==
    /\ prod[c].pc = "producing"
    /\ lock[p] = c
    /\ \/ /\ AppendTo(p, Batch("data", prod[c].pid, prod[c].epoch, Txn(c)))
          /\ UNCHANGED faults
       \/ FailAppend(p)
    /\ ReleaseAfter(p)
    /\ prod' = [prod EXCEPT ![c].pc = "idle"]
    /\ UNCHANGED <<ongoing, aborted, coord, fetch, asked, answered>>

ProducePlain(p) ==
    /\ lock[p] = None
    /\ DataBatches(p) < MaxBatches
    /\ \/ AppendTo(p, Plain) /\ UNCHANGED faults
       \/ FailAppend(p)
    /\ UNCHANGED <<ongoing, aborted, lock, coord, prod, fetch, asked, answered>>

-----------------------------------------------------------------------------
(* TransactionCoordinator.  Every call runs under transactions.write(),    *)
(* which an end_txn in progress holds.                                     *)

LockFree == ending.step = "none"

(* init_producer_id(Some(tx_id)): a new id, or the next epoch of a known   *)
(* one.  A producer calls it when it starts, also after it died.           *)
Reinitialised(id) ==
    [txns[id] EXCEPT !.epoch = @ + 1, !.parts = {}, !.state = "Empty"]

InitProducerId(c) ==
    /\ prod[c].pc \in {"new", "idle", "retry"}
    /\ LockFree
    /\ \/ /\ Id(c) \in DOMAIN txns
          /\ txns[Id(c)].epoch < MaxEpoch
          /\ txns' = [txns EXCEPT ![Id(c)] = Reinitialised(Id(c))]
          /\ UNCHANGED nextPid
       \/ /\ Id(c) \notin DOMAIN txns
          /\ txns' = [id \in DOMAIN txns \cup {Id(c)} |->
                         IF id = Id(c)
                         THEN [pid |-> nextPid, epoch |-> 0, state |-> "Empty",
                               parts |-> {}]
                         ELSE txns[id]]
          /\ nextPid' = nextPid + 1
    /\ prod' = [prod EXCEPT ![c] =
           [pc |-> "idle", pid |-> txns'[Id(c)].pid, epoch |-> txns'[Id(c)].epoch,
            parts |-> {}, n |-> IF prod[c].pc = "new" THEN 0 ELSE @.n + 1,
            committed |-> FALSE]]
    /\ UNCHANGED <<parts, ending, fetch, faults, asked, answered>>

Accepts_AnyEpoch(c) ==
    /\ Id(c) \in DOMAIN txns
    /\ txns[Id(c)].pid = prod[c].pid

(* The checks add_partitions_to_txn, add_offsets_to_txn and end_txn start  *)
(* with: the id's producer, at its current epoch.                          *)
Accepts(c) ==
    /\ Id(c) \in DOMAIN txns
    /\ txns[Id(c)].pid = prod[c].pid
    /\ txns[Id(c)].epoch = prod[c].epoch

(* A fenced producer gives up. *)
Fenced(c) ==
    /\ prod[c].pc \in {"idle", "retry"}
    /\ LockFree
    /\ ~Accepts(c)
    /\ prod' = [prod EXCEPT ![c].pc = "fenced"]
    /\ UNCHANGED <<parts, coord, fetch, faults, asked, answered>>

AddPartitionsToTxn(c, p) ==
    /\ prod[c].pc = "idle"
    /\ prod[c].n < MaxTxns
    /\ p \notin prod[c].parts
    /\ LockFree
    /\ Accepts(c)
    /\ txns' = [txns EXCEPT ![Id(c)].state = "Ongoing", ![Id(c)].parts = @ \cup {p}]
    /\ prod' = [prod EXCEPT ![c].parts = @ \cup {p}]
    /\ UNCHANGED <<parts, nextPid, ending, fetch, faults, asked, answered>>

(***************************************************************************)
(* end_txn drains the id's partitions, then appends a control batch to     *)
(* each in the order the hash set yields them, and closes the transaction  *)
(* there.  A failed append ends the call at once.                          *)
(***************************************************************************)
EndTxn(c, committed) ==
    /\ \/ prod[c].pc = "idle" /\ prod[c].parts # {}
       \/ prod[c].pc = "retry" /\ committed = prod[c].committed
    /\ LockFree
    /\ Accepts(c)
    /\ ending' = [by |-> c, pid |-> prod[c].pid, epoch |-> prod[c].epoch,
                  committed |-> committed, todo |-> txns[Id(c)].parts,
                  step |-> "mark"]
    /\ txns' = [txns EXCEPT ![Id(c)].parts = {},
                            ![Id(c)].state = IF committed THEN "PrepareCommit"
                                                          ELSE "PrepareAbort"]
    /\ prod' = [prod EXCEPT ![c].pc = "ending", ![c].committed = committed]
    /\ asked' = asked \cup {Txn(c)}
    /\ UNCHANGED <<parts, nextPid, fetch, faults, answered>>

Marker == Batch(IF ending.committed THEN "commit" ELSE "abort", ending.pid,
                ending.epoch, Txn(ending.by))

AppendMarker(p) ==
    /\ ending.step = "mark"
    /\ p \in ending.todo
    /\ lock[p] = None
    /\ AppendTo(p, Marker)
    /\ ending' = [by |-> ending.by, pid |-> ending.pid, epoch |-> ending.epoch,
                  committed |-> ending.committed, todo |-> ending.todo \ {p},
                  step |-> "close", p |-> p, first |-> HighWatermark(p)]
    /\ UNCHANGED <<ongoing, aborted, lock, txns, nextPid, prod, fetch, faults,
                   asked, answered>>

(* map_err(UnknownServer)?: the partitions still to do are forgotten. *)
MarkerFails(p) ==
    /\ ending.step = "mark"
    /\ p \in ending.todo
    /\ lock[p] = None
    /\ FailAppend(p)
    /\ ending' = NoEnd
    /\ prod' = [prod EXCEPT ![ending.by].pc = "retry"]
    /\ UNCHANGED <<ongoing, aborted, lock, txns, nextPid, fetch, asked, answered>>

(* complete_txn, or the first half of record_aborted_txn *)
CloseTxn ==
    /\ ending.step = "close"
    /\ LET p == ending.p
       IN  /\ ongoing' = [ongoing EXCEPT ![p] = Without(p, ending.pid)]
           /\ ending' = [ending EXCEPT
                  !.step = IF ending.committed THEN "mark" ELSE "push",
                  !.first = IF ending.pid \in DOMAIN ongoing[p]
                            THEN ongoing[p][ending.pid] ELSE @]
    /\ UNCHANGED <<log, aborted, lock, txns, nextPid, prod, fetch, faults,
                   asked, answered>>

(* record_aborted_txn: aborted_txns.write().push(...) *)
PushAborted ==
    /\ ending.step = "push"
    /\ aborted' = [aborted EXCEPT ![ending.p] =
                      Append(@, [pid |-> ending.pid, first |-> ending.first])]
    /\ ending' = [ending EXCEPT !.step = "mark"]
    /\ UNCHANGED <<log, ongoing, lock, txns, nextPid, prod, fetch, faults,
                   asked, answered>>

AllMarked_Early == ending.step = "mark"

AllMarked == ending.step = "mark" /\ ending.todo = {}

FinishEndTxn ==
    /\ AllMarked
    /\ txns' = [txns EXCEPT ![Id(ending.by)].state = "Empty"]
    /\ ending' = NoEnd
    /\ answered' = answered \cup {<<Txn(ending.by), ending.committed>>}
    /\ prod' = [prod EXCEPT ![ending.by].pc = "idle", ![ending.by].parts = {},
                            ![ending.by].n = @ + 1]
    /\ UNCHANGED <<parts, nextPid, fetch, faults, asked>>

-----------------------------------------------------------------------------
(***************************************************************************)
(* Fetch from the start of the log: the batches first, then the aborted    *)
(* transactions, then the last stable offset, then the filter.             *)
(***************************************************************************)
FetchRecords(f, p, iso) ==
    /\ fetch[f].pc = "idle"
    /\ fetch' = [fetch EXCEPT ![f] =
                    [pc |-> "read", p |-> p, iso |-> iso, upto |-> HighWatermark(p)]]
    /\ UNCHANGED <<parts, coord, prod, faults, asked, answered>>

FetchAborted(f) ==
    /\ fetch[f].pc = "read"
    /\ LET p == fetch[f].p
       IN  fetch' = [fetch EXCEPT ![f] =
               [pc |-> "aborted", p |-> p, iso |-> @.iso, upto |-> @.upto,
                pids |-> {aborted[p][i].pid : i \in DOMAIN aborted[p]}]]
    /\ UNCHANGED <<parts, coord, prod, faults, asked, answered>>

Exposed(p, iso, upto, pids, lso) ==
    {i \in 1..upto :
        /\ log[p][i].kind \in {"data", "plain"}
        /\ iso = 1 =>
              /\ i - 1 < lso
              /\ ~(log[p][i].kind = "data" /\ log[p][i].pid \in pids)}

FetchRespond(f) ==
    /\ fetch[f].pc = "aborted"
    /\ LET p == fetch[f].p
       IN  fetch' = [fetch EXCEPT ![f] =
               [pc |-> "answer", p |-> p, iso |-> @.iso,
                out |-> Exposed(p, @.iso, @.upto, @.pids, LastStableOffset(p))]]
    /\ UNCHANGED <<parts, coord, prod, faults, asked, answered>>

FetchDone(f) ==
    /\ fetch[f].pc = "answer"
    /\ fetch' = [fetch EXCEPT ![f] = [pc |-> "idle"]]
    /\ UNCHANGED <<parts, coord, prod, faults, asked, answered>>

-----------------------------------------------------------------------------
EndTxnStep ==
    \/ \E p \in Partitions : AppendMarker(p) \/ MarkerFails(p)
    \/ CloseTxn
    \/ PushAborted
    \/ FinishEndTxn

Next ==
    \/ \E c \in Producers, p \in Partitions :
           ProduceBegin(c, p) \/ ProduceAppend(c, p) \/ AddPartitionsToTxn(c, p)
    \/ \E p \in Partitions : ProducePlain(p)
    \/ \E c \in Producers : InitProducerId(c) \/ Fenced(c)
    \/ \E c \in Producers, committed \in BOOLEAN : EndTxn(c, committed)
    \/ EndTxnStep
    \/ \E f \in Fetchers, p \in Partitions, iso \in Isolations : FetchRecords(f, p, iso)
    \/ \E f \in Fetchers : FetchAborted(f) \/ FetchRespond(f) \/ FetchDone(f)

(* Handlers run to completion on the runtime's threads; clients need not   *)
(* send anything.                                                          *)
Fairness ==
    /\ WF_vars(EndTxnStep)
    /\ \A c \in Producers, p \in Partitions : WF_vars(ProduceAppend(c, p))

Spec == Init /\ [][Next]_vars /\ Fairness

-----------------------------------------------------------------------------
(* Properties.                                                             *)

Kinds == {"data", "plain", "gap", "commit", "abort"}
IsMarker(b) == b.kind \in {"commit", "abort"}
Data(p) == {i \in DOMAIN log[p] : log[p][i].kind = "data"}

(* The control batches that follow batch i and are of its producer. *)
MarkersAfter(p, i) ==
    {j \in DOMAIN log[p] : j > i /\ IsMarker(log[p][j]) /\ log[p][j].pid = log[p][i].pid}

(* What the log says of batch i: the first control batch of its producer   *)
(* that follows it.                                                        *)
Outcome(p, i) ==
    IF MarkersAfter(p, i) = {} THEN "open" ELSE log[p][Min(MarkersAfter(p, i))].kind

(* The fields of every variable hold what the code's types allow, and a    *)
(* partition's append_lock is held by the producer that is producing.      *)
TypeOK ==
    /\ \A p \in Partitions :
           /\ \A i \in DOMAIN log[p] :
                  log[p][i].kind \in Kinds /\ log[p][i].pid \in 0..nextPid
           /\ DOMAIN ongoing[p] \subseteq 1000..(nextPid - 1)
           /\ \A pid \in DOMAIN ongoing[p] : ongoing[p][pid] \in 0..HighWatermark(p)
           /\ \A i \in DOMAIN aborted[p] :
                  /\ aborted[p][i].pid \in 1000..(nextPid - 1)
                  /\ aborted[p][i].first \in 0..HighWatermark(p)
           /\ lock[p] # None => prod[lock[p]].pc = "producing"
    /\ DOMAIN txns \subseteq Ids
    /\ \A id \in DOMAIN txns :
           /\ txns[id].pid \in 1000..(nextPid - 1)
           /\ txns[id].epoch \in 0..MaxEpoch
           /\ txns[id].state \in {"Empty", "Ongoing", "PrepareCommit", "PrepareAbort"}
           /\ txns[id].parts \subseteq Partitions
    /\ ~LockFree => prod[ending.by].pc = "ending"
    /\ \A f \in Fetchers : fetch[f].pc \in {"idle", "read", "aborted", "answer"}
    /\ faults \in 0..MaxFaults

(* last_stable_offset: the LSO is at or below every batch of a transaction *)
(* that has not been asked to end.                                         *)
LsoBelowOpen ==
    \A p \in Partitions : \A i \in Data(p) :
        log[p][i].txn \notin asked => LastStableOffset(p) <= i - 1

(* handler.rs, Fetch: "Fetch with ReadCommitted before EndTxn: should      *)
(* receive NOTHING (uncommitted!)".                                        *)
NothingBeforeEndTxn ==
    \A f \in Fetchers : fetch[f].pc = "answer" /\ fetch[f].iso = 1 =>
        \A i \in fetch[f].out \cap Data(fetch[f].p) :
            log[fetch[f].p][i].txn \in asked

(* handler.rs, Fetch: "Do not expose messages from aborted transactions".  *)
AbortedNeverExposed ==
    \A f \in Fetchers : fetch[f].pc = "answer" /\ fetch[f].iso = 1 =>
        \A i \in fetch[f].out \cap Data(fetch[f].p) :
            Outcome(fetch[f].p, i) # "abort"

(* handler.rs, Fetch: "Fetch with ReadCommitted AFTER Commit: now returns  *)
(* the message!": a batch of a committed transaction that was read and is  *)
(* below the LSO when the answer is built is in the answer.                *)
CommittedExposed ==
    \A f \in Fetchers : fetch[f].pc = "aborted" =>
        LET p == fetch[f].p
            lso == LastStableOffset(p)
        IN  \A i \in 1..fetch[f].upto \cap Data(p) :
                /\ <<log[p][i].txn, TRUE>> \in answered
                /\ i - 1 < lso
                => i \in Exposed(p, 1, fetch[f].upto, fetch[f].pids, lso)

(* end_txn: "Injects COMMIT or ABORT control batches into all registered   *)
(* partitions": once EndTxn has returned Ok, every batch of the            *)
(* transaction is decided in its log, and as the request said.             *)
AnsweredIsMarked ==
    \A p \in Partitions : \A i \in Data(p) : \A committed \in BOOLEAN :
        <<log[p][i].txn, committed>> \in answered =>
            Outcome(p, i) = IF committed THEN "commit" ELSE "abort"

(* When no producer has a transaction open, nothing holds the LSO back:    *)
(* read-committed consumers reach the end of every partition.              *)
QuiescentLso ==
    /\ ending = NoEnd
    /\ \A c \in Producers : prod[c].pc \in {"new", "idle"} /\ prod[c].parts = {}
    => \A p \in Partitions : LastStableOffset(p) = HighWatermark(p)

(* Fencing: end_txn holds the coordinator's lock from its epoch check to   *)
(* its last control batch, so the control batches of a producer id appear  *)
(* in every log in epoch order.                                            *)
MarkerEpochsOrdered ==
    \A p \in Partitions : \A i \in DOMAIN log[p] : \A j \in MarkersAfter(p, i) :
        IsMarker(log[p][i]) => log[p][i].epoch <= log[p][j].epoch

(* last_stable_offset never moves back, whatever fails or restarts: a      *)
(* consumer that was shown an LSO finds it stable.                         *)
LsoMonotonic ==
    [][\A p \in Partitions : LastStableOffset(p)' >= LastStableOffset(p)]_vars

(* Every EndTxn request is answered: the coordinator's lock is not held    *)
(* forever while the appends it waits for come and go.                     *)
EndTxnAnswered == (ending # NoEnd) ~> (ending = NoEnd)

=============================================================================
