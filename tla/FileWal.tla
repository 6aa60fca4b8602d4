------------------------------- MODULE FileWal -------------------------------
(***************************************************************************)
(* The file-backed write-ahead log of crates/oxidemq-wal: callers of       *)
(* append, flush and trim, the group-commit worker thread, the segment     *)
(* files with their page cache, crashes, and recovery at the next open.    *)
(*                                                                         *)
(* A stored record is [seq, req]: `req' numbers the append calls and       *)
(* stands for stream, offset and payload.  A torn record (bytes that do    *)
(* not decode, frame.rs:59-107) is the item Torn.  A segment file is the   *)
(* sequence of the items written to it, of which the first durable[b] are  *)
(* on the medium and the rest only in the page cache.                      *)
(*                                                                         *)
(* A definition D_Variant, just before D, is D with a plausible mistake;   *)
(* it is not part of the specification and shows that a property bites.    *)
(***************************************************************************)
EXTENDS Naturals, Sequences, FiniteSets

CONSTANTS
    Clients,      \* threads that call the WalEngine
    MaxBatch,     \* WalConfig.max_batch_records
    MaxSegment,   \* WalConfig.max_segment_size_bytes, counted in records
    SyncToDisk,   \* WalConfig.sync_to_disk
    Faults,       \* I/O calls that may fail: a subset of IoCalls
    PurgePoints,  \* the min_seq values the owner may pass to a purge
    MaxAppends,   \* bound: append calls in a behaviour
    MaxCrashes    \* bound: crashes and shutdowns in a behaviour

IoCalls == {"write", "sync", "create"}

ASSUME ConstantsAssumption ==
    /\ MaxBatch \in Nat \ {0}
    /\ MaxSegment \in Nat \ {0}
    /\ SyncToDisk \in BOOLEAN
    /\ Faults \subseteq IoCalls
    /\ PurgePoints \subseteq Nat
    /\ MaxAppends \in Nat
    /\ MaxCrashes \in Nat

VARIABLES
    files,     \* base_seq -> items of that segment file, as the OS shows them
    durable,   \* base_seq -> how many of them are on the medium
    pc,        \* where the worker is; "down" when no process runs
    queue,     \* the worker's channel
    batch,     \* the appends drained from the channel
    pending,   \* the batch's records, sequenced and encoded
    failed,    \* final_err of the batch is Some
    active,    \* base_seq of the segment the worker writes
    size,      \* WalSegment.size of that segment
    nextSeq,   \* next_seq
    calls,     \* the call each client is blocked in, or "none"
    appends,   \* append calls made so far; numbers the requests
    crashes,   \* crashes and shutdowns so far
    acked,     \* history: the records answered with Ok(seq)
    flushed    \* history: records acknowledged before some flush answered Ok

disk == <<files, durable>>
worker == <<pc, queue, batch, pending, failed, active, size, nextSeq>>
history == <<acked, flushed>>
vars == <<disk, worker, calls, appends, crashes, history>>

Torn == [seq |-> 0, req |-> 0]
Items == [seq : Nat, req : Nat]
Messages == [op : {"append", "flush", "trim"}, client : Clients, req : Nat]

(***************************************************************************)
(* What a scan of a segment finds: the records before the first item that  *)
(* does not decode.  Recovery, and read_stream, stop there.                *)
(***************************************************************************)
Valid(items, i) == i \in DOMAIN items /\ \A j \in 1..i : items[j] # Torn

ValidLength(items) ==
    CHOOSE n \in 0..Len(items) :
        /\ \A j \in 1..n : items[j] # Torn
        /\ n < Len(items) => items[n + 1] = Torn

Readable ==
    UNION {{files[b][i] : i \in {j \in DOMAIN files[b] : Valid(files[b], j)}}
              : b \in DOMAIN files}

BatchDone_KeepsBatch == UNCHANGED batch /\ pending' = << >> /\ failed' = FALSE

BatchDone == batch' = << >> /\ pending' = << >> /\ failed' = FALSE

Init ==
    /\ files = << >>
    /\ durable = << >>
    /\ pc = "down"
    /\ queue = << >>
    /\ batch = << >>
    /\ pending = << >>
    /\ failed = FALSE
    /\ active = 0
    /\ size = 0
    /\ nextSeq = 0
    /\ calls = [c \in Clients |-> "none"]
    /\ appends = 0
    /\ crashes = 0
    /\ acked = {}
    /\ flushed = {}

(***************************************************************************)
(* FileWal::open: scan every segment in base order, cut each after its     *)
(* valid records (truncate also syncs), continue the sequence after the    *)
(* highest one found, and append to the segment with the highest base, or  *)
(* create one when there is none.                                          *)
(***************************************************************************)
RecoveredFile_Empties(b) ==
    IF ValidLength(files[b]) < Len(files[b]) THEN << >> ELSE files[b]

RecoveredFile(b) == SubSeq(files[b], 1, ValidLength(files[b]))

RecoveredDurable_Unchanged(b) == durable[b]

RecoveredDurable(b) ==
    IF ValidLength(files[b]) < Len(files[b]) THEN ValidLength(files[b])
                                             ELSE durable[b]

InitActiveSegment(startSeq) ==
    IF DOMAIN files = {}
    THEN /\ active' = startSeq
         /\ files' = [b \in {startSeq} |-> << >>]
         /\ durable' = [b \in {startSeq} |-> 0]
         /\ size' = 0
    ELSE /\ \E top \in DOMAIN files :
               /\ \A b \in DOMAIN files : b <= top
               /\ active' = top
               /\ size' = ValidLength(files[top])
         /\ files' = [b \in DOMAIN files |-> RecoveredFile(b)]
         /\ durable' = [b \in DOMAIN files |-> RecoveredDurable(b)]

StartSeq_Highest(highest) == highest

StartSeq(highest) == highest + 1

Open ==
    /\ pc = "down"
    /\ \E highest \in {0} \cup {r.seq : r \in Readable} :
           /\ \A r \in Readable : r.seq <= highest
           /\ nextSeq' = StartSeq(highest)
           /\ InitActiveSegment(StartSeq(highest))
    /\ pc' = "recv"
    /\ UNCHANGED <<queue, batch, pending, failed, calls, appends, crashes,
                   history>>

(***************************************************************************)
(* A caller sends its message and blocks on the response channel.          *)
(***************************************************************************)
Call(c, op) ==
    /\ pc # "down"
    /\ calls[c] = "none"
    /\ op = "append" => appends < MaxAppends
    /\ appends' = IF op = "append" THEN appends + 1 ELSE appends
    /\ queue' = Append(queue, [op |-> op, client |-> c, req |-> appends'])
    /\ calls' = [calls EXCEPT ![c] = op]
    /\ UNCHANGED <<disk, pc, batch, pending, failed, active, size, nextSeq,
                   crashes, history>>

Answer(cs) == calls' = [c \in Clients |-> IF c \in cs THEN "none" ELSE calls[c]]

(***************************************************************************)
(* segment.sync(): everything written to the active segment reaches the    *)
(* medium, unless the segment file has been removed meanwhile.             *)
(***************************************************************************)
SyncActive ==
    durable' = [b \in DOMAIN durable |->
                   IF b = active THEN Len(files[b]) ELSE durable[b]]

(***************************************************************************)
(* Flush and Trim are answered where the worker meets them, also between   *)
(* two appends of the batch it is collecting.                              *)
(***************************************************************************)
AnswerFlush ==
    /\ pc \in {"recv", "drain"}
    /\ pc = "drain" => Len(batch) < MaxBatch
    /\ queue # << >>
    /\ Head(queue).op = "flush"
    /\ queue' = Tail(queue)
    /\ Answer({Head(queue).client})
    /\ \/ /\ SyncActive
          /\ flushed' = flushed \cup acked
       \/ /\ "sync" \in Faults
          /\ UNCHANGED <<durable, flushed>>
    /\ UNCHANGED <<files, pc, batch, pending, failed, active, size, nextSeq,
                   appends, crashes, acked>>

AnswerTrim ==
    /\ pc \in {"recv", "drain"}
    /\ pc = "drain" => Len(batch) < MaxBatch
    /\ queue # << >>
    /\ Head(queue).op = "trim"
    /\ queue' = Tail(queue)
    /\ Answer({Head(queue).client})
    /\ UNCHANGED <<disk, pc, batch, pending, failed, active, size, nextSeq,
                   appends, crashes, history>>

(***************************************************************************)
(* The first append opens a batch; the two drain loops add the appends     *)
(* that have arrived, those of the commit window included.                 *)
(***************************************************************************)
TakeAppend ==
    /\ pc \in {"recv", "drain"}
    /\ Len(batch) < MaxBatch
    /\ queue # << >>
    /\ Head(queue).op = "append"
    /\ batch' = Append(batch, Head(queue))
    /\ queue' = Tail(queue)
    /\ pc' = "drain"
    /\ UNCHANGED <<disk, pending, failed, active, size, nextSeq, calls,
                   appends, crashes, history>>

(***************************************************************************)
(* The drain ends on an empty channel or a full batch; each record then    *)
(* takes the next sequence number.                                         *)
(***************************************************************************)
Sequenced == [i \in 1..Len(batch) |->
                 [seq |-> nextSeq + i - 1, req |-> batch[i].req]]

SeqAfterBatch == nextSeq + Len(batch)

EncodeBatch ==
    /\ pc = "drain"
    /\ queue = << >> \/ Len(batch) = MaxBatch
    /\ pending' = Sequenced
    /\ nextSeq' = SeqAfterBatch
    /\ pc' = "write"
    /\ UNCHANGED <<disk, queue, batch, failed, active, size, calls, appends,
                   crashes, history>>

(***************************************************************************)
(* segment.append: write_all of the encoded batch.  When it fails some of  *)
(* the bytes may have been written, and size is not updated.               *)
(***************************************************************************)
WriteToActive(items) ==
    files' = [b \in DOMAIN files |->
                 IF b = active THEN files[b] \o items ELSE files[b]]

PartialWrites ==
    {SubSeq(pending, 1, n) \o tail :
        n \in 0..(Len(pending) - 1), tail \in {<< >>, <<Torn>>}}

AfterWrite_NoSync == "ack"

AfterWrite == IF SyncToDisk THEN "sync" ELSE "ack"

WriteBatch ==
    /\ pc = "write"
    /\ WriteToActive(pending)
    /\ size' = size + Len(pending)
    /\ pc' = AfterWrite
    /\ UNCHANGED <<durable, queue, batch, pending, failed, active, nextSeq,
                   calls, appends, crashes, history>>

WriteFails ==
    /\ pc = "write"
    /\ "write" \in Faults
    /\ \E items \in PartialWrites : WriteToActive(items)
    /\ failed' = TRUE
    /\ pc' = "ack"
    /\ UNCHANGED <<durable, queue, batch, pending, active, size, nextSeq,
                   calls, appends, crashes, history>>

SyncBatch ==
    /\ pc = "sync"
    /\ \/ SyncActive /\ UNCHANGED failed
       \/ "sync" \in Faults /\ failed' = TRUE /\ UNCHANGED durable
    /\ pc' = "ack"
    /\ UNCHANGED <<files, queue, batch, pending, active, size, nextSeq, calls,
                   appends, crashes, history>>

(***************************************************************************)
(* All of the batch is answered Ok(seq), or all of it Err.                 *)
(***************************************************************************)
BatchClients_First == {batch[1].client}

BatchClients == {batch[i].client : i \in DOMAIN batch}

AckBatch ==
    /\ pc = "ack"
    /\ acked' = IF failed THEN acked
                ELSE acked \cup {pending[i] : i \in DOMAIN pending}
    /\ Answer(BatchClients)
    /\ BatchDone
    /\ pc' = "roll"
    /\ UNCHANGED <<disk, queue, active, size, nextSeq, appends, crashes,
                   flushed>>

(***************************************************************************)
(* A full segment is followed by a new one whose base is the next          *)
(* sequence number.  WalSegment::create truncates a file of that name.     *)
(***************************************************************************)
CreateSegment(base) ==
    /\ files' = [b \in DOMAIN files \cup {base} |->
                    IF b = base THEN << >> ELSE files[b]]
    /\ durable' = [b \in DOMAIN files \cup {base} |->
                      IF b = base THEN 0 ELSE durable[b]]
    /\ active' = base
    /\ size' = 0

RollSegment ==
    /\ pc = "roll"
    /\ \/ size >= MaxSegment /\ CreateSegment(nextSeq)
       \/ /\ size < MaxSegment \/ "create" \in Faults
          /\ UNCHANGED <<disk, active, size>>
    /\ pc' = "recv"
    /\ UNCHANGED <<queue, batch, pending, failed, nextSeq, calls, appends,
                   crashes, history>>

(***************************************************************************)
(* purge_segments_before(min_seq) unlinks every segment whose base is      *)
(* below min_seq, from the caller's thread.  A worker that has the file    *)
(* open keeps writing to it.                                               *)
(***************************************************************************)
PurgedBases(minSeq) == {b \in DOMAIN files : b < minSeq}

Purge(minSeq) ==
    /\ pc # "down"
    /\ PurgedBases(minSeq) # {}
    /\ files' = [b \in DOMAIN files \ PurgedBases(minSeq) |-> files[b]]
    /\ durable' = [b \in DOMAIN files \ PurgedBases(minSeq) |-> durable[b]]
    /\ UNCHANGED <<worker, calls, appends, crashes, history>>

(***************************************************************************)
(* Drop needs the last reference, so no caller is inside a call: the       *)
(* worker meets Shutdown with an empty channel and no batch, syncs, ends.  *)
(***************************************************************************)
Shutdown ==
    /\ pc = "recv"
    /\ queue = << >>
    /\ crashes < MaxCrashes
    /\ \A c \in Clients : calls[c] = "none"
    /\ \/ SyncActive
       \/ "sync" \in Faults /\ UNCHANGED durable
    /\ pc' = "down"
    /\ crashes' = crashes + 1
    /\ UNCHANGED <<files, queue, batch, pending, failed, active, size, nextSeq,
                   calls, appends, history>>

(***************************************************************************)
(* The process dies.  Killed, it leaves the page cache intact, and a part  *)
(* of the batch when it was writing one.  A power loss also cuts every     *)
(* file somewhere after its durable items, possibly inside a record, and   *)
(* may lose a file that was never synced.                                  *)
(***************************************************************************)
Dies ==
    /\ pc # "down"
    /\ crashes < MaxCrashes
    /\ crashes' = crashes + 1
    /\ pc' = "down"
    /\ queue' = << >>
    /\ BatchDone
    /\ Answer(Clients)
    /\ UNCHANGED <<active, size, nextSeq, appends, history>>

Kill ==
    /\ Dies
    /\ IF pc = "write"
       THEN \E items \in PartialWrites \cup {pending} : WriteToActive(items)
       ELSE UNCHANGED files
    /\ UNCHANGED durable

PowerLoss ==
    /\ Dies
    /\ \E kept \in SUBSET DOMAIN files, torn \in SUBSET DOMAIN files,
          cut \in [DOMAIN files -> UNION {0..Len(files[b]) :
                                          b \in DOMAIN files}] :
           /\ \A b \in DOMAIN files \ kept : durable[b] = 0
           /\ \A b \in DOMAIN files : cut[b] \in durable[b]..Len(files[b])
           /\ \A b \in torn : cut[b] < Len(files[b])
           /\ files' = [b \in kept |->
                  SubSeq(files[b], 1, cut[b])
                      \o (IF b \in torn THEN <<Torn>> ELSE << >>)]
           /\ durable' = [b \in kept |->
                  cut[b] + (IF b \in torn THEN 1 ELSE 0)]

Worker ==
    \/ AnswerFlush
    \/ AnswerTrim
    \/ TakeAppend
    \/ EncodeBatch
    \/ WriteBatch
    \/ WriteFails
    \/ SyncBatch
    \/ AckBatch
    \/ RollSegment

Next ==
    \/ Open
    \/ \E c \in Clients, op \in {"append", "flush", "trim"} : Call(c, op)
    \/ Worker
    \/ \E minSeq \in PurgePoints : Purge(minSeq)
    \/ Shutdown
    \/ Kill
    \/ PowerLoss

(***************************************************************************)
(* Fairness: the worker is an OS thread that never blocks while it holds   *)
(* work; nothing obliges callers to call or processes to restart.          *)
(***************************************************************************)
Spec == Init /\ [][Next]_vars /\ WF_vars(Worker)

-----------------------------------------------------------------------------
(***************************************************************************)
(* Every variable has the type of the field it stands for; no segment has  *)
(* more items on the medium than its file holds, and only acknowledged     *)
(* records count as flushed.                                               *)
(***************************************************************************)
TypeOK ==
    /\ DOMAIN files \subseteq Nat
    /\ \A b \in DOMAIN files : files[b] \in Seq(Items)
    /\ DOMAIN durable = DOMAIN files
    /\ \A b \in DOMAIN files : durable[b] \in 0..Len(files[b])
    /\ pc \in {"down", "recv", "drain", "write", "sync", "ack", "roll"}
    /\ queue \in Seq(Messages)
    /\ batch \in Seq(Messages)
    /\ pending \in Seq(Items)
    /\ failed \in BOOLEAN
    /\ active \in Nat
    /\ size \in Nat
    /\ nextSeq \in Nat
    /\ calls \in [Clients -> {"none", "append", "flush", "trim"}]
    /\ appends \in Nat
    /\ crashes \in Nat
    /\ acked \subseteq Items
    /\ flushed \subseteq acked

(***************************************************************************)
(* A record whose append returned Ok(seq) is found by every later scan of  *)
(* the log, across any number of kills, power losses and re-opens:         *)
(* WalRecovery::recover never drops it and no roll overwrites it.          *)
(***************************************************************************)
AckedReadable == pc # "down" => acked \subseteq Readable

(***************************************************************************)
(* Sequence numbers identify acknowledged records, also when a crash made  *)
(* next_seq start again from the recovered log.                            *)
(***************************************************************************)
AckedSeqsUnique ==
    \A r, q \in acked : r.seq = q.seq => r = q

(***************************************************************************)
(* "returning the assigned monotonic sequence number" (lib.rs:22): an      *)
(* append acknowledged later has the larger number, restarts included.     *)
(***************************************************************************)
AckMonotonic ==
    [][\A r \in acked' \ acked, q \in acked : r.seq > q.seq]_vars

(***************************************************************************)
(* "Flushes all pending writes to durable storage." (lib.rs:25): what was  *)
(* acknowledged when a flush answered Ok survives a later crash.           *)
(***************************************************************************)
FlushedReadable == pc # "down" => flushed \subseteq Readable

(***************************************************************************)
(* "truncates any partially written trailing bytes at EOF" (recovery.rs:   *)
(* 32): recovery keeps every record that is complete in a segment file.    *)
(***************************************************************************)
CompleteRecords ==
    (UNION {{files[b][i] : i \in DOMAIN files[b]} : b \in DOMAIN files}) \ {Torn}

RecoveryDropsOnlyPartial ==
    [][pc = "down" /\ pc' # "down" => CompleteRecords \subseteq Readable']_vars

(***************************************************************************)
(* "Truncate or purge segments older than `min_seq`." (file.rs:315): a     *)
(* purge keeps the records numbered min_seq and above.                     *)
(***************************************************************************)
PurgeKeepsNewer ==
    [][\A minSeq \in PurgePoints :
           Purge(minSeq) => {r \in Readable : r.seq >= minSeq} \subseteq Readable'
      ]_vars

(***************************************************************************)
(* Group commit stores a request at most once, whatever calls fail and     *)
(* whenever the process dies: a batch is never written a second time.      *)
(***************************************************************************)
StoredOnce ==
    \A a, b \in DOMAIN files : \A i \in DOMAIN files[a], j \in DOMAIN files[b] :
        files[a][i].req = files[b][j].req /\ files[a][i] # Torn
            => <<a, i>> = <<b, j>>

(***************************************************************************)
(* FileWal keeps the promise of the trait: with sync_to_disk, the records  *)
(* a scan finds are the contract's log.                                    *)
(***************************************************************************)
Contract == INSTANCE WalContract WITH stored <- Readable

ImplementsContract == Contract!Spec

(***************************************************************************)
(* The worker leaves no caller blocked on its response channel, provided   *)
(* flush and trim calls stop arriving at some point: the drain loops       *)
(* answer them without counting them, so an unbroken stream of them would  *)
(* keep a batch that is not full from ever being written.                  *)
(***************************************************************************)
DrainsSettle ==
    <>[][\A c \in Clients : ~Call(c, "flush") /\ ~Call(c, "trim")]_vars

CallsAnswered ==
    DrainsSettle => \A c \in Clients : calls[c] # "none" ~> calls[c] = "none"

==============================================================================
