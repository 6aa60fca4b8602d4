# TLA+ specifications of OxideMQ

This directory holds TLA+ models of the OxideMQ broker, the TLC configurations
that check them on small instances, and TLAPS proofs about them. Every definition
is translated from the code under `src/`; `PROJECT.json` gives, definition by
definition, the lines it stands for.

    tlc -workers 2 -config FileWalSync.cfg MCFileWal    # one run
    tlapm FileWalProofs.tla                             # the proofs of a module

## The system and its parts

A Kafka client speaks to a connection task (`handler.rs`), which decodes its
requests, authenticates it, asks the authorizer, and works on the shared
`ClusterState` (`router.rs`), the group coordinator (`coordinator.rs`), the
transaction coordinator (`transaction.rs`) and the schema registry. A topic
partition (`partition.rs`) appends to an `S3Stream`, which writes to a WAL, to
the LogCache, and later to objects in S3. Requests run concurrently on the
runtime's threads; what serialises them are the locks each structure has of its
own. An administrator resets, dumps and loads the state over HTTP and sets fault
rules.

| Part | Source | Concurrency and failures | Module | Shown by |
|---|---|---|---|---|
| File WAL, group commit, recovery | `wal/src/file.rs`, `segment.rs`, `frame.rs`, `recovery.rs` | worker thread, callers on channels, crashes, torn writes | `FileWal` | runs, proofs |
| Promise of a WAL | `wal/src/lib.rs` | | `WalContract` | refinement, proved |
| Tiered stream: offsets, WAL index, LogCache, objects | `s3stream/src/stream.rs`, `log_cache.rs`, `compactor.rs`, `uploader.rs`, `wal/src/memory.rs` | appends, uploads, compaction, trims, DeleteRecords, fetches; failing I/O | `S3Stream` | runs, proofs |
| Transactions and read-committed fetch | `broker/src/transaction.rs`, `partition.rs`, Produce and Fetch of `handler.rs` | producers, fetches, restarts, failed appends | `Transactions` | runs, proofs |
| Consumer groups | `broker/src/coordinator.rs` | late SyncGroup, leave, delete, reset | `GroupCoordinator` | run, proofs |
| Topics, partitions, configurations, snapshots | `broker/src/router.rs`, `state.rs`, `server/src/admin.rs` | calls that hold, drop and take the locks of two maps again | `Topics` | run, proofs |
| Connections, SASL, ACLs, dispatch, fault rules | `broker/src/handler.rs`, `sasl.rs`, `acl.rs`, `chaos.rs` | bindings and rules that change while a request is handled | `Requests`, with `Authorizer`, `Sasl`, `Chaos` | run, proofs |
| Wire format of requests, answers and record batches | `protocol/src/messages.rs`, `header.rs`, `parser.rs` | versions, nulls, compression, torn batches | `Wire`, with `KafkaCodec`, `WireData`, `WireAdmin`, `RecordBatch` | run |
| Schema registry and record validation | `broker/src/schema_registry.rs`, `schema_registry_http.rs` | deletion and registration in any order | `SchemaRegistry` | run, proofs |

`PROJECT.json` lists the hazards this code is exposed to, each at its line, with
the properties that would catch it.

The server as shipped wires a `MemoryWal` and starts no uploader or compactor;
`FileWal`, `BatchUploader`, `StreamCompactor`, `trim` and `reconcile_stream_records`
are library code with tests. They are modelled as their interfaces allow them to be
used.

## The modules

In each module a definition named `D_Variant`, placed before `D`, is `D` with a
plausible mistake. It is no part of the specification; checking with it in
place of `D` shows that a property notices.

### FileWal, WalContract

State: the segment files as sequences of records (`files`), how much of each is
on the medium (`durable`), the worker's channel, batch and position (`pc`), the
next sequence number, the call each client is blocked in. Histories record what
was acknowledged and what was flushed.

Actions follow `run_group_commit_loop`: `AnswerFlush`, `AnswerTrim`, `TakeAppend`
(both drain loops), `EncodeBatch`, `WriteBatch`/`WriteFails`, `SyncBatch`,
`AckBatch`, `RollSegment`; `Open` is recovery; `Purge` runs on the owner's thread.
`Kill` keeps the page cache and may leave part of a batch; `PowerLoss` cuts every
file anywhere after its synced part, possibly inside a record, and may lose a file
never synced. It is assumed of the file system that syncing a file also makes
its directory entry durable. `Shutdown` waits for an idle worker, because `Drop`
needs the last reference: the code's exits inside the drain loops
(`file.rs:166`, `file.rs:197`) cannot be reached.

`WalContract` is what the trait promises: records are added above all others, only
stored records are acknowledged, in order, and a crash takes unacknowledged ones
only. `FileWal` implements it with `stored <- Readable`.

### S3Stream

One stream's offsets, its batches in the WAL, in the LogCache and in objects. An
operation is one action per lock or storage call: an append takes its offset,
then writes the WAL, then the cache; an upload puts, registers, trims the WAL; a
compaction reads the list, puts, replaces, deletes; `trim` and DeleteRecords
change the offset before the tiers. A fetch checks bounds, then the cache, then
the first registered object covering the offset. Batches have unit size in the
cache and are measured in records for the compactor. `trim` stores the offset it is
given, whatever the start is (`stream.rs:233`), so `TrimStart` takes any of
`TrimTargets`, in any order; `purged` remembers the highest, since what lay below it
may be gone although a later trim to a lower offset has moved the start back under it. The caller of uploads is
assumed to hand over each acknowledged batch once, in offset order. The
BlockCache is left out: its keys name objects that do not change.

### Transactions

Per partition the log, `ongoing_txns`, `aborted_txns` and the append lock; the
coordinator's map and the `end_txn` that holds its lock; the producers; the
fetches. `append_records` is two steps, as the LSO can be read in between;
`end_txn` is one step per control batch and per list it changes. A fetch reads the
log, the aborted list and the LSO one after the other. Each data batch carries the
transaction it belongs to, for the properties only.

Simplifications: one record per batch, a fetch starts at offset 0 and is large
enough, a client waits for its produce response before EndTxn, and the
appends of a partition are atomic (`S3Stream` splits them). AddOffsetsToTxn
changes no state. Batches too short or too old to carry a producer id pass the
handler's filter (`handler.rs:460`) and are not modelled.

### GroupCoordinator

One group and its clients. Each call is one step, since it holds the groups lock
throughout. A SyncGroup is a message that may be handled after its sender timed out,
left or rejoined. The broker's handler dispatches neither JoinGroup nor SyncGroup at
present, so the model is of the coordinator's interface.

### Topics

The two maps of `ClusterState` with their read-write locks, the stream ids, the
Partitions ever made, the LogCache their streams share, the committed offsets of
the coordinator, and the administrator's snapshot. A thread runs one call at a
time. A call is cut into the sections it does under locks: `create_topic` checks
(both locks), then for every partition looks (read) and provisions (write, looking
again), then registers (write). A section that takes both locks takes topics first
and can be stopped before partitions (`Acquire`), and a writer that waits keeps
new readers out (`Park`), as parking_lot does. `delete_topic`, `create_partitions`,
`update_topic_configs`, `build_metadata` with auto-creation, Produce, OffsetCommit,
`reset`, `dump` and `load` are cut in the same way.

A Partition is a position in `made`; `gone` says that it left the map, although a
Produce that looked it up may still append to it. A record is the Partition that
appended it, so a fetch that returns another's record is visible. `created` and
`overtaken` are histories: the registrations to which `RegisteredIsProvisioned`
applies.

### Requests, Authorizer, Sasl, Chaos

A connection's task reads a request, holds it back or closes the connection if
SASL is required and not done, and works through the *plan* of its API: for each
part of the request the permissions its handler asks for, one after the other
until one is granted, and the calls it makes then. `Plan` is written from the
handler's arms, API by API. `Requires` states what each call needs according to
`src/README.md` (lines 278 to 283, 318 to 319, 352 to 353, 388 to 390, 417 and 439; it is silent on
FindCoordinator, which is held to its arm). The handlers depart from it in two ways, which have
definitions of their own: `AlsoAccepts`, the permissions on the cluster they take for one on a group, a
topic's configuration or the broker, and `NeverAsks`, Metadata's automatic creation of topics.
`CallsWerePermitted` allows these departures and no other; `CallsAsDocumented` allows none and is
refuted. The bindings are locked for one check at
a time and may change between two. `Authorizer` is the list of bindings with
`authorize`, `create_acls`, `describe_acls`, `delete_acls`, and `Permitted`, the
reference definition over the set of bindings. `Sasl` is the state machine of a
connection with PLAIN and the two messages of SCRAM; a proof is good exactly if
it was computed from the user's password and answers the pending challenge. `Chaos` is
the list of rules with the counter that decides when they hit.

What the calls do to topics, groups and transactions is in those modules.

### Wire and its layouts

`KafkaCodec` says what it is to write and to read a layout: a sequence of fixed
integers, strings, nullable and compact strings, arrays, tagged fields. For every
message, `WireData` and `WireAdmin` give two layouts,
`X_encode(v)` and `X_decode(v)`, translated separately from the two methods of the
struct, with their conditions on the version. `RecordBatch` has the v2 batch: its
header, records with zigzag varint deltas, the codecs, the checksum, and what
decompression and recompression do with batches of another magic or cut short.
`Wire` composes them: a client encodes a request at a version, the broker decodes
header and body from the bytes, answers at that version, and the client decodes;
and a producer's buffer goes through Fetch's recompression to a consumer.

The request header has two forms. `RequestHeader::encode` writes v1 always; Kafka clients write v2, which
ends in a tagged-field section, with a flexible body. A client of the model uses v1 with any request, and v2
where the body of `messages.rs` is flexible (ApiVersions from version 3, SaslAuthenticate and the ACL APIs
from 2). `RequestHeader::decode` expects v2 for ApiVersions from version 3 on and v1 otherwise:
`RequestUnderstood` is about requests that agree with it, `EveryHeaderUnderstood` about all of them.
For some versions the broker advertises (InitProducerId from 2, EndTxn 3) Kafka's body is flexible and that of
`messages.rs` is not. There a Kafka client writes another body altogether, which is not modelled: both ends
of the model use the layouts of `messages.rs`, and a mistake that encode and decode share is not seen.

Values are uninterpreted, so that a field read as another, at another width or in
another order is seen; the arithmetic of varints is modelled with 3-bit groups in
7-bit words instead of 7-bit groups in 64-bit words (`VarintAssumption` keeps the
last group partial, as 64 = 9 * 7 + 1).

### SchemaRegistry

The catalog: subjects with their versions, the ids of definitions by fingerprint
and back, compatibility levels. One action per request that changes it, since each
holds the one lock, and `Produce`, which validates a record's id. Schemas are
abstracted to what the code compares: type, whether the text parses, the name of the
top record. The code parses the text as given and compares it trimmed; padding that Rust trims and
JSON does not allow is left out. `stored` remembers with which definition a record was accepted. The
ids validated are those the handler looks at: it stops at the first record it cannot decode, and reads the first
batch of a buffer (`handler.rs:1747`).

## Runs

| Run | Instance | Shows |
|---|---|---|
| `file_wal_sync` | 2 clients, batches and segments of 2, 5 appends, 3 crashes, failing rolls | acknowledged records stay readable, their numbers grow, recovery drops no complete record, the contract is implemented |
| `file_wal_faults` | every I/O call may fail, purges, 3 appends, 2 crashes | nothing is stored twice; every blocked caller is answered |
| `stream_tiers` | an upload, a compaction and a trim at a time, a DeleteRecords, trims to 1 and 2 in any order, failing I/O, 3 batches of one record | acknowledged batches that no trim was called past are in the WAL or a registered object; registered objects exist |
| `stream_fetch` | batches of 1 and 2 records, cache of 1, an upload, trims to 0 and 1 in any order, two DeleteRecords, a fetch, failing I/O, 2 records | what was uploaded when a fetch began is returned, unless a trim was called past it; nothing but `trim` moves the start offset back |
| `txn_fetch` | 2 producers, plain batches, 1 fetcher at both isolation levels, 2 transactions each | the LSO stays below open transactions; no fetch shows a batch whose EndTxn was not asked for |
| `txn_end` | 2 producers, 2 partitions, 2 transactions each | EndTxn decides all batches, as asked, and lets the LSO reach the end |
| `txn_restart` | 2 producers sharing an id, one restart, one failing append | markers in epoch order, the LSO never moves back, EndTxn is answered |
| `group` | 2 clients, 3 generations, 3 member ids, 2 SyncGroups under way, 1 reset | the leader is a member, one member holds the current generation, a group with members is not deleted |
| `topics` | 2 threads, one topic, 3 partitions ever made, 2 appends, 1 committed offset, names with and without ':' | what a Produce holds is the map's or was removed; a fetch returns its own records until ids restart; what `create_topic` registered is provisioned; a load that runs alone restores the snapshot; the listings of configurations agree; calls never wait for each other |
| `requests` | 2 connections, 3 users, every API once, 7 bindings (at most 4 at a time), 2 fault rules, with and without required SASL | a connection acts for the user whose password it showed; calls were permitted, with the named departures from the README, and what was permitted is served; a fault hits a request as a whole; `authorize` does not depend on the order of bindings; DeleteAcls removes what DescribeAcls lists |
| `wire` | 28 APIs, all advertised versions and 3 above, arrays of 0 to 2, nulls, every error code; 2 batches of 2 records, 3 codecs | what is encoded is decoded, field for field and to the last byte, where the header is the one decode expects; recompression keeps every record and header |
| `registry` | 2 subjects, 4 definitions, 2 levels, 2 versions a subject | an id stands for one definition and back; accepted records stay decodable; the compatibility check predicts registration |

The bounds are the least that let the interesting cases meet: two batches and
two segments so that a roll separates acknowledged records; three crashes so that
a recovery follows a recovery; two transactions so that a producer commits after
it aborted; two clients so that requests cross. In `topics` two threads suffice for
every race of two calls, since each call is cut at its locks; three partitions let one
be deleted and made again beside another. In `requests` one connection changes
bindings and the other does everything else: what a third would do, one of the two
does. The layouts of `wire` treat all elements of an array alike, so that none, one
and two of them tell all cases apart, and all versions of all APIs are covered.

Deadlock is not checked in the runs whose bounded work may be used up
(`stream_*`, `txn_end`, `txn_restart`): there a final state is the end of the work.

Further configurations, each with the one property TLC refutes there: places where
the code differs from what a comment, a test or the documentation says of it.

| Configuration | Property | What happens |
|---|---|---|
| `FileWalTorn` | `RecoveryDropsOnlyPartial` | a failed write leaves torn bytes before later acknowledged batches; recovery cuts there |
| `StreamCompacted` | `UploadedFetchable` | of a compacted object only the first block can be fetched |
| `TransactionsAborted` | `AbortedNeverExposed` | a fetch between the two halves of `record_aborted_txn` returns an aborted batch |
| `TransactionsCommitted` | `CommittedExposed` | a producer that once aborted has its committed batches filtered |
| `FileWalFlush` | `FlushedReadable` | without `sync_to_disk`, a flush after a roll leaves the previous segment unsynced (`wal/src/lib.rs:25`) |
| `FileWalPurge` | `PurgeKeepsNewer` | a purge removes segments that also hold newer records (`wal/src/file.rs:315`) |
| `StreamEvicted` | `AckedFetchable` | a record evicted before upload is not found: fetch does not read the WAL (`stream.rs:107`) |
| `StreamCollision` | `RegisteredExist` | compacting an object with a late upload of its range deletes the result (`compactor.rs:94`) |
| `StreamTrimmed` | `TrimmedIsInS3` | uploads finishing out of order trim WAL records that are not in S3 (`stream.rs:207`) |
| `StreamTruncated` | `TruncatedEvicted` | an append in progress caches a record that DeleteRecords has truncated (`README.md:434`) |
| `TransactionsReinit` | `NothingBeforeEndTxn` | a restarted producer's undecided batches are committed by its next transaction |
| `TransactionsPartial` | `AnsweredIsMarked` | after a failed control batch the retried EndTxn is Ok and marks nothing (`transaction.rs:167`) |
| `GroupDelete` | `DeleteOnlyEmpty` | a late SyncGroup makes an empty group Stable, which is then deleted (`coordinator.rs:294`) |
| `GroupSync` | `SyncedIsAssigned` | a follower that syncs before the leader gets an empty assignment (`coordinator.rs:113`) |
| `RequestsDocumented` | `CallsAsDocumented` | Metadata creates topics for a client that may not describe them (`README.md:280`, `handler.rs:311`); the trace shows this one, the departures of `AlsoAccepts` (`README.md:352`, `389`, `390`) are others |
| `WireHeaders` | `EveryHeaderUnderstood` | the header calls itself "v1 & v2" (`header.rs:6`); what `RequestHeader::encode` writes before ApiVersions 3 is misread, as is v2 before SaslAuthenticate 2 or an ACL request of version 2 |

### Fairness

`FileWal` assumes weak fairness of the worker, an OS thread that blocks only on an
empty channel. `CallsAnswered` also assumes that flush and trim calls stop arriving at some
point: the drain loops answer them without counting them, so an endless
stream would keep a partly filled batch from being written. `Transactions`
assumes weak fairness of the handlers in progress (`end_txn`, an append that holds its
lock). No client is assumed to send anything, and no process to restart. The
other modules state safety only, and no fairness.

## Proofs

Every theorem holds for any value of the constants that satisfies the assumptions
its module names, and for any number of steps. The argument is the same
throughout: an inductive invariant, one lemma for each action or group of actions that it keeps
the invariant, and a last step that puts them together with PTL. Each
invariant was checked with TLC before it was proved.

### FileWalProofs

* `TypeCorrect`: `Spec => []TypeOK`, in every configuration.
* `Durability`, `UniqueSequenceNumbers`, `MonotonicSequenceNumbers`: the
  properties `AckedReadable`, `AckedSeqsUnique`, `AckMonotonic`.
* `Refinement`: `FileWal` implements `WalContract`.
* `RecoveryKeepsComplete`: recovery cuts off no complete record.
* `EachRequestStoredOnce`: `StoredOnce`, in every configuration, whatever fails. `OnceInv`:
  requests are numbered as they are called; the channel and the batch keep that order, the
  batch before the channel; and until it is written the batch comes after all that
  is stored. A write stores what is above everything stored, and the batch is dropped
  on every way out, so nothing is written again.

All but the first and the last assume `SafeConfig`: `sync_to_disk` is on, writes and syncs do
not fail (creating a segment may), and nothing is purged. `FileWalFlush.cfg`,
`FileWalTorn.cfg` and `FileWalPurge.cfg` show that each is needed.

`AckedReadable` is not inductive: it does not say that acknowledged
records are durable, nor that a roll cannot hit a segment in use. `WalInv` adds
that every acknowledged record lies in the durable, untorn part of some file
(`AckedKept`); that every segment but the first follows such a kept record with the
number before its base, so recovery resumes at or above every base (`BasesFollow`);
that a torn item exists only while the process is down and is then the last
of its file (`TornAtEnd`); that while the worker runs all numbers are below
`next_seq` (`Running`); that the batch in hand has the numbers just below `next_seq`
and is written and synced before it is acknowledged (`BatchInHand`); and that a roll
creates a base no file has (`RollReady`). The refinement
then maps `WriteBatch` to `Write`, `AckBatch` to `Acknowledge`, crashes to
`Lose` or `Write` (a killed worker may have written part of its batch), and everything
else to a stutter.

### S3StreamProofs

* `OnlyTrimsMoveBack`: `OnlyTrimMovesBack`, with no hypothesis on who runs beside whom.
  `advance_start_offset` exchanges the offset for a larger one only, so a DeleteRecords that was
  checked against an older offset cannot lower it; `trim`, which stores without looking, can.
* `AcknowledgedStaysStored`: `AckedStored`.
* `RegisteredObjectsExist`: `RegisteredExist`.
* `UploadedOffsetsAreFetched`: `UploadedFetchable`.

The last three assume `OneAtATime`: a stream has at most one upload and one compaction
under way, beside any number of appends, trims, DeleteRecords and fetches, and any storage call may
fail. `StreamCollision.cfg` and `StreamTrimmed.cfg` show what happens
otherwise. The last assumes in addition that no compactor runs (`StreamCompacted.cfg`: of a
merged object only the first block is read).

`AckedStored` is not inductive: it does not say where a batch is while an upload or a
compaction is half done. `Inv` adds: the append under way follows all acknowledged batches
(`AppendsOK`); a batch not yet handed to an upload is in the WAL, and one whose upload is
not registered is in the WAL and in the upload (`AckedOK`); objects of one kind do not overlap and a
merged one lies before every small one, so a compaction puts under a key of its own (`KnownOK`); an
upload lies behind every object there is (`UploadsOK`); the blocks of an object reach exactly
from its start to its end (`ObjectsOK`); a merged object holds what is still registered of what
it replaces (`CompsOK`); what is about to be deleted is not
registered (`DoomedOK`). `FetchesInv` adds that, without compaction, an object has one
block, and that a fetch of an uploaded offset still finds it at each of its steps, or a trim was called past it.
All three speak of offsets at or above `purged`, the highest a trim was called with: `trim` to 3 and then to 1
leaves offsets above the start that are stored nowhere, and nothing is claimed of those.

### TransactionsProofs, TransactionsReadProofs

* `MarkersAlwaysOrdered`: the control batches of a producer id stand in every log
  in the order of their epochs (`MarkerEpochsOrdered`). It rests on `FenceInv`: producer ids are unique; no
  batch of a log is of an epoch its id has not reached; and the `end_txn` under way
  has the current epoch of its id, since it keeps the coordinator's lock.
* `LsoNeverMovesBack`: no step lowers a last stable offset (`LsoMonotonic`). A producer
  id enters `ongoing_txns` with an offset at or above the high watermark it
  would otherwise have been bounded by, and nothing else lowers the minimum.
* `LsoAlwaysBelowOpen`: `LsoBelowOpen`, with `OpenInv`: a producer that is past its
  initialisation owns the entry of its id (`Owners`); whoever holds an append lock has its
  transaction in `ongoing_txns` there (`Holders`); an `end_txn` under way was asked for
  (`Enders`); and a batch whose transaction was not asked to end lies at or above the
  offset its id has in `ongoing_txns` (`Placed`).
* `NothingExposedBeforeEndTxn`: `NothingBeforeEndTxn`, with `FetchInv`: between the three reads of a
  fetch the log only grows and transactions are only added to those asked to end, so what the
  fetch read stays below what was stable then.
* `AnsweredAlwaysMarked` and `LsoReachesEnd`: `AnsweredIsMarked` and `QuiescentLso`,
  with `ClosedInv`: an id in `ongoing_txns` belongs to a transaction that still has the
  partition in its list, or to the `end_txn` under way that has it left to mark or to close (`Pending`);
  and every batch of a log is undecided exactly as long as its
  transaction is, and then decided as its EndTxn asked (`Settled`).

The first two have no hypotheses. The other four assume `MaxEpoch = 0`: no
transactional id is initialised a second time. `TransactionsReinit.cfg` shows that
without it a restarted producer's undecided batches are committed by its next
transaction. The last two also assume `[][MarkersLand]_vars`: no append of a
control batch fails (those of data batches may); `TransactionsPartial.cfg`
shows why.

### GroupCoordinatorProofs

`LeaderAlwaysMember`, `OneHolderAlways` and `MembersAlwaysProtected` state the three properties of
the run. `GroupInv`: a group's leader is one of its members or nobody, members have
different ids, what a client or a late SyncGroup remembers was given to it, and no
remembered generation is above the group's.

### TopicsProofs

* `NeverDeadlocked`: `NoDeadlock`. Only the topics lock is ever held while a call waits,
  and always by a call that waits for partitions.
* `ProduceHolds`: `HeldOrRemoved`.
* `FetchesOwn`: `OwnRecords`, as the stream of the i-th Partition ever made is i - 1 and the
  LogCache holds under it only that Partition's records, until ids restart.
* `RegisteredAlwaysProvisioned`: `RegisteredIsProvisioned`, as the partitions a
  creation has still to make are in its list, and nobody but deletions, resets and
  loads takes partitions away.

* `LoadAlwaysRestores`: `LoadRestores`, with `LoadInv`: the partitions of the map and of
  a snapshot are finitely many, so the list that `load` works through holds each of them;
  while a load runs alone every other thread is idle; and at each of its stages what it has
  made and what its list still holds are together what the snapshot says (`LoadOK`).
* `ConfigViewsAlwaysAgree`: `ConfigViewsAgree`, a fact about the two operators that list configurations.

`TopicsInv` is the conjunction of the first four with the shape of the calls under way.
`CallsAssumption` says that calls ask for a positive number of partitions.

### RequestsProofs

* `ActsAlwaysForProvenUser`: a session is authenticated only as the user whose password its bytes
  showed, and a request keeps the principal it was read under (`SessionInv`).
* `CallsAreAlwaysPermitted`, `PermittedIsAlwaysServed`, `FaultsAreWhole`: `CallsWerePermitted`, `PermittedIsServed`,
  `FaultIsWhole`, for any requests and bindings, which may change between any two checks.
  `AccessInv`: every call a handler has made was granted, and every part of the plan it
  has passed was served or refused (`Justified`); what the bindings in force allow and refuse since
  the request was read is remembered (`Watched`). That a part's permissions are among those `Accepts` has for its calls,
  the README's and the departures, is a lemma about `Plan`, API by API.
* `OrderNeverMatters`: `AuthorizeMatchesRules`. The loop of `authorize` decides as the set
  of bindings does.
* `DeleteAlwaysMatchesDescribe`: `DeleteMatchesDescribe`.

`RequestsAreDecoded` says that the lists of a request are lists, as `decode_request`
returns them. The last two theorems are about loops over a list of any length. Where the
induction principles of the library cannot be applied, the argument takes the least
position at which a claim about the loop fails, and shows that there is none.

### SchemaRegistryProofs

`IdsAlwaysIdentify`, `RecordsAlwaysReadable`, `CheckAlwaysPredicts`: the map from
fingerprints to ids and the map back are inverse, ids are numbered below the next,
and an entry's definition never changes (`RegistryInv`).

### Only model-checked

* Liveness (`CallsAnswered`, `EndTxnAnswered`): it needs fairness and ENABLED.
* The properties of `Wire`: its layouts are RECURSIVE operators, and what they read back
  is an induction over them.

Every other property of a run is proved, for all values of the constants that satisfy
the assumptions and hypotheses named above.

## Not modelled, and why

* `MemoryWal`'s leases, `reconcile_stream_records`, `RetryableObjectStorage`,
  `append_idempotent`, the chaos engine's `set_enabled` and `remove_rule`: no caller outside tests.
* The BlockCache, since its keys name immutable objects; LogCache accounting in bytes.
* SCRAM's cryptography, compression algorithms, the byte layout of S3 objects.
* HTTP, TLS, the web UI, logging, metrics, clocks, benchmarks, compatibility tests.

Observed while modelling, outside the properties:

* A fault rule's latency is returned, and no handler waits; the counter
  advances only when something is injected.
* `trim` may move the start offset back to records that an earlier trim has purged; a fetch there finds nothing.
* JoinGroup and SyncGroup are advertised and not dispatched.
* A request held back by `--require-sasl` closes the connection without an answer;
  `README.md` says that it is rejected with code 58.
* `reset` starts stream ids over while the LogCache keeps the old records, and takes
  three steps, between which two partitions can be given one stream.
* `load` restores partitions with high watermark 0 and without registrations,
  and drops committed offsets whose group or topic contains ':'.
* Schema versions are numbered by their count, so numbers repeat after a deletion.
* The transitive compatibility levels compare with the latest version only.
