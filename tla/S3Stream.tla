------------------------------ MODULE S3Stream ------------------------------
(***************************************************************************)
(* One stream of the tiered storage (crates/oxidemq-s3stream/src): the     *)
(* offsets of S3Stream, its records in the WAL (MemoryWal's index), in the *)
(* LogCache and in object storage, and the actors that run on them at the  *)
(* same time: an appender (a partition's append_lock admits one), uploads, *)
(* the compactor, trim, DeleteRecords and fetches.                         *)
(*                                                                         *)
(* A batch is its base offset and record count; every batch has unit size  *)
(* for the LogCache.  The BlockCache is transparent: its key names the     *)
(* immutable object, so it returns what get_object would.                  *)
(*                                                                         *)
(* A definition D_Variant, just before D, is D with a plausible mistake.   *)
(***************************************************************************)
EXTENDS Integers, Sequences, FiniteSets, FiniteSetsExt

CONSTANTS
    Counts,      \* record counts of appended batches
    Uploaders,   \* upload_batch calls that may run at once
    Compactors,  \* compact_stream calls that may run at once
    Trimmers,    \* S3StreamStorage::trim calls that may run at once
    Deleters,    \* DeleteRecords requests that may run at once
    Fetchers,    \* fetches that may run at once
    TrimTargets, \* offsets trim is called with, whatever the stream holds
    MaxCached,   \* capacity of the LogCache, in batches
    TargetSize,  \* target_object_size, in records
    MaxOffset,   \* bound: offsets handed out
    IoFaults     \* may a WAL or object storage call fail?

ASSUME ConstantsAssumption ==
    /\ Counts \subseteq Nat \ {0}
    /\ TrimTargets \subseteq Int
    /\ MaxCached \in Nat \ {0}
    /\ TargetSize \in Nat
    /\ MaxOffset \in Nat
    /\ IoFaults \in BOOLEAN

VARIABLES
    start,    \* start_offset
    next,     \* next_offset
    wal,      \* batches of the stream in the WAL
    cache,    \* batches of the stream in the LogCache
    metas,    \* s3_objects: the registered S3ObjectMeta, in order
    objects,  \* object storage: key -> blocks
    app,      \* the append in progress
    up,       \* each upload
    comp,     \* each compaction
    trim,     \* each trim
    del,      \* each DeleteRecords
    fetch,    \* each fetch
    claimed,  \* offset up to which batches were handed to an upload
    acked,    \* history: batches whose append returned Ok
    purged    \* history: the highest offset trim was called with

actors == <<up, comp, trim, del, fetch>>
tiers == <<wal, cache, metas, objects>>
vars == <<start, next, tiers, app, actors, claimed, acked, purged>>

Idle == [pc |-> "idle"]
Last(b) == b.base + b.count - 1
Put(f, k, v) == [x \in DOMAIN f \cup {k} |-> IF x = k THEN v ELSE f[x]]
Registered == {metas[i] : i \in DOMAIN metas}

(* filter and retain: the elements of s that are in kept, in their order. *)
Only(s, kept) ==
    LET taken[i \in 0..Len(s)] ==
            IF i = 0 THEN << >>
            ELSE IF s[i] \in kept THEN Append(taken[i-1], s[i]) ELSE taken[i-1]
    IN  taken[Len(s)]

Covers(m, o) == m.start <= o /\ o <= m.end

Init ==
    /\ start = 0
    /\ next = 0
    /\ wal = {}
    /\ cache = {}
    /\ metas = << >>
    /\ objects = << >>
    /\ app = Idle
    /\ up = [u \in Uploaders |-> Idle]
    /\ comp = [c \in Compactors |-> Idle]
    /\ trim = [t \in Trimmers |-> Idle]
    /\ del = [d \in Deleters |-> Idle]
    /\ fetch = [f \in Fetchers |-> Idle]
    /\ claimed = 0
    /\ acked = {}
    /\ purged = 0

-----------------------------------------------------------------------------
(* append_with_count: the offset, then the WAL, then the LogCache.         *)

AppendTakeOffset(n) ==
    /\ app = Idle
    /\ next + n <= MaxOffset
    /\ next' = next + n
    /\ app' = [pc |-> "wal", batch |-> [base |-> next, count |-> n]]
    /\ UNCHANGED <<start, purged, tiers, actors, claimed, acked>>

AppendWal ==
    /\ app.pc = "wal"
    /\ wal' = wal \cup {app.batch}
    /\ app' = [app EXCEPT !.pc = "cache"]
    /\ UNCHANGED <<start, purged, next, cache, metas, objects, actors, claimed, acked>>

AppendFails ==
    /\ IoFaults
    /\ app.pc = "wal"
    /\ app' = Idle
    /\ UNCHANGED <<start, purged, next, tiers, actors, claimed, acked>>

(* LogCache::put makes room by dropping the oldest batches first. *)
Younger(b) == {x \in cache : x.base > b.base}

Kept == {b \in cache : Cardinality(Younger(b)) + 1 < MaxCached}

AppendCache ==
    /\ app.pc = "cache"
    /\ cache' = Kept \cup {app.batch}
    /\ acked' = acked \cup {app.batch}
    /\ app' = Idle
    /\ UNCHANGED <<start, purged, next, wal, metas, objects, actors, claimed>>

-----------------------------------------------------------------------------
(* upload_batch, for the acknowledged batches that follow those handed to  *)
(* the uploads before.                                                     *)

UploadBegin(u, last) ==
    /\ up[u] = Idle
    /\ last \in acked
    /\ last.base >= claimed
    /\ LET batches == {b \in acked : claimed <= b.base /\ b.base <= last.base}
           from == Min({b.base : b \in batches})
       IN  up' = [up EXCEPT ![u] = [pc |-> "put", batches |-> batches,
                                    start |-> from, end |-> Last(last)]]
    /\ claimed' = Last(last) + 1
    /\ UNCHANGED <<start, purged, next, tiers, app, comp, trim, del, fetch, acked>>

Key(kind, from, to) == [kind |-> kind, start |-> from, end |-> to]
Records(blocks) == UNION {b.base..Last(b) : b \in UNION {x.batches : x \in blocks}}
Meta(key, blocks) == [key |-> key, start |-> key.start, end |-> key.end,
                      size |-> Cardinality(Records(blocks))]
UploadBlock(u) == [start |-> up[u].start, end |-> up[u].end, batches |-> up[u].batches]
UploadKey(u) == Key("data", up[u].start, up[u].end)

(* When put_object fails the upload returns and its caller tries again:    *)
(* nothing has changed.                                                    *)
UploadPut(u) ==
    /\ up[u].pc = "put"
    /\ objects' = Put(objects, UploadKey(u), {UploadBlock(u)})
    /\ up' = [up EXCEPT ![u].pc = "register"]
    /\ UNCHANGED <<start, purged, next, wal, cache, metas, app, comp, trim, del, fetch,
                   claimed, acked>>

UploadRegister(u) ==
    /\ up[u].pc = "register"
    /\ metas' = Append(metas, Meta(UploadKey(u), {UploadBlock(u)}))
    /\ up' = [up EXCEPT ![u].pc = "trim"]
    /\ UNCHANGED <<start, purged, next, wal, cache, objects, app, comp, trim, del, fetch,
                   claimed, acked>>

(* MemoryWal::trim *)
WalFrom(offset) == {b \in wal : b.base >= offset}

UploadTrimWal(u) ==
    /\ up[u].pc = "trim"
    /\ \/ wal' = WalFrom(up[u].start)
       \/ IoFaults /\ UNCHANGED wal
    /\ up' = [up EXCEPT ![u] = Idle]
    /\ UNCHANGED <<start, purged, next, cache, metas, objects, app, comp, trim, del, fetch,
                   claimed, acked>>

-----------------------------------------------------------------------------
(* compact_stream, of all objects smaller than the target.                 *)

Small == Only(metas, {m \in Registered : m.size < TargetSize})

CompactRead(c) ==
    /\ comp[c] = Idle
    /\ Len(Small) >= 2
    /\ comp' = [comp EXCEPT ![c] = [pc |-> "merge", small |-> Small]]
    /\ UNCHANGED <<start, purged, next, tiers, app, up, trim, del, fetch, claimed, acked>>

SmallKeys(c) == {comp[c].small[i].key : i \in DOMAIN comp[c].small}

(* An object that is gone, or a failed get or put, ends the call. *)
CompactFails(c) ==
    /\ comp[c].pc = "merge"
    /\ SmallKeys(c) \subseteq DOMAIN objects => IoFaults
    /\ comp' = [comp EXCEPT ![c] = Idle]
    /\ UNCHANGED <<start, purged, next, tiers, app, up, trim, del, fetch, claimed, acked>>

CompactPut(c) ==
    /\ comp[c].pc = "merge"
    /\ SmallKeys(c) \subseteq DOMAIN objects
    /\ LET blocks == UNION {objects[k] : k \in SmallKeys(c)}
           key == Key("compacted", Min({b.start : b \in blocks}),
                      Max({b.end : b \in blocks}))
       IN  /\ objects' = Put(objects, key, blocks)
           /\ comp' = [comp EXCEPT ![c] =
                  [pc |-> "replace", small |-> @.small, meta |-> Meta(key, blocks)]]
    /\ UNCHANGED <<start, purged, next, wal, cache, metas, app, up, trim, del, fetch,
                   claimed, acked>>

(* sort_by_key: stable, by the start offset.  An element goes after those   *)
(* that do not start behind it.                                            *)
Insert(s, m) ==
    LET place == Cardinality({i \in DOMAIN s : s[i].start <= m.start}) + 1
    IN  [i \in 1..Len(s)+1 |->
            IF i < place THEN s[i] ELSE IF i = place THEN m ELSE s[i-1]]

Sorted(s) ==
    LET done[i \in 0..Len(s)] == IF i = 0 THEN << >> ELSE Insert(done[i-1], s[i])
    IN  done[Len(s)]

Replaced_KeepsSmall(c) == Sorted(Append(metas, comp[c].meta))

Replaced(c) ==
    LET retained == Only(metas, {m \in Registered : m.key \notin SmallKeys(c)})
    IN  Sorted(Append(retained, comp[c].meta))

CompactReplace(c) ==
    /\ comp[c].pc = "replace"
    /\ metas' = Replaced(c)
    /\ comp' = [comp EXCEPT ![c].pc = "delete"]
    /\ UNCHANGED <<start, purged, next, wal, cache, objects, app, up, trim, del, fetch,
                   claimed, acked>>

Without(keys) == [k \in DOMAIN objects \ keys |-> objects[k]]

CompactDelete(c) ==
    /\ comp[c].pc = "delete"
    /\ \/ objects' = Without(SmallKeys(c))
       \/ IoFaults /\ UNCHANGED objects
    /\ comp' = [comp EXCEPT ![c] = Idle]
    /\ UNCHANGED <<start, purged, next, wal, cache, metas, app, up, trim, del, fetch,
                   claimed, acked>>

-----------------------------------------------------------------------------
(* S3StreamStorage::trim: the offset, the LogCache, the WAL, then the      *)
(* objects under the metadata's write lock.  The offset is stored as it    *)
(* is: it may lie below the start offset, or beyond the next one.          *)

TrimStart(t, to) ==
    /\ trim[t] = Idle
    /\ start' = to
    /\ purged' = Max({purged, to})
    /\ trim' = [trim EXCEPT ![t] = [pc |-> "cache", to |-> to]]
    /\ UNCHANGED <<next, tiers, app, up, comp, del, fetch, claimed, acked>>

CacheFrom(offset) == {b \in cache : b.base >= offset}

TrimCache(t) ==
    /\ trim[t].pc = "cache"
    /\ cache' = CacheFrom(trim[t].to)
    /\ trim' = [trim EXCEPT ![t].pc = "wal"]
    /\ UNCHANGED <<start, purged, next, wal, metas, objects, app, up, comp, del, fetch,
                   claimed, acked>>

(* A failed WAL trim ends the call before the objects. *)
TrimWal(t) ==
    /\ trim[t].pc = "wal"
    /\ \/ /\ wal' = WalFrom(trim[t].to)
          /\ trim' = [trim EXCEPT ![t].pc = "objects"]
       \/ /\ IoFaults
          /\ trim' = [trim EXCEPT ![t] = Idle]
          /\ UNCHANGED wal
    /\ UNCHANGED <<start, purged, next, cache, metas, objects, app, up, comp, del, fetch,
                   claimed, acked>>

Obsolete_ByStart(m, to) == m.start < to

Obsolete(m, to) == m.end < to

TrimObjects(t) ==
    /\ trim[t].pc = "objects"
    /\ metas' = Only(metas, {m \in Registered : ~Obsolete(m, trim[t].to)})
    /\ \/ objects' = Without({m.key : m \in {x \in Registered : Obsolete(x, trim[t].to)}})
       \/ IoFaults /\ UNCHANGED objects
    /\ trim' = [trim EXCEPT ![t] = Idle]
    /\ UNCHANGED <<start, purged, next, wal, cache, app, up, comp, del, fetch,
                   claimed, acked>>

-----------------------------------------------------------------------------
(* DeleteRecords: the target is checked against the high watermark and the *)
(* start offset, then advance_start_offset compares and swaps.             *)

DeleteCheck(d, to) ==
    /\ del[d] = Idle
    /\ start < to
    /\ to <= next
    /\ del' = [del EXCEPT ![d] = [pc |-> "advance", to |-> to]]
    /\ UNCHANGED <<start, purged, next, tiers, app, up, comp, trim, fetch, claimed, acked>>

Advances_Always(d) == TRUE

Advances(d) == del[d].to > start

DeleteAdvance(d) ==
    /\ del[d].pc = "advance"
    /\ \/ /\ Advances(d)
          /\ start' = del[d].to
          /\ del' = [del EXCEPT ![d].pc = "cache"]
       \/ /\ ~Advances(d)
          /\ del' = [del EXCEPT ![d] = Idle]
          /\ UNCHANGED start
    /\ UNCHANGED <<purged, next, tiers, app, up, comp, trim, fetch, claimed, acked>>

DeleteCached(d) ==
    /\ del[d].pc = "cache"
    /\ cache' = CacheFrom(del[d].to)
    /\ del' = [del EXCEPT ![d] = Idle]
    /\ UNCHANGED <<start, purged, next, wal, metas, objects, app, up, comp, trim, fetch,
                   claimed, acked>>

-----------------------------------------------------------------------------
(* fetch: the bounds, then the LogCache, then the first object that covers *)
(* the offset, read under the metadata's read lock.  An answer is the      *)
(* offsets it holds.  The ghost fields uploaded and acked say whether the  *)
(* offset was in a registered object, or in an acknowledged batch, when    *)
(* the fetch began.                                                        *)

Holds(m, o) == m.key \in DOMAIN objects /\ o \in Records(objects[m.key])

FetchBounds(f, o) ==
    /\ fetch[f] = Idle
    /\ start <= o
    /\ o < next
    /\ fetch' = [fetch EXCEPT ![f] =
           [pc |-> "cache", offset |-> o, uploaded |-> \E m \in Registered : Holds(m, o),
            acked |-> \E b \in acked : b.base <= o /\ o <= Last(b)]]
    /\ UNCHANGED <<start, purged, next, tiers, app, up, comp, trim, del, claimed, acked>>

Answer(f, out) ==
    fetch' = [fetch EXCEPT ![f] =
        [pc |-> "answer", offset |-> @.offset, uploaded |-> @.uploaded,
         acked |-> @.acked, out |-> out]]

(* LogCache::read_range goes on while bases follow each other one by one. *)
CachedFrom(o) ==
    UNION {b.base..Last(b) : b \in {x \in cache :
              /\ x.base >= o
              /\ \A y \in o..x.base : \E z \in cache : z.base = y}}

FetchCache(f) ==
    /\ fetch[f].pc = "cache"
    /\ IF \E b \in cache : b.base = fetch[f].offset
       THEN Answer(f, CachedFrom(fetch[f].offset))
       ELSE fetch' = [fetch EXCEPT ![f].pc = "object"]
    /\ UNCHANGED <<start, purged, next, tiers, app, up, comp, trim, del, claimed, acked>>

(* The first registered object that covers the offset decides. *)
First(o) == metas[Min({i \in DOMAIN metas : Covers(metas[i], o)})]

(* Of the object only the block at the object's start offset is returned;  *)
(* of an object that is gone, nothing.                                     *)
BlockAt(m) ==
    IF m.key \in DOMAIN objects
    THEN Records({x \in objects[m.key] : x.start = m.start})
    ELSE {}

FetchObject(f) ==
    /\ fetch[f].pc = "object"
    /\ IF \E m \in Registered : Covers(m, fetch[f].offset)
       THEN Answer(f, BlockAt(First(fetch[f].offset)))
       ELSE Answer(f, {})
    /\ UNCHANGED <<start, purged, next, tiers, app, up, comp, trim, del, claimed, acked>>

(* get_object fails: the fetch is an error, and no answer. *)
FetchFails(f) ==
    /\ IoFaults
    /\ fetch[f].pc = "object"
    /\ \E m \in Registered : Covers(m, fetch[f].offset)
    /\ fetch' = [fetch EXCEPT ![f] = Idle]
    /\ UNCHANGED <<start, purged, next, tiers, app, up, comp, trim, del, claimed, acked>>

FetchDone(f) ==
    /\ fetch[f].pc = "answer"
    /\ fetch' = [fetch EXCEPT ![f] = Idle]
    /\ UNCHANGED <<start, purged, next, tiers, app, up, comp, trim, del, claimed, acked>>

-----------------------------------------------------------------------------
Offsets == 0..MaxOffset

Next ==
    \/ \E n \in Counts : AppendTakeOffset(n)
    \/ AppendWal \/ AppendFails \/ AppendCache
    \/ \E u \in Uploaders :
          \/ \E last \in acked : UploadBegin(u, last)
          \/ UploadPut(u) \/ UploadRegister(u) \/ UploadTrimWal(u)
    \/ \E c \in Compactors :
          CompactRead(c) \/ CompactFails(c) \/ CompactPut(c) \/ CompactReplace(c)
              \/ CompactDelete(c)
    \/ \E t \in Trimmers :
          \/ \E to \in TrimTargets : TrimStart(t, to)
          \/ TrimCache(t) \/ TrimWal(t) \/ TrimObjects(t)
    \/ \E d \in Deleters :
          \/ \E to \in Offsets : DeleteCheck(d, to)
          \/ DeleteAdvance(d) \/ DeleteCached(d)
    \/ \E f \in Fetchers :
          \/ \E o \in Offsets : FetchBounds(f, o)
          \/ FetchCache(f) \/ FetchObject(f) \/ FetchFails(f) \/ FetchDone(f)

Spec == Init /\ [][Next]_vars

-----------------------------------------------------------------------------
(* Properties.                                                             *)

Batches == [base : Offsets, count : Counts]
Stored == wal \cup UNION {UNION {x.batches : x \in objects[m.key]} :
                             m \in {y \in Registered : y.key \in DOMAIN objects}}

(* Offsets and tiers hold what their types allow, and the LogCache never   *)
(* holds more than its capacity.                                           *)
TypeOK ==
    /\ {next, claimed} \subseteq Offsets
    /\ {start, purged} \subseteq Offsets \cup TrimTargets
    /\ wal \cup cache \cup acked \subseteq Batches
    /\ Cardinality(cache) <= MaxCached
    /\ \A m \in Registered : m.start <= m.end /\ m.end < next
    /\ app.pc \in {"idle", "wal", "cache"}

(* append, upload_batch, trim and compaction: an acknowledged batch that   *)
(* no trim was ever called past is in the WAL or in a registered object,   *)
(* at every moment of an upload, a compaction, a trim and a DeleteRecords, *)
(* also after a trim that moved the start offset back.                     *)
AckedStored ==
    \A b \in acked : b.base >= purged => b \in Stored

(* s3_objects: every registered object is in the storage, and its blocks   *)
(* reach from its start to its end, so a fetch under the metadata's lock   *)
(* finds the object it looks up.                                           *)
RegisteredExist ==
    \A m \in Registered :
        /\ m.key \in DOMAIN objects
        /\ Min({x.start : x \in objects[m.key]}) = m.start
        /\ Max({x.end : x \in objects[m.key]}) = m.end

(* fetch: a fetch of an offset that was in a registered object when it     *)
(* began returns that offset, unless a trim was called past it; a          *)
(* DeleteRecords that passes the offset meanwhile does not take it away.   *)
UploadedFetchable ==
    \A f \in Fetchers :
        fetch[f].pc = "answer" /\ fetch[f].uploaded =>
            fetch[f].offset \in fetch[f].out \/ purged > fetch[f].offset

(* stream.rs, append: "Acknowledged as soon as it is committed to the WAL, *)
(* and placed in the LogCache for instant tail reads": a fetch of an       *)
(* acknowledged offset returns it, unless a trim was called past it.       *)
AckedFetchable ==
    \A f \in Fetchers :
        fetch[f].pc = "answer" /\ fetch[f].acked =>
            fetch[f].offset \in fetch[f].out \/ purged > fetch[f].offset

(* stream.rs, upload_batch: "Durability confirmed in S3: Trim WAL up to    *)
(* start_offset": what an upload trims from the WAL is in S3.              *)
TrimmedIsInS3 ==
    [][\A u \in Uploaders : up[u].pc = "trim" /\ up[u] # up'[u] =>
          \A b \in wal \ wal' : b \in Stored']_vars

(* advance_start_offset: of all steps only the store of a trim moves the   *)
(* start offset back.  DeleteRecords requests that race each other and     *)
(* trims do not, so what one answered as deleted stays deleted until a     *)
(* trim is called with a lower offset.                                     *)
OnlyTrimMovesBack ==
    [][start' < start => \E t \in Trimmers : TrimStart(t, start')]_vars

(* README: DeleteRecords "Automatically evicts truncated records from the  *)
(* in-memory LogCache": with no request and no append in progress, no      *)
(* record below the start offset is cached.                                *)
TruncatedEvicted ==
    app = Idle /\ (\A d \in Deleters : del[d] = Idle) =>
        \A b \in cache : b.base >= start

=============================================================================
