---------------------------- MODULE FileWalProofs ----------------------------
(***************************************************************************)
(* Proofs about FileWal, for any number of clients and any batch and       *)
(* segment limits.                                                         *)
(***************************************************************************)
EXTENDS FileWal, WellFoundedInduction, TLAPS

-----------------------------------------------------------------------------
(* Facts about sequences of items and about the scan of a segment.         *)

(* A non-empty set of naturals has a least element. *)
LEMMA LeastNatural ==
    ASSUME NEW T \in SUBSET Nat, T # {}
    PROVE  \E x \in T : \A y \in T : x <= y
<1> DEFINE R == OpToRel(<, Nat)
<1>1. IsWellFoundedOn(R, Nat)
  BY NatLessThanWellFounded, Zenon
<1>2. \A x, y \in Nat : y < x => <<y, x>> \in R
  BY Zenon DEF OpToRel
<1> HIDE DEF R
<1>3. \E x \in T : \A y \in T : ~ (<<y, x>> \in R)
  BY <1>1, WFMin, Zenon
<1>4. PICK x \in T : \A y \in T : ~ (<<y, x>> \in R)
  BY <1>3, Zenon
<1>5. \A y \in T : ~ (y < x)
  BY <1>2, <1>4, Zenon
<1>6. \A y \in T : x <= y
  BY <1>5
<1> QED
  BY <1>6, Zenon

(* A scan stops at the first item that does not decode, or at the end: the *)
(* loop of WalRecovery::recover is well defined by ValidLength.            *)
LEMMA ValidLengthStops ==
    ASSUME NEW items \in Seq(Items)
    PROVE  /\ ValidLength(items) \in 0..Len(items)
           /\ \A j \in 1..ValidLength(items) : items[j] # Torn
           /\ ValidLength(items) < Len(items)
                  => items[ValidLength(items) + 1] = Torn
<1> DEFINE Q(n) == /\ \A j \in 1..n : items[j] # Torn
                   /\ n < Len(items) => items[n + 1] = Torn
           T == {j \in 1..Len(items) : items[j] = Torn}
<1>1. \E n \in 0..Len(items) : Q(n)
  <2>1. CASE T = {}
    <3>1. Len(items) \in 0..Len(items) /\ Q(Len(items))
      BY <2>1
    <3> QED
      BY <3>1, Zenon
  <2>2. CASE T # {}
    <3>1. T \in SUBSET Nat
      OBVIOUS
    <3>2. PICK x \in T : \A y \in T : x <= y
      <4> HIDE DEF T
      <4> QED
        BY <2>2, <3>1, LeastNatural, Zenon
    <3>3. x - 1 \in 0..Len(items) /\ Q(x - 1)
      BY <3>2
    <3> QED
      BY <3>3, Zenon
  <2> QED
    BY <2>1, <2>2, Zenon
<1> HIDE DEF Q
<1>2. /\ (CHOOSE n \in 0..Len(items) : Q(n)) \in 0..Len(items)
      /\ Q(CHOOSE n \in 0..Len(items) : Q(n))
  BY <1>1, Zenon
<1> QED
  BY <1>2, Zenon DEF ValidLength, Q

(* The prefix a recovery keeps. *)
LEMMA PrefixItems ==
    ASSUME NEW items \in Seq(Items), NEW n \in 0..Len(items)
    PROVE  /\ SubSeq(items, 1, n) \in Seq(Items)
           /\ Len(SubSeq(items, 1, n)) = n
           /\ \A i \in 1..n : SubSeq(items, 1, n)[i] = items[i]
<1>1. \A i \in 1..n : items[i] \in Items
  OBVIOUS
<1> QED
  BY <1>1

(* What a write leaves in a segment file. *)
LEMMA ConcatItems ==
    ASSUME NEW s \in Seq(Items), NEW t \in Seq(Items)
    PROVE  /\ s \o t \in Seq(Items)
           /\ Len(s \o t) = Len(s) + Len(t)
           /\ \A i \in 1..Len(s) : (s \o t)[i] = s[i]
           /\ \A i \in 1..Len(t) : (s \o t)[Len(s) + i] = t[i]
  OBVIOUS

(* The two tails a cut file can end with. *)
LEMMA TornTail == << >> \in Seq(Items) /\ <<Torn>> \in Seq(Items)
  BY DEF Items, Torn

(* A partial write is a sequence of items. *)
LEMMA PartialWritesItems ==
    ASSUME pending \in Seq(Items)
    PROVE  PartialWrites \subseteq Seq(Items)
<1> SUFFICES ASSUME NEW n \in 0..(Len(pending) - 1),
                    NEW tail \in {<< >>, <<Torn>>}
             PROVE  SubSeq(pending, 1, n) \o tail \in Seq(Items)
  BY DEF PartialWrites
<1>1. SubSeq(pending, 1, n) \in Seq(Items)
  BY PrefixItems
<1>2. tail \in Seq(Items)
  BY TornTail, Zenon
<1> QED
  BY <1>1, <1>2, ConcatItems, Zenon

-----------------------------------------------------------------------------
(* Type correctness.                                                       *)

(* The empty log directory, before the first open, is type-correct. *)
LEMMA InitTypeOK == Init => TypeOK
<1> SUFFICES ASSUME Init
             PROVE  TypeOK
  OBVIOUS
<1>1. DOMAIN files = {} /\ DOMAIN durable = {}
  BY DEF Init
<1>2. queue \in Seq(Messages) /\ batch \in Seq(Messages) /\ pending \in Seq(Items)
  BY DEF Init
<1> QED
  BY <1>1, <1>2, Zenon DEF Init, TypeOK

(* WriteToActive keeps every segment a sequence of items no shorter than   *)
(* its durable part.                                                       *)
LEMMA WriteToActiveType ==
    ASSUME TypeOK, NEW items \in Seq(Items), WriteToActive(items)
    PROVE  /\ DOMAIN files' = DOMAIN files
           /\ \A b \in DOMAIN files : /\ files'[b] \in Seq(Items)
                                     /\ Len(files'[b]) >= Len(files[b])
<1>1. DOMAIN files' = DOMAIN files
  BY Zenon DEF WriteToActive
<1>2. ASSUME NEW b \in DOMAIN files
      PROVE  files'[b] \in Seq(Items) /\ Len(files'[b]) >= Len(files[b])
  <2>1. files[b] \in Seq(Items)
    BY Zenon DEF TypeOK
  <2>2. CASE b = active
    <3>1. files'[b] = files[b] \o items
      BY <2>2, Zenon DEF WriteToActive
    <3> QED
      BY <2>1, <3>1, ConcatItems
  <2>3. CASE b # active
    BY <2>1, <2>3 DEF WriteToActive
  <2> QED
    BY <2>2, <2>3, Zenon
<1> QED
  BY <1>1, <1>2, Zenon

(* sync_all on the active segment leaves the files and durable lengths typed. *)
LEMMA SyncActiveType ==
    ASSUME TypeOK, SyncActive, UNCHANGED files
    PROVE  /\ DOMAIN durable' = DOMAIN files'
           /\ \A b \in DOMAIN files' : durable'[b] \in 0..Len(files'[b])
  BY DEF TypeOK, SyncActive

(* FileWal::open, recovery included, keeps the types. *)
LEMMA OpenTypeOK == TypeOK /\ Open => TypeOK'
<1> SUFFICES ASSUME TypeOK, Open
             PROVE  TypeOK'
  OBVIOUS
<1>1. PICK h \in {0} \cup {r.seq : r \in Readable} :
          /\ nextSeq' = StartSeq(h)
          /\ InitActiveSegment(StartSeq(h))
  BY Zenon DEF Open
<1>2. Readable \subseteq Items
  BY DEF Readable, TypeOK
<1>3. h \in Nat
  BY <1>2 DEF Items
<1>4. StartSeq(h) \in Nat
  BY <1>3 DEF StartSeq
<1>5. /\ DOMAIN files' \subseteq Nat
      /\ \A b \in DOMAIN files' : files'[b] \in Seq(Items)
      /\ DOMAIN durable' = DOMAIN files'
      /\ \A b \in DOMAIN files' : durable'[b] \in 0..Len(files'[b])
      /\ active' \in Nat
      /\ size' \in Nat
  <2>1. CASE DOMAIN files = {}
    <3>1. /\ files' = [b \in {StartSeq(h)} |-> << >>]
          /\ durable' = [b \in {StartSeq(h)} |-> 0]
          /\ active' = StartSeq(h)
          /\ size' = 0
      BY <1>1, <2>1, Zenon DEF InitActiveSegment
    <3>2. << >> \in Seq(Items) /\ Len(<< >>) = 0
      OBVIOUS
    <3> QED
      BY <1>4, <3>1, <3>2
  <2>2. CASE DOMAIN files # {}
    <3>1. /\ files' = [b \in DOMAIN files |-> RecoveredFile(b)]
          /\ durable' = [b \in DOMAIN files |-> RecoveredDurable(b)]
      BY <1>1, <2>2, Zenon DEF InitActiveSegment
    <3>2. PICK top \in DOMAIN files :
              active' = top /\ size' = ValidLength(files[top])
      BY <1>1, <2>2, Zenon DEF InitActiveSegment
    <3>3. \A b \in DOMAIN files : ValidLength(files[b]) \in 0..Len(files[b])
      BY ValidLengthStops, Zenon DEF TypeOK
    <3>4. ASSUME NEW b \in DOMAIN files
          PROVE  /\ RecoveredFile(b) \in Seq(Items)
                 /\ Len(RecoveredFile(b)) = ValidLength(files[b])
      BY <3>3, PrefixItems, Zenon DEF TypeOK, RecoveredFile
    <3>5. \A b \in DOMAIN files :
              RecoveredDurable(b) \in 0..ValidLength(files[b])
      BY <3>3 DEF TypeOK, RecoveredDurable
    <3> QED
      BY <3>1, <3>2, <3>3, <3>4, <3>5 DEF TypeOK
  <2> QED
    BY <2>1, <2>2, Zenon
<1>6. nextSeq' \in Nat
  BY <1>1, <1>4, Zenon
<1> QED
  BY <1>5, <1>6, Zenon DEF TypeOK, Open, history

(* Answering a set of callers keeps the calls typed. *)
LEMMA AnswerType ==
    ASSUME TypeOK, NEW cs, Answer(cs)
    PROVE  calls' \in [Clients -> {"none", "append", "flush", "trim"}]
  BY Zenon DEF TypeOK, Answer

(* The head and tail of a non-empty channel are a message and a channel. *)
LEMMA QueueHead ==
    ASSUME TypeOK, queue # << >>
    PROVE  Head(queue) \in Messages /\ Tail(queue) \in Seq(Messages)
  BY DEF TypeOK

(* The process going away, by kill or power loss, keeps the types. *)
LEMMA DiesTypeOK ==
    ASSUME TypeOK, Dies,
           DOMAIN files' \subseteq Nat,
           \A b \in DOMAIN files' : files'[b] \in Seq(Items),
           DOMAIN durable' = DOMAIN files',
           \A b \in DOMAIN files' : durable'[b] \in 0..Len(files'[b])
    PROVE  TypeOK'
<1>1. calls' \in [Clients -> {"none", "append", "flush", "trim"}]
  BY AnswerType, Zenon DEF Dies
<1>2. queue' \in Seq(Messages) /\ batch' \in Seq(Messages) /\ pending' \in Seq(Items)
  BY DEF Dies, BatchDone
<1>3. pc' = "down" /\ failed' \in BOOLEAN
  BY Zenon DEF Dies, BatchDone
<1>4. /\ active' \in Nat /\ size' \in Nat /\ nextSeq' \in Nat
      /\ appends' \in Nat /\ crashes' \in Nat
      /\ acked' \subseteq Items /\ flushed' \subseteq acked'
  BY DEF Dies, history, TypeOK
<1> QED
  BY <1>1, <1>2, <1>3, <1>4, Zenon DEF TypeOK

(* Every step keeps the types. *)
LEMMA NextTypeOK == TypeOK /\ [Next]_vars => TypeOK'
<1> SUFFICES ASSUME TypeOK, [Next]_vars
             PROVE  TypeOK'
  OBVIOUS
<1>1. CASE Open
  BY <1>1, OpenTypeOK, Zenon
<1>2. ASSUME NEW c \in Clients, NEW op \in {"append", "flush", "trim"},
             Call(c, op)
      PROVE  TypeOK'
  <2>1. appends' \in Nat
    BY <1>2 DEF Call, TypeOK
  <2>2. [op |-> op, client |-> c, req |-> appends'] \in Messages
    BY <2>1, Zenon DEF Messages
  <2>3. queue' \in Seq(Messages)
    BY <1>2, <2>2 DEF Call, TypeOK
  <2>4. calls' \in [Clients -> {"none", "append", "flush", "trim"}]
    BY <1>2, Zenon DEF Call, TypeOK
  <2> QED
    BY <1>2, <2>1, <2>3, <2>4, Zenon DEF Call, TypeOK, disk, history
<1>3. CASE AnswerFlush
  <2>1. queue' \in Seq(Messages)
    BY <1>3, QueueHead, Zenon DEF AnswerFlush
  <2>2. calls' \in [Clients -> {"none", "append", "flush", "trim"}]
    BY <1>3, AnswerType, Zenon DEF AnswerFlush
  <2>3. /\ DOMAIN durable' = DOMAIN files'
        /\ \A b \in DOMAIN files' : durable'[b] \in 0..Len(files'[b])
    <3>1. CASE SyncActive
      BY <1>3, <3>1, SyncActiveType, Zenon DEF AnswerFlush
    <3>2. CASE UNCHANGED durable
      BY <1>3, <3>2, Zenon DEF AnswerFlush, TypeOK
    <3> QED
      BY <1>3, <3>1, <3>2, Zenon DEF AnswerFlush
  <2> QED
    BY <1>3, <2>1, <2>2, <2>3, Zenon DEF AnswerFlush, TypeOK
<1>4. CASE AnswerTrim
  <2>1. queue' \in Seq(Messages)
    BY <1>4, QueueHead, Zenon DEF AnswerTrim
  <2>2. calls' \in [Clients -> {"none", "append", "flush", "trim"}]
    BY <1>4, AnswerType, Zenon DEF AnswerTrim
  <2> QED
    BY <1>4, <2>1, <2>2, Zenon DEF AnswerTrim, TypeOK, disk, history
<1>5. CASE TakeAppend
  <2>1. queue' \in Seq(Messages) /\ Head(queue) \in Messages
    BY <1>5, QueueHead, Zenon DEF TakeAppend
  <2>2. batch' \in Seq(Messages)
    BY <1>5, <2>1 DEF TakeAppend, TypeOK
  <2> QED
    BY <1>5, <2>1, <2>2, Zenon DEF TakeAppend, TypeOK, disk, history
<1>6. CASE EncodeBatch
  <2>1. \A i \in 1..Len(batch) :
            [seq |-> nextSeq + i - 1, req |-> batch[i].req] \in Items
    <3>1. \A i \in 1..Len(batch) : batch[i] \in Messages
      BY DEF TypeOK
    <3>2. \A i \in 1..Len(batch) : batch[i].req \in Nat
      BY <3>1, Zenon DEF Messages
    <3>3. \A i \in 1..Len(batch) : nextSeq + i - 1 \in Nat
      BY DEF TypeOK
    <3> QED
      BY <3>2, <3>3, Zenon DEF Items
  <2>2. pending' \in Seq(Items)
    BY <1>6, <2>1 DEF EncodeBatch, Sequenced, TypeOK
  <2>3. nextSeq' \in Nat
    BY <1>6 DEF EncodeBatch, SeqAfterBatch, TypeOK
  <2> QED
    BY <1>6, <2>2, <2>3, Zenon DEF EncodeBatch, TypeOK, disk, history
<1>7. CASE WriteBatch
  <2>1. /\ DOMAIN files' = DOMAIN files
        /\ \A b \in DOMAIN files : /\ files'[b] \in Seq(Items)
                                  /\ Len(files'[b]) >= Len(files[b])
    BY <1>7, WriteToActiveType, Zenon DEF WriteBatch, TypeOK
  <2>2. size' \in Nat
    BY <1>7 DEF WriteBatch, TypeOK
  <2>3. pc' \in {"sync", "ack"}
    BY <1>7, Zenon DEF WriteBatch, AfterWrite
  <2> QED
    BY <1>7, <2>1, <2>2, <2>3 DEF WriteBatch, TypeOK, history
<1>8. CASE WriteFails
  <2>1. PICK items \in PartialWrites : WriteToActive(items)
    BY <1>8, Zenon DEF WriteFails
  <2>2. items \in Seq(Items)
    BY <2>1, PartialWritesItems, Zenon DEF TypeOK
  <2>3. /\ DOMAIN files' = DOMAIN files
        /\ \A b \in DOMAIN files : /\ files'[b] \in Seq(Items)
                                  /\ Len(files'[b]) >= Len(files[b])
    BY <2>1, <2>2, WriteToActiveType, Zenon
  <2> QED
    BY <1>8, <2>3 DEF WriteFails, TypeOK, history
<1>9. CASE SyncBatch
  <2>1. /\ DOMAIN durable' = DOMAIN files'
        /\ \A b \in DOMAIN files' : durable'[b] \in 0..Len(files'[b])
    <3>1. CASE SyncActive
      BY <1>9, <3>1, SyncActiveType, Zenon DEF SyncBatch
    <3>2. CASE UNCHANGED durable
      BY <1>9, <3>2, Zenon DEF SyncBatch, TypeOK
    <3> QED
      BY <1>9, <3>1, <3>2, Zenon DEF SyncBatch
  <2> QED
    BY <1>9, <2>1, Zenon DEF SyncBatch, TypeOK, history
<1>10. CASE AckBatch
  <2>1. calls' \in [Clients -> {"none", "append", "flush", "trim"}]
    BY <1>10, AnswerType, Zenon DEF AckBatch
  <2>2. acked' \subseteq Items /\ acked \subseteq acked'
    BY <1>10 DEF AckBatch, TypeOK
  <2>3. batch' \in Seq(Messages) /\ pending' \in Seq(Items) /\ failed' = FALSE
    BY <1>10 DEF AckBatch, BatchDone
  <2> QED
    BY <1>10, <2>1, <2>2, <2>3, Zenon DEF AckBatch, TypeOK, disk
<1>11. CASE RollSegment
  <2>1. CASE CreateSegment(nextSeq)
    <3>1. << >> \in Seq(Items) /\ Len(<< >>) = 0
      OBVIOUS
    <3>2. /\ DOMAIN files' \subseteq Nat
          /\ \A b \in DOMAIN files' : files'[b] \in Seq(Items)
          /\ DOMAIN durable' = DOMAIN files'
          /\ \A b \in DOMAIN files' : durable'[b] \in 0..Len(files'[b])
          /\ active' \in Nat
          /\ size' \in Nat
      BY <2>1, <3>1 DEF CreateSegment, TypeOK
    <3> QED
      BY <1>11, <3>2, Zenon DEF RollSegment, TypeOK, history
  <2>2. CASE UNCHANGED <<disk, active, size>>
    BY <1>11, <2>2, Zenon DEF RollSegment, TypeOK, disk, history
  <2> QED
    BY <1>11, <2>1, <2>2, Zenon DEF RollSegment
<1>12. ASSUME NEW minSeq \in PurgePoints, Purge(minSeq)
       PROVE  TypeOK'
  BY <1>12, Zenon DEF Purge, TypeOK, worker, history
<1>13. CASE Shutdown
  <2>1. /\ DOMAIN durable' = DOMAIN files'
        /\ \A b \in DOMAIN files' : durable'[b] \in 0..Len(files'[b])
    <3>1. CASE SyncActive
      BY <1>13, <3>1, SyncActiveType, Zenon DEF Shutdown
    <3>2. CASE UNCHANGED durable
      BY <1>13, <3>2, Zenon DEF Shutdown, TypeOK
    <3> QED
      BY <1>13, <3>1, <3>2, Zenon DEF Shutdown
  <2> QED
    BY <1>13, <2>1 DEF Shutdown, TypeOK, history
<1>14. CASE Kill
  <2>1. /\ DOMAIN files' = DOMAIN files
        /\ \A b \in DOMAIN files : /\ files'[b] \in Seq(Items)
                                  /\ Len(files'[b]) >= Len(files[b])
    <3>1. CASE pc = "write"
      <4>1. PICK items \in PartialWrites \cup {pending} : WriteToActive(items)
        BY <1>14, <3>1, Zenon DEF Kill
      <4>2. items \in Seq(Items)
        BY <4>1, PartialWritesItems, Zenon DEF TypeOK
      <4> QED
        BY <4>1, <4>2, WriteToActiveType, Zenon
    <3>2. CASE pc # "write"
      BY <1>14, <3>2 DEF Kill, TypeOK
    <3> QED
      BY <3>1, <3>2, Zenon
  <2>2. Dies /\ durable' = durable
    BY <1>14, Zenon DEF Kill
  <2>3. /\ DOMAIN files' \subseteq Nat
        /\ \A b \in DOMAIN files' : files'[b] \in Seq(Items)
        /\ DOMAIN durable' = DOMAIN files'
        /\ \A b \in DOMAIN files' : durable'[b] \in 0..Len(files'[b])
    BY <2>1, <2>2 DEF TypeOK
  <2> QED
    BY <2>2, <2>3, DiesTypeOK, Zenon
<1>15. CASE PowerLoss
  <2>1. PICK kept \in SUBSET DOMAIN files, torn \in SUBSET DOMAIN files,
             cut \in [DOMAIN files -> UNION {0..Len(files[b]) :
                                             b \in DOMAIN files}] :
            /\ \A b \in DOMAIN files : cut[b] \in durable[b]..Len(files[b])
            /\ \A b \in torn : cut[b] < Len(files[b])
            /\ files' = [b \in kept |->
                   SubSeq(files[b], 1, cut[b])
                       \o (IF b \in torn THEN <<Torn>> ELSE << >>)]
            /\ durable' = [b \in kept |->
                   cut[b] + (IF b \in torn THEN 1 ELSE 0)]
    BY <1>15, Zenon DEF PowerLoss
  <2>2. ASSUME NEW b \in kept
        PROVE  /\ files'[b] \in Seq(Items)
               /\ durable'[b] \in 0..Len(files'[b])
    <3>1. cut[b] \in 0..Len(files[b]) /\ files[b] \in Seq(Items)
      BY <2>1 DEF TypeOK
    <3>2. /\ SubSeq(files[b], 1, cut[b]) \in Seq(Items)
          /\ Len(SubSeq(files[b], 1, cut[b])) = cut[b]
      BY <3>1, PrefixItems, Zenon
    <3> DEFINE tail == IF b \in torn THEN <<Torn>> ELSE << >>
               head == SubSeq(files[b], 1, cut[b])
    <3>3. tail \in Seq(Items) /\ Len(tail) = IF b \in torn THEN 1 ELSE 0
      BY TornTail, Zenon
    <3>4. files'[b] = head \o tail
      BY <2>1, Zenon
    <3>5. durable'[b] = cut[b] + (IF b \in torn THEN 1 ELSE 0)
      BY <2>1, Zenon
    <3>6. head \in Seq(Items) /\ Len(head) = cut[b]
      BY <3>2, Zenon
    <3> HIDE DEF tail, head
    <3>7. head \o tail \in Seq(Items) /\ Len(head \o tail) = Len(head) + Len(tail)
      BY <3>3, <3>6, ConcatItems, Zenon
    <3>8. cut[b] \in Nat /\ durable'[b] = Len(head \o tail)
      BY <3>1, <3>3, <3>5, <3>6, <3>7
    <3>9. durable'[b] \in 0..Len(files'[b])
      <4>1. Len(head \o tail) \in Nat
        BY <3>7
      <4> QED
        BY <3>4, <3>8, <4>1
    <3> QED
      BY <3>4, <3>7, <3>9, Zenon
  <2>3. DOMAIN files' = kept /\ DOMAIN durable' = kept
    BY <2>1, Zenon
  <2>4. DOMAIN files' \subseteq Nat
    BY <2>3, Zenon DEF TypeOK
  <2> QED
    BY <1>15, <2>2, <2>3, <2>4, DiesTypeOK, Zenon DEF PowerLoss
<1>16. CASE UNCHANGED vars
  BY <1>16, Zenon DEF vars, disk, worker, history, TypeOK
<1> QED
  BY Zenon, <1>1, <1>2, <1>3, <1>4, <1>5, <1>6, <1>7, <1>8, <1>9, <1>10, <1>11,
     <1>12, <1>13, <1>14, <1>15, <1>16 DEF Next, Worker

(***************************************************************************)
(* The state of the log, its worker and its callers keeps its types: in    *)
(* particular no segment ever has more durable items than items, which     *)
(* includes the segments a crash cut and recovery truncated.               *)
(***************************************************************************)
THEOREM TypeCorrect == Spec => []TypeOK
<1>1. Init => TypeOK
  BY InitTypeOK, Zenon
<1>2. TypeOK /\ [Next]_vars => TypeOK'
  BY NextTypeOK, Zenon
<1> QED
  BY <1>1, <1>2, PTL DEF Spec

-----------------------------------------------------------------------------
(* Durability.  It holds when every batch is synced before it is           *)
(* acknowledged, the only I/O call that may fail is the creation of the    *)
(* next segment, and nobody purges segments.                               *)

SafeConfig == SyncToDisk /\ Faults \subseteq {"create"} /\ PurgePoints = {}

(* The i-th item of segment b is on the medium, and a scan reaches it. *)
Kept(b, i) ==
    /\ b \in DOMAIN files
    /\ i \in 1..durable[b]
    /\ \A j \in 1..i : files[b][j] # Torn

(***************************************************************************)
(* The inductive invariant.  Acknowledged records are Kept; every segment  *)
(* but the first was opened after a Kept record with the number before its *)
(* base, so the number recovery continues with is never below a base.  The *)
(* rest ties the worker's position to what is on the disk.                 *)
(***************************************************************************)
AckedKept ==
    \A r \in acked : \E b \in DOMAIN files : \E i \in 1..durable[b] :
        Kept(b, i) /\ files[b][i] = r

BasesFollow ==
    \A base \in DOMAIN files :
        \/ base = 1
        \/ \E b \in DOMAIN files : \E i \in 1..durable[b] :
               Kept(b, i) /\ files[b][i].seq = base - 1

TornAtEnd ==
    \A b \in DOMAIN files : \A i \in 1..Len(files[b]) :
        files[b][i] = Torn => pc = "down" /\ i = Len(files[b])

FirstPending == nextSeq - Len(pending)

Running ==
    pc # "down" =>
        /\ active \in DOMAIN files
        /\ nextSeq >= 1
        /\ \A b \in DOMAIN files : \A i \in 1..Len(files[b]) :
               files[b][i].seq < nextSeq

BatchInHand ==
    /\ pc \in {"write", "sync", "ack"} =>
          /\ pending # << >>
          /\ FirstPending >= 1
          /\ \A i \in 1..Len(pending) : pending[i].seq = FirstPending + i - 1
          /\ \A r \in acked : r.seq < FirstPending
    /\ pc = "write" =>
          \A b \in DOMAIN files : \A i \in 1..Len(files[b]) :
              files[b][i].seq < FirstPending
    /\ pc \in {"sync", "ack"} =>
          /\ Len(pending) <= Len(files[active])
          /\ \A i \in 1..Len(pending) :
                 files[active][Len(files[active]) - Len(pending) + i] = pending[i]
    /\ pc = "ack" => durable[active] = Len(files[active])

RollReady ==
    /\ pc \in {"write", "sync", "ack", "roll"} =>
          \A base \in DOMAIN files : base < nextSeq
    /\ pc = "roll" =>
          \E b \in DOMAIN files : \E i \in 1..durable[b] :
              Kept(b, i) /\ files[b][i].seq = nextSeq - 1

WalInv ==
    /\ TypeOK
    /\ failed = FALSE
    /\ pc = "drain" => batch # << >>
    /\ AckedKept
    /\ BasesFollow
    /\ TornAtEnd
    /\ Running
    /\ BatchInHand
    /\ RollReady

(* What is Kept stays Kept, in its place. *)
KeepsKept ==
    \A b \in DOMAIN files : \A i \in 1..durable[b] :
        Kept(b, i) => /\ b \in DOMAIN files'
                      /\ i \in 1..durable'[b]
                      /\ Kept(b, i)'
                      /\ files'[b][i] = files[b][i]

(* A segment file has a length, and the durable part lies within it. *)
LEMMA SegmentLengths ==
    ASSUME TypeOK
    PROVE  \A b \in DOMAIN files : /\ Len(files[b]) \in Nat
                                   /\ durable[b] \in Nat
                                   /\ durable[b] <= Len(files[b])
<1> TAKE b \in DOMAIN files
<1>1. files[b] \in Seq(Items) /\ durable[b] \in 0..Len(files[b])
  BY DEF TypeOK
<1>2. Len(files[b]) \in Nat
  BY <1>1
<1> QED
  BY <1>1, <1>2

(* A step that keeps what is Kept and acknowledges nothing keeps AckedKept. *)
LEMMA AckedKeptPreserved ==
    ASSUME AckedKept, KeepsKept, UNCHANGED acked
    PROVE  AckedKept'
<1> SUFFICES ASSUME NEW r \in acked
             PROVE  \E b \in DOMAIN files' : \E i \in 1..durable'[b] :
                        Kept(b, i)' /\ files'[b][i] = r
  BY Zenon DEF AckedKept
<1>1. PICK b \in DOMAIN files : \E i \in 1..durable[b] :
          Kept(b, i) /\ files[b][i] = r
  BY Zenon DEF AckedKept
<1>2. PICK i \in 1..durable[b] : Kept(b, i) /\ files[b][i] = r
  BY <1>1, Zenon
<1> QED
  BY <1>2, Zenon DEF KeepsKept

(* A step that keeps what is Kept and opens no segment keeps BasesFollow. *)
LEMMA BasesFollowPreserved ==
    ASSUME BasesFollow, KeepsKept, DOMAIN files' \subseteq DOMAIN files
    PROVE  BasesFollow'
<1> SUFFICES ASSUME NEW base \in DOMAIN files', base # 1
             PROVE  \E b \in DOMAIN files' : \E i \in 1..durable'[b] :
                        Kept(b, i)' /\ files'[b][i].seq = base - 1
  BY Zenon DEF BasesFollow
<1>1. PICK b \in DOMAIN files : \E i \in 1..durable[b] :
          Kept(b, i) /\ files[b][i].seq = base - 1
  BY Zenon DEF BasesFollow
<1>2. PICK i \in 1..durable[b] : Kept(b, i) /\ files[b][i].seq = base - 1
  BY <1>1, Zenon
<1> QED
  BY <1>2, Zenon DEF KeepsKept

(* sync_all only extends the durable prefix. *)
LEMMA SyncKeeps ==
    ASSUME TypeOK, SyncActive, UNCHANGED files
    PROVE  KeepsKept
  BY DEF TypeOK, SyncActive, KeepsKept, Kept

(* What a write to the active segment does, item by item. *)
LEMMA WriteEffect ==
    ASSUME TypeOK, NEW items \in Seq(Items), WriteToActive(items)
    PROVE  /\ DOMAIN files' = DOMAIN files
           /\ \A b \in DOMAIN files : b # active => files'[b] = files[b]
           /\ active \in DOMAIN files =>
                 Len(files'[active]) = Len(files[active]) + Len(items)
           /\ \A b \in DOMAIN files : \A i \in 1..Len(files[b]) :
                 files'[b][i] = files[b][i]
           /\ active \in DOMAIN files => \A i \in 1..Len(items) :
                 files'[active][Len(files[active]) + i] = items[i]
<1>1. DOMAIN files' = DOMAIN files
  BY Zenon DEF WriteToActive
<1>2. \A b \in DOMAIN files : b # active => files'[b] = files[b]
  BY Zenon DEF WriteToActive
<1>3. ASSUME active \in DOMAIN files
      PROVE  /\ Len(files'[active]) = Len(files[active]) + Len(items)
             /\ \A i \in 1..Len(files[active]) :
                    files'[active][i] = files[active][i]
             /\ \A i \in 1..Len(items) :
                    files'[active][Len(files[active]) + i] = items[i]
  <2>1. files'[active] = files[active] \o items
    BY <1>3, Zenon DEF WriteToActive
  <2>2. files[active] \in Seq(Items)
    BY <1>3, Zenon DEF TypeOK
  <2> QED
    BY <2>1, <2>2, ConcatItems
<1> QED
  BY <1>1, <1>2, <1>3, Zenon

(* Appending to the active segment leaves the durable prefixes as they are. *)
LEMMA WriteKeeps ==
    ASSUME TypeOK, NEW items \in Seq(Items), WriteToActive(items),
           UNCHANGED durable
    PROVE  KeepsKept
<1>1. \A b \in DOMAIN files : durable[b] \in 0..Len(files[b])
  BY Zenon DEF TypeOK
<1>2. /\ DOMAIN files' = DOMAIN files
      /\ \A b \in DOMAIN files : \A i \in 1..Len(files[b]) :
             files'[b][i] = files[b][i]
  BY WriteEffect, Zenon
<1>3. \A b \in DOMAIN files : \A i \in 1..durable[b] : \A j \in 1..i :
          j \in 1..Len(files[b]) /\ files'[b][j] = files[b][j]
  <2> SUFFICES ASSUME NEW b \in DOMAIN files, NEW i \in 1..durable[b],
                      NEW j \in 1..i
               PROVE  j \in 1..Len(files[b]) /\ files'[b][j] = files[b][j]
    OBVIOUS
  <2>1. Len(files[b]) \in Nat
    BY DEF TypeOK
  <2>2. j \in 1..Len(files[b])
    BY <1>1, <2>1
  <2> QED
    BY <1>2, <2>2, Zenon
<1> QED
  BY <1>2, <1>3 DEF KeepsKept, Kept

(* A step that leaves the disk, the history and the batch's records alone  *)
(* and only moves the worker about its receive loop.                       *)
LEMMA QuietStep ==
    ASSUME WalInv, TypeOK',
           UNCHANGED <<files, durable, pending, active, failed, nextSeq, acked>>,
           pc' = pc \/ (pc # "down" /\ pc' \in {"recv", "drain"}),
           pc' = "drain" => batch' # << >>
    PROVE  WalInv'
<1>1. AckedKept'
  BY DEF WalInv, AckedKept, Kept
<1>2. BasesFollow'
  BY Zenon DEF WalInv, BasesFollow, Kept
<1>3. TornAtEnd'
  BY Zenon DEF WalInv, TornAtEnd
<1>4. Running'
  BY Zenon DEF WalInv, Running
<1>5. BatchInHand'
  BY Zenon DEF WalInv, BatchInHand, FirstPending
<1>6. RollReady'
  BY Zenon DEF WalInv, RollReady, Kept
<1> QED
  BY <1>1, <1>2, <1>3, <1>4, <1>5, <1>6, Zenon DEF WalInv

(* The invariant holds of the empty log directory. *)
LEMMA InitWalInv == Init => WalInv
<1> SUFFICES ASSUME Init
             PROVE  WalInv
  OBVIOUS
<1>1. TypeOK
  BY InitTypeOK, Zenon
<1>2. DOMAIN files = {} /\ acked = {} /\ pc = "down" /\ failed = FALSE
  BY DEF Init
<1> QED
  BY <1>1, <1>2, Zenon DEF WalInv, AckedKept, BasesFollow, TornAtEnd, Running,
                    BatchInHand, RollReady

(* Recovery: nothing Kept is cut off, and the sequence continues above     *)
(* every record and not below any base.                                    *)
LEMMA OpenWalInv ==
    ASSUME WalInv, TypeOK', Open
    PROVE  WalInv'
<1>1. PICK h \in {0} \cup {r.seq : r \in Readable} :
          /\ \A r \in Readable : r.seq <= h
          /\ nextSeq' = StartSeq(h)
          /\ InitActiveSegment(StartSeq(h))
  BY Zenon DEF Open
<1>2. /\ pc = "down" /\ pc' = "recv" /\ acked' = acked /\ failed' = failed
  BY Zenon DEF Open, history
<1>3. Readable \subseteq Items
  BY DEF Readable, WalInv, TypeOK
<1>4. h \in Nat /\ nextSeq' = h + 1
  BY <1>1, <1>3 DEF Items, StartSeq
<1>5. CASE DOMAIN files = {}
  <2>1. /\ files' = [b \in {h + 1} |-> << >>]
        /\ durable' = [b \in {h + 1} |-> 0]
        /\ active' = h + 1
    BY <1>1, <1>5, Zenon DEF InitActiveSegment, StartSeq
  <2>2. Readable = {}
    BY <1>5, Zenon DEF Readable
  <2>3. h = 0
    BY <1>1, <2>2, Zenon
  <2>4. acked = {}
    BY <1>5, Zenon DEF WalInv, AckedKept
  <2>5. Len(<< >>) = 0
    OBVIOUS
  <2> QED
    BY <1>2, <1>4, <2>1, <2>3, <2>4, <2>5
    DEF WalInv, AckedKept, BasesFollow, TornAtEnd, Running, BatchInHand,
        RollReady
<1>6. CASE DOMAIN files # {}
  <2>1. /\ files' = [b \in DOMAIN files |-> RecoveredFile(b)]
        /\ durable' = [b \in DOMAIN files |-> RecoveredDurable(b)]
        /\ active' \in DOMAIN files
    BY <1>1, <1>6, Zenon DEF InitActiveSegment
  <2>2. ASSUME NEW b \in DOMAIN files
        PROVE  /\ ValidLength(files[b]) \in 0..Len(files[b])
               /\ \A j \in 1..ValidLength(files[b]) : files[b][j] # Torn
               /\ ValidLength(files[b]) < Len(files[b])
                      => files[b][ValidLength(files[b]) + 1] = Torn
               /\ files'[b] \in Seq(Items)
               /\ Len(files'[b]) = ValidLength(files[b])
               /\ \A i \in 1..ValidLength(files[b]) : files'[b][i] = files[b][i]
    <3>1. files[b] \in Seq(Items)
      BY Zenon DEF WalInv, TypeOK
    <3>2. /\ ValidLength(files[b]) \in 0..Len(files[b])
          /\ \A j \in 1..ValidLength(files[b]) : files[b][j] # Torn
          /\ ValidLength(files[b]) < Len(files[b])
                 => files[b][ValidLength(files[b]) + 1] = Torn
      BY <3>1, ValidLengthStops, Zenon
    <3>3. files'[b] = SubSeq(files[b], 1, ValidLength(files[b]))
      BY <2>1, Zenon DEF RecoveredFile
    <3>4. /\ files'[b] \in Seq(Items)
          /\ Len(files'[b]) = ValidLength(files[b])
          /\ \A i \in 1..ValidLength(files[b]) : files'[b][i] = files[b][i]
      BY <3>1, <3>2, <3>3, PrefixItems, Zenon
    <3> QED
      BY <3>2, <3>4, Zenon
  <2>3. \A b \in DOMAIN files : \A i \in 1..durable[b] :
            Kept(b, i) => i <= ValidLength(files[b])
    <3> SUFFICES ASSUME NEW b \in DOMAIN files, NEW i \in 1..durable[b],
                        Kept(b, i)
                 PROVE  i <= ValidLength(files[b])
      OBVIOUS
    <3>1. /\ Len(files[b]) \in Nat /\ durable[b] \in 0..Len(files[b])
          /\ ValidLength(files[b]) \in 0..Len(files[b])
      BY <2>2, SegmentLengths DEF WalInv
    <3>2. ASSUME ValidLength(files[b]) < i
          PROVE  FALSE
      <4>1. /\ ValidLength(files[b]) + 1 \in 1..i
            /\ ValidLength(files[b]) < Len(files[b])
        BY <3>1, <3>2
      <4> QED
        BY <2>2, <4>1, Zenon DEF Kept
    <3> QED
      BY <3>1, <3>2
  <2>4. \A b \in DOMAIN files : \A i \in 1..durable[b] :
            Kept(b, i) => i \in 1..durable'[b]
    <3> SUFFICES ASSUME NEW b \in DOMAIN files, NEW i \in 1..durable[b],
                        Kept(b, i)
                 PROVE  i \in 1..durable'[b]
      OBVIOUS
    <3>1. durable'[b] = RecoveredDurable(b)
      BY <2>1, Zenon
    <3>2. i <= ValidLength(files[b])
      BY <2>3, Zenon
    <3>3. ValidLength(files[b]) \in Nat /\ durable[b] \in Nat
      BY <2>2, SegmentLengths DEF WalInv
    <3> QED
      BY <3>1, <3>2, <3>3 DEF RecoveredDurable
  <2>5. KeepsKept
    <3> SUFFICES ASSUME NEW b \in DOMAIN files, NEW i \in 1..durable[b],
                        Kept(b, i)
                 PROVE  /\ b \in DOMAIN files'
                        /\ i \in 1..durable'[b]
                        /\ Kept(b, i)'
                        /\ files'[b][i] = files[b][i]
      BY Zenon DEF KeepsKept
    <3>1. durable[b] \in Nat /\ ValidLength(files[b]) \in Nat
      BY <2>2 DEF WalInv, TypeOK
    <3>2. i <= ValidLength(files[b])
      BY <2>3, Zenon
    <3>3. \A j \in 1..i : files'[b][j] = files[b][j]
      BY <2>2, <3>1, <3>2
    <3>4. i \in 1..i
      BY <3>1
    <3> QED
      BY <2>1, <2>4, <3>3, <3>4, Zenon DEF Kept
  <2>6. \A b \in DOMAIN files : \A i \in 1..Len(files'[b]) :
            files'[b][i] # Torn /\ files'[b][i] \in Readable
    <3> SUFFICES ASSUME NEW b \in DOMAIN files, NEW i \in 1..Len(files'[b])
                 PROVE  files'[b][i] # Torn /\ files'[b][i] \in Readable
      OBVIOUS
    <3>1. i \in DOMAIN files[b] /\ files'[b][i] = files[b][i]
      <4>1. /\ files[b] \in Seq(Items)
            /\ ValidLength(files[b]) \in 0..Len(files[b])
            /\ Len(files'[b]) = ValidLength(files[b])
        BY <2>2, Zenon DEF WalInv, TypeOK
      <4> QED
        BY <2>2, <4>1
    <3>2. Valid(files[b], i)
      BY <2>2, <3>1 DEF Valid
    <3> QED
      BY <3>1, <3>2 DEF Readable, Valid
  <2>7. AckedKept'
    BY <1>2, <2>5, AckedKeptPreserved, Zenon DEF WalInv
  <2>8. BasesFollow'
    BY <2>1, <2>5, BasesFollowPreserved, Zenon DEF WalInv
  <2>9. TornAtEnd'
    BY <2>1, <2>6, Zenon DEF TornAtEnd
  <2>10. Running'
    <3>1. \A b \in DOMAIN files : \A i \in 1..Len(files'[b]) :
              files'[b][i].seq <= h /\ files'[b][i].seq \in Nat
      BY <1>1, <1>3, <2>6, Zenon DEF Items
    <3> QED
      BY <1>4, <2>1, <3>1 DEF Running
  <2> QED
    BY <1>2, <2>7, <2>8, <2>9, <2>10, Zenon DEF WalInv, BatchInHand, RollReady
<1> QED
  BY <1>5, <1>6, Zenon

(* A flush request answered by the worker changes nothing of the log. *)
LEMMA AnswerFlushWalInv ==
    ASSUME SafeConfig, WalInv, TypeOK', AnswerFlush
    PROVE  WalInv'
<1>1. /\ SyncActive
      /\ UNCHANGED <<files, pc, batch, pending, failed, active, nextSeq, acked>>
      /\ pc \in {"recv", "drain"}
  BY Zenon DEF AnswerFlush, SafeConfig
<1>2. KeepsKept
  BY <1>1, SyncKeeps, Zenon DEF WalInv
<1>3. AckedKept' /\ BasesFollow'
  BY <1>1, <1>2, AckedKeptPreserved, BasesFollowPreserved, Zenon DEF WalInv
<1>4. TornAtEnd' /\ Running'
  BY <1>1, Zenon DEF WalInv, TornAtEnd, Running
<1>5. BatchInHand' /\ RollReady'
  BY <1>1, Zenon DEF BatchInHand, RollReady
<1> QED
  BY <1>1, <1>3, <1>4, <1>5, Zenon DEF WalInv

(* Numbering a batch takes numbers above everything in the log. *)
LEMMA EncodeBatchWalInv ==
    ASSUME WalInv, TypeOK', EncodeBatch
    PROVE  WalInv'
<1>1. /\ pc = "drain" /\ pc' = "write"
      /\ pending' = [i \in 1..Len(batch) |->
                        [seq |-> nextSeq + i - 1, req |-> batch[i].req]]
      /\ nextSeq' = nextSeq + Len(batch)
      /\ UNCHANGED <<files, durable, active, failed, acked>>
  BY Zenon DEF EncodeBatch, Sequenced, SeqAfterBatch, disk, history
<1>2. Len(batch) \in Nat \ {0} /\ nextSeq \in Nat \ {0}
  BY <1>1 DEF WalInv, TypeOK, Running
<1>3. Len(pending') = Len(batch) /\ FirstPending' = nextSeq
  BY <1>1, <1>2 DEF FirstPending
<1>4. \A i \in 1..Len(pending') : pending'[i].seq = nextSeq + i - 1
  BY <1>1, <1>2, <1>3, Zenon
<1>5. AckedKept' /\ BasesFollow' /\ TornAtEnd'
  BY <1>1 DEF WalInv, AckedKept, BasesFollow, TornAtEnd, Kept
<1>6. \A b \in DOMAIN files : \A i \in 1..Len(files[b]) :
          files[b][i].seq < nextSeq /\ files[b][i].seq \in Nat
  <2>1. \A b \in DOMAIN files : \A i \in 1..Len(files[b]) : files[b][i] \in Items
    <3> TAKE b \in DOMAIN files
    <3>1. files[b] \in Seq(Items)
      BY DEF WalInv, TypeOK
    <3> QED
      BY <3>1
  <2> QED
    BY <1>1, <2>1, Zenon DEF WalInv, Running, Items
<1>7. Running'
  BY <1>1, <1>2, <1>6 DEF WalInv, Running
<1>8. \A r \in acked : r.seq < nextSeq
  <2> SUFFICES ASSUME NEW r \in acked
               PROVE  r.seq < nextSeq
    OBVIOUS
  <2>1. PICK b \in DOMAIN files : \E i \in 1..durable[b] : files[b][i] = r
    BY Zenon DEF WalInv, AckedKept
  <2>2. PICK i \in 1..durable[b] : files[b][i] = r
    BY <2>1, Zenon
  <2>3. i \in 1..Len(files[b])
    BY SegmentLengths DEF WalInv
  <2> QED
    BY <1>6, <2>2, <2>3, Zenon
<1>9. BatchInHand'
  <2>1. pending' # << >>
    BY <1>2, <1>3, Zenon
  <2> QED
    BY <1>1, <1>2, <1>3, <1>4, <1>6, <1>8, <2>1 DEF BatchInHand
<1>10. RollReady'
  <2>1. ASSUME NEW base \in DOMAIN files
        PROVE  base < nextSeq + Len(batch)
    <3>1. base \in Nat
      BY Zenon DEF WalInv, TypeOK
    <3>2. CASE base = 1
      BY <1>2, <3>2
    <3>3. CASE base # 1
      <4>1. PICK b \in DOMAIN files :
                \E i \in 1..durable[b] : files[b][i].seq = base - 1
        BY <3>3, Zenon DEF WalInv, BasesFollow
      <4>2. PICK i \in 1..durable[b] : files[b][i].seq = base - 1
        BY <4>1, Zenon
      <4>3. i \in 1..Len(files[b])
        BY SegmentLengths DEF WalInv
      <4>4. base - 1 < nextSeq
        BY <1>6, <4>2, <4>3, Zenon
      <4> QED
        BY <1>2, <3>1, <4>4
    <3> QED
      BY <3>2, <3>3, Zenon
  <2> QED
    BY <1>1, <2>1, Zenon DEF RollReady
<1> QED
  BY <1>1, <1>5, <1>7, <1>9, <1>10, Zenon DEF WalInv

(* The write puts the numbered batch behind the records of the active file. *)
LEMMA WriteBatchWalInv ==
    ASSUME SafeConfig, WalInv, TypeOK', WriteBatch
    PROVE  WalInv'
<1>1. /\ pc = "write" /\ pc' = "sync"
      /\ WriteToActive(pending)
      /\ UNCHANGED <<durable, pending, failed, active, nextSeq, acked>>
  BY Zenon DEF WriteBatch, AfterWrite, SafeConfig, history
<1>2. pending \in Seq(Items) /\ active \in DOMAIN files /\ TypeOK
  BY <1>1, Zenon DEF WalInv, TypeOK, Running
<1>3. Len(pending) \in Nat /\ Len(files[active]) \in Nat /\ nextSeq \in Nat
  BY <1>2 DEF TypeOK
<1>4. /\ DOMAIN files' = DOMAIN files
      /\ \A b \in DOMAIN files : b # active => files'[b] = files[b]
      /\ Len(files'[active]) = Len(files[active]) + Len(pending)
      /\ \A b \in DOMAIN files : \A i \in 1..Len(files[b]) :
             files'[b][i] = files[b][i]
      /\ \A i \in 1..Len(pending) :
             files'[active][Len(files[active]) + i] = pending[i]
  BY <1>1, <1>2, WriteEffect, Zenon
<1>5. KeepsKept
  BY <1>1, <1>2, WriteKeeps, Zenon
<1>6. AckedKept' /\ BasesFollow'
  BY <1>1, <1>4, <1>5, AckedKeptPreserved, BasesFollowPreserved, Zenon DEF WalInv
<1>7. \A i \in 1..Len(pending) : /\ pending[i].seq = FirstPending + i - 1
                                /\ pending[i].seq < nextSeq
                                /\ pending[i] # Torn
  <2>1. FirstPending \in Nat /\ FirstPending >= 1 /\ FirstPending + Len(pending) = nextSeq
    BY <1>1, <1>3 DEF WalInv, BatchInHand, FirstPending
  <2>2. \A i \in 1..Len(pending) : pending[i].seq = FirstPending + i - 1
    BY <1>1, Zenon DEF WalInv, BatchInHand
  <2>3. \A i \in 1..Len(pending) : pending[i].seq >= 1 /\ pending[i].seq < nextSeq
    BY <1>3, <2>1, <2>2
  <2>4. Torn.seq = 0
    BY Zenon DEF Torn
  <2> QED
    BY <2>2, <2>3, <2>4
<1>8. ASSUME NEW b \in DOMAIN files', NEW i \in 1..Len(files'[b])
      PROVE  files'[b][i] # Torn /\ files'[b][i].seq < nextSeq
  <2>1. b \in DOMAIN files /\ files[b] \in Seq(Items) /\ Len(files[b]) \in Nat
    BY <1>2, <1>4 DEF TypeOK
  <2>2. CASE i \in 1..Len(files[b])
    <3>1. files'[b][i] = files[b][i] /\ files[b][i] # Torn
      BY <1>1, <1>4, <2>1, <2>2, Zenon DEF WalInv, TornAtEnd
    <3>2. files[b][i].seq < nextSeq
      BY <1>1, <2>1, <2>2, Zenon DEF WalInv, Running
    <3> QED
      BY <3>1, <3>2, Zenon
  <2>3. CASE i \notin 1..Len(files[b])
    <3>1. b = active
      BY <1>4, <2>1, <2>3, Zenon
    <3>2. i - Len(files[active]) \in 1..Len(pending)
      BY <1>3, <1>4, <2>3, <3>1
    <3>3. files'[b][i] = pending[i - Len(files[active])]
      BY <1>3, <1>4, <3>1, <3>2
    <3> QED
      BY <1>7, <3>2, <3>3, Zenon
  <2> QED
    BY <2>2, <2>3, Zenon
<1>9. TornAtEnd' /\ Running'
  BY <1>1, <1>2, <1>4, <1>8, Zenon DEF WalInv, TornAtEnd, Running
<1>10. BatchInHand'
  <2>1. FirstPending' = FirstPending
    BY <1>1, Zenon DEF FirstPending
  <2>2. Len(pending) <= Len(files'[active])
    BY <1>3, <1>4
  <2>3. \A i \in 1..Len(pending) :
            files'[active][Len(files'[active]) - Len(pending) + i] = pending[i]
    BY <1>3, <1>4
  <2> QED
    BY <1>1, <2>1, <2>2, <2>3, Zenon DEF WalInv, BatchInHand
<1>11. RollReady'
  BY <1>1, <1>4, Zenon DEF WalInv, RollReady
<1> QED
  BY <1>1, <1>6, <1>9, <1>10, <1>11, Zenon DEF WalInv

(* After sync_all the batch is durable and in its place. *)
LEMMA SyncBatchWalInv ==
    ASSUME SafeConfig, WalInv, TypeOK', SyncBatch
    PROVE  WalInv'
<1>1. /\ SyncActive /\ pc = "sync" /\ pc' = "ack"
      /\ UNCHANGED <<files, pending, failed, active, nextSeq, acked>>
  BY Zenon DEF SyncBatch, SafeConfig, history
<1>2. KeepsKept
  BY <1>1, SyncKeeps, Zenon DEF WalInv
<1>3. AckedKept' /\ BasesFollow'
  BY <1>1, <1>2, AckedKeptPreserved, BasesFollowPreserved, Zenon DEF WalInv
<1>4. TornAtEnd' /\ Running'
  BY <1>1, Zenon DEF WalInv, TornAtEnd, Running
<1>5. durable'[active] = Len(files[active])
  BY <1>1, Zenon DEF WalInv, Running, TypeOK, SyncActive
<1>6. BatchInHand'
  BY <1>1, <1>5, Zenon DEF WalInv, BatchInHand, FirstPending
<1>7. RollReady'
  BY <1>1, Zenon DEF WalInv, RollReady
<1> QED
  BY <1>1, <1>3, <1>4, <1>6, <1>7, Zenon DEF WalInv

(* The acknowledged batch is the tail of the active segment, which has     *)
(* just been synced.                                                       *)
LEMMA AckBatchWalInv ==
    ASSUME WalInv, TypeOK', AckBatch
    PROVE  WalInv'
<1>1. /\ pc = "ack" /\ pc' = "roll"
      /\ acked' = acked \cup {pending[i] : i \in DOMAIN pending}
      /\ failed' = FALSE
      /\ UNCHANGED <<files, durable, active, nextSeq>>
  BY Zenon DEF AckBatch, BatchDone, WalInv, disk
<1>2. /\ pending \in Seq(Items) /\ active \in DOMAIN files
      /\ files[active] \in Seq(Items)
  BY <1>1, Zenon DEF WalInv, TypeOK, Running
<1>3. /\ Len(pending) \in Nat \ {0} /\ Len(files[active]) \in Nat
      /\ Len(pending) <= Len(files[active])
      /\ durable[active] = Len(files[active])
      /\ nextSeq \in Nat
  BY <1>1, <1>2 DEF WalInv, TypeOK, BatchInHand
<1> DEFINE place(i) == Len(files[active]) - Len(pending) + i
<1>4. ASSUME NEW i \in 1..Len(pending)
      PROVE  /\ place(i) \in 1..durable[active]
             /\ Kept(active, place(i))
             /\ files[active][place(i)] = pending[i]
  <2>1. place(i) \in 1..durable[active]
    BY <1>3
  <2>2. \A j \in 1..Len(files[active]) : files[active][j] # Torn
    BY <1>1, <1>2, Zenon DEF WalInv, TornAtEnd
  <2>3. \A j \in 1..place(i) : files[active][j] # Torn
    BY <1>3, <2>1, <2>2
  <2>4. files[active][place(i)] = pending[i]
    BY <1>1, Zenon DEF WalInv, BatchInHand
  <2> QED
    BY <1>2, <2>1, <2>3, <2>4, Zenon DEF Kept
<1>5. ASSUME NEW r \in acked'
      PROVE  \E b \in DOMAIN files : \E i \in 1..durable[b] :
                 Kept(b, i) /\ files[b][i] = r
  <2>1. CASE r \in acked
    BY <2>1, Zenon DEF WalInv, AckedKept
  <2>2. CASE r \in {pending[i] : i \in DOMAIN pending}
    <3>1. PICK i \in DOMAIN pending : r = pending[i]
      BY <2>2, Zenon
    <3>2. i \in 1..Len(pending)
      BY <1>2
    <3> HIDE DEF place
    <3> QED
      BY <1>2, <1>4, <3>1, <3>2, Zenon
  <2> QED
    BY <1>1, <2>1, <2>2, Zenon
<1>6. AckedKept'
  BY <1>1, <1>5 DEF AckedKept, Kept
<1>7. BasesFollow'
  BY <1>1, Zenon DEF WalInv, BasesFollow, Kept
<1>8. TornAtEnd' /\ Running'
  BY <1>1, Zenon DEF WalInv, TornAtEnd, Running
<1>9. RollReady'
  <2>1. pending[Len(pending)].seq = nextSeq - 1
    <3>1. pending[Len(pending)].seq = FirstPending + Len(pending) - 1
      BY <1>1, <1>3 DEF WalInv, BatchInHand
    <3> QED
      BY <1>3, <3>1 DEF FirstPending
  <2>2. Len(pending) \in 1..Len(pending)
    BY <1>3
  <2>3. \E i \in 1..durable[active] :
            Kept(active, i) /\ files[active][i].seq = nextSeq - 1
    <3> HIDE DEF place
    <3> QED
      BY <1>4, <2>1, <2>2, Zenon
  <2>4. \E b \in DOMAIN files : \E i \in 1..durable[b] :
            Kept(b, i) /\ files[b][i].seq = nextSeq - 1
    BY <1>2, <2>3, Zenon
  <2>5. \A base \in DOMAIN files : base < nextSeq
    BY <1>1, Zenon DEF WalInv, RollReady
  <2> QED
    BY <1>1, <2>4, <2>5, Zenon DEF RollReady, Kept
<1>10. BatchInHand'
  BY <1>1, Zenon DEF BatchInHand
<1> QED
  BY <1>1, <1>6, <1>7, <1>8, <1>9, <1>10, Zenon DEF WalInv

(* The new segment's base is above every base in use, so creating it       *)
(* truncates nothing.                                                      *)
LEMMA RollSegmentWalInv ==
    ASSUME WalInv, TypeOK', RollSegment
    PROVE  WalInv'
<1>1. /\ pc = "roll" /\ pc' = "recv"
      /\ UNCHANGED <<batch, pending, failed, nextSeq, acked>>
  BY Zenon DEF RollSegment, history
<1>2. CASE UNCHANGED <<disk, active, size>>
  BY <1>1, <1>2, QuietStep, Zenon DEF disk
<1>3. CASE CreateSegment(nextSeq)
  <2>1. /\ DOMAIN files' = DOMAIN files \cup {nextSeq}
        /\ DOMAIN durable' = DOMAIN files \cup {nextSeq}
        /\ files'[nextSeq] = << >>
        /\ durable'[nextSeq] = 0
        /\ active' = nextSeq
        /\ \A b \in DOMAIN files : b # nextSeq =>
               files'[b] = files[b] /\ durable'[b] = durable[b]
    BY <1>3, Zenon DEF CreateSegment
  <2>2. nextSeq \notin DOMAIN files
    BY <1>1 DEF WalInv, RollReady, TypeOK
  <2>3. \A b \in DOMAIN files : files'[b] = files[b] /\ durable'[b] = durable[b]
    BY <2>1, <2>2, Zenon
  <2>4. KeepsKept
    BY <2>1, <2>3, Zenon DEF KeepsKept, Kept
  <2>5. AckedKept'
    BY <1>1, <2>4, AckedKeptPreserved, Zenon DEF WalInv
  <2>6. BasesFollow'
    <3> SUFFICES ASSUME NEW base \in DOMAIN files', base # 1
                 PROVE  \E b \in DOMAIN files' : \E i \in 1..durable'[b] :
                            Kept(b, i)' /\ files'[b][i].seq = base - 1
      BY Zenon DEF BasesFollow
    <3>1. PICK b \in DOMAIN files : \E i \in 1..durable[b] :
              Kept(b, i) /\ files[b][i].seq = base - 1
      BY <1>1, <2>1 DEF WalInv, BasesFollow, RollReady
    <3>2. PICK i \in 1..durable[b] : Kept(b, i) /\ files[b][i].seq = base - 1
      BY <3>1, Zenon
    <3> QED
      BY <2>4, <3>2, Zenon DEF KeepsKept
  <2>7. Len(<< >>) = 0
    OBVIOUS
  <2>8. TornAtEnd'
    <3> SUFFICES ASSUME NEW b \in DOMAIN files', NEW i \in 1..Len(files'[b])
                 PROVE  files'[b][i] # Torn
      BY Zenon DEF TornAtEnd
    <3>1. CASE b = nextSeq
      BY <2>1, <2>7, <3>1
    <3>2. CASE b # nextSeq
      <4>1. b \in DOMAIN files /\ files'[b] = files[b]
        BY <2>1, <2>3, <3>2, Zenon
      <4> QED
        BY <1>1, <4>1, Zenon DEF WalInv, TornAtEnd
    <3> QED
      BY <3>1, <3>2, Zenon
  <2>9. Running'
    BY <1>1, <2>1, <2>3, <2>7 DEF WalInv, Running
  <2>10. BatchInHand'
    BY <1>1, Zenon DEF BatchInHand
  <2>11. RollReady'
    BY <1>1, Zenon DEF RollReady
  <2> QED
    BY <1>1, <2>5, <2>6, <2>8, <2>9, <2>10, <2>11, Zenon DEF WalInv
<1> QED
  BY <1>2, <1>3, Zenon DEF RollSegment

(* The worker that leaves its loop keeps the log. *)
LEMMA ShutdownWalInv ==
    ASSUME SafeConfig, WalInv, TypeOK', Shutdown
    PROVE  WalInv'
<1>1. /\ SyncActive /\ pc' = "down"
      /\ UNCHANGED <<files, failed, acked>>
      /\ pc = "recv"
  BY Zenon DEF Shutdown, SafeConfig, history
<1>2. KeepsKept
  BY <1>1, SyncKeeps, Zenon DEF WalInv
<1>3. AckedKept' /\ BasesFollow'
  BY <1>1, <1>2, AckedKeptPreserved, BasesFollowPreserved, Zenon DEF WalInv
<1>4. TornAtEnd'
  BY <1>1, Zenon DEF WalInv, TornAtEnd
<1> QED
  BY <1>1, <1>3, <1>4, Zenon DEF WalInv, Running, BatchInHand, RollReady

(* A dead process leaves only the disk to be reasoned about. *)
LEMMA DiesWalInv ==
    ASSUME WalInv, TypeOK', Dies, KeepsKept, TornAtEnd',
           DOMAIN files' \subseteq DOMAIN files
    PROVE  WalInv'
<1>1. pc' = "down" /\ failed' = FALSE /\ acked' = acked
  BY Zenon DEF Dies, BatchDone, history
<1>2. AckedKept' /\ BasesFollow'
  BY <1>1, AckedKeptPreserved, BasesFollowPreserved, Zenon DEF WalInv
<1> QED
  BY <1>1, <1>2, Zenon DEF WalInv, Running, BatchInHand, RollReady

(* At most the last item of a partial write is torn. *)
LEMMA PartialWritesTorn ==
    ASSUME pending \in Seq(Items),
           \A i \in 1..Len(pending) : pending[i].seq >= 1,
           NEW items \in PartialWrites \cup {pending}
    PROVE  \A i \in 1..Len(items) : items[i] = Torn => i = Len(items)
<1>1. \A i \in 1..Len(pending) : pending[i] # Torn
  BY DEF Torn
<1>2. CASE items = pending
  BY <1>1, <1>2, Zenon
<1>3. ASSUME NEW n \in 0..(Len(pending) - 1), NEW tail \in {<< >>, <<Torn>>},
             NEW i \in 1..Len(SubSeq(pending, 1, n) \o tail),
             (SubSeq(pending, 1, n) \o tail)[i] = Torn
      PROVE  i = Len(SubSeq(pending, 1, n) \o tail)
  <2> DEFINE head == SubSeq(pending, 1, n)
  <2>1. Len(pending) \in Nat
    OBVIOUS
  <2>2. n \in 0..Len(pending)
    BY <2>1
  <2>3. tail \in Seq(Items) /\ Len(tail) \in Nat /\ Len(tail) <= 1
    <3>1. CASE tail = << >>
      BY <3>1
    <3>2. CASE tail = <<Torn>>
      BY <3>2, TornTail
    <3> QED
      BY <3>1, <3>2, Zenon
  <2>4. /\ head \in Seq(Items) /\ Len(head) = n
        /\ \A j \in 1..n : head[j] = pending[j]
    BY <2>2, PrefixItems, Zenon
  <2>5. i \in 1..Len(head \o tail) /\ (head \o tail)[i] = Torn
    BY <1>3, Zenon
  <2> HIDE DEF head
  <2>6. /\ Len(head \o tail) = Len(head) + Len(tail)
        /\ \A j \in 1..Len(head) : (head \o tail)[j] = head[j]
    BY <2>3, <2>4, ConcatItems, Zenon
  <2>7. \A j \in 1..n : (head \o tail)[j] # Torn
    <3> SUFFICES ASSUME NEW j \in 1..n
                 PROVE  (head \o tail)[j] # Torn
      BY Zenon
    <3>1. j \in 1..Len(pending)
      BY <2>1, <2>2
    <3> QED
      BY <1>1, <2>4, <2>6, <3>1, Zenon
  <2>8. i \notin 1..n
    BY <2>5, <2>7, Zenon
  <2>9. i = Len(head \o tail)
    BY <2>2, <2>3, <2>4, <2>5, <2>6, <2>8
  <2> QED
    BY <2>9, Zenon DEF head
<1> QED
  BY <1>2, <1>3 DEF PartialWrites

(* A killed process may leave part of its batch and one torn record. *)
LEMMA KillWalInv ==
    ASSUME WalInv, TypeOK', Kill
    PROVE  WalInv'
<1>1. Dies /\ UNCHANGED durable /\ pc # "down" /\ pc' = "down"
  BY Zenon DEF Kill, Dies
<1>2. \A b \in DOMAIN files : \A i \in 1..Len(files[b]) : files[b][i] # Torn
  BY <1>1, Zenon DEF WalInv, TornAtEnd
<1>3. CASE pc # "write"
  <2>1. UNCHANGED files
    BY <1>3, Zenon DEF Kill
  <2>2. KeepsKept
    BY <1>1, <2>1, Zenon DEF KeepsKept, Kept
  <2>3. TornAtEnd'
    BY <1>2, <2>1, Zenon DEF TornAtEnd
  <2> QED
    BY <1>1, <2>1, <2>2, <2>3, DiesWalInv, Zenon
<1>4. CASE pc = "write"
  <2>1. PICK items \in PartialWrites \cup {pending} : WriteToActive(items)
    BY <1>4, Zenon DEF Kill
  <2>2. TypeOK /\ pending \in Seq(Items) /\ active \in DOMAIN files
    BY <1>1, Zenon DEF WalInv, TypeOK, Running
  <2>3. items \in Seq(Items)
    BY <2>2, PartialWritesItems, Zenon
  <2>4. KeepsKept
    BY <1>1, <2>1, <2>2, <2>3, WriteKeeps, Zenon
  <2>5. \A i \in 1..Len(pending) : pending[i].seq >= 1
    <3>1. FirstPending \in Int
      BY <2>2 DEF TypeOK, FirstPending
    <3> QED
      BY <1>4, <2>2, <3>1 DEF WalInv, BatchInHand
  <2>6. \A i \in 1..Len(items) : items[i] = Torn => i = Len(items)
    BY <2>2, <2>5, PartialWritesTorn, Zenon
  <2>7. /\ DOMAIN files' = DOMAIN files
        /\ \A b \in DOMAIN files : b # active => files'[b] = files[b]
        /\ Len(files'[active]) = Len(files[active]) + Len(items)
        /\ \A b \in DOMAIN files : \A i \in 1..Len(files[b]) :
              files'[b][i] = files[b][i]
        /\ \A i \in 1..Len(items) :
              files'[active][Len(files[active]) + i] = items[i]
    BY <2>1, <2>2, <2>3, WriteEffect, Zenon
  <2>8. Len(files[active]) \in Nat /\ Len(items) \in Nat
    <3>1. files[active] \in Seq(Items)
      BY <2>2, Zenon DEF TypeOK
    <3> QED
      BY <2>3, <3>1
  <2>9. ASSUME NEW i \in 1..Len(files'[active]), files'[active][i] = Torn
        PROVE  i = Len(files'[active])
    <3>1. i \notin 1..Len(files[active])
      BY <1>2, <2>2, <2>7, <2>9, Zenon
    <3>2. i - Len(files[active]) \in 1..Len(items)
      BY <2>7, <2>8, <3>1
    <3>3. files'[active][i] = items[i - Len(files[active])]
      <4>1. Len(files[active]) + (i - Len(files[active])) = i
        BY <2>8
      <4> QED
        BY <2>7, <3>2, <4>1, Zenon
    <3> QED
      BY <2>6, <2>7, <2>8, <2>9, <3>2, <3>3
  <2>10. TornAtEnd'
    <3> SUFFICES ASSUME NEW b \in DOMAIN files', NEW i \in 1..Len(files'[b]),
                        files'[b][i] = Torn
                 PROVE  i = Len(files'[b])
      BY <1>1, Zenon DEF TornAtEnd
    <3>1. CASE b = active
      BY <2>9, <3>1, Zenon
    <3>2. CASE b # active
      <4>1. b \in DOMAIN files /\ files'[b] = files[b]
        BY <2>7, <3>2, Zenon
      <4> QED
        BY <1>2, <4>1, Zenon
    <3> QED
      BY <3>1, <3>2, Zenon
  <2> QED
    BY <1>1, <2>4, <2>7, <2>10, DiesWalInv, Zenon
<1> QED
  BY <1>3, <1>4, Zenon

(* A file cut after k of its items, with or without a torn one at the end. *)
LEMMA CutItems ==
    ASSUME NEW file \in Seq(Items), NEW k \in 0..Len(file),
           NEW tail \in Seq(Items), Len(tail) <= 1,
           \A i \in 1..Len(tail) : tail[i] = Torn
    PROVE  /\ Len(SubSeq(file, 1, k) \o tail) \in Nat
           /\ Len(SubSeq(file, 1, k) \o tail) <= k + 1
           /\ \A i \in 1..k : (SubSeq(file, 1, k) \o tail)[i] = file[i]
           /\ \A i \in 1..Len(SubSeq(file, 1, k) \o tail) :
                  i > k => (SubSeq(file, 1, k) \o tail)[i] = Torn
<1> DEFINE head == SubSeq(file, 1, k)
<1>1. k \in Nat /\ Len(tail) \in Nat
  OBVIOUS
<1>2. /\ head \in Seq(Items) /\ Len(head) = k
      /\ \A i \in 1..k : head[i] = file[i]
  BY PrefixItems, Zenon
<1> HIDE DEF head
<1>3. /\ Len(head \o tail) = Len(head) + Len(tail)
      /\ \A i \in 1..Len(head) : (head \o tail)[i] = head[i]
      /\ \A i \in 1..Len(tail) : (head \o tail)[Len(head) + i] = tail[i]
  BY <1>2, ConcatItems, Zenon
<1>4. /\ Len(head \o tail) \in Nat /\ Len(head \o tail) <= k + 1
      /\ \A i \in 1..k : (head \o tail)[i] = file[i]
  BY <1>1, <1>2, <1>3
<1>5. ASSUME NEW i \in 1..Len(head \o tail), i > k
      PROVE  (head \o tail)[i] = Torn
  <2>1. i - k \in 1..Len(tail) /\ i = Len(head) + (i - k)
    BY <1>1, <1>2, <1>3, <1>5
  <2> QED
    BY <1>3, <2>1, Zenon
<1> QED
  BY <1>4, <1>5, Zenon DEF head

(* What a power loss leaves of each file. *)
LEMMA PowerLossEffect ==
    ASSUME TypeOK, PowerLoss
    PROVE  /\ DOMAIN files' \subseteq DOMAIN files
           /\ \A b \in DOMAIN files \ DOMAIN files' : durable[b] = 0
           /\ \A b \in DOMAIN files' : \E k \in Nat :
                 /\ durable[b] <= k /\ k <= Len(files[b])
                 /\ durable'[b] \in Nat /\ durable'[b] >= k
                 /\ Len(files'[b]) \in Nat /\ Len(files'[b]) <= k + 1
                 /\ \A i \in 1..k : files'[b][i] = files[b][i]
                 /\ \A i \in 1..Len(files'[b]) : i > k => files'[b][i] = Torn
<1> DEFINE Left(kept, torn, cut) ==
              /\ kept \subseteq DOMAIN files
              /\ \A b \in DOMAIN files \ kept : durable[b] = 0
              /\ \A b \in DOMAIN files : cut[b] \in durable[b]..Len(files[b])
              /\ files' = [b \in kept |->
                     SubSeq(files[b], 1, cut[b])
                         \o (IF b \in torn THEN <<Torn>> ELSE << >>)]
              /\ durable' = [b \in kept |->
                     cut[b] + (IF b \in torn THEN 1 ELSE 0)]
<1>0. \E kept, torn, cut : Left(kept, torn, cut)
  <2>1. PICK kept \in SUBSET DOMAIN files, torn \in SUBSET DOMAIN files,
             cut \in [DOMAIN files -> UNION {0..Len(files[b]) :
                                             b \in DOMAIN files}] :
            Left(kept, torn, cut)
    BY Zenon DEF PowerLoss
  <2> HIDE DEF Left
  <2> QED
    BY <2>1, Zenon
<1>1. PICK kept, torn, cut : Left(kept, torn, cut)
  <2> HIDE DEF Left
  <2> QED
    BY <1>0, Zenon
<1>2. DOMAIN files' = kept
  BY <1>1, Zenon
<1>3. ASSUME NEW b \in kept
      PROVE  \E k \in Nat : /\ durable[b] <= k /\ k <= Len(files[b])
                            /\ durable'[b] \in Nat /\ durable'[b] >= k
                            /\ Len(files'[b]) \in Nat /\ Len(files'[b]) <= k + 1
                            /\ \A i \in 1..k : files'[b][i] = files[b][i]
                            /\ \A i \in 1..Len(files'[b]) :
                                  i > k => files'[b][i] = Torn
  <2>1. /\ files[b] \in Seq(Items) /\ durable[b] \in 0..Len(files[b])
        /\ cut[b] \in durable[b]..Len(files[b])
    BY <1>1, Zenon DEF TypeOK
  <2> DEFINE tail == IF b \in torn THEN <<Torn>> ELSE << >>
             extra == IF b \in torn THEN 1 ELSE 0
             k == cut[b]
             cutFile == SubSeq(files[b], 1, k) \o tail
  <2>2. files'[b] = cutFile /\ durable'[b] = k + extra
    BY <1>1, Zenon
  <2>3. /\ tail \in Seq(Items) /\ Len(tail) <= 1 /\ extra \in Nat
        /\ \A i \in 1..Len(tail) : tail[i] = Torn
    BY TornTail
  <2> HIDE DEF tail, extra, k
  <2>4. k \in 0..Len(files[b]) /\ k \in Nat /\ durable[b] <= k /\ k <= Len(files[b])
    BY <2>1 DEF k
  <2>5. /\ Len(cutFile) \in Nat /\ Len(cutFile) <= k + 1
        /\ \A i \in 1..k : cutFile[i] = files[b][i]
        /\ \A i \in 1..Len(cutFile) : i > k => cutFile[i] = Torn
    BY <2>1, <2>3, <2>4, CutItems, Zenon
  <2> HIDE DEF cutFile
  <2>6. durable'[b] \in Nat /\ durable'[b] >= k
    BY <2>2, <2>3, <2>4
  <2> QED
    BY <2>2, <2>4, <2>5, <2>6, Zenon
<1> QED
  BY <1>1, <1>2, <1>3, Zenon

(* A power loss takes only what was never synced. *)
LEMMA PowerLossWalInv ==
    ASSUME WalInv, TypeOK', PowerLoss
    PROVE  WalInv'
<1>1. Dies /\ pc # "down" /\ pc' = "down"
  BY Zenon DEF PowerLoss, Dies
<1>2. \A b \in DOMAIN files : \A i \in 1..Len(files[b]) : files[b][i] # Torn
  BY <1>1, Zenon DEF WalInv, TornAtEnd
<1>3. /\ DOMAIN files' \subseteq DOMAIN files
      /\ \A b \in DOMAIN files \ DOMAIN files' : durable[b] = 0
      /\ \A b \in DOMAIN files' : \E k \in Nat :
            /\ durable[b] <= k /\ k <= Len(files[b])
            /\ durable'[b] \in Nat /\ durable'[b] >= k
            /\ Len(files'[b]) \in Nat /\ Len(files'[b]) <= k + 1
            /\ \A i \in 1..k : files'[b][i] = files[b][i]
  BY PowerLossEffect, Zenon DEF WalInv
<1>4. KeepsKept
  <2> SUFFICES ASSUME NEW b \in DOMAIN files, NEW i \in 1..durable[b], Kept(b, i)
               PROVE  /\ b \in DOMAIN files'
                      /\ i \in 1..durable'[b]
                      /\ Kept(b, i)'
                      /\ files'[b][i] = files[b][i]
    BY Zenon DEF KeepsKept
  <2>1. durable[b] \in Nat
    BY DEF WalInv, TypeOK
  <2>2. b \in DOMAIN files'
    BY <1>3, <2>1
  <2>3. PICK k \in Nat : /\ durable[b] <= k
                         /\ durable'[b] \in Nat /\ durable'[b] >= k
                         /\ \A j \in 1..k : files'[b][j] = files[b][j]
    BY <1>3, <2>2, Zenon
  <2>4. i \in 1..durable'[b] /\ i \in 1..k /\ \A j \in 1..i : j \in 1..k
    BY <2>1, <2>3
  <2> QED
    BY <2>2, <2>3, <2>4, Zenon DEF Kept
<1>5. TornAtEnd'
  <2> SUFFICES ASSUME NEW b \in DOMAIN files', NEW i \in 1..Len(files'[b]),
                      files'[b][i] = Torn
               PROVE  i = Len(files'[b])
    BY <1>1, Zenon DEF TornAtEnd
  <2>1. PICK k \in Nat : /\ k <= Len(files[b])
                         /\ Len(files'[b]) \in Nat /\ Len(files'[b]) <= k + 1
                         /\ \A j \in 1..k : files'[b][j] = files[b][j]
    BY <1>3, Zenon
  <2>2. b \in DOMAIN files
    BY <1>3, Zenon
  <2>5. Len(files[b]) \in Nat
    BY <2>2, SegmentLengths, Zenon DEF WalInv
  <2>3. \A j \in 1..k : j \in 1..Len(files[b])
    BY <2>1, <2>5
  <2>4. i \notin 1..k
    BY <1>2, <2>1, <2>2, <2>3, Zenon
  <2> QED
    BY <2>1, <2>4
<1> QED
  BY <1>1, <1>3, <1>4, <1>5, DiesWalInv, Zenon

(* WalInv is inductive in the configuration that syncs and meets no I/O error. *)
LEMMA NextWalInv == SafeConfig /\ WalInv /\ [Next]_vars => WalInv'
<1> SUFFICES ASSUME SafeConfig, WalInv, [Next]_vars
             PROVE  WalInv'
  OBVIOUS
<1>0. TypeOK'
  BY NextTypeOK, Zenon DEF WalInv
<1>1. CASE Open
  BY <1>0, <1>1, OpenWalInv, Zenon
<1>2. ASSUME NEW c \in Clients, NEW op \in {"append", "flush", "trim"}, Call(c, op)
      PROVE  WalInv'
  BY <1>0, <1>2, QuietStep, Zenon DEF Call, WalInv, disk, history
<1>3. CASE AnswerFlush
  BY <1>0, <1>3, AnswerFlushWalInv, Zenon
<1>4. CASE AnswerTrim
  BY <1>0, <1>4, QuietStep, Zenon DEF AnswerTrim, WalInv, disk, history
<1>5. CASE TakeAppend
  <2>1. batch' # << >>
    <3>1. batch \in Seq(Messages) /\ Head(queue) \in Messages
      BY <1>5, QueueHead, Zenon DEF TakeAppend, WalInv, TypeOK
    <3> QED
      BY <1>5, <3>1 DEF TakeAppend
  <2> QED
    BY <1>0, <1>5, <2>1, QuietStep, Zenon DEF TakeAppend, disk, history
<1>6. CASE EncodeBatch
  BY <1>0, <1>6, EncodeBatchWalInv, Zenon
<1>7. CASE WriteBatch
  BY <1>0, <1>7, WriteBatchWalInv, Zenon
<1>8. CASE WriteFails
  BY <1>8, Zenon DEF WriteFails, SafeConfig
<1>9. CASE SyncBatch
  BY <1>0, <1>9, SyncBatchWalInv, Zenon
<1>10. CASE AckBatch
  BY <1>0, <1>10, AckBatchWalInv, Zenon
<1>11. CASE RollSegment
  BY <1>0, <1>11, RollSegmentWalInv, Zenon
<1>12. ASSUME NEW minSeq \in PurgePoints, Purge(minSeq)
       PROVE  WalInv'
  BY <1>12, Zenon DEF SafeConfig
<1>13. CASE Shutdown
  BY <1>0, <1>13, ShutdownWalInv, Zenon
<1>14. CASE Kill
  BY <1>0, <1>14, KillWalInv, Zenon
<1>15. CASE PowerLoss
  BY <1>0, <1>15, PowerLossWalInv, Zenon
<1>16. CASE UNCHANGED vars
  BY <1>0, <1>16, QuietStep, Zenon DEF vars, disk, worker, history, WalInv
<1> QED
  BY Zenon, <1>1, <1>2, <1>3, <1>4, <1>5, <1>6, <1>7, <1>8, <1>9, <1>10, <1>11,
     <1>12, <1>13, <1>14, <1>15, <1>16 DEF Next, Worker

(***************************************************************************)
(* The inductive invariant holds in every reachable state of the safe      *)
(* configuration: what the worker, the recovery scan and the crashes do to *)
(* the disk never touches a Kept record.                                   *)
(***************************************************************************)
THEOREM LogInvariant ==
    ASSUME SafeConfig
    PROVE  Spec => []WalInv
<1>1. Init => WalInv
  BY InitWalInv, Zenon
<1>2. WalInv /\ [Next]_vars => WalInv'
  BY NextWalInv, Zenon
<1> QED
  BY <1>1, <1>2, PTL DEF Spec

(* WalInv implies that a scan finds every acknowledged record. *)
LEMMA AckedInReadable == WalInv => acked \subseteq Readable
<1> SUFFICES ASSUME WalInv, NEW r \in acked
             PROVE  r \in Readable
  OBVIOUS
<1>1. PICK b \in DOMAIN files : \E i \in 1..durable[b] :
          Kept(b, i) /\ files[b][i] = r
  BY Zenon DEF WalInv, AckedKept
<1>2. PICK i \in 1..durable[b] : Kept(b, i) /\ files[b][i] = r
  BY <1>1, Zenon
<1>3. i \in DOMAIN files[b]
  <2>1. files[b] \in Seq(Items) /\ durable[b] \in 0..Len(files[b])
    BY Zenon DEF WalInv, TypeOK
  <2> QED
    BY <2>1
<1>4. Valid(files[b], i)
  BY <1>2, <1>3, Zenon DEF Valid, Kept
<1> QED
  BY <1>2, <1>3, <1>4 DEF Readable

(***************************************************************************)
(* Durability of FileWal::append: with sync_to_disk, a record whose append *)
(* returned Ok(seq) is read back after any sequence of kills, power losses *)
(* and recoveries, for any number of clients and any batch and segment     *)
(* size.                                                                   *)
(***************************************************************************)
THEOREM Durability ==
    ASSUME SafeConfig
    PROVE  Spec => []AckedReadable
<1>1. WalInv => AckedReadable
  BY AckedInReadable, Zenon DEF AckedReadable
<1> QED
  BY <1>1, LogInvariant, PTL

(* Only AckBatch extends acked, and by the batch in hand. *)
LEMMA AckedGrowth ==
    ASSUME WalInv, [Next]_vars
    PROVE  \/ acked' = acked
           \/ /\ pc = "ack"
              /\ acked' = acked \cup {pending[i] : i \in DOMAIN pending}
<1> DEFINE Grown == \/ acked' = acked
                    \/ /\ pc = "ack"
                       /\ acked' = acked \cup {pending[i] : i \in DOMAIN pending}
<1> SUFFICES Grown
  OBVIOUS
<1>1. CASE AckBatch
  BY <1>1, Zenon DEF AckBatch, WalInv
<1>2. CASE Open
  BY <1>2, Zenon DEF Open, history
<1>3. ASSUME NEW c \in Clients, NEW op \in {"append", "flush", "trim"}, Call(c, op)
      PROVE  Grown
  BY <1>3, Zenon DEF Call, history
<1>4. CASE AnswerFlush
  BY <1>4, Zenon DEF AnswerFlush, history
<1>5. CASE AnswerTrim
  BY <1>5, Zenon DEF AnswerTrim, history
<1>6. CASE TakeAppend
  BY <1>6, Zenon DEF TakeAppend, history
<1>7. CASE EncodeBatch
  BY <1>7, Zenon DEF EncodeBatch, history
<1>8. CASE WriteBatch
  BY <1>8, Zenon DEF WriteBatch, history
<1>9. CASE WriteFails
  BY <1>9, Zenon DEF WriteFails, history
<1>10. CASE SyncBatch
  BY <1>10, Zenon DEF SyncBatch, history
<1>11. CASE RollSegment
  BY <1>11, Zenon DEF RollSegment, history
<1>12. ASSUME NEW minSeq \in PurgePoints, Purge(minSeq)
       PROVE  Grown
  BY <1>12, Zenon DEF Purge, history
<1>13. CASE Shutdown
  BY <1>13, Zenon DEF Shutdown, history
<1>14. CASE Kill
  BY <1>14, Zenon DEF Kill, Dies, history
<1>15. CASE PowerLoss
  BY <1>15, Zenon DEF PowerLoss, Dies, history
<1>16. CASE UNCHANGED vars
  BY <1>16, Zenon DEF vars, history
<1> HIDE DEF Grown
<1> QED
  BY Zenon, <1>1, <1>2, <1>3, <1>4, <1>5, <1>6, <1>7, <1>8, <1>9, <1>10, <1>11,
     <1>12, <1>13, <1>14, <1>15, <1>16 DEF Next, Worker

(* A batch about to be acknowledged is numbered above everything            *)
(* acknowledged before, and its numbers differ.                            *)
LEMMA BatchAboveAcked ==
    ASSUME WalInv, pc = "ack"
    PROVE  /\ \A i \in DOMAIN pending : \A q \in acked : pending[i].seq > q.seq
           /\ \A i, j \in DOMAIN pending : pending[i].seq = pending[j].seq => i = j
<1>1. /\ DOMAIN pending = 1..Len(pending) /\ Len(pending) \in Nat
      /\ FirstPending \in Int
  BY DEF WalInv, TypeOK, FirstPending
<1>2. \A i \in 1..Len(pending) : pending[i].seq = FirstPending + i - 1
  BY Zenon DEF WalInv, BatchInHand
<1>3. \A q \in acked : q.seq \in Nat /\ q.seq < FirstPending
  <2>1. \A q \in acked : q.seq < FirstPending
    BY Zenon DEF WalInv, BatchInHand
  <2>2. \A q \in acked : q.seq \in Nat
    BY Zenon DEF WalInv, TypeOK, Items
  <2> QED
    BY <2>1, <2>2, Zenon
<1> QED
  BY <1>1, <1>2, <1>3

(***************************************************************************)
(* Two acknowledged appends never carry the same sequence number, although *)
(* every re-open recomputes next_seq from the segments it finds.           *)
(***************************************************************************)
THEOREM UniqueSequenceNumbers ==
    ASSUME SafeConfig
    PROVE  Spec => []AckedSeqsUnique
<1>1. Init => AckedSeqsUnique
  BY Zenon DEF Init, AckedSeqsUnique
<1>2. WalInv /\ AckedSeqsUnique /\ [Next]_vars => AckedSeqsUnique'
  <2> SUFFICES ASSUME WalInv, AckedSeqsUnique, [Next]_vars
               PROVE  AckedSeqsUnique'
    OBVIOUS
  <2>1. CASE acked' = acked
    BY <2>1, Zenon DEF AckedSeqsUnique
  <2>2. CASE /\ pc = "ack"
             /\ acked' = acked \cup {pending[i] : i \in DOMAIN pending}
    <3>1. /\ \A i \in DOMAIN pending : \A q \in acked : pending[i].seq > q.seq
          /\ \A i, j \in DOMAIN pending : pending[i].seq = pending[j].seq => i = j
      BY <2>2, BatchAboveAcked, Zenon
    <3>2. \A q \in acked' : q.seq \in Nat
      BY NextTypeOK, Zenon DEF WalInv, TypeOK, Items
    <3> QED
      BY <2>2, <3>1, <3>2 DEF AckedSeqsUnique
  <2> QED
    BY <2>1, <2>2, AckedGrowth, Zenon
<1> QED
  BY <1>1, <1>2, LogInvariant, PTL DEF Spec

(***************************************************************************)
(* "returning the assigned monotonic sequence number": an append that is   *)
(* acknowledged later has a larger number, across restarts too.            *)
(***************************************************************************)
THEOREM MonotonicSequenceNumbers ==
    ASSUME SafeConfig
    PROVE  Spec => AckMonotonic
<1>1. WalInv /\ [Next]_vars
          => [\A r \in acked' \ acked, q \in acked : r.seq > q.seq]_vars
  <2> SUFFICES ASSUME WalInv, [Next]_vars, NEW r \in acked' \ acked, NEW q \in acked
               PROVE  r.seq > q.seq
    OBVIOUS
  <2>1. /\ pc = "ack"
        /\ acked' = acked \cup {pending[i] : i \in DOMAIN pending}
    BY AckedGrowth, Zenon
  <2>2. PICK i \in DOMAIN pending : r = pending[i]
    BY <2>1, Zenon
  <2> QED
    BY <2>1, <2>2, BatchAboveAcked, Zenon
<1> QED
  BY <1>1, LogInvariant, PTL DEF Spec, AckMonotonic

-----------------------------------------------------------------------------
(***************************************************************************)
(* FileWal implements WalContract, the promise of the WalEngine trait, in  *)
(* the configuration in which it is durable (SafeConfig).  The abstract    *)
(* log is what a scan of the segments finds: a step of the worker, of      *)
(* recovery or of a crash is a Write, an Acknowledge, a Lose or a stutter. *)
(* And, in every configuration, the log holds each request at most once.   *)
(***************************************************************************)

(* What a scan of the segment files f finds. *)
ReadableIn(f) ==
    UNION {{f[b][i] : i \in {j \in DOMAIN f[b] : Valid(f[b], j)}} : b \in DOMAIN f}

(* Readable depends on the segment files alone. *)
LEMMA ReadableInFiles == Readable = ReadableIn(files) /\ Readable' = ReadableIn(files')
  BY Zenon DEF Readable, ReadableIn

(* A record stands in some file, before any torn item of it; or anywhere. *)
BeforeTorn(f, r) ==
    \E b \in DOMAIN f : \E i \in 1..Len(f[b]) :
        f[b][i] = r /\ \A j \in 1..i : f[b][j] # Torn

Somewhere(f, r) == \E b \in DOMAIN f : \E i \in 1..Len(f[b]) : f[b][i] = r

(* What a scan finds are complete records. *)
LEMMA ReadableItems ==
    ASSUME NEW f, \A b \in DOMAIN f : f[b] \in Seq(Items), NEW r
    PROVE  r \in ReadableIn(f) <=> BeforeTorn(f, r)
<1>1. \A b \in DOMAIN f : DOMAIN f[b] = 1..Len(f[b])
  OBVIOUS
<1> DEFINE scan(b) == {f[b][i] : i \in {j \in DOMAIN f[b] : Valid(f[b], j)}}
<1>2. \A b \in DOMAIN f :
          r \in scan(b) <=> \E i \in 1..Len(f[b]) :
                               f[b][i] = r /\ \A j \in 1..i : f[b][j] # Torn
  BY <1>1, Zenon DEF Valid
<1> HIDE DEF scan
<1>3. r \in UNION {scan(b) : b \in DOMAIN f}
      <=> \E b \in DOMAIN f : r \in scan(b)
  OBVIOUS
<1>4. r \in UNION {scan(b) : b \in DOMAIN f} <=> BeforeTorn(f, r)
  BY <1>2, <1>3, Zenon DEF BeforeTorn
<1> QED
  BY <1>4, Zenon DEF scan, ReadableIn

(* With no torn item anywhere, every item is Readable. *)
LEMMA UntornReadable ==
    ASSUME NEW f, \A b \in DOMAIN f : f[b] \in Seq(Items),
           \A b \in DOMAIN f : \A i \in 1..Len(f[b]) : f[b][i] # Torn, NEW r
    PROVE  r \in ReadableIn(f) <=> Somewhere(f, r)
<1>1. \A b \in DOMAIN f : \A i \in 1..Len(f[b]) : \A j \in 1..i : f[b][j] # Torn
  <2> SUFFICES ASSUME NEW b \in DOMAIN f, NEW i \in 1..Len(f[b]), NEW j \in 1..i
               PROVE  f[b][j] # Torn
    OBVIOUS
  <2>1. Len(f[b]) \in Nat
    OBVIOUS
  <2>2. j \in 1..Len(f[b])
    BY <2>1
  <2> QED
    BY <2>2, Zenon
<1>2. BeforeTorn(f, r) <=> Somewhere(f, r)
  BY <1>1, Zenon DEF BeforeTorn, Somewhere
<1>3. r \in ReadableIn(f) <=> BeforeTorn(f, r)
  BY ReadableItems, Zenon
<1> QED
  BY <1>2, <1>3, Zenon

(* While the process runs no item is torn: a scan finds them all. *)
LEMMA RunningReadable ==
    ASSUME WalInv, pc # "down"
    PROVE  \A r : r \in Readable <=> Somewhere(files, r)
<1>1. \A b \in DOMAIN files : files[b] \in Seq(Items)
  BY Zenon DEF WalInv, TypeOK
<1>2. \A b \in DOMAIN files : \A i \in 1..Len(files[b]) : files[b][i] # Torn
  BY Zenon DEF WalInv, TornAtEnd
<1> QED
  BY <1>1, <1>2, UntornReadable, ReadableInFiles, Zenon

(* A scan of the segments finds the same records after recovery as before, *)
(* and no complete record was behind a torn one.                           *)
LEMMA OpenReadable ==
    ASSUME WalInv, WalInv', Open
    PROVE  Readable' = Readable /\ CompleteRecords \subseteq Readable
<1>1. pc = "down" /\ pc' = "recv"
  BY Zenon DEF Open
<1>2. \A b \in DOMAIN files : files[b] \in Seq(Items)
  BY Zenon DEF WalInv, TypeOK
<1>3. \A b \in DOMAIN files' : files'[b] \in Seq(Items)
  BY Zenon DEF WalInv, TypeOK
<1>4. \A b \in DOMAIN files' : \A i \in 1..Len(files'[b]) : files'[b][i] # Torn
  BY <1>1, Zenon DEF WalInv, TornAtEnd
<1>5. \A r : r \in Readable' <=> Somewhere(files', r)
  BY <1>3, <1>4, UntornReadable, ReadableInFiles, Zenon
<1>6. \A r : r \in Readable <=> BeforeTorn(files, r)
  BY <1>2, ReadableItems, ReadableInFiles, Zenon
<1>7. CompleteRecords \subseteq Readable
  <2> SUFFICES ASSUME NEW r \in CompleteRecords
               PROVE  r \in Readable
    OBVIOUS
  <2>0. PICK b \in DOMAIN files : \E i \in DOMAIN files[b] :
            files[b][i] = r /\ r # Torn
    <3>1. /\ r \in UNION {{files[b][i] : i \in DOMAIN files[b]} : b \in DOMAIN files}
          /\ r \notin {Torn}
      BY Zenon DEF CompleteRecords
    <3> DEFINE content(b) == {files[b][i] : i \in DOMAIN files[b]}
    <3>2. r \in UNION {content(b) : b \in DOMAIN files}
      BY <3>1, Zenon
    <3>3. PICK b \in DOMAIN files : r \in content(b)
      <4> HIDE DEF content
      <4> QED
        BY <3>2, Zenon
    <3>4. \E i \in DOMAIN files[b] : files[b][i] = r
      BY <3>3, Zenon
    <3>5. r # Torn
      BY <3>1, Zenon
    <3> QED
      BY <3>4, <3>5, Zenon
  <2> PICK i \in DOMAIN files[b] : files[b][i] = r /\ r # Torn
    BY <2>0, Zenon
  <2>1. i \in 1..Len(files[b]) /\ Len(files[b]) \in Nat
    BY <1>2
  <2>2. \A j \in 1..i : files[b][j] # Torn
    BY <2>1 DEF WalInv, TornAtEnd
  <2> QED
    BY <1>6, <2>1, <2>2, Zenon DEF BeforeTorn
<1>8. CASE DOMAIN files = {}
  <2>1. \E startSeq : files' = [b \in {startSeq} |-> << >>]
    BY <1>8, Zenon DEF Open, InitActiveSegment
  <2>2. Readable' = {}
    BY <1>5, <2>1 DEF Somewhere
  <2>3. Readable = {}
    BY <1>6, <1>8, Zenon DEF BeforeTorn
  <2> QED
    BY <1>7, <2>2, <2>3, Zenon
<1>9. CASE DOMAIN files # {}
  <2>1. files' = [b \in DOMAIN files |-> RecoveredFile(b)]
    BY <1>9, Zenon DEF Open, InitActiveSegment
  <2>2. ASSUME NEW b \in DOMAIN files
        PROVE  /\ ValidLength(files[b]) \in 0..Len(files[b])
               /\ \A j \in 1..ValidLength(files[b]) : files[b][j] # Torn
               /\ ValidLength(files[b]) < Len(files[b])
                      => files[b][ValidLength(files[b]) + 1] = Torn
               /\ Len(files[b]) \in Nat
               /\ Len(files'[b]) = ValidLength(files[b])
               /\ \A i \in 1..ValidLength(files[b]) : files'[b][i] = files[b][i]
    <3>1. /\ ValidLength(files[b]) \in 0..Len(files[b])
          /\ \A j \in 1..ValidLength(files[b]) : files[b][j] # Torn
          /\ ValidLength(files[b]) < Len(files[b])
                 => files[b][ValidLength(files[b]) + 1] = Torn
      BY <1>2, ValidLengthStops, Zenon
    <3>2. files'[b] = SubSeq(files[b], 1, ValidLength(files[b]))
      BY <2>1, Zenon DEF RecoveredFile
    <3> QED
      BY <1>2, <3>1, <3>2, PrefixItems
  <2>3. ASSUME NEW r, NEW b \in DOMAIN files
        PROVE  (\E i \in 1..Len(files'[b]) : files'[b][i] = r)
               <=> \E i \in 1..Len(files[b]) :
                       files[b][i] = r /\ \A j \in 1..i : files[b][j] # Torn
    <3> DEFINE v == ValidLength(files[b])
    <3>1. /\ v \in Nat /\ v <= Len(files[b]) /\ Len(files[b]) \in Nat
          /\ Len(files'[b]) = v
          /\ v < Len(files[b]) => files[b][v + 1] = Torn
          /\ \A j \in 1..v : files[b][j] # Torn /\ files'[b][j] = files[b][j]
      BY <2>2
    <3> HIDE DEF v
    <3>2. ASSUME NEW i \in 1..Len(files'[b]), files'[b][i] = r
          PROVE  /\ i \in 1..Len(files[b]) /\ files[b][i] = r
                 /\ \A j \in 1..i : files[b][j] # Torn
      BY <3>1, <3>2
    <3>3. ASSUME NEW i \in 1..Len(files[b]), files[b][i] = r,
                 \A j \in 1..i : files[b][j] # Torn
          PROVE  i \in 1..Len(files'[b]) /\ files'[b][i] = r
      <4>1. i <= v
        <5>1. ASSUME i > v
              PROVE  FALSE
          <6>1. v + 1 \in 1..i /\ v < Len(files[b])
            BY <3>1, <5>1
          <6> QED
            BY <3>1, <3>3, <6>1, Zenon
        <5> QED
          BY <3>1, <5>1
      <4> QED
        BY <3>1, <3>3, <4>1
    <3> QED
      BY <3>2, <3>3, Zenon
  <2>4. DOMAIN files' = DOMAIN files
    BY <2>1, Zenon
  <2>5. \A r : r \in Readable' <=> r \in Readable
    <3> SUFFICES ASSUME NEW r
                 PROVE  r \in Readable' <=> r \in Readable
      OBVIOUS
    <3>1. r \in Readable' <=> \E b \in DOMAIN files :
                                 \E i \in 1..Len(files'[b]) : files'[b][i] = r
      BY <1>5, <2>4, Zenon DEF Somewhere
    <3> QED
      BY <1>6, <2>3, <3>1, Zenon DEF BeforeTorn
  <2>6. Readable' = Readable
    BY <2>5, Zenon
  <2> QED
    BY <1>7, <2>6, Zenon
<1> QED
  BY <1>8, <1>9, Zenon

(* The items of a batch, or of the part of it that was written, are the    *)
(* pending records, with at most a torn one.                               *)
LEMMA WrittenArePending ==
    ASSUME pending \in Seq(Items), NEW items \in PartialWrites \cup {pending}
    PROVE  \A i \in 1..Len(items) :
               items[i] # Torn => i \in 1..Len(pending) /\ items[i] = pending[i]
<1>1. CASE items = pending
  BY <1>1, Zenon
<1>2. ASSUME NEW n \in 0..(Len(pending) - 1), NEW tail \in {<< >>, <<Torn>>},
             NEW i \in 1..Len(SubSeq(pending, 1, n) \o tail),
             (SubSeq(pending, 1, n) \o tail)[i] # Torn
      PROVE  /\ i \in 1..Len(pending)
             /\ (SubSeq(pending, 1, n) \o tail)[i] = pending[i]
  <2>1. n \in 0..Len(pending) /\ Len(pending) \in Nat
    OBVIOUS
  <2>2. /\ tail \in Seq(Items) /\ Len(tail) <= 1
        /\ \A j \in 1..Len(tail) : tail[j] = Torn
    <3>1. CASE tail = << >>
      BY <3>1
    <3>2. CASE tail = <<Torn>>
      BY <3>2, TornTail
    <3> QED
      BY <3>1, <3>2, Zenon
  <2> DEFINE written == SubSeq(pending, 1, n) \o tail
  <2>3. /\ \A j \in 1..n : written[j] = pending[j]
        /\ Len(written) \in Nat
        /\ \A j \in 1..Len(written) : j > n => written[j] = Torn
    BY <2>1, <2>2, CutItems, Zenon
  <2>4. i \in 1..Len(written) /\ written[i] # Torn
    BY <1>2, Zenon
  <2> HIDE DEF written
  <2>5. i \in 1..n
    BY <2>1, <2>3, <2>4
  <2>6. i \in 1..Len(pending) /\ written[i] = pending[i]
    BY <2>1, <2>3, <2>5
  <2> QED
    BY <2>6, Zenon DEF written
<1> QED
  BY <1>1, <1>2 DEF PartialWrites

(* Writing a batch, in whole or in part, extends the log above its records. *)
LEMMA WriteIsWrite ==
    ASSUME WalInv, TypeOK', pc = "write", UNCHANGED acked,
           NEW items \in PartialWrites \cup {pending}, WriteToActive(items)
    PROVE  Contract!Write
<1>1. TypeOK /\ pending \in Seq(Items) /\ active \in DOMAIN files
  BY Zenon DEF WalInv, TypeOK, Running
<1>2. items \in Seq(Items)
  BY <1>1, PartialWritesItems, Zenon
<1>3. /\ DOMAIN files' = DOMAIN files
      /\ \A b \in DOMAIN files : b # active => files'[b] = files[b]
      /\ Len(files'[active]) = Len(files[active]) + Len(items)
      /\ \A b \in DOMAIN files : \A i \in 1..Len(files[b]) :
            files'[b][i] = files[b][i]
      /\ \A i \in 1..Len(items) :
            files'[active][Len(files[active]) + i] = items[i]
  BY <1>1, <1>2, WriteEffect, Zenon
<1>4. \A r : r \in Readable <=> Somewhere(files, r)
  BY RunningReadable, Zenon
<1>5. \A b \in DOMAIN files' : files'[b] \in Seq(Items)
  BY Zenon DEF TypeOK
<1>6. \A r : r \in Readable' <=> BeforeTorn(files', r)
  BY <1>5, ReadableItems, ReadableInFiles, Zenon
<1>7. /\ \A b \in DOMAIN files : Len(files[b]) \in Nat /\ Len(files'[b]) \in Nat
      /\ \A b \in DOMAIN files : Len(files[b]) <= Len(files'[b])
      /\ Len(items) \in Nat
  <2>1. \A b \in DOMAIN files : files[b] \in Seq(Items) /\ files'[b] \in Seq(Items)
    BY <1>1, <1>3, <1>5, Zenon DEF TypeOK
  <2>2. \A b \in DOMAIN files : Len(files[b]) \in Nat /\ Len(files'[b]) \in Nat
    BY <2>1
  <2>3. Len(items) \in Nat
    BY <1>2
  <2>4. \A b \in DOMAIN files : Len(files[b]) <= Len(files'[b])
    BY <1>3, <2>2, <2>3
  <2> QED
    BY <2>2, <2>3, <2>4, Zenon
<1>8. Readable \subseteq Readable'
  <2> SUFFICES ASSUME NEW r \in Readable
               PROVE  r \in Readable'
    OBVIOUS
  <2>1. PICK b \in DOMAIN files : \E i \in 1..Len(files[b]) : files[b][i] = r
    BY <1>4, Zenon DEF Somewhere
  <2>2. PICK i \in 1..Len(files[b]) : files[b][i] = r
    BY <2>1, Zenon
  <2>3. \A j \in 1..i : j \in 1..Len(files[b])
    BY <1>7
  <2>4. \A j \in 1..i : files'[b][j] # Torn
    BY <1>3, <2>3, Zenon DEF WalInv, TornAtEnd
  <2>5. i \in 1..Len(files'[b]) /\ files'[b][i] = r
    BY <1>3, <1>7, <2>2
  <2> QED
    BY <1>3, <1>6, <2>4, <2>5 DEF BeforeTorn
<1>9. ASSUME NEW r \in Readable' \ Readable
      PROVE  \E k \in 1..Len(pending) : r = pending[k]
  <2>1. PICK b \in DOMAIN files : \E i \in 1..Len(files'[b]) :
            files'[b][i] = r /\ \A j \in 1..i : files'[b][j] # Torn
    BY <1>3, <1>6 DEF BeforeTorn
  <2>2. PICK i \in 1..Len(files'[b]) :
            files'[b][i] = r /\ \A j \in 1..i : files'[b][j] # Torn
    BY <2>1, Zenon
  <2>3. i \notin 1..Len(files[b])
    BY <1>3, <1>4, <2>2, Zenon DEF Somewhere
  <2>4. b = active
    BY <1>3, <2>2, <2>3, Zenon
  <2>5. i - Len(files[b]) \in 1..Len(items) /\ i \in 1..i
    BY <1>3, <1>7, <2>2, <2>3, <2>4
  <2>6. r = items[i - Len(files[b])] /\ r # Torn
    <3>1. i = Len(files[b]) + (i - Len(files[b]))
      BY <1>7, <2>2
    <3> QED
      BY <1>3, <2>2, <2>4, <2>5, <3>1, Zenon
  <2> QED
    BY <1>1, <2>5, <2>6, WrittenArePending, Zenon
<1>10. ASSUME NEW r \in Readable' \ Readable, NEW q \in Readable
       PROVE  r.seq > q.seq
  <2>1. FirstPending \in Int
    BY <1>1 DEF TypeOK, FirstPending
  <2>2. PICK k \in 1..Len(pending) : r = pending[k]
    BY <1>9, Zenon
  <2>3. r.seq = FirstPending + k - 1
    BY <2>2, Zenon DEF WalInv, BatchInHand
  <2>4. q.seq < FirstPending
    BY <1>4, Zenon DEF WalInv, BatchInHand, Somewhere
  <2>5. q.seq \in Nat
    <3>1. PICK b \in DOMAIN files : \E i \in 1..Len(files[b]) : files[b][i] = q
      BY <1>4, Zenon DEF Somewhere
    <3>2. files[b] \in Seq(Items)
      BY <1>1, Zenon DEF TypeOK
    <3>3. q \in Items
      BY <3>1, <3>2
    <3> QED
      BY <3>3, Zenon DEF Items
  <2>6. k \in Nat /\ k >= 1
    BY <1>1
  <2> QED
    BY <2>1, <2>3, <2>4, <2>5, <2>6
<1> QED
  BY <1>8, <1>10, Zenon DEF Contract!Write

(* A power loss takes records from the log, none of them acknowledged. *)
LEMMA PowerLossIsLose ==
    ASSUME WalInv, WalInv', PowerLoss
    PROVE  Contract!Lose
<1>1. UNCHANGED acked /\ pc # "down"
  BY Zenon DEF PowerLoss, Dies, history
<1>2. /\ DOMAIN files' \subseteq DOMAIN files
      /\ \A b \in DOMAIN files' : \E k \in Nat :
            /\ k <= Len(files[b])
            /\ \A i \in 1..k : files'[b][i] = files[b][i]
            /\ \A i \in 1..Len(files'[b]) : i > k => files'[b][i] = Torn
  BY PowerLossEffect, Zenon DEF WalInv
<1>3. \A r : r \in Readable <=> Somewhere(files, r)
  BY <1>1, RunningReadable, Zenon
<1>4. /\ \A b \in DOMAIN files' : files'[b] \in Seq(Items)
      /\ \A b \in DOMAIN files : files[b] \in Seq(Items)
  BY Zenon DEF WalInv, TypeOK
<1>5. \A r : r \in Readable' <=> BeforeTorn(files', r)
  BY <1>4, ReadableItems, ReadableInFiles, Zenon
<1>6. Readable' \subseteq Readable
  <2> SUFFICES ASSUME NEW r \in Readable'
               PROVE  r \in Readable
    OBVIOUS
  <2>1. PICK b \in DOMAIN files' : \E i \in 1..Len(files'[b]) :
            files'[b][i] = r /\ \A j \in 1..i : files'[b][j] # Torn
    BY <1>5, Zenon DEF BeforeTorn
  <2>2. PICK i \in 1..Len(files'[b]) :
            files'[b][i] = r /\ \A j \in 1..i : files'[b][j] # Torn
    BY <2>1, Zenon
  <2>3. PICK k \in Nat : /\ k <= Len(files[b])
                         /\ \A j \in 1..k : files'[b][j] = files[b][j]
                         /\ \A j \in 1..Len(files'[b]) : j > k => files'[b][j] = Torn
    BY <1>2, Zenon
  <2>4. Len(files[b]) \in Nat /\ Len(files'[b]) \in Nat
    BY <1>2, <1>4
  <2>5. i \in 1..i
    BY <2>4
  <2>6. i <= k
    BY <2>2, <2>3, <2>4, <2>5
  <2>7. i \in 1..Len(files[b]) /\ files[b][i] = r
    BY <2>2, <2>3, <2>4, <2>6
  <2> QED
    BY <1>2, <1>3, <2>7, Zenon DEF Somewhere
<1>7. acked \subseteq Readable'
  <2>1. (WalInv => acked \subseteq Readable)'
    BY AckedInReadable, PTL
  <2> QED
    BY <1>1, <2>1, Zenon
<1> QED
  BY <1>1, <1>6, <1>7, Zenon DEF Contract!Lose

(* The new, empty segment changes nothing a scan finds. *)
LEMMA RollReadable ==
    ASSUME WalInv, WalInv', RollSegment
    PROVE  Readable' = Readable /\ acked' = acked
<1>1. pc = "roll" /\ pc' = "recv" /\ acked' = acked
  BY Zenon DEF RollSegment, history
<1>2. CASE UNCHANGED <<disk, active, size>>
  BY <1>1, <1>2 DEF disk, Readable
<1>3. CASE CreateSegment(nextSeq)
  <2>1. nextSeq \notin DOMAIN files
    BY <1>1 DEF WalInv, RollReady, TypeOK
  <2>2. /\ DOMAIN files' = DOMAIN files \cup {nextSeq}
        /\ files'[nextSeq] = << >>
        /\ \A b \in DOMAIN files : files'[b] = files[b]
    BY <1>3, <2>1, Zenon DEF CreateSegment
  <2>3. \A r : r \in Readable <=> Somewhere(files, r)
    BY <1>1, RunningReadable, Zenon
  <2>4. \A r : r \in Readable' <=> Somewhere(files', r)
    <3>1. \A b \in DOMAIN files' : files'[b] \in Seq(Items)
      BY Zenon DEF WalInv, TypeOK
    <3>2. \A b \in DOMAIN files' : \A i \in 1..Len(files'[b]) : files'[b][i] # Torn
      BY <1>1, Zenon DEF WalInv, TornAtEnd
    <3> QED
      BY <3>1, <3>2, UntornReadable, ReadableInFiles, Zenon
  <2>5. Len(<< >>) = 0
    OBVIOUS
  <2>6. \A r : Somewhere(files', r) <=> Somewhere(files, r)
    BY <2>2, <2>5 DEF Somewhere
  <2>7. \A r : r \in Readable' <=> r \in Readable
    BY <2>3, <2>4, <2>6, Zenon
  <2> QED
    BY <1>1, <2>7, Zenon
<1> QED
  BY <1>2, <1>3, Zenon DEF RollSegment

(* Answering the batch acknowledges records that are in the log. *)
LEMMA AckIsAcknowledge ==
    ASSUME WalInv, WalInv', AckBatch
    PROVE  Contract!Acknowledge
<1>1. /\ pc = "ack" /\ UNCHANGED files
      /\ acked' = acked \cup {pending[i] : i \in DOMAIN pending}
  BY Zenon DEF AckBatch, disk, WalInv
<1>2. Readable' = Readable
  BY <1>1 DEF Readable
<1>3. acked' \subseteq Readable
  <2>1. (WalInv => acked \subseteq Readable)'
    BY AckedInReadable, PTL
  <2> QED
    BY <1>2, <2>1, Zenon
<1>4. \A r \in acked' \ acked, q \in acked : r.seq > q.seq
  BY <1>1, BatchAboveAcked, Zenon
<1> QED
  BY <1>1, <1>2, <1>3, <1>4, Zenon DEF Contract!Acknowledge

(* Every step of the log is a step of the contract, or leaves it as it is. *)
LEMMA StepImplements ==
    SafeConfig /\ WalInv /\ WalInv' /\ [Next]_vars => [Contract!Next]_(Contract!vars)
<1> SUFFICES ASSUME SafeConfig, WalInv, WalInv', [Next]_vars
             PROVE  Contract!Next \/ (Readable' = Readable /\ acked' = acked)
  BY Zenon DEF Contract!vars
<1>0. ASSUME UNCHANGED files, UNCHANGED acked
      PROVE  Readable' = Readable /\ acked' = acked
  BY <1>0 DEF Readable
<1>1. CASE Open
  BY <1>1, OpenReadable, Zenon DEF Open, history
<1>2. ASSUME NEW c \in Clients, NEW op \in {"append", "flush", "trim"}, Call(c, op)
      PROVE  Readable' = Readable /\ acked' = acked
  BY <1>0, <1>2, Zenon DEF Call, disk, history
<1>3. CASE AnswerFlush \/ AnswerTrim \/ TakeAppend \/ EncodeBatch
  BY <1>0, <1>3, Zenon DEF AnswerFlush, AnswerTrim, TakeAppend, EncodeBatch, disk, history
<1>4. CASE SyncBatch \/ Shutdown
  BY <1>0, <1>4, Zenon DEF SyncBatch, Shutdown, history
<1>5. CASE WriteBatch
  <2>1. pc = "write" /\ UNCHANGED acked /\ WriteToActive(pending) /\ TypeOK'
    BY <1>5, Zenon DEF WriteBatch, history, WalInv
  <2> QED
    BY <2>1, WriteIsWrite, Zenon DEF Contract!Next
<1>6. CASE WriteFails
  BY <1>6, Zenon DEF WriteFails, SafeConfig
<1>7. CASE AckBatch
  BY <1>7, AckIsAcknowledge, Zenon DEF Contract!Next
<1>8. CASE RollSegment
  BY <1>8, RollReadable, Zenon
<1>9. ASSUME NEW minSeq \in PurgePoints, Purge(minSeq)
      PROVE  FALSE
  BY <1>9, Zenon DEF SafeConfig
<1>10. CASE Kill
  <2>1. UNCHANGED acked /\ TypeOK'
    BY <1>10, Zenon DEF Kill, Dies, history, WalInv
  <2>2. CASE pc = "write"
    <3>1. PICK items \in PartialWrites \cup {pending} : WriteToActive(items)
      BY <1>10, <2>2, Zenon DEF Kill
    <3> QED
      BY <2>1, <2>2, <3>1, WriteIsWrite, Zenon DEF Contract!Next
  <2>3. CASE pc # "write"
    BY <1>0, <1>10, <2>1, <2>3, Zenon DEF Kill
  <2> QED
    BY <2>2, <2>3, Zenon
<1>11. CASE PowerLoss
  BY <1>11, PowerLossIsLose, Zenon DEF Contract!Next
<1>12. CASE UNCHANGED vars
  BY <1>0, <1>12, Zenon DEF vars, disk, history
<1> QED
  BY <1>1, <1>2, <1>3, <1>4, <1>5, <1>6, <1>7, <1>8, <1>9, <1>10, <1>11, <1>12, Zenon
  DEF Next, Worker

(***************************************************************************)
(* FileWal with sync_to_disk keeps the WalEngine contract: its records     *)
(* form one log that grows upwards, only logged records are acknowledged,  *)
(* in order, and a crash takes unacknowledged records only.                *)
(***************************************************************************)
THEOREM Refinement ==
    ASSUME SafeConfig
    PROVE  Spec => ImplementsContract
<1>1. Init => Contract!Init
  BY DEF Init, Contract!Init, Readable
<1>2. WalInv /\ WalInv' /\ [Next]_vars => [Contract!Next]_(Contract!vars)
  BY StepImplements, Zenon
<1> QED
  BY <1>1, <1>2, LogInvariant, PTL DEF Spec, ImplementsContract, Contract!Spec

(***************************************************************************)
(* "truncates any partially written trailing bytes at EOF": what recovery  *)
(* cuts off a segment file holds no complete record.                       *)
(***************************************************************************)
THEOREM RecoveryKeepsComplete ==
    ASSUME SafeConfig
    PROVE  Spec => RecoveryDropsOnlyPartial
<1>1. WalInv /\ WalInv' /\ [Next]_vars
          => [pc = "down" /\ pc' # "down" => CompleteRecords \subseteq Readable']_vars
  <2> SUFFICES ASSUME WalInv, WalInv', [Next]_vars, pc = "down", pc' # "down"
               PROVE  CompleteRecords \subseteq Readable'
    OBVIOUS
  <2>1. Open
    <3>1. ASSUME NEW c \in Clients, NEW op \in {"append", "flush", "trim"}, Call(c, op)
          PROVE  FALSE
      BY <3>1, Zenon DEF Call
    <3>2. ASSUME NEW minSeq \in PurgePoints, Purge(minSeq)
          PROVE  FALSE
      BY <3>2, Zenon DEF Purge, worker
    <3>3. ~ (AnswerFlush \/ AnswerTrim \/ TakeAppend)
      BY Zenon DEF AnswerFlush, AnswerTrim, TakeAppend
    <3>4. ~ (EncodeBatch \/ WriteBatch \/ WriteFails)
      BY Zenon DEF EncodeBatch, WriteBatch, WriteFails
    <3>5. ~ (SyncBatch \/ AckBatch \/ RollSegment)
      BY Zenon DEF SyncBatch, AckBatch, RollSegment
    <3>6. ~ (Shutdown \/ Kill \/ PowerLoss)
      BY Zenon DEF Shutdown, Kill, PowerLoss, Dies
    <3>7. ~ UNCHANGED vars
      BY Zenon DEF vars, worker
    <3> QED
      BY <3>1, <3>2, <3>3, <3>4, <3>5, <3>6, <3>7, Zenon DEF Next, Worker
  <2> QED
    BY <2>1, OpenReadable, Zenon
<1> QED
  BY <1>1, LogInvariant, PTL DEF Spec, RecoveryDropsOnlyPartial

-----------------------------------------------------------------------------
(* Every request is stored at most once, in every configuration.           *)

(* g holds nothing but what f holds in the same place, and torn records. *)
Stays(f, g) ==
    \A b \in DOMAIN g : \A i \in DOMAIN g[b] :
        \/ g[b][i] = Torn
        \/ b \in DOMAIN f /\ i \in DOMAIN f[b] /\ g[b][i] = f[b][i]

(* The records of f have requests numbered below n. *)
Below(f, n) == \A b \in DOMAIN f : \A i \in DOMAIN f[b] : f[b][i].req < n

(* StoredOnce, of any set of files, with the requests numbered from 1. *)
Single(f) ==
    /\ \A b \in DOMAIN f : \A i \in DOMAIN f[b] :
           f[b][i] # Torn => f[b][i].req > 0
    /\ \A a, b \in DOMAIN f : \A i \in DOMAIN f[a], j \in DOMAIN f[b] :
           f[a][i].req = f[b][j].req /\ f[a][i] # Torn => a = b /\ i = j

LEMMA SingleAt ==
    ASSUME NEW f, Single(f), NEW a \in DOMAIN f, NEW b \in DOMAIN f,
           NEW i \in DOMAIN f[a], NEW j \in DOMAIN f[b],
           f[a][i].req = f[b][j].req, f[a][i] # Torn
    PROVE  a = b /\ i = j
BY SMT DEF Single

LEMMA EarlierPositions ==
    ASSUME NEW n \in Nat, NEW j \in 1..n
    PROVE  \A i \in 1..(n + 1) : i < j => i \in 1..n
OBVIOUS

(* The appends waiting in channel q were numbered in order, up to n, after *)
(* everything that is stored in f.                                         *)
QueueInOrder(f, q, n) ==
    \A j \in DOMAIN q : q[j].op = "append" =>
        /\ q[j].req \in 1..n
        /\ Below(f, q[j].req)
        /\ \A i \in DOMAIN q :
               i < j /\ q[i].op = "append" => q[i].req < q[j].req

(* So were those of batch b, before the ones still in the channel. *)
BatchInOrder(b, q, n) ==
    \A i \in DOMAIN b :
        /\ b[i].req \in 1..n
        /\ \A j \in DOMAIN b : i < j => b[i].req < b[j].req
        /\ \A j \in DOMAIN q : q[j].op = "append" => b[i].req < q[j].req

(* Nothing of batch b is stored yet. *)
Unwritten(f, b) == \A i \in DOMAIN b : Below(f, b[i].req)

(***************************************************************************)
(* The inductive invariant: requests are numbered in the order of the      *)
(* calls, the channel and the batch keep that order, and until the write   *)
(* everything stored comes before everything drained.                      *)
(***************************************************************************)
OnceInv ==
    /\ Single(files)
    /\ Below(files, appends + 1)
    /\ QueueInOrder(files, queue, appends)
    /\ BatchInOrder(batch, queue, appends)
    /\ pc \in {"drain", "write"} => Unwritten(files, batch)
    /\ pc = "write" => /\ Len(pending) = Len(batch)
                       /\ \A i \in DOMAIN batch : pending[i].req = batch[i].req
    /\ pc \in {"down", "recv", "roll"} => batch = << >>
    /\ pc = "down" => queue = << >>

(* Cutting files, or dropping some, stores nothing twice. *)
LEMMA StaysSingle ==
    ASSUME NEW f, NEW g, Stays(f, g), Single(f)
    PROVE  Single(g)
<1>1. Torn.req = 0
  BY Zenon DEF Torn
<1>2. \A b \in DOMAIN g : \A i \in DOMAIN g[b] : g[b][i] # Torn =>
          /\ b \in DOMAIN f /\ i \in DOMAIN f[b]
          /\ f[b][i] = g[b][i] /\ g[b][i].req > 0
  BY Zenon DEF Stays, Single
<1>3. ASSUME NEW a \in DOMAIN g, NEW b \in DOMAIN g,
             NEW i \in DOMAIN g[a], NEW j \in DOMAIN g[b],
             g[a][i].req = g[b][j].req, g[a][i] # Torn
      PROVE  a = b /\ i = j
  <2>1. g[b][j] # Torn
    BY <1>1, <1>2, <1>3
  <2> QED
    BY <1>2, <1>3, <2>1 DEF Single
<1> QED
  BY <1>2, <1>3 DEF Single

(* ... nor does it add a later request. *)
LEMMA StaysBelow ==
    ASSUME NEW f, NEW g, NEW n \in Nat, n > 0, Stays(f, g), Below(f, n)
    PROVE  Below(g, n)
  BY DEF Stays, Below, Torn

LEMMA StaysQueue ==
    ASSUME NEW f, NEW g, NEW q, NEW n \in Nat, Stays(f, g), QueueInOrder(f, q, n)
    PROVE  QueueInOrder(g, q, n)
<1>1. ASSUME NEW j \in DOMAIN q, q[j].op = "append"
      PROVE  Below(g, q[j].req)
  <2>1. q[j].req \in 1..n /\ Below(f, q[j].req)
    BY <1>1, Zenon DEF QueueInOrder
  <2>2. q[j].req \in Nat /\ q[j].req > 0
    BY <2>1
  <2> QED
    BY <2>1, <2>2, StaysBelow, Zenon
<1> QED
  BY <1>1, Zenon DEF QueueInOrder

LEMMA StaysUnwritten ==
    ASSUME NEW f, NEW g, NEW b, NEW q, NEW n \in Nat, Stays(f, g),
           BatchInOrder(b, q, n), Unwritten(f, b)
    PROVE  Unwritten(g, b)
<1>1. ASSUME NEW i \in DOMAIN b
      PROVE  Below(g, b[i].req)
  <2>1. b[i].req \in 1..n /\ Below(f, b[i].req)
    BY Zenon DEF BatchInOrder, Unwritten
  <2>2. b[i].req \in Nat /\ b[i].req > 0
    BY <2>1
  <2> QED
    BY <2>1, <2>2, StaysBelow, Zenon
<1> QED
  BY <1>1, Zenon DEF Unwritten

(* A step that at most cuts or drops files and creates empty ones. *)
LEMMA FilesCut ==
    ASSUME TypeOK, OnceInv, Stays(files, files')
    PROVE  /\ Single(files')
           /\ Below(files', appends + 1)
           /\ QueueInOrder(files', queue, appends)
           /\ pc \in {"drain", "write"} => Unwritten(files', batch)
<1>1. appends \in Nat /\ appends + 1 \in Nat /\ appends + 1 > 0
  BY DEF TypeOK
<1>2. Single(files')
  BY StaysSingle, Zenon DEF OnceInv
<1>3. Below(files', appends + 1)
  BY <1>1, StaysBelow, Zenon DEF OnceInv
<1>4. QueueInOrder(files', queue, appends)
  BY <1>1, StaysQueue, Zenon DEF OnceInv
<1>5. pc \in {"drain", "write"} => Unwritten(files', batch)
  BY <1>1, StaysUnwritten, Zenon DEF OnceInv
<1> QED
  BY <1>2, <1>3, <1>4, <1>5, Zenon

LEMMA StaysSame == ASSUME NEW f PROVE Stays(f, f)
  BY Zenon DEF Stays

(* An empty channel and an empty batch are in order. *)
LEMMA EmptyInOrder ==
    ASSUME NEW f, NEW q, NEW n
    PROVE  QueueInOrder(f, << >>, n) /\ BatchInOrder(<< >>, q, n)
  BY DEF QueueInOrder, BatchInOrder

(* What is written of a batch, or a part of it, are records of the batch,  *)
(* in place, and torn ones.                                                *)
LEMMA WritesFromBatch ==
    ASSUME TypeOK, OnceInv, pc = "write", NEW s \in PartialWrites \cup {pending}
    PROVE  /\ s \in Seq(Items)
           /\ \A i \in 1..Len(s) :
                 \/ s[i] = Torn
                 \/ i \in DOMAIN batch /\ s[i].req = batch[i].req
<1>1. /\ pending \in Seq(Items) /\ batch \in Seq(Messages)
      /\ Len(pending) = Len(batch)
      /\ \A i \in DOMAIN batch : pending[i].req = batch[i].req
  BY Zenon DEF TypeOK, OnceInv
<1>2. /\ \A i \in 1..Len(pending) :
            i \in DOMAIN batch /\ pending[i].req = batch[i].req
      /\ Len(pending) \in Nat
  BY <1>1
<1>3. s \in Seq(Items)
  BY <1>1, PartialWritesItems, Zenon
<1> DEFINE FromBatch(x) ==
               \A i \in 1..Len(x) :
                   \/ x[i] = Torn
                   \/ i \in DOMAIN batch /\ x[i].req = batch[i].req
<1>4. FromBatch(pending)
  BY <1>2, Zenon
<1>5. ASSUME NEW n \in 0..(Len(pending) - 1), NEW tail \in {<< >>, <<Torn>>}
      PROVE  FromBatch(SubSeq(pending, 1, n) \o tail)
  <2> DEFINE x == SubSeq(pending, 1, n) \o tail
  <2>1. /\ tail \in Seq(Items) /\ Len(tail) <= 1
        /\ \A k \in 1..Len(tail) : tail[k] = Torn
    <3>1. CASE tail = << >>
      BY <3>1, TornTail
    <3>2. CASE tail = <<Torn>>
      BY <3>2, TornTail
    <3> QED
      BY <3>1, <3>2, Zenon
  <2>2. n \in 0..Len(pending)
    BY <1>2
  <2>3. /\ Len(x) \in Nat
        /\ \A k \in 1..n : x[k] = pending[k]
        /\ \A k \in 1..Len(x) : k > n => x[k] = Torn
    BY <1>1, <2>1, <2>2, CutItems, Zenon
  <2> HIDE DEF x
  <2>4. \A i \in 1..Len(x) : i > n \/ (i \in 1..n /\ i \in 1..Len(pending))
    BY <1>2, <2>3
  <2>5. FromBatch(x)
    BY <1>2, <2>3, <2>4, Zenon
  <2> QED
    BY <2>5, Zenon DEF x
<1>6. FromBatch(s)
  BY <1>4, <1>5 DEF PartialWrites
<1> QED
  BY <1>3, <1>6, Zenon DEF FromBatch

(* Every item found after a write was there before or has just come. *)
LEMMA WrittenItems ==
    ASSUME TypeOK, NEW s \in Seq(Items), WriteToActive(s)
    PROVE  \A b \in DOMAIN files' : \A i \in DOMAIN files'[b] :
              /\ b \in DOMAIN files
              /\ \/ i \in DOMAIN files[b] /\ files'[b][i] = files[b][i]
                 \/ /\ b = active
                    /\ i - Len(files[active]) \in 1..Len(s)
                    /\ Len(files[active]) \in Nat /\ i \in Nat
                    /\ files'[b][i] = s[i - Len(files[active])]
<1> SUFFICES ASSUME NEW b \in DOMAIN files', NEW i \in DOMAIN files'[b]
             PROVE  /\ b \in DOMAIN files
                    /\ \/ i \in DOMAIN files[b] /\ files'[b][i] = files[b][i]
                       \/ /\ b = active
                          /\ i - Len(files[active]) \in 1..Len(s)
                          /\ Len(files[active]) \in Nat /\ i \in Nat
                          /\ files'[b][i] = s[i - Len(files[active])]
  BY Zenon
<1>1. b \in DOMAIN files
  BY WriteEffect, Zenon
<1>2. files[b] \in Seq(Items)
  BY <1>1, Zenon DEF TypeOK
<1>3. CASE b # active
  BY <1>1, <1>3, WriteEffect, Zenon
<1>4. CASE b = active
  <2>1. files'[b] = files[b] \o s
    BY <1>1, <1>4, Zenon DEF WriteToActive
  <2>2. files'[b] \in Seq(Items) /\ Len(files'[b]) = Len(files[b]) + Len(s)
    BY <1>2, <2>1, ConcatItems, Zenon
  <2>3. /\ i \in 1..Len(files'[b]) /\ i \in Nat
        /\ Len(files[b]) \in Nat /\ Len(s) \in Nat
    BY <1>2, <2>2
  <2>4. i \in 1..Len(files[b]) \/ i - Len(files[b]) \in 1..Len(s)
    BY <2>2, <2>3
  <2>5. CASE i \in 1..Len(files[b])
    BY <1>1, <1>2, <2>5, WriteEffect
  <2>6. CASE i - Len(files[b]) \in 1..Len(s)
    <3>1. i = Len(files[b]) + (i - Len(files[b]))
      BY <2>3
    <3>2. files'[b][i] = s[i - Len(files[b])]
      BY <1>2, <2>1, <2>6, <3>1, ConcatItems
    <3> QED
      BY <1>1, <1>4, <2>3, <2>6, <3>2, Zenon
  <2> QED
    BY <2>4, <2>5, <2>6, Zenon
<1> QED
  BY <1>3, <1>4, Zenon

(* Writing a batch, whole or in part, stores each of its requests once and *)
(* leaves the channel's requests the later ones.                           *)
LEMMA WriteOnce ==
    ASSUME TypeOK, OnceInv, pc = "write",
           NEW s \in PartialWrites \cup {pending}, WriteToActive(s)
    PROVE  /\ Single(files')
           /\ Below(files', appends + 1)
           /\ QueueInOrder(files', queue, appends)
<1> DEFINE base == Len(files[active])
           New(b, i) == /\ b = active
                        /\ base \in Nat /\ i \in Nat
                        /\ i - base \in DOMAIN batch
                        /\ files'[b][i].req = batch[i - base].req
           Old(b, i) == /\ b \in DOMAIN files /\ i \in DOMAIN files[b]
                        /\ files'[b][i] = files[b][i]
<1>1. /\ s \in Seq(Items)
      /\ \A i \in 1..Len(s) : \/ s[i] = Torn
                              \/ i \in DOMAIN batch /\ s[i].req = batch[i].req
  BY WritesFromBatch, Zenon
<1>2. \A b \in DOMAIN files' : \A i \in DOMAIN files'[b] :
          files'[b][i] = Torn \/ Old(b, i) \/ New(b, i)
  <2> SUFFICES ASSUME NEW b \in DOMAIN files', NEW i \in DOMAIN files'[b],
                      files'[b][i] # Torn, ~Old(b, i)
               PROVE  New(b, i)
    BY Zenon
  <2>1. /\ b = active
        /\ i - base \in 1..Len(s) /\ base \in Nat /\ i \in Nat
        /\ files'[b][i] = s[i - base]
    BY <1>1, WrittenItems, Zenon
  <2> QED
    BY <1>1, <2>1, Zenon
<1>3. /\ Single(files) /\ Below(files, appends + 1)
      /\ QueueInOrder(files, queue, appends)
      /\ BatchInOrder(batch, queue, appends) /\ Unwritten(files, batch)
  BY Zenon DEF OnceInv
<1>4. appends \in Nat /\ DOMAIN batch \subseteq Nat /\ Torn.req = 0
  BY DEF TypeOK, Torn
<1> HIDE DEF base, Old
<1>5. Single(files')
  <2>1. \A b \in DOMAIN files' : \A i \in DOMAIN files'[b] :
            files'[b][i] # Torn => files'[b][i].req > 0
    <3> SUFFICES ASSUME NEW b \in DOMAIN files', NEW i \in DOMAIN files'[b],
                        files'[b][i] # Torn
                 PROVE  files'[b][i].req > 0
      BY Zenon
    <3>1. CASE Old(b, i)
      BY <1>3, <3>1 DEF Single, Old
    <3>2. CASE New(b, i)
      BY <1>3, <1>4, <3>2 DEF BatchInOrder
    <3> QED
      BY <1>2, <3>1, <3>2, Zenon
  <2>2. ASSUME NEW a \in DOMAIN files', NEW b \in DOMAIN files',
               NEW i \in DOMAIN files'[a], NEW j \in DOMAIN files'[b],
               files'[a][i].req = files'[b][j].req, files'[a][i] # Torn
        PROVE  a = b /\ i = j
    <3>1. files'[b][j] # Torn
      <4>1. files'[a][i].req > 0 /\ ~(0 > 0)
        BY <2>1, <2>2
      <4> QED
        BY <1>4, <2>2, <4>1, Zenon
    <3>2. CASE Old(a, i) /\ Old(b, j)
      <4>1. /\ a \in DOMAIN files /\ i \in DOMAIN files[a] /\ files'[a][i] = files[a][i]
            /\ b \in DOMAIN files /\ j \in DOMAIN files[b] /\ files'[b][j] = files[b][j]
        BY <3>2, Zenon DEF Old
      <4>2. files[a][i].req = files[b][j].req /\ files[a][i] # Torn
        BY <2>2, <4>1, Zenon
      <4> QED
        BY <1>3, <4>1, <4>2, SingleAt, SMT
    <3>3. CASE Old(a, i) /\ New(b, j)
      <4>1. Below(files, batch[j - base].req)
        BY <1>3, <3>3, Zenon DEF Unwritten
      <4>2. files[a][i].req < batch[j - base].req
        BY <3>3, <4>1, Zenon DEF Below, Old
      <4>3. batch[j - base].req \in 1..appends
        BY <1>3, <3>3, Zenon DEF BatchInOrder
      <4>4. files[a][i].req = batch[j - base].req
        BY <2>2, <3>3, Zenon DEF Old
      <4>5. \A x \in 1..appends : ~(x < x)
        OBVIOUS
      <4> QED
        BY <4>2, <4>3, <4>4, <4>5, Zenon
    <3>4. CASE New(a, i) /\ Old(b, j)
      <4>1. Below(files, batch[i - base].req)
        BY <1>3, <3>4, Zenon DEF Unwritten
      <4>2. files[b][j].req < batch[i - base].req
        BY <3>4, <4>1, Zenon DEF Below, Old
      <4>3. batch[i - base].req \in 1..appends
        BY <1>3, <3>4, Zenon DEF BatchInOrder
      <4>4. files[b][j].req = batch[i - base].req
        BY <2>2, <3>4, Zenon DEF Old
      <4>5. \A x \in 1..appends : ~(x < x)
        OBVIOUS
      <4> QED
        BY <4>2, <4>3, <4>4, <4>5, Zenon
    <3>5. CASE New(a, i) /\ New(b, j)
      <4> DEFINE k == i - base
                 l == j - base
      <4>1. /\ k \in DOMAIN batch /\ l \in DOMAIN batch /\ k \in Nat /\ l \in Nat
            /\ batch[k].req = batch[l].req
        BY <1>4, <2>2, <3>5, Zenon
      <4>2. ~(k < l) /\ ~(l < k)
        BY <1>3, <4>1 DEF BatchInOrder
      <4>3. k = l
        <5> HIDE DEF k, l
        <5> QED
          BY <4>1, <4>2
      <4> QED
        BY <3>5, <4>3
    <3> QED
      BY <1>2, <2>2, <3>1, <3>2, <3>3, <3>4, <3>5, Zenon
  <2> QED
    BY <2>1, <2>2 DEF Single
<1>6. ASSUME NEW n \in Nat, n > 0, Below(files, n),
             \A i \in DOMAIN batch : batch[i].req < n
      PROVE  Below(files', n)
  <2> SUFFICES ASSUME NEW b \in DOMAIN files', NEW i \in DOMAIN files'[b]
               PROVE  files'[b][i].req < n
    BY Zenon DEF Below
  <2>1. CASE files'[b][i] = Torn
    BY <1>4, <1>6, <2>1, Zenon
  <2>2. CASE Old(b, i)
    BY <1>6, <2>2, Zenon DEF Old, Below
  <2>3. CASE New(b, i)
    BY <1>6, <2>3, Zenon
  <2> QED
    BY <1>2, <2>1, <2>2, <2>3, Zenon
<1>7. Below(files', appends + 1)
  <2>1. /\ appends + 1 \in Nat /\ appends + 1 > 0
        /\ \A i \in DOMAIN batch : batch[i].req < appends + 1
    BY <1>3, <1>4 DEF BatchInOrder
  <2> QED
    BY <1>3, <1>6, <2>1, Zenon
<1>8. ASSUME NEW j \in DOMAIN queue, queue[j].op = "append"
      PROVE  Below(files', queue[j].req)
  <2>1. queue[j].req \in 1..appends /\ Below(files, queue[j].req)
    BY <1>3, <1>8, Zenon DEF QueueInOrder
  <2>2. queue[j].req \in Nat /\ queue[j].req > 0
    BY <1>4, <2>1
  <2>3. \A i \in DOMAIN batch : batch[i].req < queue[j].req
    BY <1>3, <1>8, Zenon DEF BatchInOrder
  <2> QED
    BY <1>6, <2>1, <2>2, <2>3, Zenon
<1>9. QueueInOrder(files', queue, appends)
  BY <1>3, <1>8, Zenon DEF QueueInOrder
<1> QED
  BY <1>5, <1>7, <1>9, Zenon

(* Taking a message off the channel leaves the others in order. *)
LEMMA TailInOrder ==
    ASSUME NEW f, NEW b, NEW q \in Seq(Messages), q # << >>, NEW n \in Nat,
           QueueInOrder(f, q, n), BatchInOrder(b, q, n)
    PROVE  /\ QueueInOrder(f, Tail(q), n)
           /\ BatchInOrder(b, Tail(q), n)
           /\ Head(q).op = "append" =>
                 /\ Head(q).req \in 1..n
                 /\ Below(f, Head(q).req)
                 /\ \A j \in DOMAIN b : b[j].req < Head(q).req
                 /\ \A j \in DOMAIN Tail(q) :
                       Tail(q)[j].op = "append" => Head(q).req < Tail(q)[j].req
<1>1. /\ Head(q) = q[1] /\ 1 \in DOMAIN q
      /\ \A j \in DOMAIN Tail(q) :
            j \in Nat /\ 1 < j + 1 /\ j + 1 \in DOMAIN q /\ Tail(q)[j] = q[j + 1]
  OBVIOUS
<1>2. QueueInOrder(f, Tail(q), n)
  <2> DEFINE t == Tail(q)
  <2>1. \A j \in DOMAIN t : j \in Nat /\ j + 1 \in DOMAIN q /\ t[j] = q[j + 1]
    BY <1>1, Zenon
  <2> HIDE DEF t
  <2>2. \A i, j \in DOMAIN t : i < j => i + 1 < j + 1
    BY <2>1
  <2>3. QueueInOrder(f, t, n)
    BY <2>1, <2>2, Zenon DEF QueueInOrder
  <2> QED
    BY <2>3, Zenon DEF t
<1>3. BatchInOrder(b, Tail(q), n)
  BY <1>1, Zenon DEF BatchInOrder
<1>4. ASSUME Head(q).op = "append"
      PROVE  /\ Head(q).req \in 1..n
             /\ Below(f, Head(q).req)
             /\ \A j \in DOMAIN b : b[j].req < Head(q).req
             /\ \A j \in DOMAIN Tail(q) :
                   Tail(q)[j].op = "append" => Head(q).req < Tail(q)[j].req
  BY <1>1, <1>4, Zenon DEF QueueInOrder, BatchInOrder
<1> QED
  BY <1>2, <1>3, <1>4, Zenon

(* A caller's append takes the next number, so it comes last. *)
LEMMA CallOnceInv ==
    ASSUME TypeOK, OnceInv, NEW c \in Clients,
           NEW op \in {"append", "flush", "trim"}, Call(c, op)
    PROVE  OnceInv'
<1> DEFINE m == [op |-> op, client |-> c, req |-> appends']
           q == Append(queue, m)
<1>1. /\ queue' = q /\ pc' = pc /\ files' = files /\ pc # "down"
      /\ batch' = batch /\ pending' = pending
      /\ appends' = IF op = "append" THEN appends + 1 ELSE appends
  BY Zenon DEF Call, disk
<1>2. appends \in Nat /\ appends' \in Nat /\ appends <= appends'
  BY <1>1 DEF TypeOK
<1>3. m.op = op /\ m.req = appends'
  OBVIOUS
<1> HIDE DEF m
<1>4. /\ DOMAIN queue = 1..Len(queue) /\ Len(queue) \in Nat
      /\ DOMAIN q = 1..(Len(queue) + 1)
      /\ \A j \in 1..Len(queue) : q[j] = queue[j]
      /\ q[Len(queue) + 1] = m
  BY DEF TypeOK
<1> HIDE DEF q
<1>5. Below(files, appends' + 1)
  <2> SUFFICES ASSUME NEW b \in DOMAIN files, NEW i \in DOMAIN files[b]
               PROVE  files[b][i].req < appends' + 1
    BY Zenon DEF Below
  <2>1. files[b][i] \in Items
    BY DEF TypeOK
  <2>2. files[b][i].req \in Nat
    BY <2>1, Zenon DEF Items
  <2>3. files[b][i].req < appends + 1
    BY Zenon DEF OnceInv, Below
  <2> QED
    BY <1>2, <2>2, <2>3
<1>6. op = "append" => Below(files, appends')
  BY <1>1, <1>5, Zenon DEF OnceInv
<1>7. QueueInOrder(files, q, appends')
  <2> SUFFICES ASSUME NEW j \in DOMAIN q, q[j].op = "append"
               PROVE  /\ q[j].req \in 1..appends'
                      /\ Below(files, q[j].req)
                      /\ \A i \in DOMAIN q :
                             i < j /\ q[i].op = "append" => q[i].req < q[j].req
    BY Zenon DEF QueueInOrder
  <2>0. QueueInOrder(files, queue, appends)
    BY Zenon DEF OnceInv
  <2>1. CASE j \in 1..Len(queue)
    <3>1. \A i \in DOMAIN q : i < j => i \in DOMAIN queue /\ q[i] = queue[i]
      <4>1. \A i \in DOMAIN q : i < j => i \in 1..Len(queue)
        BY <1>4, <2>1, EarlierPositions, Zenon
      <4> QED
        BY <1>4, <4>1, Zenon
    <3>2. j \in DOMAIN queue /\ q[j] = queue[j]
      BY <1>4, <2>1, Zenon
    <3> QED
      BY <1>2, <2>0, <3>1, <3>2 DEF QueueInOrder
  <2>2. CASE j = Len(queue) + 1
    <3>1. op = "append" /\ q[j].req = appends' /\ appends' = appends + 1
      BY <1>1, <1>3, <1>4, <2>2, Zenon
    <3>2. ASSUME NEW i \in DOMAIN q, i < j, q[i].op = "append"
          PROVE  q[i].req < q[j].req
      <4>1. i \in DOMAIN queue /\ q[i] = queue[i]
        BY <1>4, <2>2, <3>2
      <4>2. q[i].req \in 1..appends
        BY <2>0, <3>2, <4>1, Zenon DEF QueueInOrder
      <4> QED
        BY <1>2, <3>1, <4>2
    <3>3. q[j].req \in 1..appends' /\ Below(files, q[j].req)
      BY <1>2, <1>6, <3>1
    <3> QED
      BY <3>2, <3>3, Zenon
  <2>3. j \in 1..Len(queue) \/ j = Len(queue) + 1
    BY <1>4
  <2> QED
    BY <2>1, <2>2, <2>3, Zenon
<1>8. BatchInOrder(batch, q, appends')
  <2>0. BatchInOrder(batch, queue, appends)
    BY Zenon DEF OnceInv
  <2>1. ASSUME NEW i \in DOMAIN batch
        PROVE  /\ batch[i].req \in 1..appends'
               /\ batch[i].req < appends + 1
    BY <1>2, <2>0 DEF BatchInOrder
  <2>2. ASSUME NEW i \in DOMAIN batch, NEW j \in DOMAIN q, q[j].op = "append"
        PROVE  batch[i].req < q[j].req
    <3>1. CASE j \in 1..Len(queue)
      BY <1>4, <2>0, <2>2, <3>1, Zenon DEF BatchInOrder
    <3>2. CASE j = Len(queue) + 1
      BY <1>1, <1>3, <1>4, <2>1, <2>2, <3>2, Zenon
    <3> QED
      BY <1>4, <3>1, <3>2
  <2> QED
    BY <2>0, <2>1, <2>2, Zenon DEF BatchInOrder
<1> QED
  BY <1>1, <1>5, <1>7, <1>8, Zenon DEF OnceInv

(* The worker answers a flush or a trim, or takes an append. *)
LEMMA TakeOnceInv ==
    ASSUME TypeOK, OnceInv, AnswerFlush \/ AnswerTrim \/ TakeAppend
    PROVE  OnceInv'
<1> DEFINE m == Head(queue)
           q == Tail(queue)
<1>1. /\ queue # << >> /\ queue' = q /\ files' = files /\ appends' = appends
      /\ pending' = pending
      /\ pc \in {"recv", "drain"}
  BY Zenon DEF AnswerFlush, AnswerTrim, TakeAppend, disk
<1>2. /\ queue \in Seq(Messages) /\ batch \in Seq(Messages) /\ appends \in Nat
      /\ QueueInOrder(files, queue, appends)
      /\ BatchInOrder(batch, queue, appends)
      /\ Single(files) /\ Below(files, appends + 1)
  BY Zenon DEF TypeOK, OnceInv
<1>3. /\ QueueInOrder(files, q, appends)
      /\ BatchInOrder(batch, q, appends)
      /\ m.op = "append" =>
            /\ m.req \in 1..appends
            /\ Below(files, m.req)
            /\ \A j \in DOMAIN batch : batch[j].req < m.req
            /\ \A j \in DOMAIN q : q[j].op = "append" => m.req < q[j].req
  BY <1>1, <1>2, TailInOrder, Zenon
<1> HIDE DEF m, q
<1>4. CASE AnswerFlush \/ AnswerTrim
  <2>1. pc' = pc /\ batch' = batch
    BY <1>4, Zenon DEF AnswerFlush, AnswerTrim
  <2> QED
    BY <1>1, <1>2, <1>3, <2>1, Zenon DEF OnceInv
<1>5. CASE TakeAppend
  <2>1. m.op = "append" /\ batch' = Append(batch, m) /\ pc' = "drain"
    BY <1>5, Zenon DEF TakeAppend, m
  <2>2. Unwritten(files, batch)
    <3>1. CASE pc = "drain"
      BY <3>1, Zenon DEF OnceInv
    <3>2. CASE pc = "recv"
      BY <3>2 DEF OnceInv, Unwritten
    <3> QED
      BY <1>1, <3>1, <3>2, Zenon
  <2>3. /\ DOMAIN batch' = 1..(Len(batch) + 1) /\ Len(batch) \in Nat
        /\ DOMAIN batch = 1..Len(batch)
        /\ \A i \in 1..Len(batch) : batch'[i] = batch[i]
        /\ batch'[Len(batch) + 1] = m
    BY <1>2, <2>1
  <2>4. Unwritten(files, batch')
    <3> SUFFICES ASSUME NEW i \in DOMAIN batch'
                 PROVE  Below(files, batch'[i].req)
      BY Zenon DEF Unwritten
    <3>1. (i \in DOMAIN batch /\ batch'[i] = batch[i]) \/ batch'[i] = m
      BY <2>3
    <3> QED
      BY <1>3, <2>1, <2>2, <3>1, Zenon DEF Unwritten
  <2>5. ASSUME NEW i \in DOMAIN batch'
        PROVE  /\ batch'[i].req \in 1..appends
               /\ \A j \in DOMAIN batch' : i < j => batch'[i].req < batch'[j].req
               /\ \A j \in DOMAIN q :
                     q[j].op = "append" => batch'[i].req < q[j].req
    <3>1. CASE i \in 1..Len(batch)
      <4>1. i \in DOMAIN batch /\ batch'[i] = batch[i]
        BY <2>3, <3>1, Zenon
      <4>2. \A j \in DOMAIN batch' : \/ j \in DOMAIN batch /\ batch'[j] = batch[j]
                                     \/ batch'[j] = m
        BY <2>3
      <4> QED
        BY <1>3, <2>1, <4>1, <4>2, Zenon DEF BatchInOrder
    <3>2. CASE i = Len(batch) + 1
      <4>1. batch'[i] = m /\ \A j \in DOMAIN batch' : ~(i < j)
        BY <2>3, <3>2
      <4> QED
        BY <1>3, <2>1, <4>1, Zenon
    <3> QED
      BY <2>3, <3>1, <3>2
  <2>6. BatchInOrder(batch', q, appends)
    BY <2>5, Zenon DEF BatchInOrder
  <2>7. pc' # "write" /\ pc' # "down" /\ pc' # "recv" /\ pc' # "roll"
    BY <2>1, Zenon
  <2> QED
    BY <1>1, <1>2, <1>3, <2>4, <2>6, <2>7, Zenon DEF OnceInv
<1> QED
  BY <1>4, <1>5, Zenon

(* The worker numbers the batch, which is still unwritten. *)
LEMMA EncodeOnceInv ==
    ASSUME TypeOK, OnceInv, EncodeBatch
    PROVE  OnceInv'
<1>1. /\ pc = "drain" /\ pc' = "write" /\ pending' = Sequenced
      /\ files' = files /\ queue' = queue /\ batch' = batch /\ appends' = appends
  BY Zenon DEF EncodeBatch, disk
<1>2. batch \in Seq(Messages)
  BY Zenon DEF TypeOK
<1>3. /\ Len(pending') = Len(batch)
      /\ \A i \in DOMAIN batch : pending'[i].req = batch[i].req
  BY <1>1, <1>2 DEF Sequenced
<1> QED
  BY <1>1, <1>3, Zenon DEF OnceInv

(* The write, successful or not. *)
LEMMA WriteOnceInv ==
    ASSUME TypeOK, OnceInv, WriteBatch \/ WriteFails
    PROVE  OnceInv'
<1>1. /\ pc = "write" /\ pc' \in {"sync", "ack"}
      /\ queue' = queue /\ batch' = batch /\ appends' = appends
      /\ \E s \in PartialWrites \cup {pending} : WriteToActive(s)
  BY Zenon DEF WriteBatch, WriteFails, AfterWrite
<1>2. /\ Single(files') /\ Below(files', appends + 1)
      /\ QueueInOrder(files', queue, appends)
  BY <1>1, WriteOnce, Zenon
<1> QED
  BY <1>1, <1>2, Zenon DEF OnceInv

(* The steps that write nothing and take nothing from the channel. *)
LEMMA OtherOnceInv ==
    ASSUME TypeOK, OnceInv, Stays(files, files'),
           appends' = appends, queue' = queue \/ queue' = << >>,
           batch' = batch \/ batch' = << >>,
           pc' \in {"drain", "write"} =>
               pc' = pc /\ pending' = pending /\ batch' = batch,
           pc' \in {"down", "recv", "roll"} => batch' = << >>,
           pc' = "down" => queue' = << >>
    PROVE  OnceInv'
<1>1. /\ Single(files') /\ Below(files', appends + 1)
      /\ QueueInOrder(files', queue, appends)
      /\ pc \in {"drain", "write"} => Unwritten(files', batch)
  BY FilesCut, Zenon
<1>2. QueueInOrder(files', queue', appends)
  BY <1>1, EmptyInOrder, Zenon
<1>3. BatchInOrder(batch', queue', appends)
  <2>1. BatchInOrder(batch, queue, appends)
    BY Zenon DEF OnceInv
  <2>2. BatchInOrder(batch, << >>, appends)
    BY <2>1 DEF BatchInOrder
  <2> QED
    BY <2>1, <2>2, EmptyInOrder, Zenon
<1>4. pc' \in {"drain", "write"} =>
          Unwritten(files', batch')
  BY <1>1, Zenon
<1>5. pc' = "write" => /\ Len(pending') = Len(batch')
                       /\ \A i \in DOMAIN batch' : pending'[i].req = batch'[i].req
  BY Zenon DEF OnceInv
<1> QED
  BY <1>1, <1>2, <1>3, <1>4, <1>5, Zenon DEF OnceInv

(* Every step keeps the order of the requests. *)
LEMMA NextOnceInv == TypeOK /\ OnceInv /\ [Next]_vars => OnceInv'
<1> SUFFICES ASSUME TypeOK, OnceInv, [Next]_vars
             PROVE  OnceInv'
  OBVIOUS
<1>0. Stays(files, files)
  BY StaysSame, Zenon
<1>1. CASE Open
  <2>1. PICK h : InitActiveSegment(StartSeq(h))
    BY <1>1, Zenon DEF Open
  <2>2. Stays(files, files')
    <3>1. CASE DOMAIN files = {}
      <4>1. files' = [b \in {StartSeq(h)} |-> << >>]
        BY <2>1, <3>1, Zenon DEF InitActiveSegment
      <4> QED
        BY <4>1 DEF Stays
    <3>2. CASE DOMAIN files # {}
      <4>1. files' = [b \in DOMAIN files |-> RecoveredFile(b)]
        BY <2>1, <3>2, Zenon DEF InitActiveSegment
      <4>2. ASSUME NEW b \in DOMAIN files
            PROVE  /\ DOMAIN RecoveredFile(b) \subseteq DOMAIN files[b]
                   /\ \A i \in DOMAIN RecoveredFile(b) :
                          RecoveredFile(b)[i] = files[b][i]
        <5>1. files[b] \in Seq(Items)
          BY Zenon DEF TypeOK
        <5>2. ValidLength(files[b]) \in 0..Len(files[b])
          BY <5>1, ValidLengthStops, Zenon
        <5> QED
          BY <5>1, <5>2, PrefixItems DEF RecoveredFile
      <4> QED
        BY <4>1, <4>2, Zenon DEF Stays
    <3> QED
      BY <3>1, <3>2, Zenon
  <2>3. /\ pc = "down" /\ pc' = "recv" /\ queue' = queue /\ batch' = batch
        /\ appends' = appends
    BY <1>1, Zenon DEF Open
  <2>4. batch' = << >>
    BY <2>3, Zenon DEF OnceInv
  <2> QED
    BY <2>2, <2>3, <2>4, OtherOnceInv, Zenon
<1>2. ASSUME NEW c \in Clients, NEW op \in {"append", "flush", "trim"},
             Call(c, op)
      PROVE  OnceInv'
  BY <1>2, CallOnceInv, Zenon
<1>3. CASE AnswerFlush \/ AnswerTrim \/ TakeAppend
  BY <1>3, TakeOnceInv, Zenon
<1>4. CASE EncodeBatch
  BY <1>4, EncodeOnceInv, Zenon
<1>5. CASE WriteBatch \/ WriteFails
  BY <1>5, WriteOnceInv, Zenon
<1>6. CASE SyncBatch
  <2>1. /\ files' = files /\ queue' = queue /\ batch' = batch
        /\ appends' = appends /\ pc' = "ack"
    BY <1>6, Zenon DEF SyncBatch
  <2> QED
    BY <1>0, <2>1, OtherOnceInv, Zenon
<1>7. CASE AckBatch
  <2>1. /\ files' = files /\ queue' = queue /\ batch' = << >>
        /\ appends' = appends /\ pc' = "roll"
    BY <1>7, Zenon DEF AckBatch, BatchDone, disk
  <2> QED
    BY <1>0, <2>1, OtherOnceInv, Zenon
<1>8. CASE RollSegment
  <2>1. Stays(files, files')
    <3>1. CASE CreateSegment(nextSeq)
      BY <3>1 DEF CreateSegment, Stays
    <3>2. CASE files' = files
      BY <1>0, <3>2, Zenon
    <3> QED
      BY <1>8, <3>1, <3>2, Zenon DEF RollSegment, disk
  <2>2. /\ queue' = queue /\ batch' = batch /\ appends' = appends
        /\ pc = "roll" /\ pc' = "recv"
    BY <1>8, Zenon DEF RollSegment
  <2>3. batch' = << >>
    BY <2>2, Zenon DEF OnceInv
  <2> QED
    BY <2>1, <2>2, <2>3, OtherOnceInv, Zenon
<1>9. ASSUME NEW minSeq \in PurgePoints, Purge(minSeq)
      PROVE  OnceInv'
  <2>1. Stays(files, files')
    BY <1>9, Zenon DEF Purge, Stays
  <2>2. /\ pc' = pc /\ queue' = queue /\ batch' = batch /\ pending' = pending
        /\ appends' = appends /\ pc # "down"
    BY <1>9, Zenon DEF Purge, worker
  <2>3. pc' \in {"down", "recv", "roll"} => batch' = << >>
    BY <2>2, Zenon DEF OnceInv
  <2> QED
    BY <2>1, <2>2, <2>3, OtherOnceInv, Zenon
<1>10. CASE Shutdown
  <2>1. /\ files' = files /\ queue' = queue /\ batch' = batch
        /\ appends' = appends /\ pc = "recv" /\ pc' = "down" /\ queue = << >>
    BY <1>10, Zenon DEF Shutdown
  <2>2. batch' = << >>
    BY <2>1, Zenon DEF OnceInv
  <2> QED
    BY <1>0, <2>1, <2>2, OtherOnceInv, Zenon
<1>11. CASE Kill
  <2>1. /\ queue' = << >> /\ batch' = << >> /\ appends' = appends
        /\ pc' = "down"
    BY <1>11, Zenon DEF Kill, Dies, BatchDone
  <2>2. CASE pc = "write"
    <3>1. \E s \in PartialWrites \cup {pending} : WriteToActive(s)
      BY <1>11, <2>2, Zenon DEF Kill
    <3>2. Single(files') /\ Below(files', appends + 1)
      BY <2>2, <3>1, WriteOnce, Zenon
    <3>3. /\ QueueInOrder(files', << >>, appends)
          /\ BatchInOrder(<< >>, << >>, appends)
      BY EmptyInOrder, Zenon
    <3> QED
      BY <2>1, <3>2, <3>3, Zenon DEF OnceInv
  <2>3. CASE pc # "write"
    <3>1. files' = files
      BY <1>11, <2>3, Zenon DEF Kill
    <3> QED
      BY <1>0, <2>1, <3>1, OtherOnceInv, Zenon
  <2> QED
    BY <2>2, <2>3, Zenon
<1>12. CASE PowerLoss
  <2>1. /\ queue' = << >> /\ batch' = << >> /\ appends' = appends
        /\ pc' = "down"
    BY <1>12, Zenon DEF PowerLoss, Dies, BatchDone
  <2>2. Stays(files, files')
    <3> SUFFICES ASSUME NEW b \in DOMAIN files', NEW i \in DOMAIN files'[b],
                        files'[b][i] # Torn
                 PROVE  /\ b \in DOMAIN files /\ i \in DOMAIN files[b]
                        /\ files'[b][i] = files[b][i]
      BY Zenon DEF Stays
    <3>1. PICK k \in Nat :
              /\ k <= Len(files[b])
              /\ \A j \in 1..k : files'[b][j] = files[b][j]
              /\ \A j \in 1..Len(files'[b]) : j > k => files'[b][j] = Torn
      BY <1>12, PowerLossEffect, Zenon
    <3>2. b \in DOMAIN files
      BY <1>12, PowerLossEffect, Zenon
    <3>3. files[b] \in Seq(Items) /\ files'[b] \in Seq(Items)
      BY <1>12, <3>2, NextTypeOK, Zenon DEF TypeOK, Next
    <3>4. i \in 1..Len(files'[b]) /\ ~(i > k)
      BY <3>1, <3>3
    <3>5. i \in 1..k /\ i \in 1..Len(files[b])
      BY <3>1, <3>3, <3>4
    <3> QED
      BY <3>1, <3>2, <3>3, <3>5
  <2> QED
    BY <2>1, <2>2, OtherOnceInv, Zenon
<1>13. CASE UNCHANGED vars
  BY <1>13, Zenon DEF vars, disk, worker, OnceInv
<1> QED
  BY Zenon, <1>1, <1>2, <1>3, <1>4, <1>5, <1>6, <1>7, <1>8, <1>9, <1>10, <1>11,
     <1>12, <1>13 DEF Next, Worker

(***************************************************************************)
(* Group commit stores a request at most once: in every configuration, and *)
(* whatever calls fail, segments are purged or processes die on the way, a *)
(* request that was encoded into a batch is in one segment at most, and    *)
(* there only once, until the end of time.                                 *)
(***************************************************************************)
THEOREM EachRequestStoredOnce == Spec => []StoredOnce
<1>1. Init => OnceInv
  <2> SUFFICES ASSUME Init
               PROVE  OnceInv
    OBVIOUS
  <2>1. /\ DOMAIN files = {} /\ queue = << >> /\ batch = << >> /\ pc = "down"
    BY DEF Init
  <2>2. Single(files) /\ Below(files, appends + 1)
    BY <2>1, Zenon DEF Single, Below
  <2>3. QueueInOrder(files, queue, appends) /\ BatchInOrder(batch, queue, appends)
    BY <2>1, EmptyInOrder, Zenon
  <2> QED
    BY <2>1, <2>2, <2>3 DEF OnceInv
<1>2. TypeOK /\ OnceInv /\ [Next]_vars => OnceInv'
  BY NextOnceInv, Zenon
<1>3. OnceInv => StoredOnce
  <2> SUFFICES ASSUME OnceInv, NEW a \in DOMAIN files, NEW b \in DOMAIN files,
                      NEW i \in DOMAIN files[a], NEW j \in DOMAIN files[b],
                      files[a][i].req = files[b][j].req, files[a][i] # Torn
               PROVE  <<a, i>> = <<b, j>>
    BY DEF StoredOnce
  <2>0. Single(files)
    BY Zenon DEF OnceInv
  <2>1. a = b /\ i = j
    BY <2>0 DEF Single
  <2> QED
    BY <2>1, Zenon
<1> QED
  BY <1>1, <1>2, <1>3, TypeCorrect, PTL DEF Spec

==============================================================================
