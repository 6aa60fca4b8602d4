----------------------- MODULE TransactionsReadProofs -----------------------
(***************************************************************************)
(* Proofs about what consumers of transactional partitions are shown: the  *)
(* last stable offset, the answers of read-committed fetches, and the      *)
(* outcome of every transaction whose EndTxn was answered.                 *)
(***************************************************************************)
EXTENDS TransactionsProofs, NaturalsInduction, WellFoundedInduction

-----------------------------------------------------------------------------
(* The least number of a set, and the last stable offset.                  *)

\* Every nonempty set of numbers has a least one.
LEMMA LeastNumber ==
    ASSUME NEW S \in SUBSET Nat, S # {}
    PROVE  Min(S) \in S /\ \A y \in S : Min(S) <= y
  <1> DEFINE R == OpToRel(<, Nat)
  <1>1. IsWellFoundedOn(R, Nat)
    BY NatLessThanWellFounded, Zenon
  <1>2. \A x, y \in Nat : x < y => <<x, y>> \in R
    BY Zenon DEF OpToRel
  <1> HIDE DEF R
  <1>3. \E x \in S : \A y \in S : ~ (<<y, x>> \in R)
    BY <1>1, WFMin, Zenon
  <1>4. PICK x \in S : \A y \in S : ~ (<<y, x>> \in R)
    BY <1>3, Zenon
  <1>5. \A y \in S : ~ (y < x)
    BY <1>2, <1>4, Zenon
  <1>6. \A y \in S : x <= y
    BY <1>5
  <1>7. \E z \in S : \A y \in S : z <= y
    BY <1>6, Zenon
  <1> QED
    BY <1>7, Zenon DEF Min

\* LastStableOffset, of any log length and any map of open transactions.
LastStable(len, open) == Min({len} \cup {open[pid] : pid \in DOMAIN open})

LEMMA LastStableIsLeast ==
    ASSUME NEW len \in Nat, NEW open \in PidMaps
    PROVE  /\ LastStable(len, open) \in Nat
           /\ LastStable(len, open) <= len
           /\ \A pid \in DOMAIN open : LastStable(len, open) <= open[pid]
           /\ LastStable(len, open) = len
                  \/ \E pid \in DOMAIN open : LastStable(len, open) = open[pid]
  <1> DEFINE S == {len} \cup {open[pid] : pid \in DOMAIN open}
  <1>1. S \in SUBSET Nat /\ S # {}
    BY OpenNumbers, Zenon
  <1>2. Min(S) \in S /\ \A y \in S : Min(S) <= y
    BY <1>1, LeastNumber, Zenon
  <1> QED
    BY <1>1, <1>2, Zenon DEF LastStable

\* It does not move back if every bound is a bound that was there, or above one.
LEMMA LastStableGrows ==
    ASSUME NEW len \in Nat, NEW open \in PidMaps, NEW len2 \in Nat, NEW open2 \in PidMaps,
           len2 >= len,
           \A pid \in DOMAIN open2 :
               open2[pid] >= len \/ (pid \in DOMAIN open /\ open2[pid] = open[pid])
    PROVE  LastStable(len2, open2) >= LastStable(len, open)
  <1>1. /\ LastStable(len, open) \in Nat
        /\ LastStable(len, open) <= len
        /\ \A pid \in DOMAIN open : LastStable(len, open) <= open[pid]
    BY LastStableIsLeast, Zenon
  <1>2. CASE LastStable(len2, open2) = len2
    BY <1>1, <1>2
  <1>3. CASE \E pid \in DOMAIN open2 : LastStable(len2, open2) = open2[pid]
    <2> PICK pid \in DOMAIN open2 : LastStable(len2, open2) = open2[pid]
      BY <1>3, Zenon
    <2> open2[pid] \in Nat
      BY OpenNumbers, Zenon
    <2> QED
      BY <1>1
  <1> QED
    BY <1>2, <1>3, LastStableIsLeast, Zenon

-----------------------------------------------------------------------------
(* The last stable offset never moves back.                                *)

LEMMA LsoIs ==
    ASSUME NEW p \in Partitions
    PROVE  LastStableOffset(p) = LastStable(Len(log[p]), ongoing[p])
  BY Zenon DEF LastStableOffset, LastStable, HighWatermark

LEMMA LsoStep ==
    ASSUME FenceInv, [Next]_vars
    PROVE  \A p \in Partitions : LastStableOffset(p)' >= LastStableOffset(p)
  <1> TAKE p \in Partitions
  <1>1. Shape /\ Shape'
    BY NextFence DEF FenceInv
  <1>2. /\ log[p] \in Seq(Batches) /\ log'[p] \in Seq(Batches)
        /\ ongoing[p] \in PidMaps /\ ongoing'[p] \in PidMaps
    BY <1>1, Zenon DEF Shape
  <1>3. /\ log'[p] = log[p] \/ \E b \in Batches : Grown(log[p], log'[p], b)
        /\ \A pid \in DOMAIN ongoing'[p] :
                  \/ ongoing'[p][pid] = Len(log[p])
                  \/ pid \in DOMAIN ongoing[p] /\ ongoing'[p][pid] = ongoing[p][pid]
    BY PartitionStep, Zenon
  <1>4. Len(log[p]) \in Nat /\ Len(log'[p]) \in Nat /\ Len(log'[p]) >= Len(log[p])
    BY <1>2, <1>3 DEF Grown
  <1>5. \A pid \in DOMAIN ongoing'[p] :
            \/ ongoing'[p][pid] >= Len(log[p])
            \/ pid \in DOMAIN ongoing[p] /\ ongoing'[p][pid] = ongoing[p][pid]
    BY <1>3, <1>4
  <1>6. LastStable(Len(log'[p]), ongoing'[p]) >= LastStable(Len(log[p]), ongoing[p])
    BY <1>2, <1>4, <1>5, LastStableGrows, Zenon
  <1>7. LastStableOffset(p)' = LastStable(Len(log'[p]), ongoing'[p])
    BY Zenon DEF LastStableOffset, LastStable, HighWatermark
  <1> QED
    BY <1>6, <1>7, LsoIs, Zenon

\* Whatever is produced, marked, restarted or fails, in any interleaving, the
\* last stable offset of a partition never moves back: a consumer that was shown
\* it does not find it lower.
THEOREM LsoNeverMovesBack == Spec => LsoMonotonic
  <1>1. FenceInv /\ [Next]_vars
            => [\A p \in Partitions : LastStableOffset(p)' >= LastStableOffset(p)]_vars
    BY LsoStep, Zenon
  <1> QED
    BY <1>1, InitFence, NextFence, PTL DEF Spec, LsoMonotonic

-----------------------------------------------------------------------------
(* Open transactions and what read-committed fetches return.               *)

\* While no transactional id is initialised again, the last stable offset is at
\* or below every batch of a transaction that has not been asked to end,
\* whichever producers interleave and whichever appends fail.
THEOREM LsoAlwaysBelowOpen ==
    ASSUME MaxEpoch = 0
    PROVE  Spec => []LsoBelowOpen
  <1>1. OpenInv => LsoBelowOpen
    <2> SUFFICES ASSUME OpenInv, NEW p \in Partitions, NEW i \in Data(p), log[p][i].txn \notin asked
                 PROVE  LastStableOffset(p) <= i - 1
      BY Zenon DEF LsoBelowOpen
    <2>1. log[p] \in Seq(Batches) /\ ongoing[p] \in PidMaps
      BY Zenon DEF OpenInv, FenceInv, Shape
    <2>2. i \in 1 .. Len(log[p]) /\ log[p][i].kind = "data"
      BY <2>1 DEF Data
    <2>3. log[p][i].pid \in DOMAIN ongoing[p] /\ ongoing[p][log[p][i].pid] <= i - 1
      BY <2>2, Zenon DEF OpenInv, Placed, Open
    <2>4. Len(log[p]) \in Nat
      BY <2>1
    <2>5. /\ LastStable(Len(log[p]), ongoing[p]) \in Nat
          /\ LastStable(Len(log[p]), ongoing[p]) <= ongoing[p][log[p][i].pid]
          /\ ongoing[p][log[p][i].pid] \in Nat
      BY <2>1, <2>3, <2>4, LastStableIsLeast, OpenNumbers, Zenon
    <2> QED
      BY <2>2, <2>3, <2>5, LsoIs
  <1>2. OpenInv /\ [Next]_vars => OpenInv'
    BY NextOpen, Zenon
  <1> QED
    BY <1>1, <1>2, InitOpen, PTL DEF Spec

\* What a fetch has read is in the log; an answer to a read-committed fetch
\* holds no batch of a transaction that has not been asked to end.
Fetched(r, l, a) ==
    /\ r.pc \in {"read", "aborted"} => r.p \in Partitions /\ r.upto \in 0 .. Len(l[r.p])
    /\ r.pc = "answer" =>
           /\ r.p \in Partitions /\ r.out \subseteq 1 .. Len(l[r.p])
           /\ r.iso = 1 => \A i \in r.out : l[r.p][i].kind = "data" => l[r.p][i].txn \in a

FetchInv ==
    /\ fetch = [f \in Fetchers |-> fetch[f]]
    /\ \A f \in Fetchers : Fetched(fetch[f], log, asked)

LEMMA FetchedLater ==
    ASSUME NEW l, NEW m, NEW a, NEW a2, a \subseteq a2,
           \A p \in Partitions : /\ Len(l[p]) \in Nat /\ Len(m[p]) \in Nat /\ Len(l[p]) <= Len(m[p])
                                 /\ \A i \in 1 .. Len(l[p]) : m[p][i] = l[p][i],
           NEW r, Fetched(r, l, a)
    PROVE  Fetched(r, m, a2)
  <1>1. ASSUME r.pc \in {"read", "aborted"}
        PROVE  r.p \in Partitions /\ r.upto \in 0 .. Len(m[r.p])
    BY <1>1 DEF Fetched
  <1>2. ASSUME r.pc = "answer"
        PROVE  /\ r.p \in Partitions /\ r.out \subseteq 1 .. Len(m[r.p])
               /\ r.iso = 1 => \A i \in r.out : m[r.p][i].kind = "data" => m[r.p][i].txn \in a2
    <2>1. r.p \in Partitions /\ r.out \subseteq 1 .. Len(l[r.p])
      BY <1>2, Zenon DEF Fetched
    <2>2. /\ Len(l[r.p]) \in Nat /\ Len(m[r.p]) \in Nat /\ Len(l[r.p]) <= Len(m[r.p])
          /\ \A i \in r.out : m[r.p][i] = l[r.p][i]
      BY <2>1, Zenon
    <2>3. r.out \subseteq 1 .. Len(m[r.p])
      BY <2>1, <2>2
    <2>4. r.iso = 1 => \A i \in r.out : l[r.p][i].kind = "data" => l[r.p][i].txn \in a
      BY <1>2, Zenon DEF Fetched
    <2> QED
      BY <2>1, <2>2, <2>3, <2>4, Zenon
  <1> QED
    BY <1>1, <1>2, Zenon DEF Fetched

LEMMA LogsLater ==
    ASSUME FenceInv, [Next]_vars, NEW p \in Partitions
    PROVE  /\ Len(log[p]) \in Nat /\ Len(log'[p]) \in Nat /\ Len(log[p]) <= Len(log'[p])
           /\ \A i \in 1 .. Len(log[p]) : log'[p][i] = log[p][i]
  <1>1. log[p] \in Seq(Batches) /\ log'[p] \in Seq(Batches)
    BY NextFence, Zenon DEF FenceInv, Shape
  <1>2. log'[p] = log[p] \/ \E b \in Batches : Grown(log[p], log'[p], b)
    BY PartitionStep, Zenon
  <1> QED
    BY <1>1, <1>2 DEF Grown

\* Only the actions of a fetch change it; only EndTxn changes what was asked.
LEMMA FetchOrNot ==
    ASSUME [Next]_vars
    PROVE  /\ asked \subseteq asked'
           /\ \/ \E f \in Fetchers, p \in Partitions, iso \in Isolations : FetchRecords(f, p, iso)
              \/ \E f \in Fetchers : FetchAborted(f) \/ FetchRespond(f) \/ FetchDone(f)
              \/ UNCHANGED fetch
  <1>1. ASSUME NEW c \in Producers, NEW p \in Partitions,
               ProduceBegin(c, p) \/ ProduceAppend(c, p) \/ AddPartitionsToTxn(c, p)
        PROVE  UNCHANGED <<fetch, asked>>
    BY <1>1, Zenon DEF ProduceBegin, ProduceAppend, AddPartitionsToTxn
  <1>2. ASSUME NEW p \in Partitions, ProducePlain(p) PROVE UNCHANGED <<fetch, asked>>
    BY <1>2, Zenon DEF ProducePlain
  <1>3. ASSUME NEW c \in Producers, InitProducerId(c) \/ Fenced(c) PROVE UNCHANGED <<fetch, asked>>
    BY <1>3, Zenon DEF InitProducerId, Fenced
  <1>4. ASSUME NEW c \in Producers, NEW committed \in BOOLEAN, EndTxn(c, committed)
        PROVE  UNCHANGED fetch /\ asked \subseteq asked'
    BY <1>4, Zenon DEF EndTxn
  <1>5. ASSUME EndTxnStep PROVE UNCHANGED <<fetch, asked>>
    BY <1>5, Zenon
    DEF EndTxnStep, AppendMarker, MarkerFails, CloseTxn, PushAborted, FinishEndTxn
  <1>6. ASSUME NEW f \in Fetchers,
               \/ \E p \in Partitions, iso \in Isolations : FetchRecords(f, p, iso)
               \/ FetchAborted(f) \/ FetchRespond(f) \/ FetchDone(f)
        PROVE  UNCHANGED asked
    BY <1>6, OtherStep, Zenon
  <1>7. ASSUME UNCHANGED vars PROVE UNCHANGED <<fetch, asked>>
    BY <1>7, Zenon DEF vars
  <1>8. ASSUME UNCHANGED asked PROVE asked \subseteq asked'
    BY <1>8, Zenon
  <1> QED
    BY <1>1, <1>2, <1>3, <1>4, <1>5, <1>6, <1>7, <1>8, Zenon DEF Next

LEMMA FetchPut ==
    ASSUME FetchInv, NEW f \in Fetchers, NEW r, fetch' = [fetch EXCEPT ![f] = r],
           \A g \in Fetchers : Fetched(fetch[g], log', asked'), Fetched(r, log', asked')
    PROVE  FetchInv'
  <1>1. DOMAIN fetch = Fetchers
    BY Zenon DEF FetchInv
  <1>2. fetch' = [g \in Fetchers |-> IF g = f THEN r ELSE fetch[g]]
    BY <1>1, Zenon
  <1>3. /\ fetch' = [g \in Fetchers |-> fetch'[g]]
        /\ \A g \in Fetchers : fetch'[g] = IF g = f THEN r ELSE fetch[g]
    BY <1>2, Zenon
  <1> QED
    BY <1>3, Zenon DEF FetchInv

LEMMA NextFetch ==
    ASSUME MaxEpoch = 0, OpenInv, FetchInv, [Next]_vars
    PROVE  FetchInv'
  <1>0. FenceInv /\ Shape /\ asked \subseteq asked'
    BY FetchOrNot, Zenon DEF OpenInv, FenceInv
  <1>1. \A g \in Fetchers : Fetched(fetch[g], log', asked')
    <2>1. \A p \in Partitions :
              /\ Len(log[p]) \in Nat /\ Len(log'[p]) \in Nat /\ Len(log[p]) <= Len(log'[p])
              /\ \A i \in 1 .. Len(log[p]) : log'[p][i] = log[p][i]
      BY <1>0, LogsLater, Zenon
    <2> QED
      BY <1>0, <2>1, FetchedLater, Zenon DEF FetchInv
  <1>2. ASSUME NEW f \in Fetchers, NEW p \in Partitions, NEW iso \in Isolations,
               FetchRecords(f, p, iso)
        PROVE  FetchInv'
    <2> DEFINE r == [pc |-> "read", p |-> p, iso |-> iso, upto |-> HighWatermark(p)]
    <2>1. fetch' = [fetch EXCEPT ![f] = r] /\ UNCHANGED <<log, asked>>
      BY <1>2, Zenon DEF FetchRecords, parts
    <2>2. Len(log[p]) \in Nat
      BY <1>0, LogsLater, Zenon
    <2>3. Fetched(r, log, asked)
      BY <2>2 DEF Fetched, HighWatermark
    <2> HIDE DEF r
    <2>e. Fetched(r, log', asked')
      BY <2>1, <2>3, Zenon
    <2> QED
      BY <1>1, <2>1, <2>e, FetchPut, Zenon
  <1>3. ASSUME NEW f \in Fetchers, FetchAborted(f) PROVE FetchInv'
    <2> DEFINE ps == {aborted[fetch[f].p][i].pid : i \in DOMAIN aborted[fetch[f].p]}
               r == [pc |-> "aborted", p |-> fetch[f].p, iso |-> fetch[f].iso,
                     upto |-> fetch[f].upto, pids |-> ps]
    <2>1. UNCHANGED <<log, asked>> /\ fetch[f].pc = "read"
      BY <1>3, Zenon DEF FetchAborted, parts
    <2>2. fetch' = [fetch EXCEPT ![f] = r]
      BY <1>3, Zenon DEF FetchAborted
    <2>3. Fetched(r, log, asked)
      BY <2>1, Zenon DEF Fetched, FetchInv
    <2> HIDE DEF r
    <2>e. Fetched(r, log', asked')
      BY <2>1, <2>3, Zenon
    <2> QED
      BY <1>1, <2>1, <2>2, <2>e, FetchPut, Zenon
  <1>4. ASSUME NEW f \in Fetchers, FetchRespond(f) PROVE FetchInv'
    <2> DEFINE p == fetch[f].p
               iso == fetch[f].iso
               upto == fetch[f].upto
               out == Exposed(p, iso, upto, fetch[f].pids, LastStableOffset(p))
               r == [pc |-> "answer", p |-> p, iso |-> iso, out |-> out]
    <2>1. UNCHANGED <<log, asked>> /\ fetch[f].pc = "aborted"
      BY <1>4, Zenon DEF FetchRespond, parts
    <2>2. fetch' = [fetch EXCEPT ![f] = r]
      BY <1>4, Zenon DEF FetchRespond
    <2>3. p \in Partitions /\ upto \in 0 .. Len(log[p])
      BY <2>1, Zenon DEF Fetched, FetchInv
    <2>4. log[p] \in Seq(Batches) /\ ongoing[p] \in PidMaps /\ Len(log[p]) \in Nat
      BY <1>0, <2>3 DEF Shape
    <2>5. /\ out \subseteq 1 .. upto
          /\ iso = 1 => \A i \in out : i - 1 < LastStableOffset(p)
      BY Zenon DEF Exposed
    <2>6. LastStableOffset(p) = LastStable(Len(log[p]), ongoing[p])
      BY <2>3, LsoIs, Zenon
    <2>7. Placed(log[p], ongoing[p], prod, asked)
      BY <2>3, Zenon DEF OpenInv
    <2>8. /\ LastStable(Len(log[p]), ongoing[p]) \in Nat
          /\ \A pid \in DOMAIN ongoing[p] :
                 ongoing[p][pid] \in Nat /\ LastStable(Len(log[p]), ongoing[p]) <= ongoing[p][pid]
      BY <2>4, LastStableIsLeast, OpenNumbers, Zenon
    <2> HIDE DEF p, iso, upto, out
    <2>9. out \subseteq 1 .. Len(log[p])
      BY <2>3, <2>4, <2>5
    <2>10. ASSUME iso = 1, NEW i \in out, log[p][i].kind = "data" PROVE log[p][i].txn \in asked
      <3>1. Open(log[p][i], i, ongoing[p], asked) /\ i \in Nat
        BY <2>7, <2>9, <2>10 DEF Placed
      <3> QED
        BY <2>5, <2>6, <2>8, <2>10, <3>1 DEF Open
    <2>11. Fetched(r, log, asked)
      BY <2>3, <2>9, <2>10, Zenon DEF Fetched
    <2> HIDE DEF r
    <2>e. Fetched(r, log', asked')
      BY <2>1, <2>11, Zenon
    <2> QED
      BY <1>1, <2>1, <2>2, <2>e, FetchPut, Zenon
  <1>5. ASSUME NEW f \in Fetchers, FetchDone(f) PROVE FetchInv'
    <2>1. fetch' = [fetch EXCEPT ![f] = [pc |-> "idle"]]
      BY <1>5, Zenon DEF FetchDone
    <2>2. Fetched([pc |-> "idle"], log', asked')
      BY Zenon DEF Fetched
    <2> QED
      BY <1>1, <2>1, <2>2, FetchPut, Zenon
  <1>6. ASSUME UNCHANGED fetch PROVE FetchInv'
    BY <1>1, <1>6, Zenon DEF FetchInv
  <1> QED
    BY <1>2, <1>3, <1>4, <1>5, <1>6, FetchOrNot, Zenon

\* While no transactional id is initialised again, a read-committed fetch
\* answers with no batch of a transaction before its EndTxn, although it reads
\* the batches, the aborted transactions and the last stable offset at three
\* moments, between which producers and the coordinator go on.
THEOREM NothingExposedBeforeEndTxn ==
    ASSUME MaxEpoch = 0
    PROVE  Spec => []NothingBeforeEndTxn
  <1>1. Init => FetchInv
    BY DEF Init, FetchInv, Fetched
  <1>2. FetchInv => NothingBeforeEndTxn
    BY Zenon DEF FetchInv, Fetched, NothingBeforeEndTxn, Data
  <1>3. OpenInv /\ [Next]_vars => OpenInv'
    BY NextOpen, Zenon
  <1>4. OpenInv /\ FetchInv /\ [Next]_vars => FetchInv'
    BY NextFetch, Zenon
  <1> QED
    BY <1>1, <1>2, <1>3, <1>4, InitOpen, PTL DEF Spec

-----------------------------------------------------------------------------
(* Ended transactions, when no transactional id is initialised again and   *)
(* every control batch is appended: what an answered EndTxn has left in    *)
(* the logs.                                                               *)

\* No append of a control batch fails.
MarkersLand == \A p \in Partitions : ~MarkerFails(p)

\* MarkersAfter and Outcome, of any log.
MarkersIn(s, i) ==
    {j \in 1 .. Len(s) : j > i /\ IsMarker(s[j]) /\ s[j].pid = s[i].pid}

OutcomeOf(s, i) == IF MarkersIn(s, i) = {} THEN "open" ELSE s[Min(MarkersIn(s, i))].kind

Verdict(committed) == IF committed THEN "commit" ELSE "abort"

\* A producer in a transaction registered its partitions with the coordinator;
\* it appends only to those.
Parted(f, t, l) ==
    /\ \A c \in Producers : f[c].pc \in {"idle", "producing"} =>
           f[c].parts \subseteq t[Id(c)].parts
    /\ \A p \in Partitions : l[p] # None => p \in f[l[p]].parts

\* Only the producer whose EndTxn the coordinator works on waits for one.
EndsAlone(e, f) ==
    \A c \in Producers :
        /\ f[c].pc # "retry"
        /\ f[c].pc = "ending" => e.step # "none" /\ e.by = c

\* The open transactions of a partition: each has a producer that has the
\* partition in its transaction, and a control batch to come there once it ends.
OpenAt(p, pid, c, f, e) ==
    /\ f[c].pc # "new" /\ f[c].pid = pid /\ p \in f[c].parts
    /\ f[c].pc = "ending" => p \in e.todo \/ (e.step = "close" /\ e.p = p)

Pending(on, f, e) ==
    \A p \in Partitions : \A pid \in DOMAIN on[p] :
        \E c \in Producers : OpenAt(p, pid, c, f, e)

\* An answered transaction is past.
Answers(w, f) ==
    \A c \in Producers, n \in Nat, k \in BOOLEAN :
        <<[who |-> c, n |-> n], k>> \in w => f[c].pc # "new" /\ n < f[c].n

\* o is the outcome of data batch b of partition p: none while its transaction
\* goes on and until its control batch is there; from then on, as was asked.
Decided(o, b, p, f, e, w) ==
    /\ b.txn.n = f[b.txn.who].n =>
           /\ p \in f[b.txn.who].parts
           /\ f[b.txn.who].pc # "ending" => o = "open"
           /\ f[b.txn.who].pc = "ending" /\ p \in e.todo => o = "open"
           /\ f[b.txn.who].pc = "ending" /\ p \notin e.todo => o = Verdict(e.committed)
    /\ \A k \in BOOLEAN : <<b.txn, k>> \in w => o = Verdict(k)

Settled(s, p, f, e, w) ==
    \A i \in 1 .. Len(s) : s[i].kind = "data" =>
        Decided(OutcomeOf(s, i), s[i], p, f, e, w)

ClosedInv ==
    /\ OpenInv
    /\ Parted(prod, txns, lock)
    /\ EndsAlone(ending, prod)
    /\ Pending(ongoing, prod, ending)
    /\ Answers(answered, prod)
    /\ \A p \in Partitions : Settled(log[p], p, prod, ending, answered)


LEMMA VerdictIsNotOpen ==
    ASSUME NEW k
    PROVE  Verdict(k) # "open"
  BY Zenon DEF Verdict

\* What a batch appended to a log does to the outcome of those before it.
LEMMA OutcomeGrows ==
    ASSUME NEW s \in Seq(Batches), NEW u \in Seq(Batches), NEW b, Grown(s, u, b),
           NEW i \in 1 .. Len(s)
    PROVE  /\ OutcomeOf(s, i) # "open" => OutcomeOf(u, i) = OutcomeOf(s, i)
           /\ ~(IsMarker(b) /\ b.pid = s[i].pid) => OutcomeOf(u, i) = OutcomeOf(s, i)
           /\ OutcomeOf(s, i) = "open" /\ IsMarker(b) /\ b.pid = s[i].pid
                  => OutcomeOf(u, i) = b.kind
  <1> DEFINE M == MarkersIn(s, i)
             N == MarkersIn(u, i)
             last == Len(s) + 1
  <1>1. /\ Len(s) \in Nat /\ Len(u) = last /\ u[last] = b
        /\ \A j \in 1 .. Len(s) : u[j] = s[j]
    BY DEF Grown
  <1>2. u[i] = s[i]
    BY <1>1, Zenon
  <1>3. M \in SUBSET Nat /\ N \in SUBSET Nat /\ \A j \in M : j < last
    BY <1>1 DEF MarkersIn
  <1>4. /\ IsMarker(b) /\ b.pid = s[i].pid => N = M \cup {last}
        /\ ~(IsMarker(b) /\ b.pid = s[i].pid) => N = M
    <2>1. \A j \in 1 .. Len(s) : j \in N <=> j \in M
      BY <1>1, <1>2 DEF MarkersIn
    <2>2. last \in N <=> IsMarker(b) /\ b.pid = s[i].pid
      BY <1>1, <1>2 DEF MarkersIn
    <2>3. N \subseteq 1 .. last /\ M \subseteq 1 .. Len(s)
      BY <1>1, Zenon DEF MarkersIn
    <2>4. \A j \in N : j \in M \/ j = last
      BY <1>1, <2>1, <2>3
    <2>5. \A j \in M : j \in N
      BY <2>1, <2>3, Zenon
    <2>6. \A j \in M : j # last
      BY <1>3
    <2> HIDE DEF M, N, last
    <2>7. ASSUME last \in N PROVE N = M \cup {last}
      BY <2>4, <2>5, <2>7, Zenon
    <2>8. ASSUME last \notin N PROVE N = M
      BY <2>4, <2>5, <2>8, Zenon
    <2> QED
      BY <2>2, <2>7, <2>8, Zenon
  <1>5. M # {} => Min(M) \in M /\ s[Min(M)].kind # "open"
    <2>1. M # {} => Min(M) \in M
      BY <1>3, LeastNumber, Zenon
    <2> QED
      BY <2>1, Zenon DEF MarkersIn, IsMarker
  <1>6. \A j \in M : j \in 1 .. Len(s)
    BY Zenon DEF MarkersIn
  <1>7. last \in Nat
    BY <1>1
  <1> HIDE DEF M, N, last
  <1>8. CASE M # {}
    <2>1. N # {} /\ Min(N) \in N /\ (\A y \in N : Min(N) <= y) /\ (\A y \in M : Min(M) <= y)
      <3>1. N # {}
        BY <1>4, <1>8, Zenon
      <3> QED
        BY <1>3, <1>8, <3>1, LeastNumber, Zenon
    <2>2. Min(N) = Min(M)
      <3>1. Min(N) \in Nat /\ Min(M) \in Nat /\ Min(N) <= Min(M) /\ Min(M) < last
        <4>1. Min(M) \in M /\ Min(M) \in N
          BY <1>4, <1>5, <1>8, Zenon
        <4> QED
          BY <1>3, <2>1, <4>1, Zenon
      <3>2. Min(N) \in M
        BY <1>4, <1>7, <2>1, <3>1
      <3> QED
        BY <2>1, <3>1, <3>2
    <2>3. u[Min(M)] = s[Min(M)]
      BY <1>1, <1>5, <1>6, <1>8, Zenon
    <2>4. OutcomeOf(s, i) = s[Min(M)].kind /\ OutcomeOf(u, i) = u[Min(N)].kind
      BY <1>8, <2>1, Zenon DEF OutcomeOf, M, N
    <2> QED
      BY <1>5, <1>8, <2>2, <2>3, <2>4, Zenon
  <1>9. CASE M = {}
    <2>1. OutcomeOf(s, i) = "open"
      BY <1>9, Zenon DEF OutcomeOf, M
    <2>2. CASE IsMarker(b) /\ b.pid = s[i].pid
      <3>1. N = {last}
        BY <1>4, <1>9, <2>2, Zenon
      <3>2. Min(N) = last
        BY <1>3, <3>1, LeastNumber, Zenon
      <3>3. OutcomeOf(u, i) = u[Min(N)].kind
        BY <3>1, Zenon DEF OutcomeOf, N
      <3> QED
        BY <1>1, <2>1, <2>2, <3>2, <3>3, Zenon
    <2>3. CASE ~(IsMarker(b) /\ b.pid = s[i].pid)
      <3>1. N = {}
        BY <1>4, <1>9, <2>3, Zenon
      <3>2. OutcomeOf(u, i) = "open"
        BY <3>1, Zenon DEF OutcomeOf, N
      <3> QED
        BY <2>1, <2>3, <3>2, Zenon
    <2> QED
      BY <2>2, <2>3, Zenon
  <1> QED
    BY <1>8, <1>9, Zenon

\* A batch has no outcome when it is appended.
LEMMA OutcomeOfLast ==
    ASSUME NEW s \in Seq(Batches), NEW u \in Seq(Batches), NEW b, Grown(s, u, b)
    PROVE  OutcomeOf(u, Len(s) + 1) = "open"
  <1>1. Len(s) \in Nat /\ Len(u) = Len(s) + 1
    BY DEF Grown
  <1>2. MarkersIn(u, Len(s) + 1) = {}
    BY <1>1 DEF MarkersIn
  <1> QED
    BY <1>2, Zenon DEF OutcomeOf

\* A log that grows by a batch that decides nothing.
LEMMA SettledGrows ==
    ASSUME NEW s \in Seq(Batches), NEW u \in Seq(Batches), NEW b, Grown(s, u, b), ~IsMarker(b),
           NEW p, NEW f, NEW e, NEW w, Settled(s, p, f, e, w),
           b.kind = "data" => Decided("open", b, p, f, e, w)
    PROVE  Settled(u, p, f, e, w)
  <1> SUFFICES ASSUME NEW i \in 1 .. Len(u), u[i].kind = "data"
               PROVE  Decided(OutcomeOf(u, i), u[i], p, f, e, w)
    BY Zenon DEF Settled
  <1>1. CASE i \in 1 .. Len(s) /\ u[i] = s[i]
    <2>1. OutcomeOf(u, i) = OutcomeOf(s, i)
      BY <1>1, OutcomeGrows, Zenon
    <2> QED
      BY <1>1, <2>1, Zenon DEF Settled
  <1>2. CASE i = Len(s) + 1 /\ u[i] = b
    <2>1. OutcomeOf(u, i) = "open"
      BY <1>2, OutcomeOfLast, Zenon
    <2> QED
      BY <1>2, <2>1, Zenon
  <1> QED
    BY <1>1, <1>2, GrownElement, Zenon

\* Only the producer of a transaction changes what is said of its batches.
LEMMA SettledSame ==
    ASSUME NEW s, NEW p, NEW f, NEW g, NEW e, NEW w, NEW c \in Producers, OthersSame(f, g, c),
           f[c].pc # "new" => g[c].n = f[c].n /\ f[c].parts \subseteq g[c].parts,
           f[c].pc # "ending", g[c].pc # "ending",
           \A i \in 1 .. Len(s) : s[i].kind = "data" =>
               s[i].txn.who \in Producers /\ f[s[i].txn.who].pc # "new",
           Settled(s, p, f, e, w)
    PROVE  Settled(s, p, g, e, w)
  <1> SUFFICES ASSUME NEW i \in 1 .. Len(s), s[i].kind = "data"
               PROVE  Decided(OutcomeOf(s, i), s[i], p, g, e, w)
    BY Zenon DEF Settled
  <1>1. /\ s[i].txn.who \in Producers /\ f[s[i].txn.who].pc # "new"
        /\ Decided(OutcomeOf(s, i), s[i], p, f, e, w)
    BY Zenon DEF Settled
  <1>2. CASE s[i].txn.who = c
    BY <1>1, <1>2, Zenon DEF Decided
  <1>3. CASE s[i].txn.who # c
    <2>1. g[s[i].txn.who] = f[s[i].txn.who]
      BY <1>1, <1>3, Zenon DEF OthersSame
    <2> QED
      BY <1>1, <2>1, Zenon DEF Decided
  <1> QED
    BY <1>2, <1>3, Zenon

LEMMA PendingSame ==
    ASSUME NEW on, NEW on2, NEW f, NEW g, NEW e, NEW c \in Producers, OthersSame(f, g, c),
           f[c].pc # "new" => g[c].pid = f[c].pid /\ f[c].parts \subseteq g[c].parts,
           g[c].pc \notin {"new", "ending"},
           \A p \in Partitions : \A pid \in DOMAIN on2[p] :
               pid \in DOMAIN on[p] \/ OpenAt(p, pid, c, g, e),
           Pending(on, f, e)
    PROVE  Pending(on2, g, e)
  <1> SUFFICES ASSUME NEW p \in Partitions, NEW pid \in DOMAIN on2[p]
               PROVE  \E d \in Producers : OpenAt(p, pid, d, g, e)
    BY Zenon DEF Pending
  <1>1. CASE OpenAt(p, pid, c, g, e)
    BY <1>1, Zenon
  <1>2. CASE pid \in DOMAIN on[p]
    <2>1. PICK d \in Producers : OpenAt(p, pid, d, f, e)
      BY <1>2, Zenon DEF Pending
    <2>2. CASE d = c
      BY <2>1, <2>2, Zenon DEF OpenAt
    <2>3. CASE d # c
      <3>1. g[d] = f[d]
        BY <2>3, Zenon DEF OthersSame
      <3>2. OpenAt(p, pid, d, g, e)
        BY <2>1, <3>1, Zenon DEF OpenAt
      <3> QED
        BY <3>2, Zenon
    <2> QED
      BY <2>2, <2>3, Zenon
  <1> QED
    BY <1>1, <1>2, Zenon

LEMMA AnswersSame ==
    ASSUME NEW w, NEW f \in [Producers -> Clients], NEW g \in [Producers -> Clients],
           NEW a, Onward(f, g, a), Answers(w, f)
    PROVE  Answers(w, g)
  <1>1. \A c \in Producers : f[c].n \in Nat /\ g[c].n \in Nat
    BY Zenon DEF Clients
  <1>2. \A c \in Producers : f[c].pc # "new" => g[c].pc # "new" /\ g[c].n >= f[c].n
    BY <1>1 DEF Onward
  <1> SUFFICES ASSUME NEW c \in Producers, NEW n \in Nat, NEW k \in BOOLEAN,
                      <<[who |-> c, n |-> n], k>> \in w
               PROVE  g[c].pc # "new" /\ n < g[c].n
    BY Zenon DEF Answers
  <1>3. f[c].pc # "new" /\ n < f[c].n
    BY Zenon DEF Answers
  <1> QED
    BY <1>1, <1>2, <1>3

LEMMA InitClosed == Init => ClosedInv
  <1> SUFFICES ASSUME Init PROVE ClosedInv
    OBVIOUS
  <1>1. OpenInv
    BY InitOpen, Zenon
  <1>2. \A c \in Producers : prod[c].pc = "new"
    BY Zenon DEF Init
  <1>3. \A p \in Partitions : lock[p] = None /\ Len(log[p]) = 0 /\ DOMAIN ongoing[p] = {}
    BY DEF Init
  <1>4. answered = {}
    BY Zenon DEF Init
  <1>5. \A p \in Partitions : Settled(log[p], p, prod, ending, answered)
    BY <1>3 DEF Settled
  <1> QED
    BY <1>1, <1>2, <1>3, <1>4, <1>5, Zenon DEF ClosedInv, Parted, EndsAlone, Pending, Answers


\* A producer is registered in its own entry only.
LEMMA PartedSame ==
    ASSUME NEW f, NEW g, NEW t, NEW u, NEW l, NEW l2, NEW c \in Producers, OthersSame(f, g, c),
           l2 \in [Partitions -> Producers \cup {None}], Owners(f, t), Parted(f, t, l),
           g[c].pc \in {"idle", "producing"} => g[c].parts \subseteq u[Id(c)].parts,
           \A id \in DOMAIN t : id # Id(c) => u[id].parts = t[id].parts,
           f[c].pc # "new" \/ Id(c) \notin DOMAIN t,
           \A p \in Partitions : l2[p] # None => \/ l2[p] # c /\ l2[p] = l[p]
                                                 \/ l2[p] = c /\ p \in g[c].parts
    PROVE  Parted(g, u, l2)
  <1>1. ASSUME NEW d \in Producers, g[d].pc \in {"idle", "producing"}
        PROVE  g[d].parts \subseteq u[Id(d)].parts
    <2>1. CASE d = c
      BY <1>1, <2>1, Zenon
    <2>2. CASE d # c
      <3>1. g[d] = f[d]
        BY <2>2, Zenon DEF OthersSame
      <3>2. f[d].pc # "new" /\ Id(d) \in DOMAIN t /\ t[Id(d)].pid = f[d].pid
        BY <1>1, <3>1, Zenon DEF Owners
      <3>3. Id(d) # Id(c)
        BY <2>2, <3>2 DEF Owners
      <3>4. f[d].parts \subseteq t[Id(d)].parts
        BY <1>1, <3>1, Zenon DEF Parted
      <3> QED
        BY <3>1, <3>2, <3>3, <3>4, Zenon
    <2> QED
      BY <2>1, <2>2, Zenon
  <1>2. ASSUME NEW p \in Partitions, l2[p] # None PROVE p \in g[l2[p]].parts
    BY <1>2, Zenon DEF Parted, OthersSame
  <1> QED
    BY <1>1, <1>2, Zenon DEF Parted

LEMMA NextClosed ==
    ASSUME MaxEpoch = 0, ClosedInv, [Next]_vars, [MarkersLand]_vars
    PROVE  ClosedInv'
  <1>0. /\ OpenInv /\ FenceInv /\ Shape /\ Owners(prod, txns) /\ Holders(lock, prod, ongoing)
        /\ Enders(ending, prod, asked)
        /\ Parted(prod, txns, lock) /\ EndsAlone(ending, prod)
        /\ Pending(ongoing, prod, ending) /\ Answers(answered, prod)
        /\ \A p \in Partitions : Settled(log[p], p, prod, ending, answered)
        /\ OpenInv' /\ Shape'
    BY NextOpen, Zenon DEF ClosedInv, OpenInv, FenceInv
  <1>t. /\ prod \in [Producers -> Clients] /\ prod' \in [Producers -> Clients]
        /\ lock \in [Partitions -> Producers \cup {None}]
        /\ lock' \in [Partitions -> Producers \cup {None}]
        /\ \A p \in Partitions : log[p] \in Seq(Batches) /\ log'[p] \in Seq(Batches)
        /\ ending.step # "none" => ending.by \in Producers
    BY <1>0, EndingFields, Zenon DEF Shape
  <1>w. \A p \in Partitions : \A i \in 1 .. Len(log[p]) : log[p][i].kind = "data" =>
            /\ log[p][i].txn.who \in Producers /\ prod[log[p][i].txn.who].pc # "new"
            /\ Attributed(log[p][i], prod, asked)
    <2>1. \A p \in Partitions : Placed(log[p], ongoing[p], prod, asked)
      BY <1>0, Zenon DEF OpenInv
    <2>2. \A p \in Partitions : \A i \in 1 .. Len(log[p]) : log[p][i].kind = "data" =>
              Attributed(log[p][i], prod, asked)
      BY <2>1, Zenon DEF Placed
    <2>3. \A b : Attributed(b, prod, asked) => b.txn.who \in Producers /\ prod[b.txn.who].pc # "new"
      BY Zenon DEF Attributed
    <2> QED
      BY <2>2, <2>3, Zenon
  <1>1. ASSUME NEW c \in Producers, NEW p \in Partitions, ProduceBegin(c, p) PROVE ClosedInv'
    <2>1. /\ prod[c].pc = "idle" /\ p \in prod[c].parts /\ lock[p] = None
          /\ SameBut(prod[c], prod'[c], "producing") /\ OthersSame(prod, prod', c)
          /\ lock'[p] = c /\ LogsSame(lock, lock', p)
          /\ ongoing'[p] = Registered(p, prod[c].pid) /\ LogsSame(ongoing, ongoing', p)
          /\ UNCHANGED <<log, txns, ending, asked, answered>>
      BY <1>0, <1>1, ProduceBeginEffect, Zenon DEF ProduceBeginDoes
    <2>2. /\ prod'[c].pc = "producing" /\ prod'[c].pid = prod[c].pid /\ prod'[c].n = prod[c].n
          /\ prod'[c].parts = prod[c].parts
      BY <2>1, Zenon DEF SameBut
    <2>3. DOMAIN ongoing'[p] = DOMAIN ongoing[p] \cup {prod[c].pid}
      <3>1. prod[c].pid \in Nat
        BY <1>t, Zenon DEF Clients
      <3> QED
        <4>1. DOMAIN Registered(p, prod[c].pid) = DOMAIN ongoing[p] \cup {prod[c].pid}
          BY <1>0, <3>1, RegisteredPids, Zenon
        <4> QED
          BY <2>1, <4>1, Zenon
    <2>4. Parted(prod', txns', lock')
      <3>1. prod[c].parts \subseteq txns[Id(c)].parts
        BY <1>0, <2>1, Zenon DEF Parted
      <3>2. \A q \in Partitions : lock[q] # None => lock[q] # c
        BY <1>0, <2>1, Zenon DEF Holders
      <3>3. \A q \in Partitions : lock'[q] # None =>
                \/ lock'[q] # c /\ lock'[q] = lock[q]
                \/ lock'[q] = c /\ q \in prod'[c].parts
        <4>1. ASSUME NEW q \in Partitions, lock'[q] # None, q # p
              PROVE  lock'[q] # c /\ lock'[q] = lock[q]
          BY <2>1, <3>2, <4>1, Zenon DEF LogsSame
        <4> QED
          BY <2>1, <2>2, <4>1, Zenon
      <3>4. /\ prod[c].pc # "new" \/ Id(c) \notin DOMAIN txns
            /\ prod'[c].pc \in {"idle", "producing"} => prod'[c].parts \subseteq txns'[Id(c)].parts
            /\ \A id \in DOMAIN txns : id # Id(c) => txns'[id].parts = txns[id].parts
            /\ OthersSame(prod, prod', c)
        BY <2>1, <2>2, <3>1, Zenon
      <3> QED
        BY <1>0, <1>t, <3>3, <3>4, PartedSame, Zenon
    <2>5. EndsAlone(ending', prod')
      BY <1>0, <2>1, <2>2, Zenon DEF EndsAlone, OthersSame
    <2>6. Pending(ongoing', prod', ending')
      <3>1. OpenAt(p, prod[c].pid, c, prod', ending)
        BY <2>1, <2>2, Zenon DEF OpenAt
      <3>2. \A q \in Partitions : \A pid \in DOMAIN ongoing'[q] :
                pid \in DOMAIN ongoing[q] \/ OpenAt(q, pid, c, prod', ending)
        BY <2>1, <2>3, <3>1, Zenon DEF LogsSame
      <3> QED
        BY <1>0, <2>1, <2>2, <3>2, PendingSame, Zenon
    <2>7. Answers(answered', prod')
      <3>1. Onward(prod, prod', asked)
        BY <1>t, <2>1, <2>2, OnwardSame, Zenon
      <3> QED
        BY <1>0, <1>t, <2>1, <3>1, AnswersSame, Zenon
    <2>8. ASSUME NEW q \in Partitions PROVE Settled(log'[q], q, prod', ending', answered')
      BY <1>0, <1>w, <2>1, <2>2, SettledSame, Zenon
    <2> QED
      BY <1>0, <2>4, <2>5, <2>6, <2>7, <2>8, Zenon DEF ClosedInv
  <1>2. ASSUME NEW c \in Producers, NEW p \in Partitions, ProduceAppend(c, p) PROVE ClosedInv'
    <2> DEFINE data == Batch("data", prod[c].pid, prod[c].epoch, Txn(c))
    <2>1. /\ prod[c].pc = "producing" /\ lock[p] = c
          /\ SameBut(prod[c], prod'[c], "idle") /\ OthersSame(prod, prod', c)
          /\ lock'[p] = None /\ LogsSame(lock, lock', p)
          /\ \E b \in {Gap, data} : Grown(log[p], log'[p], b)
          /\ LogsSame(log, log', p)
          /\ UNCHANGED <<ongoing, txns, ending, asked, answered>>
      BY <1>0, <1>2, ProduceAppendEffect, Zenon DEF ProduceAppendDoes
    <2>2. /\ prod'[c].pc = "idle" /\ prod'[c].pid = prod[c].pid /\ prod'[c].n = prod[c].n
          /\ prod'[c].parts = prod[c].parts /\ prod[c].n \in Nat
      BY <1>t, <2>1, Zenon DEF SameBut, Clients
    <2>3. p \in prod[c].parts
      BY <1>0, <2>1, NoneAssumption, Zenon DEF Parted
    <2>4. Parted(prod', txns', lock')
      <3>1. prod[c].parts \subseteq txns[Id(c)].parts
        BY <1>0, <2>1, Zenon DEF Parted
      <3>2. \A q \in Partitions : lock[q] # None /\ lock[q] = c => q = p
        BY <1>0, <2>1, Zenon DEF Holders
      <3>3. \A q \in Partitions : lock'[q] # None =>
                \/ lock'[q] # c /\ lock'[q] = lock[q]
                \/ lock'[q] = c /\ q \in prod'[c].parts
        BY <2>1, <3>2, Zenon DEF LogsSame
      <3>4. /\ prod[c].pc # "new" \/ Id(c) \notin DOMAIN txns
            /\ prod'[c].pc \in {"idle", "producing"} => prod'[c].parts \subseteq txns'[Id(c)].parts
            /\ \A id \in DOMAIN txns : id # Id(c) => txns'[id].parts = txns[id].parts
            /\ OthersSame(prod, prod', c)
        BY <2>1, <2>2, <3>1, Zenon
      <3> QED
        BY <1>0, <1>t, <3>3, <3>4, PartedSame, Zenon
    <2>5. EndsAlone(ending', prod')
      BY <1>0, <2>1, <2>2, Zenon DEF EndsAlone, OthersSame
    <2>6. Pending(ongoing', prod', ending')
      BY <1>0, <2>1, <2>2, PendingSame, Zenon
    <2>7. Answers(answered', prod')
      <3>1. Onward(prod, prod', asked)
        BY <1>t, <2>1, <2>2, OnwardSame, Zenon
      <3> QED
        BY <1>0, <1>t, <2>1, <3>1, AnswersSame, Zenon
    <2>b. Gap.kind # "data" /\ ~IsMarker(Gap)
      BY Zenon DEF Gap, Batch, IsMarker
    <2>d. data.txn = [who |-> c, n |-> prod[c].n] /\ ~IsMarker(data)
      BY Zenon DEF Batch, Txn, IsMarker
    <2> HIDE DEF data
    <2>e. data.txn.who = c /\ data.txn.n = prod[c].n
      BY <2>d
    <2>f. \A k \in BOOLEAN : <<data.txn, k>> \notin answered
      <3>1. prod[c].n \in Nat /\ ~(prod[c].n < prod[c].n)
        BY <1>t DEF Clients
      <3>2. \A k \in BOOLEAN : <<[who |-> c, n |-> prod[c].n], k>> \notin answered
        BY <1>0, <3>1, Zenon DEF Answers
      <3> QED
        BY <2>d, <3>2, Zenon
    <2>g. Decided("open", data, p, prod', ending, answered)
      BY <2>2, <2>3, <2>e, <2>f, Zenon DEF Decided
    <2>8. ASSUME NEW q \in Partitions PROVE Settled(log'[q], q, prod', ending', answered')
      <3>1. Settled(log[q], q, prod', ending, answered)
        BY <1>0, <1>w, <2>1, <2>2, SettledSame, Zenon
      <3>2. CASE q = p
        <4>1. PICK b \in {Gap, data} : Grown(log[p], log'[p], b)
          BY <2>1, Zenon
        <4>2. /\ ~IsMarker(b)
              /\ b.kind = "data" => Decided("open", b, p, prod', ending, answered)
          BY <2>b, <2>d, <2>g, <4>1, Zenon
        <4> QED
          BY <1>t, <2>1, <3>1, <3>2, <4>1, <4>2, SettledGrows, Zenon
      <3>3. CASE q # p
        BY <2>1, <3>1, <3>3, Zenon DEF LogsSame
      <3> QED
        BY <3>2, <3>3, Zenon
    <2> QED
      BY <1>0, <2>4, <2>5, <2>6, <2>7, <2>8, Zenon DEF ClosedInv
  <1>3. ASSUME NEW p \in Partitions, ProducePlain(p) PROVE ClosedInv'
    <2>1. /\ \E b \in {Gap, Plain} : Grown(log[p], log'[p], b)
          /\ LogsSame(log, log', p)
          /\ UNCHANGED <<ongoing, lock, txns, ending, prod, asked, answered>>
      BY <1>0, <1>3, ProducePlainEffect, Zenon DEF ProducePlainDoes
    <2>2. PICK b \in {Gap, Plain} : Grown(log[p], log'[p], b)
      BY <2>1, Zenon
    <2>3. b.kind # "data" /\ ~IsMarker(b)
      BY DEF Gap, Plain, Batch, IsMarker
    <2>4. ASSUME NEW q \in Partitions PROVE Settled(log'[q], q, prod', ending', answered')
      BY <1>0, <1>t, <2>1, <2>2, <2>3, SettledGrows, Zenon DEF LogsSame
    <2> QED
      BY <1>0, <2>1, <2>4, Zenon DEF ClosedInv
  <1>4. ASSUME NEW c \in Producers, InitProducerId(c) PROVE ClosedInv'
    <2>1. /\ LockFree
          /\ \/ Id(c) \in DOMAIN txns /\ txns[Id(c)].epoch < MaxEpoch
             \/ Id(c) \notin DOMAIN txns
          /\ \A id \in DOMAIN txns : id # Id(c) => txns'[id] = txns[id]
          /\ prod'[c].pc = "idle" /\ prod'[c].parts = {}
          /\ OthersSame(prod, prod', c)
          /\ UNCHANGED <<log, ongoing, lock, ending, asked, answered>>
      BY <1>0, <1>4, InitProducerIdEffect, Zenon DEF InitProducerIdDoes
    <2>2. Id(c) \in DOMAIN txns => txns[Id(c)].epoch \in Nat
      <3>1. \A e \in Entries : e.epoch \in Nat
        BY Zenon DEF Entries
      <3>2. txns \in TxnMaps
        BY <1>0, Zenon DEF Shape
      <3> QED
        BY <3>1, <3>2, Entry, Zenon
    <2>3. Id(c) \notin DOMAIN txns
      BY <2>1, <2>2
    <2>4. prod[c].pc = "new"
      BY <1>0, <2>3, Zenon DEF Owners
    <2>5. Parted(prod', txns', lock')
      <3>1. \A q \in Partitions : lock[q] # None => lock[q] # c
        BY <1>0, <2>4, Zenon DEF Holders
      <3> QED
        BY <1>0, <1>t, <2>1, <2>3, <3>1, PartedSame, Zenon
    <2>6. EndsAlone(ending', prod')
      BY <1>0, <2>1, Zenon DEF EndsAlone, OthersSame
    <2>7. Pending(ongoing', prod', ending')
      BY <1>0, <2>1, <2>4, PendingSame, Zenon
    <2>8. Answers(answered', prod')
      <3>1. Onward(prod, prod', asked)
        BY <1>t, <2>1, <2>4, OnwardSame, Zenon
      <3> QED
        BY <1>0, <1>t, <2>1, <3>1, AnswersSame, Zenon
    <2>9. ASSUME NEW q \in Partitions PROVE Settled(log'[q], q, prod', ending', answered')
      BY <1>0, <1>w, <2>1, <2>4, SettledSame, Zenon
    <2> QED
      BY <1>0, <2>5, <2>6, <2>7, <2>8, <2>9, Zenon DEF ClosedInv
  <1>5. ASSUME NEW c \in Producers, Fenced(c) PROVE ClosedInv'
    <2>1. /\ prod[c].pc \in {"idle", "retry"}
          /\ SameBut(prod[c], prod'[c], "fenced") /\ OthersSame(prod, prod', c)
          /\ UNCHANGED <<log, ongoing, lock, txns, ending, asked, answered>>
      BY <1>0, <1>5, FencedEffect, Zenon DEF FencedDoes
    <2>2. /\ prod'[c].pc = "fenced" /\ prod'[c].pid = prod[c].pid /\ prod'[c].n = prod[c].n
          /\ prod'[c].parts = prod[c].parts
      BY <2>1, Zenon DEF SameBut
    <2>3. Parted(prod', txns', lock')
      <3>1. \A q \in Partitions : lock[q] # None => lock[q] # c
        BY <1>0, <2>1, Zenon DEF Holders
      <3> QED
        BY <1>0, <1>t, <2>1, <2>2, <3>1, PartedSame, Zenon
    <2>4. EndsAlone(ending', prod')
      BY <1>0, <2>1, <2>2, Zenon DEF EndsAlone, OthersSame
    <2>5. Pending(ongoing', prod', ending')
      BY <1>0, <2>1, <2>2, PendingSame, Zenon
    <2>6. Answers(answered', prod')
      <3>1. Onward(prod, prod', asked)
        BY <1>t, <2>1, <2>2, OnwardSame, Zenon
      <3> QED
        BY <1>0, <1>t, <2>1, <3>1, AnswersSame, Zenon
    <2>7. ASSUME NEW q \in Partitions PROVE Settled(log'[q], q, prod', ending', answered')
      BY <1>0, <1>w, <2>1, <2>2, SettledSame, Zenon
    <2> QED
      BY <1>0, <2>3, <2>4, <2>5, <2>6, <2>7, Zenon DEF ClosedInv
  <1>6. ASSUME NEW c \in Producers, NEW p \in Partitions, AddPartitionsToTxn(c, p) PROVE ClosedInv'
    <2>1. /\ prod[c].pc = "idle"
          /\ txns'[Id(c)].parts = txns[Id(c)].parts \cup {p}
          /\ \A id \in DOMAIN txns : id # Id(c) => txns'[id] = txns[id]
          /\ prod'[c].pc = "idle" /\ prod'[c].pid = prod[c].pid /\ prod'[c].n = prod[c].n
          /\ prod'[c].parts = prod[c].parts \cup {p}
          /\ OthersSame(prod, prod', c)
          /\ UNCHANGED <<log, ongoing, lock, ending, asked, answered>>
      BY <1>0, <1>6, AddPartitionsToTxnEffect, Zenon DEF AddPartitionsToTxnDoes
    <2>2. prod[c].parts \subseteq prod'[c].parts
      BY <2>1, Zenon
    <2>3. Parted(prod', txns', lock')
      <3>1. \A q \in Partitions : lock[q] # None => lock[q] # c
        BY <1>0, <2>1, Zenon DEF Holders
      <3>2. prod'[c].parts \subseteq txns'[Id(c)].parts
        BY <1>0, <2>1, Zenon DEF Parted
      <3> QED
        BY <1>0, <1>t, <2>1, <3>1, <3>2, PartedSame, Zenon
    <2>4. EndsAlone(ending', prod')
      BY <1>0, <2>1, Zenon DEF EndsAlone, OthersSame
    <2>5. Pending(ongoing', prod', ending')
      BY <1>0, <2>1, <2>2, PendingSame, Zenon
    <2>6. Answers(answered', prod')
      <3>1. Onward(prod, prod', asked)
        BY <1>t, <2>1, <2>2, OnwardSame, Zenon
      <3> QED
        BY <1>0, <1>t, <2>1, <3>1, AnswersSame, Zenon
    <2>7. ASSUME NEW q \in Partitions PROVE Settled(log'[q], q, prod', ending', answered')
      BY <1>0, <1>w, <2>1, <2>2, SettledSame, Zenon
    <2> QED
      BY <1>0, <2>3, <2>4, <2>5, <2>6, <2>7, Zenon DEF ClosedInv
  <1>7. ASSUME NEW c \in Producers, NEW committed \in BOOLEAN, EndTxn(c, committed) PROVE ClosedInv'
    <2>1. /\ prod[c].pc \in {"idle", "retry"} /\ LockFree
          /\ ending' = [by |-> c, pid |-> prod[c].pid, epoch |-> prod[c].epoch,
                        committed |-> committed, todo |-> txns[Id(c)].parts, step |-> "mark"]
          /\ \A id \in DOMAIN txns : id # Id(c) => txns'[id] = txns[id]
          /\ SameBut(prod[c], prod'[c], "ending") /\ OthersSame(prod, prod', c)
          /\ UNCHANGED <<log, ongoing, lock, answered>>
      BY <1>0, <1>7, EndTxnEffect, Zenon DEF EndTxnDoes
    <2>2. /\ prod'[c].pc = "ending" /\ prod'[c].pid = prod[c].pid /\ prod'[c].n = prod[c].n
          /\ prod'[c].parts = prod[c].parts /\ prod[c].pc = "idle"
      BY <1>0, <2>1, Zenon DEF SameBut, EndsAlone
    <2>3. ending'.by = c /\ ending'.todo = txns[Id(c)].parts /\ ending'.step = "mark"
      BY <2>1, Zenon
    <2>4. prod[c].parts \subseteq ending'.todo
      BY <1>0, <2>2, <2>3, Zenon DEF Parted
    <2>5. \A d \in Producers : prod[d].pc # "ending"
      BY <1>0, <2>1, Zenon DEF EndsAlone, LockFree
    <2>6. Parted(prod', txns', lock')
      <3>1. \A q \in Partitions : lock[q] # None => lock[q] # c
        BY <1>0, <2>2, Zenon DEF Holders
      <3> QED
        BY <1>0, <1>t, <2>1, <2>2, <3>1, PartedSame, Zenon
    <2>7. EndsAlone(ending', prod')
      BY <1>0, <2>1, <2>2, <2>3, <2>5, Zenon DEF EndsAlone, OthersSame
    <2>8. Pending(ongoing', prod', ending')
      <3> SUFFICES ASSUME NEW p \in Partitions, NEW pid \in DOMAIN ongoing[p]
                   PROVE  \E d \in Producers : OpenAt(p, pid, d, prod', ending')
        BY <2>1, Zenon DEF Pending
      <3>1. PICK d \in Producers : OpenAt(p, pid, d, prod, ending)
        BY <1>0, Zenon DEF Pending
      <3>2. CASE d = c
        BY <2>2, <2>4, <3>1, <3>2, Zenon DEF OpenAt
      <3>3. CASE d # c
        <4>1. prod'[d] = prod[d]
          BY <2>1, <3>3, Zenon DEF OthersSame
        <4>2. OpenAt(p, pid, d, prod', ending')
          BY <2>5, <3>1, <4>1, Zenon DEF OpenAt
        <4> QED
          BY <4>2, Zenon
      <3> QED
        BY <3>2, <3>3, Zenon
    <2>9. Answers(answered', prod')
      <3>1. Onward(prod, prod', asked)
        BY <1>t, <2>1, <2>2, OnwardSame, Zenon
      <3> QED
        BY <1>0, <1>t, <2>1, <3>1, AnswersSame, Zenon
    <2>10. ASSUME NEW q \in Partitions PROVE Settled(log'[q], q, prod', ending', answered')
      <3> SUFFICES ASSUME NEW i \in 1 .. Len(log[q]), log[q][i].kind = "data"
                   PROVE  Decided(OutcomeOf(log[q], i), log[q][i], q, prod', ending', answered)
        BY <2>1, Zenon DEF Settled
      <3>1. /\ log[q][i].txn.who \in Producers
            /\ Decided(OutcomeOf(log[q], i), log[q][i], q, prod, ending, answered)
        BY <1>0, <1>w, Zenon DEF Settled
      <3>2. CASE log[q][i].txn.who = c
        BY <2>2, <2>4, <3>1, <3>2, Zenon DEF Decided
      <3>3. CASE log[q][i].txn.who # c
        <4>1. prod'[log[q][i].txn.who] = prod[log[q][i].txn.who]
          BY <2>1, <3>1, <3>3, Zenon DEF OthersSame
        <4> QED
          BY <2>5, <3>1, <4>1, Zenon DEF Decided
      <3> QED
        BY <3>2, <3>3, Zenon
    <2> QED
      BY <1>0, <2>6, <2>7, <2>8, <2>9, <2>10, Zenon DEF ClosedInv
  <1>8. ASSUME NEW p \in Partitions, AppendMarker(p) PROVE ClosedInv'
    <2> DEFINE e == ending
    <2>1. /\ e.step = "mark" /\ p \in e.todo
          /\ Grown(log[p], log'[p], Marker) /\ LogsSame(log, log', p)
          /\ e'.by = e.by /\ e'.pid = e.pid /\ e'.committed = e.committed
          /\ e'.todo = e.todo \ {p} /\ e'.step = "close" /\ e'.p = p
          /\ UNCHANGED <<ongoing, lock, txns, prod, asked, answered>>
      BY <1>0, <1>8, AppendMarkerEffect, Zenon DEF AppendMarkerDoes
    <2>2. e.by \in Producers /\ prod[e.by].pc = "ending" /\ prod[e.by].pid = e.pid
      BY <1>0, <1>t, <2>1, Zenon DEF Enders
    <2>3. /\ Marker.kind = Verdict(e.committed) /\ Marker.kind # "data"
          /\ Marker.pid = e.pid /\ IsMarker(Marker)
      BY Zenon DEF Marker, Batch, Verdict, IsMarker
    <2> HIDE DEF e
    <2>4. Parted(prod', txns', lock') /\ Answers(answered', prod')
      BY <1>0, <2>1, Zenon
    <2>5. EndsAlone(ending', prod')
      BY <1>0, <2>1, Zenon DEF EndsAlone, e
    <2>6. Pending(ongoing', prod', ending')
      <3> SUFFICES ASSUME NEW q \in Partitions, NEW pid \in DOMAIN ongoing[q]
                   PROVE  \E d \in Producers : OpenAt(q, pid, d, prod, e')
        BY <2>1, Zenon DEF Pending, e
      <3>1. PICK d \in Producers : OpenAt(q, pid, d, prod, e)
        BY <1>0, Zenon DEF Pending, e
      <3>2. OpenAt(q, pid, d, prod, e')
        BY <2>1, <3>1, Zenon DEF OpenAt
      <3> QED
        BY <3>2, Zenon
    <2>7. ASSUME NEW q \in Partitions PROVE Settled(log'[q], q, prod', ending', answered')
      <3> SUFFICES ASSUME NEW i \in 1 .. Len(log'[q]), log'[q][i].kind = "data"
                   PROVE  Decided(OutcomeOf(log'[q], i), log'[q][i], q, prod, e', answered)
        BY <2>1, Zenon DEF Settled, e
      <3>1. i \in 1 .. Len(log[q]) /\ log'[q][i] = log[q][i]
        BY <1>t, <2>1, <2>3, GrownElement DEF LogsSame
      <3> DEFINE b == log[q][i]
                 o == OutcomeOf(log[q], i)
      <3>2. /\ b.txn.who \in Producers /\ prod[b.txn.who].pc # "new" /\ prod[b.txn.who].pid = b.pid
            /\ Decided(o, b, q, prod, e, answered)
        BY <1>0, <1>w, <3>1, Zenon DEF Settled, Attributed, e
      <3> HIDE DEF b, o
      <3>3. CASE q # p
        <4>1. Decided(o, b, q, prod, e', answered)
          BY <2>1, <3>2, <3>3, Zenon DEF Decided
        <4> QED
          BY <2>1, <3>1, <3>3, <4>1, Zenon DEF LogsSame, b, o
      <3>4. CASE q = p
        <4> DEFINE u == OutcomeOf(log'[p], i)
        <4>0. /\ log[p] \in Seq(Batches) /\ log'[p] \in Seq(Batches) /\ i \in 1 .. Len(log[p])
              /\ Grown(log[p], log'[p], Marker)
              /\ o = OutcomeOf(log[p], i) /\ b = log[p][i]
          BY <1>t, <2>1, <3>1, <3>4, Zenon DEF b, o
        <4>m. /\ OutcomeOf(log[p], i) # "open" => u = OutcomeOf(log[p], i)
              /\ ~(IsMarker(Marker) /\ Marker.pid = log[p][i].pid) => u = OutcomeOf(log[p], i)
              /\ OutcomeOf(log[p], i) = "open" /\ IsMarker(Marker) /\ Marker.pid = log[p][i].pid
                     => u = Marker.kind
          BY <4>0, OutcomeGrows
        <4>1. /\ o # "open" => u = o
              /\ Marker.pid # b.pid => u = o
              /\ o = "open" /\ Marker.pid = b.pid => u = Marker.kind
          BY <2>3, <4>0, <4>m, Zenon
        <4>2. prod[b.txn.who].pc = "ending" => b.txn.who = e.by /\ b.pid = e.pid
          BY <1>0, <2>2, <3>2, Zenon DEF EndsAlone, e
        <4>3. b.pid = e.pid => b.txn.who = e.by
          BY <1>0, <2>2, <3>2, Zenon DEF Owners
        <4> HIDE DEF u
        <4>4. \A k \in BOOLEAN : <<b.txn, k>> \in answered => u = Verdict(k)
          <5> SUFFICES ASSUME NEW k \in BOOLEAN, <<b.txn, k>> \in answered PROVE u = Verdict(k)
            OBVIOUS
          <5>1. o = Verdict(k)
            BY <3>2, Zenon DEF Decided
          <5> QED
            BY <4>1, <5>1, VerdictIsNotOpen, Zenon
        <4>5. ASSUME b.txn.n = prod[b.txn.who].n
              PROVE  /\ q \in prod[b.txn.who].parts
                     /\ prod[b.txn.who].pc # "ending" => u = "open"
                     /\ prod[b.txn.who].pc = "ending" => u = Verdict(e.committed)
          <5>1. /\ q \in prod[b.txn.who].parts /\ o = "open"
            BY <2>1, <3>2, <3>4, <4>5, Zenon DEF Decided
          <5>2. prod[b.txn.who].pc # "ending" => b.pid # e.pid
            BY <2>2, <4>3, Zenon
          <5> QED
            BY <2>3, <4>1, <4>2, <5>1, <5>2, Zenon
        <4>6. Decided(u, b, q, prod, e', answered)
          BY <2>1, <3>4, <4>4, <4>5, Zenon DEF Decided
        <4> QED
          BY <3>1, <3>4, <4>6, Zenon DEF b, u
      <3> QED
        BY <3>3, <3>4, Zenon
    <2> QED
      BY <1>0, <2>4, <2>5, <2>6, <2>7, Zenon DEF ClosedInv
  <1>9. ASSUME NEW p \in Partitions, MarkerFails(p) PROVE ClosedInv'
    <2>1. log' # log
      <3>1. Grown(log[p], log'[p], Gap) /\ Len(log[p]) \in Nat
        BY <1>0, <1>9, MarkerFailsEffect DEF Shape, MarkerFailsDoes
      <3> QED
        BY <3>1 DEF Grown
    <2> QED
      BY <1>9, <2>1, Zenon DEF MarkersLand, vars, parts
  <1>10. CASE CloseTxn
    <2> DEFINE p == ending.p
    <2>1. /\ ending.step = "close" /\ p \in Partitions
          /\ ongoing'[p] = Without(p, ending.pid) /\ LogsSame(ongoing, ongoing', p)
          /\ SameEnd(ending, ending') /\ ending'.step # "none"
          /\ UNCHANGED <<log, lock, txns, prod, asked, answered>>
      BY <1>0, <1>10, CloseTxnEffect, Zenon DEF CloseTxnDoes
    <2>2. ending.by \in Producers /\ prod[ending.by].pid = ending.pid
      BY <1>0, <1>t, <2>1, Zenon DEF Enders
    <2>3. DOMAIN ongoing'[p] = DOMAIN ongoing[p] \ {ending.pid}
      <3>1. DOMAIN Without(p, ending.pid) = DOMAIN ongoing[p] \ {ending.pid}
        BY <1>0, <2>1, WithoutPids, Zenon
      <3> HIDE DEF p
      <3> QED
        BY <2>1, <3>1, Zenon
    <2>4. /\ ending'.by = ending.by /\ ending'.todo = ending.todo
          /\ ending'.committed = ending.committed
      BY <2>1, Zenon DEF SameEnd
    <2>5. EndsAlone(ending', prod')
      BY <1>0, <2>1, <2>4, Zenon DEF EndsAlone
    <2>6. Pending(ongoing', prod', ending')
      <3> SUFFICES ASSUME NEW q \in Partitions, NEW pid \in DOMAIN ongoing'[q]
                   PROVE  \E d \in Producers : OpenAt(q, pid, d, prod, ending')
        BY <2>1, Zenon DEF Pending
      <3>1. pid \in DOMAIN ongoing[q] /\ (q = p => pid # ending.pid)
        BY <2>1, <2>3, Zenon DEF LogsSame
      <3>2. PICK d \in Producers : OpenAt(q, pid, d, prod, ending)
        BY <1>0, <3>1, Zenon DEF Pending
      <3>3. prod[d].pc = "ending" => q \in ending.todo
        BY <1>0, <2>2, <3>1, <3>2, Zenon DEF OpenAt, EndsAlone
      <3>4. OpenAt(q, pid, d, prod, ending')
        BY <2>4, <3>2, <3>3, Zenon DEF OpenAt
      <3> QED
        BY <3>4, Zenon
    <2>7. ASSUME NEW q \in Partitions PROVE Settled(log'[q], q, prod', ending', answered')
      BY <1>0, <2>1, <2>4, Zenon DEF Settled, Decided
    <2> QED
      BY <1>0, <2>1, <2>5, <2>6, <2>7, Zenon DEF ClosedInv
  <1>11. CASE PushAborted
    <2>1. /\ ending.step = "push" /\ SameEnd(ending, ending') /\ ending'.step = "mark"
          /\ UNCHANGED <<log, ongoing, lock, txns, prod, asked, answered>>
      BY <1>0, <1>11, PushAbortedEffect, Zenon DEF PushAbortedDoes
    <2>2. /\ ending'.by = ending.by /\ ending'.todo = ending.todo
          /\ ending'.committed = ending.committed
      BY <2>1, Zenon DEF SameEnd
    <2>3. EndsAlone(ending', prod')
      BY <1>0, <2>1, <2>2, Zenon DEF EndsAlone
    <2>4. Pending(ongoing', prod', ending')
      BY <1>0, <2>1, <2>2, Zenon DEF Pending, OpenAt
    <2>5. ASSUME NEW q \in Partitions PROVE Settled(log'[q], q, prod', ending', answered')
      BY <1>0, <2>1, <2>2, Zenon DEF Settled, Decided
    <2> QED
      BY <1>0, <2>1, <2>3, <2>4, <2>5, Zenon DEF ClosedInv
  <1>12. CASE FinishEndTxn
    <2> DEFINE c == ending.by
    <2>1. Id(ending.by) \in DOMAIN txns
      BY <1>0, <1>12, Zenon DEF FenceInv, EndsCurrent, FinishEndTxn, AllMarked
    <2>2. /\ ending.step = "mark" /\ ending.todo = {} /\ ending' = NoEnd
          /\ \A id \in DOMAIN txns : txns'[id].parts = txns[id].parts
          /\ prod'[c].pc = "idle" /\ prod'[c].pid = prod[c].pid /\ prod'[c].parts = {}
          /\ prod'[c].n = prod[c].n + 1
          /\ OthersSame(prod, prod', c)
          /\ answered' = answered \cup {<<Txn(c), ending.committed>>}
          /\ UNCHANGED <<log, ongoing, lock, asked>>
      BY <1>0, <1>12, <2>1, FinishEndTxnEffect, Zenon DEF FinishEndTxnDoes
    <2>3. /\ c \in Producers /\ prod[c].pc = "ending" /\ TxnOf(prod, c) \in asked
          /\ Txn(c) = [who |-> c, n |-> prod[c].n] /\ prod[c].n \in Nat
      BY <1>0, <1>t, <2>2, Zenon DEF Enders, Txn, Clients
    <2>n. prod'[c].n = prod[c].n + 1 /\ prod[c].n \in Nat /\ prod'[c].pc # "new"
      BY <2>2, <2>3, Zenon
    <2>c. ending.by = c
      OBVIOUS
    <2> HIDE DEF c
    <2>4. \A d \in Producers : d # c => prod[d].pc # "ending" /\ prod'[d] = prod[d]
      BY <1>0, <2>2, <2>c, Zenon DEF EndsAlone, OthersSame
    <2>5. Parted(prod', txns', lock')
      <3>1. \A q \in Partitions : lock[q] # None => lock[q] # c
        BY <1>0, <2>3, Zenon DEF Holders
      <3> QED
        BY <1>0, <1>t, <2>2, <2>3, <3>1, PartedSame, Zenon
    <2>6. EndsAlone(ending', prod')
      BY <1>0, <2>2, <2>4, Zenon DEF EndsAlone
    <2>7. Pending(ongoing', prod', ending')
      <3> SUFFICES ASSUME NEW q \in Partitions, NEW pid \in DOMAIN ongoing[q]
                   PROVE  \E d \in Producers : OpenAt(q, pid, d, prod', ending')
        BY <2>2, Zenon DEF Pending
      <3>1. PICK d \in Producers : OpenAt(q, pid, d, prod, ending)
        BY <1>0, Zenon DEF Pending
      <3>2. d # c
        BY <2>2, <2>3, <3>1, Zenon DEF OpenAt
      <3>3. OpenAt(q, pid, d, prod', ending')
        BY <2>4, <3>1, <3>2, Zenon DEF OpenAt
      <3> QED
        BY <3>3, Zenon
    <2>8. Answers(answered', prod')
      <3>1. Onward(prod, prod', asked)
        BY <2>2, <2>3, <2>4, Zenon DEF Onward
      <3>2. Answers(answered, prod')
        BY <1>0, <1>t, <3>1, AnswersSame, Zenon
      <3> SUFFICES ASSUME NEW d \in Producers, NEW n \in Nat, NEW k \in BOOLEAN,
                          <<[who |-> d, n |-> n], k>> \in answered'
                   PROVE  prod'[d].pc # "new" /\ n < prod'[d].n
        BY Zenon DEF Answers
      <3>3. CASE <<[who |-> d, n |-> n], k>> \in answered
        BY <3>2, <3>3, Zenon DEF Answers
      <3>4. CASE <<[who |-> d, n |-> n], k>> = <<Txn(c), ending.committed>>
        <4>1. [who |-> d, n |-> n] = [who |-> c, n |-> prod[c].n]
          BY <2>3, <3>4, Zenon
        <4>2. d = c /\ n = prod[c].n
          BY <4>1, Zenon
        <4> QED
          BY <2>n, <4>2
      <3> QED
        BY <2>2, <3>3, <3>4, Zenon
    <2>9. ASSUME NEW q \in Partitions PROVE Settled(log'[q], q, prod', ending', answered')
      <3> SUFFICES ASSUME NEW i \in 1 .. Len(log[q]), log[q][i].kind = "data"
                   PROVE  Decided(OutcomeOf(log[q], i), log[q][i], q, prod', ending', answered')
        BY <2>2, Zenon DEF Settled
      <3> DEFINE b == log[q][i]
                 o == OutcomeOf(log[q], i)
      <3>1. Attributed(b, prod, asked) /\ Decided(o, b, q, prod, ending, answered)
        BY <1>0, <1>w, Zenon DEF Settled
      <3> HIDE DEF b, o
      <3>2. /\ b.txn.who \in Producers /\ b.txn.n \in Nat /\ b.txn.n <= prod[b.txn.who].n
            /\ b.txn = [who |-> b.txn.who, n |-> b.txn.n]
        BY <3>1, Zenon DEF Attributed
      <3>3. b.txn.n = prod'[b.txn.who].n => b.txn.who # c
        <4> SUFFICES ASSUME b.txn.n = prod'[b.txn.who].n, b.txn.who = c
                     PROVE  FALSE
          BY Zenon
        <4>1. b.txn.n = prod'[c].n /\ b.txn.n <= prod[c].n
          BY <3>2, Zenon
        <4> QED
          BY <2>n, <4>1
      <3>4. b.txn.n = prod'[b.txn.who].n =>
                /\ q \in prod'[b.txn.who].parts /\ o = "open" /\ prod'[b.txn.who].pc # "ending"
        BY <2>4, <3>1, <3>2, <3>3, Zenon DEF Decided
      <3>5. ASSUME NEW k \in BOOLEAN, <<b.txn, k>> \in answered' PROVE o = Verdict(k)
        <4>1. CASE <<b.txn, k>> \in answered
          BY <3>1, <4>1, Zenon DEF Decided
        <4>2. CASE <<b.txn, k>> = <<Txn(c), ending.committed>>
          <5>1. b.txn = [who |-> c, n |-> prod[c].n] /\ k = ending.committed
            BY <2>3, <4>2, Zenon
          <5>2. b.txn.who = c /\ b.txn.n = prod[c].n
            BY <5>1
          <5>3. o = Verdict(ending.committed)
            BY <2>2, <2>3, <3>1, <5>2, Zenon DEF Decided
          <5> QED
            BY <5>1, <5>3, Zenon
        <4> QED
          BY <2>2, <3>5, <4>1, <4>2, Zenon
      <3>6. Decided(o, b, q, prod', ending', answered')
        BY <3>4, <3>5, Zenon DEF Decided
      <3> QED
        BY <3>6, Zenon DEF b, o
    <2> QED
      BY <1>0, <2>5, <2>6, <2>7, <2>8, <2>9, Zenon DEF ClosedInv
  <1>13. CASE UNCHANGED <<log, ongoing, lock, txns, nextPid, ending, prod, asked, answered>>
    BY <1>0, <1>13, Zenon DEF ClosedInv
  <1>14. ASSUME NEW f \in Fetchers,
                \/ \E p \in Partitions, iso \in Isolations : FetchRecords(f, p, iso)
                \/ FetchAborted(f) \/ FetchRespond(f) \/ FetchDone(f)
         PROVE  ClosedInv'
    BY <1>13, <1>14, OtherStep, Zenon
  <1>15. CASE UNCHANGED vars
    BY <1>13, <1>15, Zenon DEF vars, parts, coord
  <1> QED
    BY <1>1, <1>2, <1>3, <1>4, <1>5, <1>6, <1>7, <1>8, <1>9, <1>10, <1>11, <1>12, <1>14, <1>15, Zenon
    DEF Next, EndTxnStep

LEMMA ClosedAlways ==
    ASSUME MaxEpoch = 0
    PROVE  Spec /\ [][MarkersLand]_vars => []ClosedInv
  <1>1. ClosedInv /\ [Next]_vars /\ [MarkersLand]_vars => ClosedInv'
    BY NextClosed, Zenon
  <1> QED
    BY <1>1, InitClosed, PTL DEF Spec

\* While no transactional id is initialised again and no append of a control
\* batch fails, an EndTxn that has been answered has decided every batch of its
\* transaction in every log, and as the request said.
THEOREM AnsweredAlwaysMarked ==
    ASSUME MaxEpoch = 0
    PROVE  Spec /\ [][MarkersLand]_vars => []AnsweredIsMarked
  <1>1. ClosedInv => AnsweredIsMarked
    <2> SUFFICES ASSUME ClosedInv, NEW p \in Partitions, NEW i \in Data(p),
                        NEW committed \in BOOLEAN, <<log[p][i].txn, committed>> \in answered
                 PROVE  Outcome(p, i) = Verdict(committed)
      BY Zenon DEF AnsweredIsMarked, Verdict
    <2>0. Shape
      BY Zenon DEF ClosedInv, OpenInv, FenceInv
    <2>s. log \in [Partitions -> Seq(Batches)]
      BY <2>0, Zenon DEF Shape
    <2>1. DOMAIN log[p] = 1 .. Len(log[p])
      BY <2>s
    <2>2. i \in 1 .. Len(log[p]) /\ log[p][i].kind = "data" /\ DOMAIN log[p] = 1 .. Len(log[p])
      BY <2>1, Zenon DEF Data
    <2>3. Outcome(p, i) = OutcomeOf(log[p], i)
      BY <2>2, Zenon DEF Outcome, OutcomeOf, MarkersAfter, MarkersIn
    <2>4. OutcomeOf(log[p], i) = Verdict(committed)
      BY <2>2, Zenon DEF ClosedInv, Settled, Decided
    <2> QED
      BY <2>3, <2>4, Zenon
  <1> QED
    BY <1>1, ClosedAlways, PTL

\* Under the same conditions nothing holds the last stable offset back once no
\* producer has a transaction open: read-committed consumers reach the end of
\* every partition.
THEOREM LsoReachesEnd ==
    ASSUME MaxEpoch = 0
    PROVE  Spec /\ [][MarkersLand]_vars => []QuiescentLso
  <1>1. ClosedInv => QuiescentLso
    <2> SUFFICES ASSUME ClosedInv, \A c \in Producers : prod[c].parts = {}, NEW p \in Partitions
                 PROVE  LastStableOffset(p) = HighWatermark(p)
      BY Zenon DEF QuiescentLso
    <2>1. DOMAIN ongoing[p] = {}
      BY Zenon DEF ClosedInv, Pending, OpenAt
    <2>0. Shape
      BY Zenon DEF ClosedInv, OpenInv, FenceInv
    <2>s. log \in [Partitions -> Seq(Batches)] /\ ongoing \in [Partitions -> PidMaps]
      BY <2>0, Zenon DEF Shape
    <2>2. ongoing[p] \in PidMaps /\ Len(log[p]) \in Nat
      BY <2>s
    <2>3. LastStable(Len(log[p]), ongoing[p]) = Len(log[p])
      BY <2>1, <2>2, LastStableIsLeast, Zenon
    <2> QED
      BY <2>3, LsoIs, Zenon DEF HighWatermark
  <1> QED
    BY <1>1, ClosedAlways, PTL

=============================================================================
