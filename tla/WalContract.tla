----------------------------- MODULE WalContract -----------------------------
(***************************************************************************)
(* What a WalEngine promises to its callers (crates/oxidemq-wal/src/       *)
(* lib.rs): a growing log of sequenced records from which a crash may take *)
(* records, but never an acknowledged one.                                 *)
(***************************************************************************)
EXTENDS Naturals

VARIABLES
    stored,  \* the records a scan of the log finds
    acked    \* the records whose append returned Ok(seq)

vars == <<stored, acked>>

Init == stored = {} /\ acked = {}

(* New records take numbers above everything in the log. *)
Write ==
    /\ stored \subseteq stored'
    /\ \A r \in stored' \ stored, q \in stored : r.seq > q.seq
    /\ UNCHANGED acked

(* Only a record of the log is acknowledged, in sequence order. *)
Acknowledge ==
    /\ acked \subseteq acked'
    /\ acked' \subseteq stored
    /\ \A r \in acked' \ acked, q \in acked : r.seq > q.seq
    /\ UNCHANGED stored

(* A crash takes unacknowledged records only. *)
Lose ==
    /\ acked \subseteq stored'
    /\ stored' \subseteq stored
    /\ UNCHANGED acked

Next == Write \/ Acknowledge \/ Lose

Spec == Init /\ [][Next]_vars

==============================================================================
