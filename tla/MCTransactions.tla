--------------------------- MODULE MCTransactions ---------------------------
(* Model values for checking Transactions. *)
EXTENDS Transactions, TLC

(* Used by the runs that check safety only. *)
Symmetry == Permutations(Producers) \cup Permutations(Partitions)
=============================================================================
