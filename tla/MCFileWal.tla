------------------------------ MODULE MCFileWal ------------------------------
(* Small instances of FileWal. *)
EXTENDS FileWal, TLC

Symmetry == Permutations(Clients)

==============================================================================
