-------------------------------- MODULE MCFS --------------------------------
(* MyFS for TLC: names are interchangeable, i-nodes, entries and blocks are not. *)
EXTENDS MyFS, TLC

NameSymmetry == Permutations(Names)

=============================================================================
