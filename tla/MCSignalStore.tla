---------------------------- MODULE MCSignalStore ----------------------------
(* SignalStore for TLC: ids and names are interchangeable. *)
EXTENDS SignalStore, TLC

Symmetry == Permutations(Ids) \cup Permutations(Names)

=============================================================================
