--------------------------- MODULE MCSignalServer ---------------------------
(* SignalServer for TLC: ids and connections are interchangeable. *)
EXTENDS SignalServer, TLC

Symmetry == Permutations(Ids) \cup Permutations(Conns) \cup Permutations(Names)

=============================================================================
