--------------------------- MODULE MCSignalClient ---------------------------
(* Symmetry for the safety run of SignalClient. *)
EXTENDS SignalClient, TLC

Symmetry == Permutations(Links) \cup Permutations(Reqs)

=============================================================================
