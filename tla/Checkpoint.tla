----------------------------- MODULE Checkpoint -----------------------------
(***************************************************************************)
(* What a program keeps that saves its state now and then into a place     *)
(* which a save may also leave empty: a restart goes on from the last save *)
(* or from nothing, never from anything else.                              *)
(***************************************************************************)

CONSTANT Nothing  \* the state of a program that has never saved

VARIABLES memory, disk, up

vars == <<memory, disk, up>>

Init == memory = Nothing /\ disk = Nothing /\ up = TRUE

Work == up /\ memory' # memory /\ UNCHANGED <<disk, up>>

Save == up /\ disk' \in {memory, Nothing} /\ UNCHANGED <<memory, up>>

Crash == up /\ up' = FALSE /\ memory' = Nothing /\ UNCHANGED disk

Restart == ~up /\ up' = TRUE /\ memory' = disk /\ UNCHANGED disk

Next == Work \/ Save \/ Crash \/ Restart

Spec == Init /\ [][Next]_vars

=============================================================================
