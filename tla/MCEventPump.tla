---------------------------- MODULE MCEventPump -----------------------------
(***************************************************************************)
(* TLC instances of EventPump.                                             *)
(***************************************************************************)
EXTENDS EventPump, TLC

Symmetry == Permutations(Pumps)

=============================================================================
