---------------------------- MODULE MCEventStore ----------------------------
(***************************************************************************)
(* TLC instances of EventStore.                                            *)
(***************************************************************************)
EXTENDS EventStore

\* Consumers, housekeeping calls and dedupe keys are interchangeable.
Symmetry == Permutations(Consumers) \cup Permutations(Runs) \cup Permutations(Keys)
=============================================================================
