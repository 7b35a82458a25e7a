------------------------------ MODULE MCWorker ------------------------------
(***************************************************************************)
(* Instances of Worker for TLC.                                            *)
(***************************************************************************)
EXTENDS Worker, TLC

\* Events are interchangeable; sound for runs without liveness.
EventSymmetry == Permutations(Event)

=============================================================================
