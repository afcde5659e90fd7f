-------------------------- MODULE MCControlManager --------------------------
(* ControlManager for TLC. *)
EXTENDS ControlManager, TLC

\* Login attempts and run ids are interchangeable (safety runs only).
Symmetry == Permutations(Ctl) \cup Permutations(RunID)
=============================================================================
