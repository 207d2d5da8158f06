----------------------------- MODULE MCSupervisor -----------------------------
(* Instances of Supervisor for TLC.                                         *)
EXTENDS Supervisor

\* Every child may die by itself.
MCFaulty == Procs

=============================================================================
