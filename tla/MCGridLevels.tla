----------------------------- MODULE MCGridLevels -----------------------------
(* Instances of GridLevels for TLC.                                         *)
EXTENDS GridLevels, TLC

\* No operator tells one symbol from another.
MCSymmetry == Permutations(Symbols)

=============================================================================
