----------------------------- MODULE MCLiveTrading -----------------------------
(* Instances of LiveTrading for TLC.                                        *)
EXTENDS LiveTrading, TLC

\* No operator tells one symbol from another.
MCSymmetry == Permutations(Symbols)

=============================================================================
