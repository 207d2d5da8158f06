----------------------------- MODULE MCPaperGrid ------------------------------
(* Instances of PaperGrid for TLC.                                          *)
EXTENDS PaperGrid, TLC

\* One buy and one sell level.
MCLevels == {-1, 1}

\* No operator tells one symbol from another.
MCSymmetry == Permutations(Symbols)

=============================================================================
