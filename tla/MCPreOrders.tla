------------------------------ MODULE MCPreOrders ------------------------------
(* Instances of PreOrders for TLC.                                          *)
EXTENDS PreOrders

\* A buy and a sell level.
MCLevels == {-1, 1}

=============================================================================
