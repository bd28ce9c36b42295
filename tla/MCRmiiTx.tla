------------------------------ MODULE MCRmiiTx ------------------------------
(* Instances of RmiiTx for TLC.                                              *)
EXTENDS RmiiTx

\* A frame to be padded and one that fills the buffer.
CONSTANTS small, large
SmallAndLarge == [f \in {small, large} |-> IF f = small THEN 1 ELSE 3]
=============================================================================
