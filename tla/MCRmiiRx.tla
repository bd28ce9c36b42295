------------------------------ MODULE MCRmiiRx ------------------------------
(* Instances of RmiiRx for TLC.                                              *)
EXTENDS RmiiRx

\* Frames of up to 500, of up to 1500 and of more than 1500 bytes.
FittingLengths == {1, 3}
AllLengths == {1, 4}
=============================================================================
