------------------------------ MODULE MCSdCard ------------------------------
(* Instances of SdCard for TLC.                                              *)
EXTENDS SdCard

AllKinds == {"V1", "V2", "V2HC"}
=============================================================================
