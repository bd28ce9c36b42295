--------------------------- MODULE MCSpiTransfer ---------------------------
(* Instances of SpiTransfer for TLC: blocks of a few elements stand for 512, *)
(* and a FIFO shorter than the block for the 8-entry FIFOs of the SPI.       *)
EXTENDS SpiTransfer
=============================================================================
