-------------------------- MODULE MCPacketHandler --------------------------
(* Instances of PacketHandler for TLC.                                       *)
EXTENDS PacketHandler

\* A SYN, its answer, data, and two bytes no entry of flag_map has: a SYN with
\* a FIN and one without any flag.
SomeFlags == {{"SYN"}, {"SYN", "ACK"}, {"PSH", "ACK"}, {"SYN", "FIN"}, {}}
SynFlags == {{"SYN"}, {"SYN", "ACK"}, {"SYN", "FIN"}}
=============================================================================
