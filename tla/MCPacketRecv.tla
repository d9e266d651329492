----------------------------- MODULE MCPacketRecv -----------------------------
(* PacketRecv with the real header sizes and short bodies. *)
EXTENDS PacketRecv

AllLengths == {7, 8, 9, 12, 13}
ValidLengths == {8, 9, 11}
=============================================================================
