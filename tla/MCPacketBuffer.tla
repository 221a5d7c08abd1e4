---------------------------- MODULE MCPacketBuffer ----------------------------
(* Instances of PacketBuffer for TLC; all constants are ordinary values.   *)
EXTENDS PacketBuffer
================================================================================
