-------------------------- MODULE MCPacketStreaming --------------------------
(* An instance of PacketStreaming for TLC: the packet v, too large to be   *)
(* cached, and its domain packet d.                                        *)
EXTENDS PacketStreaming, TLC

CONSTANTS v, d
MCDomainOf == [p \in Packets |-> IF p = v THEN d ELSE NoPacket]
MCPayload == [p \in Packets |-> IF p = v THEN 3 ELSE 1]
MCSymmetry == Permutations(Signals)
================================================================================
