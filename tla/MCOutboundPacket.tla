--------------------------- MODULE MCOutboundPacket ---------------------------
(***************************************************************************)
(* TLC instance of OutboundPacket.                                         *)
(***************************************************************************)
EXTENDS OutboundPacket

MCAddressLengths == {3, 4}
MCStringLengths  == {4}
MCBlobSizes      == {9}
====
