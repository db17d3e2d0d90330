--------------------------- MODULE MCPacketHeader ---------------------------
(***************************************************************************)
(* Instance of PacketHeader for TLC; the configuration gives the contents  *)
(* of the uninitialised memory and the values of the fields.               *)
(***************************************************************************)
EXTENDS PacketHeader
=============================================================================
