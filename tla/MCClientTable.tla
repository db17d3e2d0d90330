--------------------------- MODULE MCClientTable ---------------------------
(***************************************************************************)
(* Instances of ClientTable for TLC.  All ports but the lowest use the     *)
(* second virtual channel.                                                 *)
(***************************************************************************)
EXTENDS ClientTable

MCPortChannel == [p \in Ports |-> IF p = Lowest(Ports) THEN 0 ELSE 1]
=============================================================================
