----------------------------- MODULE MCTxModule -----------------------------
(***************************************************************************)
(* Instances of TxModule for TLC.  The client of the lowest port uses the  *)
(* channel of the sync packets, the others use another one.                *)
(***************************************************************************)
EXTENDS TxModule

MCPortChannel ==
    [p \in Ports |-> IF \A o \in Ports : p <= o THEN SyncChannel ELSE 1]
=============================================================================
