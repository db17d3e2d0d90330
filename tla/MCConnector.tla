---------------------------- MODULE MCConnector ----------------------------
(***************************************************************************)
(* Instances of Connector for TLC; the configurations give the constants.   *)
(***************************************************************************)
EXTENDS Connector
=============================================================================
