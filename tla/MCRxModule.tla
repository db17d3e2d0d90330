----------------------------- MODULE MCRxModule -----------------------------
(***************************************************************************)
(* Instances of RxModule for TLC; the configurations give the constants.   *)
(***************************************************************************)
EXTENDS RxModule
=============================================================================
