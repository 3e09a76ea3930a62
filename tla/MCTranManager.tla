---------------------------- MODULE MCTranManager ----------------------------
(***************************************************************************)
(* The transaction manager on small instances.  The .cfg files differ in   *)
(* the isolation levels in use and in the number of crashes.               *)
(***************************************************************************)
EXTENDS TranManager
=============================================================================
