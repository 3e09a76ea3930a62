----------------------------- MODULE MCSkipList -----------------------------
(***************************************************************************)
(* The skip list on small instances: two keys (the strings of length one   *)
(* and two), two transactions, towers of up to two levels.                 *)
(***************************************************************************)
EXTENDS SkipList
=============================================================================
