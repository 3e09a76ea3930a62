----------------------------- MODULE MCReadPath -----------------------------
(***************************************************************************)
(* The block cache with three block ids that compete for two places, where *)
(* K = 3 is reached and passed within MaxUses hits and puts; and all scans *)
(* of small databases: up to four keys with up to two versions each over   *)
(* two SSTs of up to three blocks; three keys for searches and for the     *)
(* merge of two iterators; two versions of two keys in two merged tables;  *)
(* two versions of two keys in four sources.                               *)
(***************************************************************************)
EXTENDS ReadPath
=============================================================================
