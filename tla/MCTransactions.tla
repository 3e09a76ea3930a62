--------------------------- MODULE MCTransactions ---------------------------
(***************************************************************************)
(* Transactions on a small instance: three mixes of writers, which between *)
(* them use every isolation level, on two interchangeable keys, or on one  *)
(* where transactions write through.                                       *)
(***************************************************************************)
EXTENDS Transactions, TLC

SomeMixes ==
  {[writers |-> {"RC", "RR", "plain"}, keys |-> Keys],
   [writers |-> {"RR", "SER"}, keys |-> Keys]}
    \cup {[writers |-> {"RU", "RR", "plain"}, keys |-> {key}] : key \in Keys}

KeySymmetry == Permutations(Keys)
=============================================================================
