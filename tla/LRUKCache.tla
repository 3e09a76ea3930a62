------------------------------ MODULE LRUKCache ------------------------------
(***************************************************************************)
(* What the block cache promises its callers, without lists, iterators or  *)
(* a hash map: a bounded partial function from block ids to blocks that    *)
(* evicts by the LRU-K rule.  An entry knows its block, how often it was   *)
(* used since it was cached and when it was used last.  The block cache    *)
(* (module BlockCache) is shown to implement this specification.           *)
(***************************************************************************)
EXTENDS Integers, FiniteSets

CONSTANTS Keys,       \* (sst_id, block_id) pairs
          Blocks,     \* decoded blocks
          NoBlock,    \* what get returns for a key that is not cached
          Absent,     \* the entry of a key that is not cached
          Capacity,   \* how many blocks may be cached
          K           \* uses after which a block counts as frequently used

VARIABLES entry,      \* entry[key]: the cached entry of key, or Absent
          reply,      \* what the last get returned
          now         \* logical time: one tick per use of a cached block

vars == <<entry, reply, now>>

Entry == [block : Blocks, uses : Nat, lastUse : Nat]

Init ==
  /\ entry = [key \in Keys |-> Absent]
  /\ reply = NoBlock
  /\ now = 0

Cached == {key \in Keys : entry[key] # Absent}

Used(block, uses) == [block |-> block, uses |-> uses, lastUse |-> now + 1]

(***************************************************************************)
(* Blocks used fewer than K times go first; among the candidates, the one  *)
(* whose last use is the oldest.                                           *)
(***************************************************************************)
Infrequent == {key \in Cached : entry[key].uses < K}

Candidates == IF Infrequent # {} THEN Infrequent ELSE Cached

IsVictim(key) ==
  /\ key \in Candidates
  /\ \A other \in Candidates : entry[key].lastUse <= entry[other].lastUse

Miss(key) ==
  /\ entry[key] = Absent
  /\ reply' = NoBlock
  /\ UNCHANGED <<entry, now>>

Hit(key) ==
  /\ entry[key] # Absent
  /\ reply' = entry[key].block
  /\ entry' = [entry EXCEPT ![key] = Used(entry[key].block, entry[key].uses + 1)]
  /\ now' = now + 1

Replace(key, block) ==
  /\ entry[key] # Absent
  /\ entry' = [entry EXCEPT ![key] = Used(block, entry[key].uses + 1)]
  /\ now' = now + 1
  /\ UNCHANGED reply

Insert(key, block) ==
  /\ entry[key] = Absent
  /\ Cardinality(Cached) < Capacity
  /\ entry' = [entry EXCEPT ![key] = Used(block, 1)]
  /\ now' = now + 1
  /\ UNCHANGED reply

EvictAndInsert(key, block, victim) ==
  /\ entry[key] = Absent
  /\ Cardinality(Cached) = Capacity
  /\ IsVictim(victim)
  /\ entry' = [entry EXCEPT ![key] = Used(block, 1), ![victim] = Absent]
  /\ now' = now + 1
  /\ UNCHANGED reply

Next ==
  \E key \in Keys :
    \/ Miss(key)
    \/ Hit(key)
    \/ \E block \in Blocks :
         \/ Replace(key, block)
         \/ Insert(key, block)
         \/ \E victim \in Keys : EvictAndInsert(key, block, victim)

Spec == Init /\ [][Next]_vars
=============================================================================
