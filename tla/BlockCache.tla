----------------------------- MODULE BlockCache -----------------------------
(***************************************************************************)
(* BlockCache (src/src/block/block_cache.cpp): the LRU-K cache of decoded  *)
(* SST blocks.  Two doubly linked lists hold the items, one for blocks     *)
(* accessed fewer than k_ times since they were cached, one for the rest;  *)
(* a hash map takes a (sst_id, block_id) pair to the list node.  Every     *)
(* public operation holds mutex_ from its first to its last line, so each  *)
(* is one atomic action.                                                   *)
(*                                                                         *)
(* A list iterator is the list it points into together with the key of    *)
(* its node: cache_map[key] names the list, and the node is the one there  *)
(* with that key.  ListsMatchMap says that this node always exists and is  *)
(* unique, that is, that no iterator dangles.                              *)
(***************************************************************************)
EXTENDS Integers, Sequences, FiniteSets

CONSTANTS Keys,          \* (sst_id, block_id) pairs
          Blocks,        \* decoded blocks
          NoBlock,       \* nullptr
          Absent,        \* not a cache entry (refinement mapping only)
          Capacity,      \* capacity_
          K,             \* k_
          MaxRequests,   \* bound on total_requests_ (gets)
          MaxUses        \* bound on the number of hits and puts

(***************************************************************************)
(* The constructor checks neither argument.  With capacity_ = 0 the first  *)
(* put calls back() on an empty list; with k_ = 1 a new item, which enters *)
(* cache_list_less_k with access_count 1, would be spliced as if it were a *)
(* node of the other list.  config.toml and the tests use larger values.   *)
(***************************************************************************)
ASSUME CacheParameters ==
  /\ Capacity \in Nat \ {0}
  /\ K \in Nat \ {0, 1}
  /\ MaxRequests \in Nat
  /\ MaxUses \in Nat

ASSUME NullIsNoBlock == NoBlock \notin Blocks

ASSUME AbsentIsNoEntry == Absent \notin [block : Blocks, uses : Nat, lastUse : Nat]

VARIABLES
  cache_list_less_k,     \* items accessed fewer than k_ times, newest first
  cache_list_greater_k,  \* items accessed at least k_ times, newest first
  cache_map,             \* key -> list its node is in; DOMAIN = the map's keys
  total_requests,
  hit_requests,
  reply,                 \* what the last call of get returned
  \* History variables, read by the properties only:
  lastUse,               \* lastUse[key]: time of the last hit or put of key
  clock                  \* number of hits and puts so far

vars == <<cache_list_less_k, cache_list_greater_k, cache_map, total_requests,
          hit_requests, reply, lastUse, clock>>

-----------------------------------------------------------------------------
\* std::list and std::unordered_map operations.

PosOf(list, key) == CHOOSE i \in 1..Len(list) : list[i].key = key

Erase(list, i) == SubSeq(list, 1, i - 1) \o SubSeq(list, i + 1, Len(list))

\* Mutant: push_back for push_front.
PushBack(list, item) == Append(list, item)

PushFront(list, item) == <<item>> \o list

PopBack(list) == SubSeq(list, 1, Len(list) - 1)

Back(list) == list[Len(list)]

MapErase(map, key) == [other \in DOMAIN map \ {key} |-> map[other]]

\* Mutant: emplace for operator[], which keeps the old iterator of a key.
MapEmplace(map, key, list) ==
  [other \in DOMAIN map \cup {key} |-> IF other \in DOMAIN map THEN map[other] ELSE list]

MapSet(map, key, list) ==
  [other \in DOMAIN map \cup {key} |-> IF other = key THEN list ELSE map[other]]

-----------------------------------------------------------------------------
Init ==
  /\ cache_list_less_k = << >>
  /\ cache_list_greater_k = << >>
  /\ cache_map = [key \in {} |-> "less_k"]
  /\ total_requests = 0
  /\ hit_requests = 0
  /\ reply = NoBlock
  /\ lastUse = [key \in Keys |-> 0]
  /\ clock = 0

Use(key) ==
  /\ clock < MaxUses
  /\ lastUse' = [lastUse EXCEPT ![key] = clock + 1]
  /\ clock' = clock + 1

NodeOf(key) ==
  IF cache_map[key] = "less_k"
    THEN cache_list_less_k[PosOf(cache_list_less_k, key)]
    ELSE cache_list_greater_k[PosOf(cache_list_greater_k, key)]

(***************************************************************************)
(* update_access_count, called with the node's block already assigned: the *)
(* node moves to the front of its list, or of cache_list_greater_k at its  *)
(* k-th access.  splice(dst.begin(), dst, it) moves the node within the    *)
(* list that holds it.                                                     *)
(***************************************************************************)
RefreshInfrequent(item) ==
  /\ item.access_count < K
  /\ cache_list_less_k' =
       PushFront(Erase(cache_list_less_k, PosOf(cache_list_less_k, item.key)), item)
  /\ UNCHANGED <<cache_list_greater_k, cache_map>>

Promote(item) ==
  /\ item.access_count = K
  /\ cache_list_less_k' = Erase(cache_list_less_k, PosOf(cache_list_less_k, item.key))
  /\ cache_list_greater_k' = PushFront(cache_list_greater_k, item)
  /\ cache_map' = MapSet(cache_map, item.key, "greater_k")

RefreshFrequent(item) ==
  /\ item.access_count > K
  /\ cache_list_greater_k' =
       PushFront(Erase(cache_list_greater_k, PosOf(cache_list_greater_k, item.key)), item)
  /\ UNCHANGED <<cache_list_less_k, cache_map>>

UpdateAccessCount(key, block) ==
  LET item == [key |-> key, cache_block |-> block,
               access_count |-> NodeOf(key).access_count + 1]
  IN  RefreshInfrequent(item) \/ Promote(item) \/ RefreshFrequent(item)

-----------------------------------------------------------------------------
CountRequest(hits) ==
  /\ total_requests' = total_requests + 1
  /\ hit_requests' = hit_requests + hits

GetMiss(key) ==
  /\ total_requests < MaxRequests
  /\ key \notin DOMAIN cache_map
  /\ CountRequest(0)
  /\ reply' = NoBlock
  /\ UNCHANGED <<cache_list_less_k, cache_list_greater_k, cache_map, lastUse, clock>>

GetHit(key) ==
  /\ total_requests < MaxRequests
  /\ key \in DOMAIN cache_map
  /\ CountRequest(1)
  /\ UpdateAccessCount(key, NodeOf(key).cache_block)
  /\ reply' = NodeOf(key).cache_block
  /\ Use(key)

\* put on a key that is cached: the node's block is overwritten.
PutExisting(key, block) ==
  /\ key \in DOMAIN cache_map
  /\ UpdateAccessCount(key, block)
  /\ Use(key)
  /\ UNCHANGED <<total_requests, hit_requests, reply>>

\* Mutant: > for >=.
FullLate == Cardinality(DOMAIN cache_map) > Capacity

Full == Cardinality(DOMAIN cache_map) >= Capacity

NewItem(key, block) == [key |-> key, cache_block |-> block, access_count |-> 1]

InsertWithRoom(item) ==
  /\ ~ Full
  /\ cache_list_less_k' = PushFront(cache_list_less_k, item)
  /\ cache_map' = MapSet(cache_map, item.key, "less_k")
  /\ UNCHANGED cache_list_greater_k

\* Mutant: frequently used blocks go first.
VictimListSwapped == IF cache_list_greater_k # << >> THEN "greater_k" ELSE "less_k"

VictimList == IF cache_list_less_k # << >> THEN "less_k" ELSE "greater_k"

(***************************************************************************)
(* A full cache first drops the back of cache_list_less_k, or the back of  *)
(* cache_list_greater_k if the former is empty.                            *)
(***************************************************************************)
EvictInfrequent(item) ==
  /\ Full
  /\ VictimList = "less_k"
  /\ cache_list_less_k' = PushFront(PopBack(cache_list_less_k), item)
  /\ cache_map' =
       MapSet(MapErase(cache_map, Back(cache_list_less_k).key), item.key, "less_k")
  /\ UNCHANGED cache_list_greater_k

EvictFrequent(item) ==
  /\ Full
  /\ VictimList = "greater_k"
  /\ cache_list_less_k' = PushFront(cache_list_less_k, item)
  /\ cache_list_greater_k' = PopBack(cache_list_greater_k)
  /\ cache_map' =
       MapSet(MapErase(cache_map, Back(cache_list_greater_k).key), item.key, "less_k")

PutNew(key, block) ==
  /\ key \notin DOMAIN cache_map
  /\ \/ InsertWithRoom(NewItem(key, block))
     \/ EvictInfrequent(NewItem(key, block))
     \/ EvictFrequent(NewItem(key, block))
  /\ Use(key)
  /\ UNCHANGED <<total_requests, hit_requests, reply>>

Next ==
  \E key \in Keys :
    \/ GetMiss(key)
    \/ GetHit(key)
    \/ \E block \in Blocks : PutExisting(key, block) \/ PutNew(key, block)

Spec == Init /\ [][Next]_vars

-----------------------------------------------------------------------------
\* Properties.

\* list holds exactly the nodes the map's iterators into it lead to, one each.
Indexes(list, name) ==
  /\ \A i \in 1..Len(list) :
       list[i].key \in DOMAIN cache_map /\ cache_map[list[i].key] = name
  /\ \A i, j \in 1..Len(list) : list[i].key = list[j].key => i = j
  /\ \A key \in DOMAIN cache_map :
       cache_map[key] = name => \E i \in 1..Len(list) : list[i].key = key

\* No iterator in cache_map_ dangles and no node is lost or duplicated: put,
\* get, eviction and the move between the lists in update_access_count keep
\* the map and the two lists in step, and an item is in the list of its access
\* count.
ListsMatchMap ==
  /\ Indexes(cache_list_less_k, "less_k")
  /\ Indexes(cache_list_greater_k, "greater_k")
  /\ \A i \in 1..Len(cache_list_less_k) : cache_list_less_k[i].access_count \in 1..K-1
  /\ \A i \in 1..Len(cache_list_greater_k) : cache_list_greater_k[i].access_count >= K

(***************************************************************************)
(* Refinement mapping: an entry is the node the index leads to.            *)
(***************************************************************************)
EntryOf(key) ==
  IF key \in DOMAIN cache_map
    THEN [block   |-> NodeOf(key).cache_block,
          uses    |-> NodeOf(key).access_count,
          lastUse |-> lastUse[key]]
    ELSE Absent

LRUK == INSTANCE LRUKCache
          WITH entry <- [key \in Keys |-> EntryOf(key)], now <- clock

\* The two lists, the map and update_access_count together implement an LRU-K
\* cache: every get answers with the block last put under its key or with
\* nullptr, and what is evicted is the least recently used block among those
\* used fewer than k_ times, or among all if there is none.
ImplementsLRUK == LRUK!Spec
=============================================================================
