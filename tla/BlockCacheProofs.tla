-------------------------- MODULE BlockCacheProofs --------------------------
(***************************************************************************)
(* Proofs about BlockCache, for every set of keys and blocks, every        *)
(* capacity and every k_: the map and the two lists stay in step, and      *)
(* together they implement the LRU-K cache of module LRUKCache.            *)
(***************************************************************************)
EXTENDS BlockCache, TLAPS, SequenceTheorems, FiniteSetTheorems

Item == [key : Keys, cache_block : Blocks, access_count : Nat]

(***************************************************************************)
(* list has one node for each key of S, the one used last in front.        *)
(***************************************************************************)
Lists(list, S, use) ==
  /\ list \in Seq(Item)
  /\ \A i \in 1..Len(list) : list[i].key \in S
  /\ \A k \in S : \E i \in 1..Len(list) : list[i].key = k
  /\ \A i, j \in 1..Len(list) : i < j => use[list[j].key] < use[list[i].key]

Node(list, k) == list[PosOf(list, k)]

\* item, whose key is not in list, is pushed to the front after a use of it has
\* turned use into use2.
Pushes(item, list, S, use, use2) ==
  /\ item \in Item /\ item.key \notin S
  /\ use \in [Keys -> Nat] /\ use2 \in [Keys -> Nat]
  /\ Lists(list, S, use)
  /\ \A k \in S : use2[k] = use[k] /\ use[k] < use2[item.key]

\* new has item and what list had.
Pushed(new, item, list, S, use2) ==
  /\ Lists(new, S \cup {item.key}, use2)
  /\ Node(new, item.key) = item
  /\ \A k \in S : Node(new, k) = Node(list, k)

-----------------------------------------------------------------------------
\* The operations of std::list.

\* push_front.
LEMMA PushFrontElements ==
  ASSUME NEW list \in Seq(Item), NEW item \in Item
  PROVE  /\ PushFront(list, item) \in Seq(Item)
         /\ Len(PushFront(list, item)) = Len(list) + 1
         /\ PushFront(list, item)[1] = item
         /\ \A i \in 1..Len(list) : PushFront(list, item)[i + 1] = list[i]
BY DEF PushFront

\* erase of the node at position p.
LEMMA EraseElements ==
  ASSUME NEW list \in Seq(Item), NEW p \in 1..Len(list)
  PROVE  /\ Erase(list, p) \in Seq(Item)
         /\ Len(Erase(list, p)) = Len(list) - 1
         /\ \A i \in 1..(Len(list) - 1) :
              Erase(list, p)[i] = IF i < p THEN list[i] ELSE list[i + 1]
<1> DEFINE front == SubSeq(list, 1, p - 1)
           rest == SubSeq(list, p + 1, Len(list))
<1>1. Len(list) \in Nat /\ \A i \in 1..Len(list) : list[i] \in Item
  OBVIOUS
<1>2. /\ front \in Seq(Item) /\ Len(front) = p - 1
      /\ \A i \in 1..(p - 1) : front[i] = list[i]
  BY <1>1
<1>3. /\ rest \in Seq(Item) /\ Len(rest) = Len(list) - p
      /\ \A i \in 1..(Len(list) - p) : rest[i] = list[p + i]
  BY <1>1
<1> HIDE DEF front, rest
<1>4. /\ front \o rest \in Seq(Item)
      /\ Len(front \o rest) = Len(front) + Len(rest)
      /\ \A i \in 1..Len(front) + Len(rest) :
           (front \o rest)[i] = IF i <= Len(front) THEN front[i] ELSE rest[i - Len(front)]
  BY <1>2, <1>3, ConcatProperties
<1>5. Erase(list, p) = front \o rest
  BY DEF Erase, front, rest
<1>6. ASSUME NEW i \in 1..(Len(list) - 1)
      PROVE  (front \o rest)[i] = IF i < p THEN list[i] ELSE list[i + 1]
  <2>1. CASE i < p
    <3>1. i \in 1..(p - 1) /\ i <= Len(front) /\ i \in 1..Len(front) + Len(rest)
      BY <1>1, <1>2, <1>3, <2>1
    <3> QED
      BY <3>1, <1>2, <1>4, <2>1
  <2>2. CASE ~ (i < p)
    <3>1. /\ i - (p - 1) \in 1..(Len(list) - p) /\ ~ (i <= Len(front))
          /\ i \in 1..Len(front) + Len(rest) /\ p + (i - (p - 1)) = i + 1
      BY <1>1, <1>2, <1>3, <2>2
    <3>2. (front \o rest)[i] = rest[i - (p - 1)]
      BY <3>1, <1>2, <1>4
    <3>3. rest[i - (p - 1)] = list[p + (i - (p - 1))]
      BY <3>1, <1>3
    <3> QED
      BY <3>1, <3>2, <3>3, <2>2
  <2> QED
    BY <2>1, <2>2
<1>7. Len(front \o rest) = Len(list) - 1
  BY <1>1, <1>2, <1>3, <1>4
<1> QED
  BY <1>4, <1>5, <1>6, <1>7

\* pop_back removes the last node.
LEMMA PopBackErases ==
  ASSUME NEW list \in Seq(Item), list # << >>
  PROVE  /\ PopBack(list) = Erase(list, Len(list))
         /\ Len(list) \in 1..Len(list)
<1>1. Len(list) \in Nat \ {0}
  BY EmptySeq
<1>2. SubSeq(list, Len(list) + 1, Len(list)) = << >>
  BY <1>1, SubSeqEmpty
<1>3. SubSeq(list, 1, Len(list) - 1) \in Seq(Item)
  BY <1>1
<1> QED
  BY <1>1, <1>2, <1>3, ConcatEmptySeq DEF PopBack, Erase

\* In a list without duplicates a key leads to its one node.
LEMMA NodeUnique ==
  ASSUME NEW S, NEW use \in [Keys -> Nat], NEW list, Lists(list, S, use),
         NEW i \in 1..Len(list)
  PROVE  PosOf(list, list[i].key) = i
<1>1. \A j \in 1..Len(list) : list[j] \in Item
  BY DEF Lists
<1>2. \A j \in 1..Len(list) : list[j].key = list[i].key => j = i
  BY <1>1 DEF Lists, Item
<1> QED
  BY <1>2 DEF PosOf

\* Every key of a list has a node.
LEMMA NodeExists ==
  ASSUME NEW S, NEW use \in [Keys -> Nat], NEW list, Lists(list, S, use),
         NEW k \in S
  PROVE  /\ PosOf(list, k) \in 1..Len(list)
         /\ Node(list, k) \in Item
         /\ Node(list, k).key = k
         /\ Node(list, k) = list[PosOf(list, k)]
<1>1. PICK i \in 1..Len(list) : list[i].key = k
  BY DEF Lists
<1>2. PosOf(list, k) = i
  BY <1>1, NodeUnique
<1> QED
  BY <1>1, <1>2 DEF Node, Lists

\* A node pushed in front is found, and so are the others.
LEMMA PushFrontLists ==
  ASSUME NEW item, NEW list, NEW S, NEW use, NEW use2,
         Pushes(item, list, S, use, use2)
  PROVE  Pushed(PushFront(list, item), item, list, S, use2)
<1> USE DEF Pushes
<1> DEFINE new == PushFront(list, item)
<1>1. list \in Seq(Item)
  BY DEF Lists
<1>2. /\ new \in Seq(Item)
      /\ Len(new) = Len(list) + 1
      /\ new[1] = item
      /\ \A i \in 1..Len(list) : new[i + 1] = list[i]
  BY <1>1, PushFrontElements
<1> HIDE DEF new
<1>3. \A i \in 1..Len(new) : i # 1 => i - 1 \in 1..Len(list) /\ new[i] = list[i - 1]
  <2>1. SUFFICES ASSUME NEW i \in 1..Len(new), i # 1
                 PROVE  i - 1 \in 1..Len(list) /\ new[i] = list[i - 1]
    OBVIOUS
  <2>2. i - 1 \in 1..Len(list)
    BY <1>1, <1>2, <2>1
  <2>3. new[(i - 1) + 1] = list[i - 1]
    BY <1>2, <2>2
  <2> QED
    BY <2>1, <2>2, <2>3
<1>4. 1 \in 1..Len(new) /\ \A i \in 1..Len(list) : i + 1 \in 1..Len(new)
  BY <1>1, <1>2
<1>5. Lists(new, S \cup {item.key}, use2)
  <2>1. \A i \in 1..Len(new) : new[i].key \in S \cup {item.key}
    BY <1>2, <1>3 DEF Lists
  <2>2. \A k \in S \cup {item.key} : \E i \in 1..Len(new) : new[i].key = k
    <3>1. SUFFICES ASSUME NEW k \in S
                   PROVE  \E i \in 1..Len(new) : new[i].key = k
      BY <1>2, <1>4
    <3>2. PICK i \in 1..Len(list) : list[i].key = k
      BY DEF Lists
    <3> QED
      BY <3>2, <1>2, <1>4
  <2>3. ASSUME NEW i \in 1..Len(new), NEW j \in 1..Len(new), i < j
        PROVE  use2[new[j].key] < use2[new[i].key]
    <3>1. j - 1 \in 1..Len(list) /\ new[j] = list[j - 1]
      BY <1>2, <1>3, <2>3
    <3>2. CASE i = 1
      BY <3>1, <3>2, <1>2 DEF Lists
    <3>3. CASE i # 1
      <4>1. i - 1 \in 1..Len(list) /\ new[i] = list[i - 1] /\ i - 1 < j - 1
        BY <1>2, <1>3, <2>3, <3>3
      <4> QED
        BY <4>1, <3>1 DEF Lists
    <3> QED
      BY <3>2, <3>3
  <2> QED
    BY <1>2, <2>1, <2>2, <2>3 DEF Lists
<1>6. Node(new, item.key) = item
  BY <1>2, <1>4, <1>5, NodeUnique DEF Node
<1>7. ASSUME NEW k \in S
      PROVE  Node(new, k) = Node(list, k)
  <2>1. PICK i \in 1..Len(list) : list[i].key = k
    BY DEF Lists
  <2>2. Node(list, k) = list[i]
    BY <2>1, NodeUnique DEF Node
  <2>3. i + 1 \in 1..Len(new) /\ new[i + 1] = list[i]
    BY <1>2, <1>4
  <2>4. Node(new, new[i + 1].key) = new[i + 1]
    BY <2>3, <1>5, NodeUnique DEF Node
  <2> QED
    BY <2>1, <2>2, <2>3, <2>4
<1> QED
  BY <1>5, <1>6, <1>7 DEF new, Pushed

\* Erasing a node leaves the others where they are found.
LEMMA EraseLists ==
  ASSUME NEW S, NEW use \in [Keys -> Nat], NEW list, Lists(list, S, use),
         NEW p \in 1..Len(list)
  PROVE  /\ Lists(Erase(list, p), S \ {list[p].key}, use)
         /\ \A k \in S \ {list[p].key} : Node(Erase(list, p), k) = Node(list, k)
<1> DEFINE new == Erase(list, p)
           From(i) == IF i < p THEN i ELSE i + 1
<1>1. list \in Seq(Item) /\ Len(list) \in Nat
  BY DEF Lists
<1>2. /\ new \in Seq(Item)
      /\ Len(new) = Len(list) - 1
      /\ \A i \in 1..Len(new) : new[i] = list[From(i)]
  BY <1>1, EraseElements
<1> HIDE DEF new
<1>3. \A i \in 1..Len(new) : From(i) \in 1..Len(list) /\ From(i) # p
  BY <1>1, <1>2
<1>4. \A i, j \in 1..Len(new) : i < j => From(i) < From(j)
  BY <1>1, <1>2
<1>5. ASSUME NEW i \in 1..Len(list), i # p
      PROVE  \E j \in 1..Len(new) : From(j) = i
  <2>1. CASE i < p
    <3>1. i \in 1..Len(new) /\ From(i) = i
      BY <1>1, <1>2, <1>5, <2>1
    <3> QED
      BY <3>1
  <2>2. CASE ~ (i < p)
    <3>1. i - 1 \in 1..Len(new) /\ From(i - 1) = i
      BY <1>1, <1>2, <1>5, <2>2
    <3> QED
      BY <3>1
  <2> QED
    BY <2>1, <2>2
<1> HIDE DEF From
<1>6. Lists(new, S \ {list[p].key}, use)
  <2>1. \A i \in 1..Len(new) : new[i].key \in S \ {list[p].key}
    <3>1. SUFFICES ASSUME NEW i \in 1..Len(new)
                   PROVE  new[i].key \in S \ {list[p].key}
      OBVIOUS
    <3>2. From(i) \in 1..Len(list) /\ From(i) # p /\ new[i] = list[From(i)]
      BY <1>2, <1>3
    <3>3. PosOf(list, list[From(i)].key) = From(i) /\ PosOf(list, list[p].key) = p
      BY <3>2, NodeUnique
    <3> QED
      BY <3>2, <3>3 DEF Lists
  <2>2. ASSUME NEW k \in S, k # list[p].key
        PROVE  \E i \in 1..Len(new) : new[i].key = k
    <3>1. PICK i \in 1..Len(list) : list[i].key = k
      BY DEF Lists
    <3>2. PICK j \in 1..Len(new) : From(j) = i
      BY <1>5, <2>2, <3>1
    <3> QED
      BY <1>2, <3>1, <3>2
  <2>3. \A i, j \in 1..Len(new) : i < j => use[new[j].key] < use[new[i].key]
    BY <1>2, <1>3, <1>4 DEF Lists
  <2> QED
    BY <1>2, <2>1, <2>2, <2>3 DEF Lists
<1>7. ASSUME NEW k \in S \ {list[p].key}
      PROVE  Node(new, k) = Node(list, k)
  <2>1. PICK i \in 1..Len(list) : list[i].key = k
    BY DEF Lists
  <2>2. PICK j \in 1..Len(new) : From(j) = i
    BY <1>5, <1>7, <2>1
  <2>3. new[j] = list[i]
    BY <1>2, <2>2
  <2>4. Node(new, new[j].key) = new[j] /\ Node(list, list[i].key) = list[i]
    BY <1>6, NodeUnique DEF Node
  <2> QED
    BY <2>1, <2>3, <2>4
<1> QED
  BY <1>6, <1>7 DEF new

\* The same, said of the key whose node goes.
LEMMA EraseKeyLists ==
  ASSUME NEW S, NEW use \in [Keys -> Nat], NEW list, Lists(list, S, use),
         NEW key \in S
  PROVE  /\ Lists(Erase(list, PosOf(list, key)), S \ {key}, use)
         /\ \A k \in S \ {key} : Node(Erase(list, PosOf(list, key)), k) = Node(list, k)
<1>1. PICK p \in 1..Len(list) : p = PosOf(list, key) /\ list[p].key = key
  BY NodeExists
<1>2. /\ Lists(Erase(list, p), S \ {list[p].key}, use)
      /\ \A k \in S \ {list[p].key} : Node(Erase(list, p), k) = Node(list, k)
  BY EraseLists
<1> QED
  BY <1>1, <1>2

\* pop_back drops the node that was used least recently.
LEMMA PopBackLists ==
  ASSUME NEW S, NEW use \in [Keys -> Nat], NEW list, Lists(list, S, use),
         list # << >>
  PROVE  /\ Back(list).key \in S /\ Back(list).key \in Keys
         /\ \A k \in S : use[Back(list).key] <= use[k]
         /\ Lists(PopBack(list), S \ {Back(list).key}, use)
         /\ \A k \in S \ {Back(list).key} : Node(PopBack(list), k) = Node(list, k)
<1>1. PICK p \in 1..Len(list) : p = Len(list) /\ PopBack(list) = Erase(list, p)
  BY PopBackErases DEF Lists
<1>2. /\ Lists(Erase(list, p), S \ {list[p].key}, use)
      /\ \A k \in S \ {list[p].key} : Node(Erase(list, p), k) = Node(list, k)
  BY EraseLists
<1>3. \A i \in 1..Len(list) : list[i].key \in S /\ list[i].key \in Keys
  <2>1. \A i \in 1..Len(list) : list[i] \in Item /\ list[i].key \in S
    BY DEF Lists
  <2> QED
    BY <2>1 DEF Item
<1>4. ASSUME NEW k \in S
      PROVE  use[list[p].key] <= use[k]
  <2>1. PICK i \in 1..Len(list) : list[i].key = k
    BY DEF Lists
  <2>2. i = p \/ i < p
    BY <1>1
  <2>3. use[k] \in Nat /\ use[list[p].key] \in Nat
    BY <1>3, <2>1
  <2>4. i < p => use[list[p].key] < use[list[i].key]
    BY DEF Lists
  <2> QED
    BY <2>1, <2>2, <2>3, <2>4
<1> QED
  BY <1>1, <1>2, <1>3, <1>4 DEF Back

\* The order of a list is about the keys in it only.
LEMMA ListsAgree ==
  ASSUME NEW S, NEW use, NEW use2, NEW list, Lists(list, S, use),
         \A k \in S : use2[k] = use[k]
  PROVE  Lists(list, S, use2)
BY DEF Lists

-----------------------------------------------------------------------------
\* The inductive invariant.

Held(name) == {key \in DOMAIN cache_map : cache_map[key] = name}

TypeInv ==
  /\ DOMAIN cache_map \subseteq Keys
  /\ cache_map \in [DOMAIN cache_map -> {"less_k", "greater_k"}]
  /\ lastUse \in [Keys -> Nat]
  /\ clock \in Nat

\* A list orders the keys the map leads into it by their last use.
ListsInv ==
  /\ Lists(cache_list_less_k, Held("less_k"), lastUse)
  /\ Lists(cache_list_greater_k, Held("greater_k"), lastUse)

CountsInv ==
  /\ \A k \in Held("less_k") : Node(cache_list_less_k, k).access_count \in 1..K-1
  /\ \A k \in Held("greater_k") : Node(cache_list_greater_k, k).access_count >= K

UsesInv == \A k \in Keys : lastUse[k] <= clock

RoomInv == IsFiniteSet(DOMAIN cache_map) /\ Cardinality(DOMAIN cache_map) <= Capacity

IInv == TypeInv /\ ListsInv /\ CountsInv /\ UsesInv /\ RoomInv

\* Afterwards the node of key is item, gone is not cached and nothing else has
\* changed.
Becomes(key, item, gone) ==
  /\ DOMAIN cache_map' = (DOMAIN cache_map \ gone) \cup {key}
  /\ NodeOf(key)' = item
  /\ \A k \in DOMAIN cache_map \ (gone \cup {key}) : NodeOf(k)' = NodeOf(k)

\* A cached key is in one list, and its node is found there.
LEMMA NodeOfKey ==
  ASSUME IInv, NEW k \in DOMAIN cache_map
  PROVE  /\ k \in Keys
         /\ NodeOf(k) \in Item /\ NodeOf(k).key = k
         /\ \/ k \in Held("less_k") /\ k \notin Held("greater_k")
               /\ NodeOf(k) = Node(cache_list_less_k, k)
               /\ NodeOf(k).access_count \in 1..K-1
            \/ k \in Held("greater_k") /\ k \notin Held("less_k")
               /\ NodeOf(k) = Node(cache_list_greater_k, k)
               /\ NodeOf(k).access_count >= K
<1>1. k \in Keys /\ cache_map[k] \in {"less_k", "greater_k"} /\ lastUse \in [Keys -> Nat]
  BY DEF IInv, TypeInv
<1>2. CASE cache_map[k] = "less_k"
  <2>1. k \in Held("less_k") /\ k \notin Held("greater_k")
    BY <1>2 DEF Held
  <2>2. NodeOf(k) = Node(cache_list_less_k, k)
    BY <1>2 DEF NodeOf, Node
  <2>3. Node(cache_list_less_k, k) \in Item /\ Node(cache_list_less_k, k).key = k
    BY <1>1, <2>1, NodeExists DEF IInv, ListsInv
  <2> QED
    BY <1>1, <2>1, <2>2, <2>3 DEF IInv, CountsInv
<1>3. CASE cache_map[k] = "greater_k"
  <2>1. k \in Held("greater_k") /\ k \notin Held("less_k")
    BY <1>3 DEF Held
  <2>2. NodeOf(k) = Node(cache_list_greater_k, k)
    BY <1>3 DEF NodeOf, Node
  <2>3. Node(cache_list_greater_k, k) \in Item /\ Node(cache_list_greater_k, k).key = k
    BY <1>1, <2>1, NodeExists DEF IInv, ListsInv
  <2> QED
    BY <1>1, <2>1, <2>2, <2>3 DEF IInv, CountsInv
<1> QED
  BY <1>1, <1>2, <1>3

\* A use makes its key the one used last.
LEMMA UseEffect ==
  ASSUME IInv, NEW key \in Keys, Use(key)
  PROVE  /\ lastUse' \in [Keys -> Nat] /\ clock' = clock + 1 /\ clock' \in Nat
         /\ lastUse'[key] = clock + 1
         /\ \A k \in Keys : k # key => lastUse'[k] = lastUse[k]
         /\ \A k \in Keys : lastUse[k] < lastUse'[key]
         /\ UsesInv'
BY DEF IInv, TypeInv, UsesInv, Use

\* update_access_count moves the node of a cached key to the front of its list,
\* or of the other one, with the new block and one more access.
LEMMA UpdateEffect ==
  ASSUME IInv, NEW key \in DOMAIN cache_map, NEW block \in Blocks,
         UpdateAccessCount(key, block), Use(key)
  PROVE  /\ IInv'
         /\ Becomes(key, [key |-> key, cache_block |-> block,
                          access_count |-> NodeOf(key).access_count + 1], {})
<1> DEFINE item == [key |-> key, cache_block |-> block,
                    access_count |-> NodeOf(key).access_count + 1]
           less == cache_list_less_k
           greater == cache_list_greater_k
<1>k. K \in Nat /\ K >= 2
  BY CacheParameters
<1>1. /\ key \in Keys /\ NodeOf(key) \in Item
      /\ NodeOf(key).access_count \in Nat
  BY NodeOfKey DEF Item
<1>2. item \in Item /\ item.key = key /\ item.access_count = NodeOf(key).access_count + 1
  BY <1>1 DEF Item
<1>3. /\ lastUse' \in [Keys -> Nat] /\ clock' \in Nat
      /\ \A k \in Keys : k # key => lastUse'[k] = lastUse[k]
      /\ \A k \in Keys : lastUse[k] < lastUse'[key]
      /\ UsesInv'
  BY <1>1, UseEffect
<1>4. /\ lastUse \in [Keys -> Nat] /\ Held("less_k") \subseteq Keys
      /\ Held("greater_k") \subseteq Keys
      /\ Lists(less, Held("less_k"), lastUse)
      /\ Lists(greater, Held("greater_k"), lastUse)
  BY DEF IInv, TypeInv, ListsInv, Held
<1>5. RefreshInfrequent(item) \/ Promote(item) \/ RefreshFrequent(item)
  BY DEF UpdateAccessCount
<1> HIDE DEF item
<1>6. CASE RefreshInfrequent(item)
  <2>1. key \in Held("less_k") /\ key \notin Held("greater_k")
    BY <1>k, <1>1, <1>2, <1>6, NodeOfKey DEF RefreshInfrequent
  <2> DEFINE p == PosOf(less, key)
             S == Held("less_k") \ {key}
  <2>2. Lists(Erase(less, p), S, lastUse) /\ \A k \in S : Node(Erase(less, p), k) = Node(less, k)
    BY <1>4, <2>1, EraseKeyLists
  <2>3. less' = PushFront(Erase(less, p), item) /\ UNCHANGED <<greater, cache_map>>
    BY <1>2, <1>6 DEF RefreshInfrequent
  <2>4. key \notin S /\ \A k \in S : lastUse'[k] = lastUse[k] /\ lastUse[k] < lastUse'[key]
    BY <1>3, <1>4
  <2> HIDE DEF p, S
  <2>5. /\ Lists(less', S \cup {key}, lastUse')
        /\ Node(less', key) = item
        /\ \A k \in S : Node(less', k) = Node(less, k)
    <3>1. Pushes(item, Erase(less, p), S, lastUse, lastUse')
      BY <1>2, <1>3, <1>4, <2>2, <2>4 DEF Pushes
    <3>2. Pushed(PushFront(Erase(less, p), item), item, Erase(less, p), S, lastUse')
      BY <3>1, PushFrontLists
    <3> QED
      BY <1>2, <3>2, <2>2, <2>3 DEF Pushed
  <2>6. /\ Held("less_k")' = Held("less_k") /\ Held("greater_k")' = Held("greater_k")
        /\ S \cup {key} = Held("less_k")
    BY <2>1, <2>3 DEF Held, S
  <2>7. Lists(greater', Held("greater_k")', lastUse')
    BY <1>3, <1>4, <2>1, <2>3, <2>6, ListsAgree
  <2>8. CountsInv'
    <3>1. item.access_count \in 1..K-1
      BY <1>k, <1>1, <1>2, <1>6 DEF RefreshInfrequent
    <3> QED
      BY <3>1, <2>3, <2>5, <2>6 DEF IInv, CountsInv, S
  <2>9. IInv'
    BY <1>3, <2>3, <2>5, <2>6, <2>7, <2>8 DEF IInv, TypeInv, ListsInv, RoomInv
  <2>10. Becomes(key, item, {})
    BY <2>1, <2>3, <2>5 DEF Becomes, NodeOf, Node, S, Held
  <2> QED
    BY <2>9, <2>10 DEF item
<1>7. CASE Promote(item)
  <2>1. key \in Held("less_k") /\ key \notin Held("greater_k")
    BY <1>k, <1>1, <1>2, <1>7, NodeOfKey DEF Promote
  <2> DEFINE p == PosOf(less, key)
             S == Held("less_k") \ {key}
  <2>2. Lists(Erase(less, p), S, lastUse) /\ \A k \in S : Node(Erase(less, p), k) = Node(less, k)
    BY <1>4, <2>1, EraseKeyLists
  <2>3. /\ less' = Erase(less, p) /\ greater' = PushFront(greater, item)
        /\ cache_map' = MapSet(cache_map, key, "greater_k")
    BY <1>2, <1>7 DEF Promote
  <2>4. /\ \A k \in S : lastUse'[k] = lastUse[k]
        /\ Pushes(item, greater, Held("greater_k"), lastUse, lastUse')
    BY <1>2, <1>3, <1>4, <2>1 DEF Pushes
  <2> HIDE DEF p, S
  <2>5. /\ Lists(greater', Held("greater_k") \cup {key}, lastUse')
        /\ Node(greater', key) = item
        /\ \A k \in Held("greater_k") : Node(greater', k) = Node(greater, k)
    <3>1. Pushed(PushFront(greater, item), item, greater, Held("greater_k"), lastUse')
      BY <2>4, PushFrontLists
    <3> QED
      BY <1>2, <3>1, <2>3 DEF Pushed
  <2>6. /\ Held("less_k")' = S /\ Held("greater_k")' = Held("greater_k") \cup {key}
        /\ DOMAIN cache_map' = DOMAIN cache_map
        /\ cache_map' \in [DOMAIN cache_map' -> {"less_k", "greater_k"}]
    BY <2>1, <2>3 DEF Held, S, MapSet, IInv, TypeInv
  <2>7. Lists(less', Held("less_k")', lastUse') /\ \A k \in S : Node(less', k) = Node(less, k)
    BY <2>2, <2>3, <2>4, <2>6, ListsAgree
  <2>8. CountsInv'
    <3>1. item.access_count >= K
      BY <1>k, <1>1, <1>2, <1>7 DEF Promote
    <3> QED
      BY <3>1, <2>5, <2>6, <2>7 DEF IInv, CountsInv, S
  <2>9. IInv'
    BY <1>3, <2>5, <2>6, <2>7, <2>8 DEF IInv, TypeInv, ListsInv, RoomInv
  <2>10. Becomes(key, item, {})
    BY <2>1, <2>3, <2>5, <2>6, <2>7 DEF Becomes, NodeOf, Node, S, Held, IInv, TypeInv
  <2> QED
    BY <2>9, <2>10 DEF item
<1>8. CASE RefreshFrequent(item)
  <2>1. key \in Held("greater_k") /\ key \notin Held("less_k")
    BY <1>k, <1>1, <1>2, <1>8, NodeOfKey DEF RefreshFrequent
  <2> DEFINE p == PosOf(greater, key)
             S == Held("greater_k") \ {key}
  <2>2. /\ Lists(Erase(greater, p), S, lastUse)
        /\ \A k \in S : Node(Erase(greater, p), k) = Node(greater, k)
    BY <1>4, <2>1, EraseKeyLists
  <2>3. greater' = PushFront(Erase(greater, p), item) /\ UNCHANGED <<less, cache_map>>
    BY <1>2, <1>8 DEF RefreshFrequent
  <2>4. key \notin S /\ \A k \in S : lastUse'[k] = lastUse[k] /\ lastUse[k] < lastUse'[key]
    BY <1>3, <1>4
  <2> HIDE DEF p, S
  <2>5. /\ Lists(greater', S \cup {key}, lastUse')
        /\ Node(greater', key) = item
        /\ \A k \in S : Node(greater', k) = Node(greater, k)
    <3>1. Pushes(item, Erase(greater, p), S, lastUse, lastUse')
      BY <1>2, <1>3, <1>4, <2>2, <2>4 DEF Pushes
    <3>2. Pushed(PushFront(Erase(greater, p), item), item, Erase(greater, p), S, lastUse')
      BY <3>1, PushFrontLists
    <3> QED
      BY <1>2, <3>2, <2>2, <2>3 DEF Pushed
  <2>6. /\ Held("less_k")' = Held("less_k") /\ Held("greater_k")' = Held("greater_k")
        /\ S \cup {key} = Held("greater_k")
    BY <2>1, <2>3 DEF Held, S
  <2>7. Lists(less', Held("less_k")', lastUse')
    BY <1>3, <1>4, <2>1, <2>3, <2>6, ListsAgree
  <2>8. CountsInv'
    <3>1. item.access_count >= K
      BY <1>k, <1>1, <1>2, <1>8 DEF RefreshFrequent
    <3> QED
      BY <3>1, <2>3, <2>5, <2>6 DEF IInv, CountsInv, S
  <2>9. IInv'
    BY <1>3, <2>3, <2>5, <2>6, <2>7, <2>8 DEF IInv, TypeInv, ListsInv, RoomInv
  <2>10. Becomes(key, item, {})
    BY <2>1, <2>3, <2>5, <2>6 DEF Becomes, NodeOf, Node, S, Held, IInv, TypeInv
  <2> QED
    BY <2>9, <2>10 DEF item
<1> QED
  BY <1>5, <1>6, <1>7, <1>8

\* put on a new key while there is room.
LEMMA InsertEffect ==
  ASSUME IInv, NEW key \in Keys, key \notin DOMAIN cache_map, NEW block \in Blocks,
         InsertWithRoom(NewItem(key, block)), Use(key)
  PROVE  /\ IInv'
         /\ Becomes(key, NewItem(key, block), {})
         /\ Cardinality(DOMAIN cache_map) < Capacity
<1> DEFINE item == NewItem(key, block)
           less == cache_list_less_k
           greater == cache_list_greater_k
<1>k. K \in Nat /\ K >= 2 /\ Capacity \in Nat
  BY CacheParameters
<1>1. item \in Item /\ item.key = key /\ item.access_count = 1
  BY DEF Item, NewItem
<1>2. /\ lastUse' \in [Keys -> Nat] /\ clock' \in Nat
      /\ \A k \in Keys : k # key => lastUse'[k] = lastUse[k]
      /\ \A k \in Keys : lastUse[k] < lastUse'[key]
      /\ UsesInv'
  BY UseEffect
<1>3. /\ lastUse \in [Keys -> Nat] /\ Held("less_k") \subseteq Keys /\ Held("greater_k") \subseteq Keys
      /\ key \notin Held("less_k") /\ key \notin Held("greater_k")
      /\ Lists(less, Held("less_k"), lastUse)
      /\ Lists(greater, Held("greater_k"), lastUse)
  BY DEF IInv, TypeInv, ListsInv, Held
<1>4. /\ ~ Full
      /\ less' = PushFront(less, item) /\ greater' = greater
      /\ cache_map' = MapSet(cache_map, key, "less_k")
  BY <1>1 DEF InsertWithRoom
<1>5. Pushes(item, less, Held("less_k"), lastUse, lastUse')
  BY <1>1, <1>2, <1>3 DEF Pushes
<1> HIDE DEF item
<1>6. /\ Lists(PushFront(less, item), Held("less_k") \cup {key}, lastUse')
      /\ Node(PushFront(less, item), key) = item
      /\ \A k \in Held("less_k") : Node(PushFront(less, item), k) = Node(less, k)
  <2>1. Pushed(PushFront(less, item), item, less, Held("less_k"), lastUse')
    BY <1>5, PushFrontLists
  <2> QED
    BY <1>1, <2>1 DEF Pushed
<1>7. /\ Held("less_k")' = Held("less_k") \cup {key} /\ Held("greater_k")' = Held("greater_k")
      /\ DOMAIN cache_map' = DOMAIN cache_map \cup {key}
      /\ cache_map' \in [DOMAIN cache_map' -> {"less_k", "greater_k"}]
  BY <1>4 DEF Held, MapSet, IInv, TypeInv
<1>8. Lists(greater', Held("greater_k")', lastUse')
  BY <1>2, <1>3, <1>4, <1>7, ListsAgree
<1>9. CountsInv'
  BY <1>k, <1>1, <1>4, <1>6, <1>7 DEF IInv, CountsInv
<1>10. Cardinality(DOMAIN cache_map) < Capacity /\ RoomInv'
  <2>1. IsFiniteSet(DOMAIN cache_map) /\ Cardinality(DOMAIN cache_map) \in Nat
    BY FS_CardinalityType DEF IInv, RoomInv
  <2>2. Cardinality(DOMAIN cache_map) < Capacity
    BY <1>k, <1>4, <2>1 DEF Full
  <2>3. /\ IsFiniteSet(DOMAIN cache_map \cup {key})
        /\ Cardinality(DOMAIN cache_map \cup {key}) = Cardinality(DOMAIN cache_map) + 1
    BY <2>1, FS_AddElement
  <2> QED
    BY <1>k, <1>7, <2>1, <2>2, <2>3 DEF RoomInv
<1>11. IInv'
  BY <1>2, <1>4, <1>6, <1>7, <1>8, <1>9, <1>10 DEF IInv, TypeInv, ListsInv
<1>12. Becomes(key, item, {})
  BY <1>3, <1>4, <1>6, <1>7 DEF Becomes, NodeOf, Node, Held, IInv, TypeInv, MapSet
<1> QED
  BY <1>10, <1>11, <1>12 DEF item

\* What an eviction and an insertion do to the number of cached blocks.
LEMMA EvictCount ==
  ASSUME IInv, NEW key, key \notin DOMAIN cache_map, NEW gone \in DOMAIN cache_map
  PROVE  /\ IsFiniteSet((DOMAIN cache_map \ {gone}) \cup {key})
         /\ Cardinality((DOMAIN cache_map \ {gone}) \cup {key}) = Cardinality(DOMAIN cache_map)
<1>1. IsFiniteSet(DOMAIN cache_map) /\ Cardinality(DOMAIN cache_map) \in Nat
  BY FS_CardinalityType DEF IInv, RoomInv
<1>2. /\ IsFiniteSet(DOMAIN cache_map \ {gone})
      /\ Cardinality(DOMAIN cache_map \ {gone}) = Cardinality(DOMAIN cache_map) - 1
  BY <1>1, FS_RemoveElement
<1>3. /\ IsFiniteSet((DOMAIN cache_map \ {gone}) \cup {key})
      /\ Cardinality((DOMAIN cache_map \ {gone}) \cup {key})
           = Cardinality(DOMAIN cache_map \ {gone}) + 1
  BY <1>2, FS_AddElement
<1> QED
  BY <1>1, <1>2, <1>3

\* put on a new key evicts the least recently used of the blocks used fewer than
\* k_ times.
LEMMA EvictInfrequentEffect ==
  ASSUME IInv, NEW key \in Keys, key \notin DOMAIN cache_map, NEW block \in Blocks,
         EvictInfrequent(NewItem(key, block)), Use(key)
  PROVE  /\ IInv'
         /\ Cardinality(DOMAIN cache_map) = Capacity
         /\ \E gone \in Held("less_k") :
              /\ \A k \in Held("less_k") : lastUse[gone] <= lastUse[k]
              /\ Becomes(key, NewItem(key, block), {gone})
<1> DEFINE item == NewItem(key, block)
           less == cache_list_less_k
           greater == cache_list_greater_k
           gone == Back(less).key
           S == Held("less_k") \ {gone}
<1>k. K \in Nat /\ K >= 2 /\ Capacity \in Nat
  BY CacheParameters
<1>1. item \in Item /\ item.key = key /\ item.access_count = 1
  BY DEF Item, NewItem
<1>2. /\ lastUse' \in [Keys -> Nat] /\ clock' \in Nat
      /\ \A k \in Keys : k # key => lastUse'[k] = lastUse[k]
      /\ \A k \in Keys : lastUse[k] < lastUse'[key]
      /\ UsesInv'
  BY UseEffect
<1>3. /\ lastUse \in [Keys -> Nat]
      /\ Held("less_k") \subseteq Keys /\ Held("greater_k") \subseteq Keys
      /\ key \notin Held("less_k") /\ key \notin Held("greater_k")
      /\ Lists(less, Held("less_k"), lastUse)
      /\ Lists(greater, Held("greater_k"), lastUse)
  BY DEF IInv, TypeInv, ListsInv, Held
<1>4. /\ Full /\ less # << >>
      /\ less' = PushFront(PopBack(less), item) /\ greater' = greater
      /\ cache_map' = MapSet(MapErase(cache_map, gone), key, "less_k")
  BY <1>1 DEF EvictInfrequent, VictimList
<1>5. /\ gone \in Held("less_k")
      /\ \A k \in Held("less_k") : lastUse[gone] <= lastUse[k]
      /\ Lists(PopBack(less), S, lastUse)
      /\ \A k \in S : Node(PopBack(less), k) = Node(less, k)
  BY <1>3, <1>4, PopBackLists
<1>6. Pushes(item, PopBack(less), S, lastUse, lastUse')
  BY <1>1, <1>2, <1>3, <1>5 DEF Pushes
<1> HIDE DEF item, S, gone
<1>7. /\ Lists(PushFront(PopBack(less), item), S \cup {key}, lastUse')
      /\ Node(PushFront(PopBack(less), item), key) = item
      /\ \A k \in S : Node(PushFront(PopBack(less), item), k) = Node(PopBack(less), k)
  <2>1. Pushed(PushFront(PopBack(less), item), item, PopBack(less), S, lastUse')
    BY <1>6, PushFrontLists
  <2> QED
    BY <1>1, <2>1 DEF Pushed
<1>8. gone \in DOMAIN cache_map /\ gone # key /\ gone \notin Held("greater_k")
  BY <1>5 DEF Held
<1>9. /\ Held("less_k")' = S \cup {key} /\ Held("greater_k")' = Held("greater_k")
      /\ DOMAIN cache_map' = (DOMAIN cache_map \ {gone}) \cup {key}
      /\ cache_map' \in [DOMAIN cache_map' -> {"less_k", "greater_k"}]
      /\ \A k \in DOMAIN cache_map \ {gone} : cache_map'[k] = cache_map[k]
      /\ cache_map'[key] = "less_k"
  BY <1>4, <1>8 DEF Held, S, MapSet, MapErase, IInv, TypeInv
<1>10. Lists(greater', Held("greater_k")', lastUse')
  BY <1>2, <1>3, <1>4, <1>9, ListsAgree
<1>11. CountsInv'
  BY <1>k, <1>1, <1>4, <1>5, <1>7, <1>9 DEF IInv, CountsInv, S
<1>12. Cardinality(DOMAIN cache_map) = Capacity /\ RoomInv'
  <2>1. Cardinality(DOMAIN cache_map) \in Nat /\ Cardinality(DOMAIN cache_map) <= Capacity
    BY FS_CardinalityType DEF IInv, RoomInv
  <2>2. Cardinality(DOMAIN cache_map) = Capacity
    BY <1>k, <1>4, <2>1 DEF Full
  <2>3. /\ IsFiniteSet((DOMAIN cache_map \ {gone}) \cup {key})
        /\ Cardinality((DOMAIN cache_map \ {gone}) \cup {key}) = Cardinality(DOMAIN cache_map)
    BY <1>8, EvictCount
  <2> QED
    BY <1>k, <1>9, <2>1, <2>2, <2>3 DEF RoomInv
<1>13. IInv'
  BY <1>2, <1>4, <1>7, <1>9, <1>10, <1>11, <1>12 DEF IInv, TypeInv, ListsInv
<1>14. Becomes(key, item, {gone})
  BY <1>4, <1>5, <1>7, <1>8, <1>9 DEF Becomes, NodeOf, Node, S, Held
<1> QED
  BY <1>5, <1>12, <1>13, <1>14 DEF item

\* With no such block, put on a new key evicts the least recently used of all.
LEMMA EvictFrequentEffect ==
  ASSUME IInv, NEW key \in Keys, key \notin DOMAIN cache_map, NEW block \in Blocks,
         EvictFrequent(NewItem(key, block)), Use(key)
  PROVE  /\ IInv'
         /\ Cardinality(DOMAIN cache_map) = Capacity
         /\ Held("less_k") = {}
         /\ \E gone \in Held("greater_k") :
              /\ \A k \in Held("greater_k") : lastUse[gone] <= lastUse[k]
              /\ Becomes(key, NewItem(key, block), {gone})
<1> DEFINE item == NewItem(key, block)
           less == cache_list_less_k
           greater == cache_list_greater_k
           gone == Back(greater).key
           S == Held("greater_k") \ {gone}
<1>k. K \in Nat /\ K >= 2 /\ Capacity \in Nat \ {0}
  BY CacheParameters
<1>1. item \in Item /\ item.key = key /\ item.access_count = 1
  BY DEF Item, NewItem
<1>2. /\ lastUse' \in [Keys -> Nat] /\ clock' \in Nat
      /\ \A k \in Keys : k # key => lastUse'[k] = lastUse[k]
      /\ \A k \in Keys : lastUse[k] < lastUse'[key]
      /\ UsesInv'
  BY UseEffect
<1>3. /\ lastUse \in [Keys -> Nat]
      /\ Held("less_k") \subseteq Keys /\ Held("greater_k") \subseteq Keys
      /\ key \notin Held("less_k") /\ key \notin Held("greater_k")
      /\ Lists(less, Held("less_k"), lastUse)
      /\ Lists(greater, Held("greater_k"), lastUse)
  BY DEF IInv, TypeInv, ListsInv, Held
<1>4. /\ Full /\ less = << >>
      /\ less' = PushFront(less, item) /\ greater' = PopBack(greater)
      /\ cache_map' = MapSet(MapErase(cache_map, gone), key, "less_k")
  BY <1>1 DEF EvictFrequent, VictimList
<1>5. Held("less_k") = {}
  BY <1>3, <1>4 DEF Lists
<1>6. Cardinality(DOMAIN cache_map) = Capacity
  <2>1. Cardinality(DOMAIN cache_map) \in Nat /\ Cardinality(DOMAIN cache_map) <= Capacity
    BY FS_CardinalityType DEF IInv, RoomInv
  <2> QED
    BY <1>k, <1>4, <2>1 DEF Full
<1>7. greater # << >>
  <2>1. DOMAIN cache_map # {}
    BY <1>k, <1>6, FS_EmptySet
  <2>2. Held("greater_k") # {}
    BY <1>5, <2>1 DEF Held, IInv, TypeInv
  <2> QED
    BY <1>3, <2>2 DEF Lists
<1>8. /\ gone \in Held("greater_k")
      /\ \A k \in Held("greater_k") : lastUse[gone] <= lastUse[k]
      /\ Lists(PopBack(greater), S, lastUse)
      /\ \A k \in S : Node(PopBack(greater), k) = Node(greater, k)
  BY <1>3, <1>7, PopBackLists
<1>9. /\ Pushes(item, less, Held("less_k"), lastUse, lastUse')
      /\ \A k \in S : lastUse'[k] = lastUse[k]
  BY <1>1, <1>2, <1>3 DEF Pushes
<1> HIDE DEF item, S, gone
<1>10. /\ Lists(PushFront(less, item), Held("less_k") \cup {key}, lastUse')
       /\ Node(PushFront(less, item), key) = item
  <2>1. Pushed(PushFront(less, item), item, less, Held("less_k"), lastUse')
    BY <1>9, PushFrontLists
  <2> QED
    BY <1>1, <2>1 DEF Pushed
<1>11. gone \in DOMAIN cache_map /\ gone # key /\ gone \notin Held("less_k")
  BY <1>5, <1>8 DEF Held
<1>12. /\ Held("less_k")' = Held("less_k") \cup {key} /\ Held("greater_k")' = S
       /\ DOMAIN cache_map' = (DOMAIN cache_map \ {gone}) \cup {key}
       /\ cache_map' \in [DOMAIN cache_map' -> {"less_k", "greater_k"}]
       /\ \A k \in DOMAIN cache_map \ {gone} : cache_map'[k] = cache_map[k]
       /\ cache_map'[key] = "less_k"
  BY <1>4, <1>11 DEF Held, S, MapSet, MapErase, IInv, TypeInv
<1>13. Lists(greater', Held("greater_k")', lastUse')
  BY <1>4, <1>8, <1>9, <1>12, ListsAgree
<1>14. CountsInv'
  BY <1>k, <1>1, <1>4, <1>5, <1>8, <1>10, <1>12 DEF IInv, CountsInv, S
<1>15. RoomInv'
  <2>1. /\ IsFiniteSet((DOMAIN cache_map \ {gone}) \cup {key})
        /\ Cardinality((DOMAIN cache_map \ {gone}) \cup {key}) = Cardinality(DOMAIN cache_map)
    BY <1>11, EvictCount
  <2> QED
    BY <1>k, <1>6, <1>12, <2>1 DEF RoomInv
<1>16. IInv'
  BY <1>2, <1>4, <1>10, <1>12, <1>13, <1>14, <1>15 DEF IInv, TypeInv, ListsInv
<1>17. Becomes(key, item, {gone})
  BY <1>4, <1>5, <1>8, <1>10, <1>11, <1>12 DEF Becomes, NodeOf, Node, S, Held, IInv, TypeInv
<1> QED
  BY <1>5, <1>6, <1>8, <1>16, <1>17 DEF item

-----------------------------------------------------------------------------
\* The map and the lists.

\* Empty lists and an empty map match.
LEMMA InvInit == Init => IInv
<1>1. SUFFICES ASSUME Init
               PROVE  IInv
  OBVIOUS
<1>2. DOMAIN cache_map = {} /\ cache_map \in [DOMAIN cache_map -> {"less_k", "greater_k"}]
  BY <1>1 DEF Init
<1>3. Held("less_k") = {} /\ Held("greater_k") = {}
  BY <1>2 DEF Held
<1>4. TypeInv /\ UsesInv
  BY <1>1, <1>2 DEF Init, TypeInv, UsesInv
<1>5. ListsInv
  BY <1>1, <1>3 DEF Init, ListsInv, Lists
<1>6. CountsInv
  BY <1>3 DEF CountsInv
<1>7. RoomInv
  BY <1>2, FS_EmptySet, CacheParameters DEF RoomInv
<1> QED
  BY <1>4, <1>5, <1>6, <1>7 DEF IInv

\* Every operation keeps the map and the lists in step.
LEMMA InvStep == IInv /\ [Next]_vars => IInv'
<1>1. SUFFICES ASSUME IInv, [Next]_vars
               PROVE  IInv'
  OBVIOUS
<1>2. ASSUME NEW key \in Keys, GetMiss(key)
      PROVE  IInv'
  BY <1>1, <1>2 DEF GetMiss, IInv, TypeInv, ListsInv, CountsInv, UsesInv, RoomInv, Held
<1>3. ASSUME NEW key \in Keys, GetHit(key)
      PROVE  IInv'
  <2>1. key \in DOMAIN cache_map /\ UpdateAccessCount(key, NodeOf(key).cache_block) /\ Use(key)
    BY <1>3 DEF GetHit
  <2>2. NodeOf(key).cache_block \in Blocks
    BY <1>1, <2>1, NodeOfKey DEF Item
  <2> QED
    BY <1>1, <2>1, <2>2, UpdateEffect
<1>4. ASSUME NEW key \in Keys, NEW block \in Blocks, PutExisting(key, block)
      PROVE  IInv'
  BY <1>1, <1>4, UpdateEffect DEF PutExisting
<1>5. ASSUME NEW key \in Keys, NEW block \in Blocks, PutNew(key, block)
      PROVE  IInv'
  BY <1>1, <1>5, InsertEffect, EvictInfrequentEffect, EvictFrequentEffect DEF PutNew
<1>6. CASE UNCHANGED vars
  BY <1>1, <1>6 DEF vars, IInv, TypeInv, ListsInv, CountsInv, UsesInv, RoomInv, Held
<1> QED
  BY <1>1, <1>2, <1>3, <1>4, <1>5, <1>6 DEF Next

\* What Lists says of one list is what Indexes asks of it, and the number of
\* accesses of each node is the one its key leads to.
LEMMA ListIndexed ==
  ASSUME IInv, NEW name, NEW list, Lists(list, Held(name), lastUse)
  PROVE  /\ Indexes(list, name)
         /\ \A i \in 1..Len(list) : list[i].key \in Held(name) /\ list[i] = Node(list, list[i].key)
<1>1. lastUse \in [Keys -> Nat]
  BY DEF IInv, TypeInv
<1>2. \A i \in 1..Len(list) : list[i].key \in Held(name) /\ PosOf(list, list[i].key) = i
  BY <1>1, NodeUnique DEF Lists
<1>3. \A key \in Held(name) : \E i \in 1..Len(list) : list[i].key = key
  BY DEF Lists
<1>4. Indexes(list, name)
  <2>1. \A i \in 1..Len(list) :
          list[i].key \in DOMAIN cache_map /\ cache_map[list[i].key] = name
    BY <1>2 DEF Held
  <2>2. ASSUME NEW i \in 1..Len(list), NEW j \in 1..Len(list), list[i].key = list[j].key
        PROVE  i = j
    BY <1>2, <2>2
  <2>3. \A key \in DOMAIN cache_map :
          cache_map[key] = name => \E i \in 1..Len(list) : list[i].key = key
    BY <1>3 DEF Held
  <2> QED
    BY <2>1, <2>2, <2>3 DEF Indexes
<1>5. \A i \in 1..Len(list) : list[i].key \in Held(name) /\ list[i] = Node(list, list[i].key)
  BY <1>2 DEF Node
<1> QED
  BY <1>4, <1>5

\* The inductive invariant says more than ListsMatchMap.
LEMMA InvMatches == IInv => ListsMatchMap
<1>1. SUFFICES ASSUME IInv
               PROVE  ListsMatchMap
  OBVIOUS
<1>2. /\ Indexes(cache_list_less_k, "less_k")
      /\ \A i \in 1..Len(cache_list_less_k) :
           /\ cache_list_less_k[i].key \in Held("less_k")
           /\ cache_list_less_k[i] = Node(cache_list_less_k, cache_list_less_k[i].key)
  BY <1>1, ListIndexed DEF IInv, ListsInv
<1>3. /\ Indexes(cache_list_greater_k, "greater_k")
      /\ \A i \in 1..Len(cache_list_greater_k) :
           /\ cache_list_greater_k[i].key \in Held("greater_k")
           /\ cache_list_greater_k[i] = Node(cache_list_greater_k, cache_list_greater_k[i].key)
  BY <1>1, ListIndexed DEF IInv, ListsInv
<1>4. \A i \in 1..Len(cache_list_less_k) : cache_list_less_k[i].access_count \in 1..K-1
  BY <1>1, <1>2 DEF IInv, CountsInv
<1>5. \A i \in 1..Len(cache_list_greater_k) : cache_list_greater_k[i].access_count >= K
  BY <1>1, <1>3 DEF IInv, CountsInv
<1> QED
  BY <1>2, <1>3, <1>4, <1>5 DEF ListsMatchMap

\* No iterator of cache_map_ dangles, no node is lost or duplicated, and every
\* item is in the list of its access count, whatever the calls of get and put:
\* ListsMatchMap holds for every capacity, every k_ and every set of blocks.
THEOREM ListsAlwaysMatchMap == Spec => []ListsMatchMap
<1>1. Init => IInv
  BY InvInit
<1>2. IInv /\ [Next]_vars => IInv'
  BY InvStep
<1>3. IInv => ListsMatchMap
  BY InvMatches
<1> QED
  BY <1>1, <1>2, <1>3, PTL DEF Spec

\* The cache never holds more than capacity_ blocks.
THEOREM NeverOverfull == Spec => [](Cardinality(DOMAIN cache_map) <= Capacity)
<1>1. Init => IInv
  BY InvInit
<1>2. IInv /\ [Next]_vars => IInv'
  BY InvStep
<1>3. IInv => Cardinality(DOMAIN cache_map) <= Capacity
  BY DEF IInv, RoomInv
<1> QED
  BY <1>1, <1>2, <1>3, PTL DEF Spec

-----------------------------------------------------------------------------
\* The refinement.

\* What the mapping shows of the cache.
LEMMA EntriesShown ==
  ASSUME IInv
  PROVE  /\ \A k \in DOMAIN cache_map :
              /\ k \in Keys
              /\ EntryOf(k) = [block   |-> NodeOf(k).cache_block,
                               uses    |-> NodeOf(k).access_count,
                               lastUse |-> lastUse[k]]
              /\ EntryOf(k) # Absent
         /\ \A k \in Keys \ DOMAIN cache_map : EntryOf(k) = Absent
         /\ LRUK!Cached = DOMAIN cache_map
         /\ LRUK!Infrequent = Held("less_k")
<1>1. ASSUME NEW k \in DOMAIN cache_map
      PROVE  /\ k \in Keys
             /\ EntryOf(k) = [block   |-> NodeOf(k).cache_block,
                              uses    |-> NodeOf(k).access_count,
                              lastUse |-> lastUse[k]]
             /\ EntryOf(k) # Absent
             /\ (EntryOf(k).uses < K) <=> k \in Held("less_k")
  <2>1. /\ k \in Keys /\ NodeOf(k) \in Item /\ lastUse[k] \in Nat
        /\ (NodeOf(k).access_count < K) <=> k \in Held("less_k")
    BY NodeOfKey, CacheParameters DEF IInv, TypeInv, Item
  <2>2. EntryOf(k) = [block   |-> NodeOf(k).cache_block,
                      uses    |-> NodeOf(k).access_count,
                      lastUse |-> lastUse[k]]
    BY DEF EntryOf
  <2>3. EntryOf(k) \in [block : Blocks, uses : Nat, lastUse : Nat]
    BY <2>1, <2>2 DEF Item
  <2> QED
    BY <2>1, <2>2, <2>3, AbsentIsNoEntry
<1>2. \A k \in Keys \ DOMAIN cache_map : EntryOf(k) = Absent
  BY DEF EntryOf
<1>3. LRUK!Cached = DOMAIN cache_map
  BY <1>1, <1>2 DEF LRUK!Cached
<1>4. LRUK!Infrequent = Held("less_k")
  BY <1>1, <1>3 DEF LRUK!Infrequent, Held
<1> QED
  BY <1>1, <1>2, <1>3, <1>4

\* The instance's Cardinality is the one of this module.
LEMMA SameCardinality == \A S : LRUK!Cardinality(S) = Cardinality(S)
BY Zenon DEF LRUK!Cardinality, Cardinality

\* What it shows of a step.
LEMMA EntriesAfter ==
  ASSUME IInv, NEW key \in Keys, NEW item, NEW gone \in SUBSET DOMAIN cache_map,
         key \notin gone, Becomes(key, item, gone), Use(key)
  PROVE  [k \in Keys |-> EntryOf(k)]' =
           [k \in Keys |->
              IF k = key THEN [block |-> item.cache_block, uses |-> item.access_count,
                               lastUse |-> clock + 1]
              ELSE IF k \in gone THEN Absent ELSE EntryOf(k)]
<1>1. /\ lastUse'[key] = clock + 1
      /\ \A k \in Keys : k # key => lastUse'[k] = lastUse[k]
  BY UseEffect
<1>2. EntryOf(key)' = [block |-> item.cache_block, uses |-> item.access_count,
                       lastUse |-> clock + 1]
  BY <1>1 DEF EntryOf, Becomes
<1>3. \A k \in gone : EntryOf(k)' = Absent
  BY DEF EntryOf, Becomes
<1>4. \A k \in Keys \ (gone \cup {key}) : EntryOf(k)' = EntryOf(k)
  BY <1>1 DEF EntryOf, Becomes
<1> QED
  BY <1>2, <1>3, <1>4

\* An empty cache shows no entry.
LEMMA RefinesInit == Init => LRUK!Init
<1>1. SUFFICES ASSUME Init
               PROVE  LRUK!Init
  OBVIOUS
<1>2. \A k \in Keys : EntryOf(k) = Absent
  BY <1>1 DEF Init, EntryOf
<1> QED
  BY <1>1, <1>2 DEF Init, LRUK!Init

\* A get that misses.
LEMMA RefinesMiss ==
  ASSUME IInv, NEW key \in Keys, GetMiss(key)
  PROVE  LRUK!Miss(key)
<1>1. EntryOf(key) = Absent
  BY EntriesShown DEF GetMiss
<1>2. \A k \in Keys : EntryOf(k)' = EntryOf(k)
  BY DEF GetMiss, EntryOf, NodeOf
<1> QED
  BY <1>1, <1>2 DEF LRUK!Miss, GetMiss

\* A get that hits: update_access_count shows as one more use.
LEMMA RefinesHit ==
  ASSUME IInv, NEW key \in Keys, GetHit(key)
  PROVE  LRUK!Hit(key)
<1> DEFINE item == [key |-> key, cache_block |-> NodeOf(key).cache_block,
                    access_count |-> NodeOf(key).access_count + 1]
<1>1. /\ key \in DOMAIN cache_map /\ reply' = NodeOf(key).cache_block /\ Use(key)
      /\ UpdateAccessCount(key, NodeOf(key).cache_block)
  BY DEF GetHit
<1>2. NodeOf(key).cache_block \in Blocks
  BY <1>1, NodeOfKey DEF Item
<1>3. Becomes(key, item, {})
  BY <1>1, <1>2, UpdateEffect
<1>4. /\ EntryOf(key) # Absent
      /\ EntryOf(key).block = NodeOf(key).cache_block
      /\ EntryOf(key).uses = NodeOf(key).access_count
  BY <1>1, EntriesShown
<1>5. [k \in Keys |-> EntryOf(k)]' =
        [k \in Keys |->
           IF k = key THEN [block |-> item.cache_block, uses |-> item.access_count,
                            lastUse |-> clock + 1]
           ELSE IF k \in {} THEN Absent ELSE EntryOf(k)]
  <2> HIDE DEF item
  <2> QED
    BY <1>1, <1>3, EntriesAfter
<1> QED
  BY <1>1, <1>4, <1>5 DEF LRUK!Hit, LRUK!Used, Use

\* put on a cached key.
LEMMA RefinesReplace ==
  ASSUME IInv, NEW key \in Keys, NEW block \in Blocks, PutExisting(key, block)
  PROVE  LRUK!Replace(key, block)
<1> DEFINE item == [key |-> key, cache_block |-> block,
                    access_count |-> NodeOf(key).access_count + 1]
<1>1. /\ key \in DOMAIN cache_map /\ reply' = reply /\ Use(key)
      /\ UpdateAccessCount(key, block)
  BY DEF PutExisting
<1>2. Becomes(key, item, {})
  BY <1>1, UpdateEffect
<1>3. EntryOf(key) # Absent /\ EntryOf(key).uses = NodeOf(key).access_count
  BY <1>1, EntriesShown
<1>4. [k \in Keys |-> EntryOf(k)]' =
        [k \in Keys |->
           IF k = key THEN [block |-> item.cache_block, uses |-> item.access_count,
                            lastUse |-> clock + 1]
           ELSE IF k \in {} THEN Absent ELSE EntryOf(k)]
  <2> HIDE DEF item
  <2> QED
    BY <1>1, <1>2, EntriesAfter
<1> QED
  BY <1>1, <1>3, <1>4 DEF LRUK!Replace, LRUK!Used, Use

\* put on a new key: an insertion if there is room, and otherwise the eviction of
\* the block the LRU-K rule names.
LEMMA RefinesPutNew ==
  ASSUME IInv, NEW key \in Keys, NEW block \in Blocks, PutNew(key, block)
  PROVE  \/ LRUK!Insert(key, block)
         \/ \E victim \in Keys : LRUK!EvictAndInsert(key, block, victim)
<1> DEFINE item == NewItem(key, block)
<1>1. /\ key \notin DOMAIN cache_map /\ reply' = reply /\ Use(key)
      /\ InsertWithRoom(item) \/ EvictInfrequent(item) \/ EvictFrequent(item)
  BY DEF PutNew
<1>2. item.cache_block = block /\ item.access_count = 1
  BY DEF NewItem
<1>3. EntryOf(key) = Absent /\ clock' = clock + 1
  BY <1>1, EntriesShown DEF Use
<1>4. ASSUME NEW gone \in SUBSET DOMAIN cache_map, Becomes(key, item, gone)
      PROVE  [k \in Keys |-> EntryOf(k)]' =
               [k \in Keys |->
                  IF k = key THEN [block |-> block, uses |-> 1, lastUse |-> clock + 1]
                  ELSE IF k \in gone THEN Absent ELSE EntryOf(k)]
  <2> HIDE DEF item
  <2>1. key \notin gone
    BY <1>1
  <2>2. [k \in Keys |-> EntryOf(k)]' =
          [k \in Keys |->
             IF k = key THEN [block |-> item.cache_block, uses |-> item.access_count,
                              lastUse |-> clock + 1]
             ELSE IF k \in gone THEN Absent ELSE EntryOf(k)]
    BY <1>1, <1>4, <2>1, EntriesAfter
  <2> QED
    BY <1>2, <2>2
<1>5. CASE InsertWithRoom(item)
  <2>1. Becomes(key, item, {}) /\ Cardinality(DOMAIN cache_map) < Capacity
    BY <1>1, <1>5, InsertEffect
  <2>2. [k \in Keys |-> EntryOf(k)]' =
          [k \in Keys |->
             IF k = key THEN [block |-> block, uses |-> 1, lastUse |-> clock + 1]
             ELSE IF k \in {} THEN Absent ELSE EntryOf(k)]
    BY <1>4, <2>1
  <2>3. LRUK!Cardinality(LRUK!Cached) < Capacity
    BY <2>1, EntriesShown, SameCardinality
  <2>4. [k \in Keys |-> EntryOf(k)]' =
          [[k \in Keys |-> EntryOf(k)] EXCEPT ![key] = LRUK!Used(block, 1)]
    BY <2>2 DEF LRUK!Used
  <2> QED
    BY <1>1, <1>3, <2>3, <2>4 DEF LRUK!Insert
<1>6. ASSUME NEW gone \in DOMAIN cache_map, Becomes(key, item, {gone}), LRUK!IsVictim(gone),
             Cardinality(DOMAIN cache_map) = Capacity
      PROVE  \E victim \in Keys : LRUK!EvictAndInsert(key, block, victim)
  <2>1. [k \in Keys |-> EntryOf(k)]' =
          [k \in Keys |->
             IF k = key THEN [block |-> block, uses |-> 1, lastUse |-> clock + 1]
             ELSE IF k \in {gone} THEN Absent ELSE EntryOf(k)]
    BY <1>4, <1>6
  <2>2. LRUK!Cardinality(LRUK!Cached) = Capacity
    BY <1>6, EntriesShown, SameCardinality
  <2>3. gone # key /\ gone \in Keys
    BY <1>1 DEF IInv, TypeInv
  <2>4. [k \in Keys |-> EntryOf(k)]' =
          [[k \in Keys |-> EntryOf(k)] EXCEPT
             ![key] = LRUK!Used(block, 1), ![gone] = Absent]
    BY <2>1, <2>3 DEF LRUK!Used
  <2>5. LRUK!EvictAndInsert(key, block, gone)
    BY <1>1, <1>3, <1>6, <2>2, <2>4 DEF LRUK!EvictAndInsert
  <2> QED
    BY <2>3, <2>5
<1>7. CASE EvictInfrequent(item)
  <2>1. PICK gone \in Held("less_k") :
          /\ \A k \in Held("less_k") : lastUse[gone] <= lastUse[k]
          /\ Becomes(key, item, {gone})
    BY <1>1, <1>7, EvictInfrequentEffect
  <2>2. Cardinality(DOMAIN cache_map) = Capacity
    BY <1>1, <1>7, EvictInfrequentEffect
  <2>3. LRUK!Candidates = Held("less_k")
    BY EntriesShown DEF LRUK!Candidates
  <2>4. \A k \in Held("less_k") : k \in DOMAIN cache_map /\ k \in Keys /\ EntryOf(k).lastUse = lastUse[k]
    BY EntriesShown DEF Held
  <2>5. LRUK!IsVictim(gone)
    BY <2>1, <2>3, <2>4 DEF LRUK!IsVictim
  <2> QED
    BY <1>6, <2>1, <2>2, <2>4, <2>5
<1>8. CASE EvictFrequent(item)
  <2>1. PICK gone \in Held("greater_k") :
          /\ \A k \in Held("greater_k") : lastUse[gone] <= lastUse[k]
          /\ Becomes(key, item, {gone})
    BY <1>1, <1>8, EvictFrequentEffect
  <2>2. Cardinality(DOMAIN cache_map) = Capacity /\ Held("less_k") = {}
    BY <1>1, <1>8, EvictFrequentEffect
  <2>3. Held("greater_k") = DOMAIN cache_map
    BY <2>2 DEF Held, IInv, TypeInv
  <2>4. LRUK!Candidates = Held("greater_k")
    BY <2>2, <2>3, EntriesShown DEF LRUK!Candidates
  <2>5. \A k \in Held("greater_k") : k \in DOMAIN cache_map /\ k \in Keys /\ EntryOf(k).lastUse = lastUse[k]
    BY EntriesShown DEF Held
  <2>6. LRUK!IsVictim(gone)
    BY <2>1, <2>4, <2>5 DEF LRUK!IsVictim
  <2> QED
    BY <1>6, <2>1, <2>2, <2>5, <2>6
<1> QED
  BY <1>1, <1>5, <1>7, <1>8

\* Every step of the cache is a step of the LRU-K cache, or none.
LEMMA RefinesStep == IInv /\ [Next]_vars => [LRUK!Next]_(LRUK!vars)
<1>1. SUFFICES ASSUME IInv, [Next]_vars
               PROVE  [LRUK!Next]_(LRUK!vars)
  OBVIOUS
<1>2. ASSUME NEW key \in Keys, GetMiss(key)
      PROVE  LRUK!Next
  BY <1>1, <1>2, RefinesMiss DEF LRUK!Next
<1>3. ASSUME NEW key \in Keys, GetHit(key)
      PROVE  LRUK!Next
  BY <1>1, <1>3, RefinesHit DEF LRUK!Next
<1>4. ASSUME NEW key \in Keys, NEW block \in Blocks, PutExisting(key, block)
      PROVE  LRUK!Next
  BY <1>1, <1>4, RefinesReplace DEF LRUK!Next
<1>5. ASSUME NEW key \in Keys, NEW block \in Blocks, PutNew(key, block)
      PROVE  LRUK!Next
  BY <1>1, <1>5, RefinesPutNew DEF LRUK!Next
<1>6. CASE UNCHANGED vars
  <2>1. \A k \in Keys : EntryOf(k)' = EntryOf(k)
    BY <1>6 DEF vars, EntryOf, NodeOf
  <2> QED
    BY <1>6, <2>1 DEF vars, LRUK!vars
<1> QED
  BY <1>1, <1>2, <1>3, <1>4, <1>5, <1>6 DEF Next

\* The two lists, the map and update_access_count implement an LRU-K cache: get
\* answers with the block last put under its key, or with nullptr, and put evicts
\* the least recently used block among those used fewer than k_ times, or among
\* all if there is none.
THEOREM CacheImplementsLRUK == Spec => ImplementsLRUK
<1>1. Init => IInv /\ LRUK!Init
  BY InvInit, RefinesInit
<1>2. IInv /\ [Next]_vars => IInv' /\ [LRUK!Next]_(LRUK!vars)
  BY InvStep, RefinesStep
<1> QED
  BY <1>1, <1>2, PTL DEF Spec, ImplementsLRUK, LRUK!Spec
=============================================================================
