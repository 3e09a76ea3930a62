------------------------------ MODULE SkipList ------------------------------
(***************************************************************************)
(* SkipList (src/src/skiplist/skipList.cpp): the table inside a MemTable.  *)
(* The model keeps every forward_ and backward_ pointer.  Callers hold the *)
(* MemTable's lock, so an operation is one atomic action.                  *)
(*                                                                         *)
(* A string is represented by its length: the number n stands for the      *)
(* string of n equal characters, so that < on numbers is the order of the  *)
(* strings, n their size in bytes and 0 the empty string.  Levels count    *)
(* from 1 (the code's level 0 is level 1).                                 *)
(***************************************************************************)
EXTENDS Integers, Sequences, FiniteSets, FiniteSetsExt

CONSTANTS Keys, Values, TrancIds,
          MaxLevel,      \* max_level
          MaxNodes,      \* bound: nodes that can be linked at the same time
          SizeModulus,   \* size_t wraps at this value
          Null           \* nullptr

Addresses == 0..MaxNodes

\* SkipListNode
Nodes ==
  [key : Nat, value : Nat, tranc_id : Nat,
   forward : Seq(Addresses \cup {Null}), backward : Seq(Addresses \cup {Null})]

ASSUME SkipListParameters ==
  /\ Keys \subseteq Nat
  /\ Values \subseteq Nat
  /\ TrancIds \subseteq Nat
  /\ MaxLevel \in Nat \ {0}
  /\ MaxNodes \in Nat
  /\ SizeModulus \in Nat \ {0}
  /\ Null \notin Addresses \cup Nodes

VARIABLES node,           \* node[n]: the node with address n, or Null
          current_level,
          size_bytes,
          call            \* history: the last call that changed the table

vars == <<node, current_level, size_bytes, call>>

head == 0
Levels == 1..MaxLevel
TrancIdBytes == 8         \* sizeof(uint64_t)

Height(n) == Len(node[n].forward)
Linked == {n \in Addresses : node[n] # Null}
NodesAt(level) == {n \in Linked : level <= Height(n)}

NewHead ==
  [key |-> 0, value |-> 0, tranc_id |-> 0,
   forward  |-> [level \in Levels |-> Null],
   backward |-> [level \in Levels |-> Null]]

EmptyTable == [n \in Addresses |-> IF n = head THEN NewHead ELSE Null]

Init ==
  /\ node = EmptyTable
  /\ current_level = 1
  /\ size_bytes = 0
  /\ call = <<"none">>

-----------------------------------------------------------------------------
(***************************************************************************)
(* The search of put, get and remove: on every level from the top one down *)
(* walk right while the next key is smaller, starting where the level      *)
(* above stopped.                                                          *)
(***************************************************************************)
\* Mutant: the walk on a level stops only past the key.
WalkPast(from, level, key) ==
  LET walk[n \in NodesAt(level)] ==
        LET next == node[n].forward[level]
        IN  IF next # Null /\ node[next].key <= key THEN walk[next] ELSE n
  IN  walk[from]

WalkRight(from, level, key) ==
  LET walk[n \in NodesAt(level)] ==
        LET next == node[n].forward[level]
        IN  IF next # Null /\ node[next].key < key THEN walk[next] ELSE n
  IN  walk[from]

Predecessors(key, top) ==
  LET update[level \in 1..top] ==
        WalkRight(IF level = top THEN head ELSE update[level + 1], level, key)
  IN  update

\* The first node of the bottom level whose key is not smaller than key.
Target(key, top) == node[Predecessors(key, top)[1]].forward[1]

Holds(n, key) == n # Null /\ node[n].key = key

NodeBytes(key, value) == key + value + TrancIdBytes

-----------------------------------------------------------------------------
\* Mutant: the successor's backward_ pointer is not set.
SpliceInForward(n, new, new_level, update) ==
  [node[n] EXCEPT
     !.forward = [level \in DOMAIN @ |->
                    IF level <= new_level /\ update[level] = n THEN new ELSE @[level]]]

\* Node n after new has been linked behind update[level] on levels 1..new_level.
SpliceIn(n, new, new_level, update) ==
  [node[n] EXCEPT
     !.forward = [level \in DOMAIN @ |->
                    IF level <= new_level /\ update[level] = n THEN new ELSE @[level]],
     !.backward = [level \in DOMAIN @ |->
                    IF level <= new_level /\ node[update[level]].forward[level] = n
                      THEN new ELSE @[level]]]

PutInsert(key, value, tranc_id, new_level, update) ==
  LET new == Min(Addresses \ Linked)
  IN  /\ Addresses # Linked
      /\ node' = [n \in Addresses |->
           IF n = new
             THEN [key |-> key, value |-> value, tranc_id |-> tranc_id,
                   forward  |-> [level \in 1..new_level |-> node[update[level]].forward[level]],
                   backward |-> [level \in 1..new_level |-> update[level]]]
             ELSE IF n \in Linked THEN SpliceIn(n, new, new_level, update) ELSE Null]
      /\ size_bytes' = (size_bytes + NodeBytes(key, value)) % SizeModulus

\* Only the old value's length is subtracted; the new one is not added.
PutOverwrite(n, value) ==
  /\ size_bytes' = (size_bytes - node[n].value) % SizeModulus
  /\ node' = [node EXCEPT ![n].value = value]

\* Mutant: the transaction id is not compared before overwriting.
SameKey(n, key, tranc_id) == Holds(n, key)

SameVersion(n, key, tranc_id) == Holds(n, key) /\ node[n].tranc_id = tranc_id

\* Mutant: random_level() may exceed current_level without raising it.
RaiseNever(new_level) == current_level

RaiseLevel(new_level) == Max({current_level, new_level})

\* new_level is what random_level() returns.
Put(key, value, tranc_id, new_level) ==
  LET top    == Max({current_level, new_level})
      update == Predecessors(key, top)
      target == Target(key, top)
  IN  /\ current_level' = RaiseLevel(new_level)
      /\ call' = <<"put", key, value, tranc_id>>
      /\ \/ /\ SameVersion(target, key, tranc_id)
            /\ PutOverwrite(target, value)
         \/ /\ ~ SameVersion(target, key, tranc_id)
            /\ PutInsert(key, value, tranc_id, new_level, update)

(***************************************************************************)
(* get: the leading version of the key if the reader may see it; tranc_id  *)
(* 0 sees everything.  Null stands for the empty iterator.                 *)
(***************************************************************************)
Get(key, tranc_id) ==
  LET target == Target(key, current_level)
  IN  IF Holds(target, key) /\ (tranc_id = 0 \/ node[target].tranc_id <= tranc_id)
        THEN target ELSE Null

\* Mutant: only the bottom level is unlinked; the level above keeps the node.
RemoveBottom(key) ==
  LET update == Predecessors(key, current_level)
      target == Target(key, current_level)
  IN  /\ Holds(target, key)
      /\ node' = [node EXCEPT ![update[1]].forward[1] = node[target].forward[1]]
      /\ size_bytes' =
           (size_bytes - NodeBytes(node[target].key, node[target].value)) % SizeModulus
      /\ call' = <<"remove", key>>
      /\ UNCHANGED current_level

\* remove: unlinks the leading version of the key on all of its levels.
Remove(key) ==
  LET update == Predecessors(key, current_level)
      target == Target(key, current_level)
      after(level) == node[target].forward[level]
  IN  /\ Holds(target, key)
      /\ node' = [n \in Addresses |->
           IF n \notin Linked \/ n = target THEN Null
           ELSE [node[n] EXCEPT
                   !.forward = [level \in DOMAIN @ |->
                      IF level <= Height(target) /\ update[level] = n
                        THEN after(level) ELSE @[level]],
                   !.backward = [level \in DOMAIN @ |->
                      IF level <= Height(target) /\ after(level) = n
                        THEN update[level] ELSE @[level]]]]
      /\ size_bytes' =
           (size_bytes - NodeBytes(node[target].key, node[target].value)) % SizeModulus
      /\ call' = <<"remove", key>>
      /\ UNCHANGED current_level

\* clear: a new head; current_level stays as it was.
Clear ==
  /\ node' = EmptyTable
  /\ size_bytes' = 0
  /\ call' = <<"clear">>
  /\ UNCHANGED current_level

Next ==
  \/ \E key \in Keys, value \in Values, tranc_id \in TrancIds, new_level \in Levels :
       Put(key, value, tranc_id, new_level)
  \/ \E key \in Keys : Remove(key)
  \/ Clear

Spec == Init /\ [][Next]_vars

-----------------------------------------------------------------------------
\* flush(): the data nodes in the order of the bottom level's forward pointers.
Chain ==
  LET from[n \in Linked] ==
        LET next == node[n].forward[1]
        IN  IF next = Null THEN << >> ELSE <<next>> \o from[next]
  IN  from[head]

flush ==
  [i \in DOMAIN Chain |->
     LET n == node[Chain[i]]
     IN  [key |-> n.key, value |-> n.value, tranc_id |-> n.tranc_id]]

-----------------------------------------------------------------------------
\* Properties.

\* The bottom level links every node, sorted by key, and every other level exactly
\* the nodes that reach it, in the order of the bottom level: no put, remove or
\* clear leaves a node behind on some level or links levels out of order.  No node
\* is taller than current_level, also after clear() has replaced the head: the
\* vector update, which remove indexes with every level of the node it unlinks,
\* has no more entries.
LevelsNested ==
  LET order == <<head>> \o Chain
      later(i, level) == {j \in (i + 1)..Len(order) : level <= Height(order[j])}
  IN  /\ {order[i] : i \in 1..Len(order)} = Linked
      /\ \A i \in 2..(Len(order) - 1) : node[order[i]].key <= node[order[i + 1]].key
      /\ \A i \in 1..Len(order) : \A level \in 1..Height(order[i]) :
           node[order[i]].forward[level] =
             IF later(i, level) = {} THEN Null ELSE order[Min(later(i, level))]
      /\ \A n \in Linked \ {head} : Height(n) <= current_level

\* backward_ is the inverse of forward_ on every level, as the set_backward
\* calls of put and remove intend (the predicate query walks back along it).
BackwardInvertsForward ==
  \A n, m \in Linked : \A level \in 1..(Min({Height(n), Height(m)})) :
    node[n].forward[level] = m <=> node[m].backward[level] = n

\* Where the versions of key stand that reader tranc_id may see; 0 sees all.
Hits(key, tranc_id) ==
  {i \in DOMAIN Chain :
     /\ node[Chain[i]].key = key
     /\ tranc_id = 0 \/ node[Chain[i]].tranc_id <= tranc_id}

FirstHit(key, tranc_id) ==
  IF Hits(key, tranc_id) = {} THEN Null ELSE Chain[Min(Hits(key, tranc_id))]

\* Without a transaction id get returns the version of the key that was written
\* last, if there is one: the descent through the levels, from a current_level
\* that may be stale, ends at the first node of the key on the bottom level.
LatestFound == \A key \in Keys : Get(key, 0) = FirstHit(key, 0)

\* With a transaction id get returns the newest version that the transaction may
\* see.  This does not hold: get looks at the leading version alone.
GetFindsVisible ==
  \A key \in Keys, tranc_id \in TrancIds : Get(key, tranc_id) = FirstHit(key, tranc_id)

Table == INSTANCE VersionTable WITH versions <- flush

\* The pointer structure implements a sorted table of versions: each put, remove
\* and clear changes what flush() returns exactly as that call changes the
\* abstract table.
ImplementsVersionTable == Table!Spec
=============================================================================
