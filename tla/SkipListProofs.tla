---------------------------- MODULE SkipListProofs ----------------------------
(***************************************************************************)
(* Proofs about SkipList, for any keys, values and transactions, towers of *)
(* any height and any number of nodes.                                     *)
(***************************************************************************)
EXTENDS SkipList, TLAPS, SequenceTheorems, WellFoundedInduction

-----------------------------------------------------------------------------
\* The inductive invariant.  The predicates take the nodes nd as a parameter, to be
\* used of the nodes before and after a step.

Ht(nd, n) == Len(nd[n].forward)

LinkedIn(nd) == {n \in Addresses : nd[n] # Null}

WellTyped(nd) ==
  /\ nd \in [Addresses -> Nodes \cup {Null}]
  /\ nd[head] # Null /\ Ht(nd, head) = MaxLevel
  /\ \A n \in LinkedIn(nd) : Ht(nd, n) \in Levels /\ Len(nd[n].backward) = Ht(nd, n)

\* t is the nodes in the order of the bottom level, the head first.
InOrder(nd, t) ==
  /\ t \in Seq(LinkedIn(nd)) /\ Len(t) >= 1 /\ t[1] = head
  /\ \A n \in LinkedIn(nd) : \E i \in 1..Len(t) : t[i] = n
  /\ \A i, j \in 1..Len(t) : t[i] = t[j] => i = j
  /\ \A i, j \in 2..Len(t) : i < j => nd[t[i]].key <= nd[t[j]].key

\* On a level, the node at place j follows the one at place i.
NextOn(nd, t, level, i, j) ==
  /\ i < j /\ level <= Ht(nd, t[i]) /\ level <= Ht(nd, t[j])
  /\ \A k \in (i + 1)..(j - 1) : Ht(nd, t[k]) < level

LastOn(nd, t, level, i) ==
  level <= Ht(nd, t[i]) /\ \A k \in (i + 1)..Len(t) : Ht(nd, t[k]) < level

Threaded(nd, t) ==
  /\ \A level \in Levels, i, j \in 1..Len(t) :
       NextOn(nd, t, level, i, j) =>
         nd[t[i]].forward[level] = t[j] /\ nd[t[j]].backward[level] = t[i]
  /\ \A level \in Levels, i \in 1..Len(t) :
       LastOn(nd, t, level, i) => nd[t[i]].forward[level] = Null
  /\ \A level \in Levels : nd[head].backward[level] = Null

Lists(nd, t) == WellTyped(nd) /\ InOrder(nd, t) /\ Threaded(nd, t)

LowEnough(nd, top) == \A n \in LinkedIn(nd) \ {head} : Ht(nd, n) <= top

Inv ==
  /\ current_level \in Levels
  /\ \E t : Lists(node, t)
  /\ LowEnough(node, current_level)

-----------------------------------------------------------------------------
\* A set of natural numbers has a least element.
LEMMA LeastExists ==
  ASSUME NEW S \in SUBSET Nat, S # {}
  PROVE  \E x \in S : \A y \in S : x <= y
<1>1. PICK x \in S : \A y \in S : ~ (<<y, x>> \in OpToRel(<, Nat))
  BY NatLessThanWellFounded, WFMin
<1>2. \A y \in S : ~ (y < x)
  BY <1>1 DEF OpToRel
<1> QED
  BY <1>2

\* A number between two others.
LEMMA Between == \A x, y, z \in Nat : x < y /\ y < z => y \in (x + 1)..(z - 1)
OBVIOUS

\* A bounded set of natural numbers has a greatest element.
LEMMA GreatestExists ==
  ASSUME NEW n \in Nat, NEW S \in SUBSET (1..n), S # {}
  PROVE  \E x \in S : \A y \in S : y <= x
<1> DEFINE T == {n - x : x \in S}
<1>1. T \in SUBSET Nat /\ T # {}
  <2>1. \A x \in S : n - x \in Nat
    OBVIOUS
  <2>2. PICK x \in S : TRUE
    OBVIOUS
  <2>3. n - x \in T
    BY <2>2
  <2> QED
    BY <2>1, <2>3
<1>2. PICK y \in T : \A z \in T : y <= z
  BY <1>1, LeastExists
<1>3. PICK x \in S : y = n - x
  BY <1>2
<1>4. \A z \in S : n - z \in T
  OBVIOUS
<1>5. \A z \in S : y <= n - z
  BY <1>2, <1>4
<1> QED
  BY <1>3, <1>5

\* What the places of the order hold.
LEMMA PlacesHold ==
  ASSUME NEW nd, NEW t, Lists(nd, t)
  PROVE  /\ Len(t) \in Nat \ {0} /\ t[1] = head /\ 1 \in 1..Len(t)
         /\ Null \notin LinkedIn(nd)
         /\ \A i \in 1..Len(t) :
              /\ t[i] \in LinkedIn(nd) /\ t[i] # Null /\ t[i] \in Addresses
              /\ nd[t[i]] \in Nodes /\ nd[t[i]].key \in Nat /\ nd[t[i]].tranc_id \in Nat
              /\ Ht(nd, t[i]) \in Levels /\ Ht(nd, t[i]) \in Nat
              /\ Len(nd[t[i]].backward) = Ht(nd, t[i])
         /\ Ht(nd, t[1]) = MaxLevel /\ MaxLevel \in Nat
<1>1. Len(t) \in Nat \ {0} /\ t[1] = head /\ \A i \in 1..Len(t) : t[i] \in LinkedIn(nd)
  BY DEF Lists, InOrder
<1>2. MaxLevel \in Nat /\ Null \notin Addresses /\ Null \notin Nodes
  BY SkipListParameters
<1>3. \A n \in LinkedIn(nd) : /\ nd[n] \in Nodes /\ n \in Addresses
                              /\ Ht(nd, n) \in Levels
                              /\ Len(nd[n].backward) = Ht(nd, n)
  BY DEF Lists, WellTyped, LinkedIn
<1>4. \A x \in Nodes : x.key \in Nat /\ x.tranc_id \in Nat
  BY DEF Nodes
<1>5. \A l \in Levels : l \in Nat
  BY <1>2 DEF Levels
<1>6. Ht(nd, t[1]) = MaxLevel
  BY <1>1 DEF Lists, WellTyped
<1>7. Null \notin LinkedIn(nd)
  BY <1>2 DEF LinkedIn
<1> QED
  BY <1>1, <1>2, <1>3, <1>4, <1>5, <1>6, <1>7

\* The next node of a level, if there is one further on.
LEMMA NextExists ==
  ASSUME NEW nd, NEW t, Lists(nd, t), NEW level \in Levels,
         NEW i \in 1..Len(t), level <= Ht(nd, t[i]),
         NEW k \in (i + 1)..Len(t), level <= Ht(nd, t[k])
  PROVE  \E j \in (i + 1)..k : NextOn(nd, t, level, i, j)
<1> DEFINE S == {j \in (i + 1)..k : level <= Ht(nd, t[j])}
<1>0. Len(t) \in Nat /\ level \in Nat
  BY PlacesHold, SkipListParameters DEF Levels
<1>1. S \in SUBSET Nat /\ k \in S
  BY <1>0
<1>2. PICK j \in S : \A y \in S : j <= y
  BY <1>1, LeastExists
<1>3. ASSUME NEW m \in (i + 1)..(j - 1)
      PROVE  Ht(nd, t[m]) < level
  <2>1. m \notin S /\ m \in (i + 1)..k /\ m \in 1..Len(t)
    BY <1>0, <1>2, <1>3
  <2>2. Ht(nd, t[m]) \in Nat
    BY <2>1, PlacesHold
  <2> QED
    BY <2>1, <2>2, <1>0
<1>4. j \in (i + 1)..k /\ i < j /\ level <= Ht(nd, t[j])
  BY <1>0, <1>2
<1> QED
  BY <1>3, <1>4 DEF NextOn

\* What the forward pointer of a place on a level is.
LEMMA ForwardIs ==
  ASSUME NEW nd, NEW t, Lists(nd, t), NEW level \in Levels,
         NEW i \in 1..Len(t), level <= Ht(nd, t[i])
  PROVE  \/ LastOn(nd, t, level, i) /\ nd[t[i]].forward[level] = Null
         \/ \E j \in (i + 1)..Len(t) :
              NextOn(nd, t, level, i, j) /\ nd[t[i]].forward[level] = t[j]
<1>0. Len(t) \in Nat /\ level \in Nat
  BY PlacesHold, SkipListParameters DEF Levels
<1>1. CASE \E k \in (i + 1)..Len(t) : level <= Ht(nd, t[k])
  <2>1. PICK k \in (i + 1)..Len(t) : level <= Ht(nd, t[k])
    BY <1>1
  <2>2. PICK j \in (i + 1)..k : NextOn(nd, t, level, i, j)
    BY <2>1, NextExists
  <2>3. j \in (i + 1)..Len(t) /\ j \in 1..Len(t)
    BY <1>0, <2>2
  <2>4. nd[t[i]].forward[level] = t[j]
    BY <2>2, <2>3 DEF Lists, Threaded
  <2> QED
    BY <2>2, <2>3, <2>4
<1>2. CASE ~ \E k \in (i + 1)..Len(t) : level <= Ht(nd, t[k])
  <2>1. ASSUME NEW k \in (i + 1)..Len(t)
        PROVE  Ht(nd, t[k]) < level
    <3>1. k \in 1..Len(t)
      BY <1>0
    <3>2. Ht(nd, t[k]) \in Nat
      BY <3>1, PlacesHold
    <3> QED
      BY <1>0, <1>2, <3>2
  <2>2. LastOn(nd, t, level, i)
    BY <2>1 DEF LastOn
  <2> QED
    BY <2>2 DEF Lists, Threaded
<1> QED
  BY <1>1, <1>2

\* The bottom level links every node.
LEMMA BottomNext ==
  ASSUME NEW nd, NEW t, Lists(nd, t), NEW i \in 1..Len(t)
  PROVE  nd[t[i]].forward[1] = IF i = Len(t) THEN Null ELSE t[i + 1]
<1>0. Len(t) \in Nat /\ 1 \in Levels
  BY PlacesHold, SkipListParameters DEF Levels
<1>1. \A k \in 1..Len(t) : 1 <= Ht(nd, t[k]) /\ Ht(nd, t[k]) \in Nat
  BY PlacesHold DEF Levels
<1>2. CASE LastOn(nd, t, 1, i) /\ nd[t[i]].forward[1] = Null
  <2>1. i = Len(t)
    <3> SUFFICES ASSUME i # Len(t)
                 PROVE  FALSE
      OBVIOUS
    <3>1. i + 1 \in (i + 1)..Len(t) /\ i + 1 \in 1..Len(t)
      BY <1>0
    <3>2. Ht(nd, t[i + 1]) < 1
      BY <1>2, <3>1 DEF LastOn
    <3> QED
      BY <1>1, <3>1, <3>2
  <2> QED
    BY <1>2, <2>1
<1>3. CASE \E j \in (i + 1)..Len(t) : NextOn(nd, t, 1, i, j) /\ nd[t[i]].forward[1] = t[j]
  <2>1. PICK j \in (i + 1)..Len(t) : NextOn(nd, t, 1, i, j) /\ nd[t[i]].forward[1] = t[j]
    BY <1>3
  <2>2. j = i + 1
    <3> SUFFICES ASSUME j # i + 1
                 PROVE  FALSE
      OBVIOUS
    <3>1. i + 1 \in (i + 1)..(j - 1) /\ i + 1 \in 1..Len(t)
      BY <1>0
    <3>2. Ht(nd, t[i + 1]) < 1
      BY <2>1, <3>1 DEF NextOn
    <3> QED
      BY <1>1, <3>1, <3>2
  <2>3. i # Len(t)
    BY <1>0, <2>1
  <2> QED
    BY <2>1, <2>2, <2>3
<1> QED
  BY <1>0, <1>1, <1>2, <1>3, ForwardIs

-----------------------------------------------------------------------------
\* The search.

Below(nd, t, key, i) == i = 1 \/ nd[t[i]].key < key

\* The search for key stops at place j of a level.
Stops(nd, t, level, key, j) ==
  /\ level <= Ht(nd, t[j]) /\ Below(nd, t, key, j)
  /\ \A k \in (j + 1)..Len(t) : level <= Ht(nd, t[k]) => key <= nd[t[k]].key

\* Whatever satisfies the recursion of the walk leads to the last node of the level
\* with a smaller key.
WalkOf(f, level, key) ==
  f = [n \in NodesAt(level) |->
         IF node[n].forward[level] # Null /\ node[node[n].forward[level]].key < key
           THEN f[node[n].forward[level]] ELSE n]

\* The walk has one solution.
LEMMA WalkSolved ==
  ASSUME NEW t, Lists(node, t), NEW key \in Nat, NEW level \in Levels,
         NEW p \in 1..Len(t), Stops(node, t, level, key, p)
  PROVE  /\ \E f : WalkOf(f, level, key)
         /\ \A f : WalkOf(f, level, key) =>
              \A i \in 1..Len(t) :
                level <= Ht(node, t[i]) /\ Below(node, t, key, i) => f[t[i]] = t[p]
<1> DEFINE N == NodesAt(level)
           g == [n \in N |-> IF n = head \/ node[n].key < key THEN t[p] ELSE n]
           next(n) == node[n].forward[level]
<1>0. Len(t) \in Nat /\ level \in Nat /\ p \in Nat
  BY PlacesHold, SkipListParameters DEF Levels
<1>1. \A i \in 1..Len(t) : level <= Ht(node, t[i]) => t[i] \in N
  BY PlacesHold DEF NodesAt, Height, Ht, Linked, LinkedIn
<1>2. \A n \in N : \E i \in 1..Len(t) : t[i] = n /\ level <= Ht(node, t[i])
  BY DEF NodesAt, Height, Ht, Linked, LinkedIn, Lists, InOrder
<1>3. \A i \in 1..Len(t) : (t[i] = head) <=> (i = 1)
  BY PlacesHold DEF Lists, InOrder
<1>4. ASSUME NEW i \in 1..Len(t), level <= Ht(node, t[i])
      PROVE  g[t[i]] = IF Below(node, t, key, i) THEN t[p] ELSE t[i]
  BY <1>1, <1>3, <1>4 DEF Below
<1>5. \A i, j \in 2..Len(t) : i < j => node[t[i]].key <= node[t[j]].key
  BY DEF Lists, InOrder
<1>6. \A i \in 1..Len(t) : node[t[i]].key \in Nat
  BY PlacesHold
<1> HIDE DEF g
<1>7. ASSUME NEW i \in 1..Len(t), level <= Ht(node, t[i]), Below(node, t, key, i), i # p
      PROVE  i < p
  <2>1. ~ (p < i)
    <3> SUFFICES ASSUME p < i
                 PROVE  FALSE
      OBVIOUS
    <3>1. i \in (p + 1)..Len(t) /\ i # 1
      BY <1>0
    <3>2. key <= node[t[i]].key
      BY <3>1, <1>7 DEF Stops
    <3>3. node[t[i]].key < key
      BY <3>1, <1>7 DEF Below
    <3> QED
      BY <3>2, <3>3, <1>6
  <2> QED
    BY <1>0, <1>7, <2>1
<1>8. ASSUME NEW i \in 1..Len(t), level <= Ht(node, t[i])
      PROVE  /\ next(t[i]) # Null /\ node[next(t[i])].key < key =>
                  \E j \in (i + 1)..Len(t) : /\ next(t[i]) = t[j] /\ level <= Ht(node, t[j])
                                             /\ g[t[i]] = g[t[j]]
                                             /\ Below(node, t, key, i)
                                             /\ Below(node, t, key, j)
             /\ ~ (next(t[i]) # Null /\ node[next(t[i])].key < key) => g[t[i]] = t[i]
  <2>1. CASE LastOn(node, t, level, i) /\ next(t[i]) = Null
    <3>1. Below(node, t, key, i) => i = p
      <4> SUFFICES ASSUME Below(node, t, key, i), i # p
                   PROVE  FALSE
        OBVIOUS
      <4>1. p \in (i + 1)..Len(t)
        BY <1>0, <1>7, <1>8
      <4>2. Ht(node, t[p]) < level /\ level <= Ht(node, t[p]) /\ Ht(node, t[p]) \in Nat
        BY <4>1, <2>1, PlacesHold DEF LastOn, Stops
      <4> QED
        BY <4>2, <1>0
    <3> QED
      BY <2>1, <3>1, <1>4, <1>8
  <2>2. CASE \E j \in (i + 1)..Len(t) : NextOn(node, t, level, i, j) /\ next(t[i]) = t[j]
    <3>1. PICK j \in (i + 1)..Len(t) : NextOn(node, t, level, i, j) /\ next(t[i]) = t[j]
      BY <2>2
    <3>2. j \in 2..Len(t) /\ j \in 1..Len(t) /\ t[j] # Null /\ level <= Ht(node, t[j]) /\ i < j
      BY <1>0, <3>1, PlacesHold DEF NextOn
    <3>3. CASE node[t[j]].key < key
      <4>1. Below(node, t, key, j)
        BY <3>3 DEF Below
      <4>2. Below(node, t, key, i)
        <5>1. CASE i = 1
          BY <5>1 DEF Below
        <5>2. CASE i # 1
          <6>1. i \in 2..Len(t)
            BY <5>2, <1>0
          <6>2. node[t[i]].key <= node[t[j]].key
            BY <6>1, <3>2, <1>5
          <6>3. node[t[i]].key \in Nat /\ node[t[j]].key \in Nat
            BY <3>2, <1>6
          <6> QED
            BY <6>2, <6>3, <3>3 DEF Below
        <5> QED
          BY <5>1, <5>2
      <4>3. g[t[i]] = g[t[j]]
        BY <4>1, <4>2, <1>4, <1>8, <3>2
      <4> QED
        BY <3>1, <3>2, <3>3, <4>1, <4>2, <4>3
    <3>4. CASE ~ (node[t[j]].key < key)
      <4>1. Below(node, t, key, i) => i = p
        <5> SUFFICES ASSUME Below(node, t, key, i), i # p
                     PROVE  FALSE
          OBVIOUS
        <5>1. i < p
          BY <1>7, <1>8
        <5>2. p \notin (i + 1)..(j - 1)
          <6>1. Ht(node, t[p]) \in Nat /\ level <= Ht(node, t[p])
            BY PlacesHold DEF Stops
          <6> QED
            BY <6>1, <1>0, <3>1 DEF NextOn
        <5>3. j <= p /\ p \in 2..Len(t)
          BY <5>1, <5>2, <3>2, <1>0
        <5>4. node[t[j]].key <= node[t[p]].key
          <6>1. node[t[j]].key \in Nat
            BY <3>2, <1>6
          <6> QED
            BY <6>1, <5>3, <3>2, <1>5
        <5>5. node[t[p]].key < key
          BY <5>3 DEF Stops, Below
        <5>6. node[t[p]].key \in Nat /\ node[t[j]].key \in Nat
          BY <3>2, <1>6
        <5> QED
          BY <5>4, <5>5, <5>6, <3>4
      <4> QED
        BY <3>1, <3>4, <4>1, <1>4, <1>8
    <3> QED
      BY <3>3, <3>4
  <2> QED
    BY <2>1, <2>2, <1>8, ForwardIs
<1>9. WalkOf(g, level, key)
  <2>1. ASSUME NEW n \in N
        PROVE  g[n] = IF next(n) # Null /\ node[next(n)].key < key THEN g[next(n)] ELSE n
    <3>1. PICK i \in 1..Len(t) : t[i] = n /\ level <= Ht(node, t[i])
      BY <1>2
    <3> QED
      BY <3>1, <1>8
  <2>2. g = [n \in N |-> g[n]]
    BY DEF g
  <2> QED
    BY <2>1, <2>2 DEF WalkOf
<1>10. ASSUME NEW f, WalkOf(f, level, key), NEW i \in 1..Len(t), level <= Ht(node, t[i]),
              Below(node, t, key, i)
       PROVE  f[t[i]] = t[p]
  <2> DEFINE B == {j \in 1..Len(t) : level <= Ht(node, t[j]) /\ f[t[j]] # g[t[j]]}
  <2>0. \A n \in N : f[n] = IF next(n) # Null /\ node[next(n)].key < key THEN f[next(n)] ELSE n
    BY <1>10 DEF WalkOf
  <2>1. B = {}
    <3> SUFFICES ASSUME B # {}
                 PROVE  FALSE
      OBVIOUS
    <3>1. PICK b \in B : \A y \in B : y <= b
      <4>1. B \in SUBSET (1..Len(t))
        OBVIOUS
      <4> HIDE DEF B
      <4> QED
        BY <4>1, <1>0, GreatestExists
    <3>2. b \in 1..Len(t) /\ level <= Ht(node, t[b]) /\ f[t[b]] # g[t[b]]
      BY <3>1
    <3>3. CASE next(t[b]) # Null /\ node[next(t[b])].key < key
      <4>1. PICK j \in (b + 1)..Len(t) : /\ next(t[b]) = t[j] /\ level <= Ht(node, t[j])
                                         /\ g[t[b]] = g[t[j]]
        BY <3>2, <3>3, <1>8
      <4>2. j \notin B /\ j \in 1..Len(t)
        BY <1>0, <3>1, <3>2, <4>1
      <4>3. f[t[j]] = g[t[j]]
        BY <4>1, <4>2
      <4>4. f[t[b]] = f[t[j]]
        BY <2>0, <1>1, <3>2, <3>3, <4>1
      <4> QED
        BY <3>2, <4>1, <4>3, <4>4
    <3>4. CASE ~ (next(t[b]) # Null /\ node[next(t[b])].key < key)
      <4>1. f[t[b]] = t[b]
        BY <3>2, <3>4, <2>0, <1>1
      <4>2. g[t[b]] = t[b]
        BY <3>2, <3>4, <1>8
      <4> QED
        BY <3>2, <4>1, <4>2
    <3> QED
      BY <3>3, <3>4
  <2>2. f[t[i]] = g[t[i]]
    BY <2>1, <1>10
  <2> QED
    BY <2>2, <1>4, <1>10
<1> QED
  BY <1>9, <1>10

\* The search stops somewhere on every level.
LEMMA StopExists ==
  ASSUME NEW nd, NEW t, Lists(nd, t), NEW key \in Nat, NEW level \in Levels
  PROVE  \E p \in 1..Len(t) : Stops(nd, t, level, key, p)
<1> DEFINE S == {j \in 1..Len(t) : level <= Ht(nd, t[j]) /\ Below(nd, t, key, j)}
<1>0. Len(t) \in Nat /\ level \in Nat /\ 1 \in 1..Len(t)
  BY PlacesHold, SkipListParameters DEF Levels
<1>1. 1 \in S
  <2>1. level <= Ht(nd, t[1])
    BY PlacesHold DEF Levels
  <2> QED
    BY <1>0, <2>1 DEF Below
<1>2. PICK p \in S : \A y \in S : y <= p
  <2>1. S \in SUBSET (1..Len(t))
    OBVIOUS
  <2> HIDE DEF S
  <2> QED
    BY <2>1, <1>0, <1>1, GreatestExists
<1>3. p \in 1..Len(t) /\ level <= Ht(nd, t[p]) /\ Below(nd, t, key, p)
  BY <1>2
<1>4. ASSUME NEW k \in (p + 1)..Len(t), level <= Ht(nd, t[k])
      PROVE  key <= nd[t[k]].key
  <2>1. k \in 1..Len(t) /\ k \notin S
    BY <1>0, <1>2, <1>3
  <2>2. ~ Below(nd, t, key, k) /\ nd[t[k]].key \in Nat
    BY <1>4, <2>1, PlacesHold
  <2> QED
    BY <2>2 DEF Below
<1> QED
  BY <1>3, <1>4 DEF Stops

\* The walk on a level leads to where the search stops.
LEMMA WalkStops ==
  ASSUME NEW t, Lists(node, t), NEW key \in Nat, NEW level \in Levels,
         NEW p \in 1..Len(t), Stops(node, t, level, key, p),
         NEW i \in 1..Len(t), level <= Ht(node, t[i]), Below(node, t, key, i)
  PROVE  WalkRight(t[i], level, key) = t[p]
<1> DEFINE f == CHOOSE f : WalkOf(f, level, key)
<1>1. WalkRight(t[i], level, key) = f[t[i]]
  BY DEF WalkRight, WalkOf
<1>2. WalkOf(f, level, key)
  BY WalkSolved
<1> HIDE DEF f
<1>3. \A g : WalkOf(g, level, key) =>
               \A k \in 1..Len(t) :
                 level <= Ht(node, t[k]) /\ Below(node, t, key, k) => g[t[k]] = t[p]
  BY WalkSolved
<1>4. f[t[i]] = t[p]
  BY <1>2, <1>3
<1> QED
  BY <1>1, <1>4

\* What satisfies the recursion over the levels.
UpdateOf(f, key, top) ==
  f = [level \in 1..top |-> WalkRight(IF level = top THEN head ELSE f[level + 1], level, key)]

\* update holds the places where the search stops.
LEMMA PredecessorsStop ==
  ASSUME NEW t, Lists(node, t), NEW key \in Nat, NEW top \in Levels
  PROVE  \A level \in 1..top : \E p \in 1..Len(t) :
           Predecessors(key, top)[level] = t[p] /\ Stops(node, t, level, key, p)
<1> DEFINE stop == [level \in 1..top |-> CHOOSE p \in 1..Len(t) : Stops(node, t, level, key, p)]
           g == [level \in 1..top |-> t[stop[level]]]
           f == CHOOSE f : UpdateOf(f, key, top)
           from(h, level) == IF level = top THEN head ELSE h[level + 1]
<1>0. top \in Nat /\ MaxLevel \in Nat /\ 1..top \subseteq Levels /\ 1 \in 1..Len(t) /\ t[1] = head
  BY PlacesHold, SkipListParameters DEF Levels
<1>1. \A level \in 1..top :
        stop[level] \in 1..Len(t) /\ Stops(node, t, level, key, stop[level])
  BY <1>0, StopExists
<1>2. \A level \in 1..top : g[level] = t[stop[level]]
  OBVIOUS
<1>3. g = [level \in 1..top |-> g[level]]
  OBVIOUS
<1> HIDE DEF stop, g
<1>4. ASSUME NEW h, NEW level \in 1..top, level # top => h[level + 1] = g[level + 1]
      PROVE  WalkRight(from(h, level), level, key) = g[level]
  <2>1. level \in Levels /\ level \in Nat
    BY <1>0
  <2>2. CASE level = top
    <3>1. level <= Ht(node, t[1]) /\ Below(node, t, key, 1)
      BY <1>0, <2>1, PlacesHold DEF Below, Levels
    <3> QED
      BY <1>0, <1>1, <1>2, <2>1, <2>2, <3>1, WalkStops
  <2>3. CASE level # top
    <3>1. level + 1 \in 1..top
      BY <1>0, <2>1, <2>3
    <3>2. from(h, level) = t[stop[level + 1]] /\ stop[level + 1] \in 1..Len(t)
      BY <1>1, <1>2, <1>4, <2>3, <3>1
    <3>3. Stops(node, t, level + 1, key, stop[level + 1])
      BY <1>1, <3>1
    <3>4. /\ level <= Ht(node, t[stop[level + 1]])
          /\ Below(node, t, key, stop[level + 1])
      <4>1. Ht(node, t[stop[level + 1]]) \in Nat
        BY <3>2, PlacesHold
      <4> QED
        BY <3>3, <4>1, <2>1 DEF Stops
    <3> QED
      BY <1>1, <1>2, <2>1, <3>2, <3>4, WalkStops
  <2> QED
    BY <2>2, <2>3
<1>5. UpdateOf(g, key, top)
  BY <1>3, <1>4 DEF UpdateOf
<1>6. UpdateOf(f, key, top)
  BY <1>5
<1>7. Predecessors(key, top) = f
  BY DEF Predecessors, UpdateOf
<1> HIDE DEF f
<1>8. \A level \in 1..top : f[level] = g[level]
  <2> DEFINE B == {level \in 1..top : f[level] # g[level]}
  <2> SUFFICES ASSUME B # {}
               PROVE  FALSE
    OBVIOUS
  <2>1. PICK b \in B : \A y \in B : y <= b
    <3>1. B \in SUBSET (1..top)
      OBVIOUS
    <3> HIDE DEF B
    <3> QED
      BY <3>1, <1>0, GreatestExists
  <2>2. b \in 1..top /\ f[b] # g[b]
    BY <2>1
  <2>3. b # top => f[b + 1] = g[b + 1]
    <3> SUFFICES ASSUME b # top
                 PROVE  f[b + 1] = g[b + 1]
      OBVIOUS
    <3>1. b + 1 \in 1..top /\ ~ (b + 1 <= b)
      BY <1>0, <2>2
    <3> QED
      BY <2>1, <3>1
  <2>4. f[b] = WalkRight(from(f, b), b, key)
    BY <1>6, <2>2 DEF UpdateOf
  <2> QED
    BY <1>4, <2>2, <2>3, <2>4
<1> QED
  BY <1>1, <1>2, <1>7, <1>8

\* Behind place p begin the nodes whose key is not smaller.
Divides(nd, t, key, p) ==
  /\ \A k \in 2..p : nd[t[k]].key < key
  /\ \A k \in (p + 1)..Len(t) : key <= nd[t[k]].key

\* What put, get and remove find.
LEMMA SearchFinds ==
  ASSUME NEW t, Lists(node, t), NEW key \in Nat, NEW top \in Levels
  PROVE  \E p \in 1..Len(t) :
           /\ Divides(node, t, key, p)
           /\ Target(key, top) = IF p = Len(t) THEN Null ELSE t[p + 1]
           /\ \A level \in 1..top : \E q \in 1..p :
                Predecessors(key, top)[level] = t[q] /\ Stops(node, t, level, key, q)
<1>0. top \in Nat /\ top >= 1 /\ Len(t) \in Nat /\ 1 \in Levels
  BY PlacesHold, SkipListParameters DEF Levels
<1>1. PICK p \in 1..Len(t) : Predecessors(key, top)[1] = t[p] /\ Stops(node, t, 1, key, p)
  <2>1. 1 \in 1..top
    BY <1>0
  <2>2. \A level \in 1..top : \E p \in 1..Len(t) :
          Predecessors(key, top)[level] = t[p] /\ Stops(node, t, level, key, p)
    BY PredecessorsStop
  <2> QED
    BY <2>1, <2>2
<1>2. \A k \in 1..Len(t) : /\ 1 <= Ht(node, t[k]) /\ Ht(node, t[k]) \in Nat
                            /\ node[t[k]].key \in Nat
  BY PlacesHold DEF Levels
<1>3. Divides(node, t, key, p)
  <2>1. ASSUME NEW k \in 2..p
        PROVE  node[t[k]].key < key
    <3>1. k \in 2..Len(t) /\ p \in 2..Len(t) /\ k \in 1..Len(t) /\ (k < p \/ k = p)
      BY <1>0
    <3>2. node[t[p]].key < key
      BY <1>1, <3>1 DEF Stops, Below
    <3>3. k = p \/ node[t[k]].key <= node[t[p]].key
      BY <3>1 DEF Lists, InOrder
    <3> QED
      BY <1>2, <3>1, <3>2, <3>3
  <2>2. ASSUME NEW k \in (p + 1)..Len(t)
        PROVE  key <= node[t[k]].key
    <3>1. k \in 1..Len(t)
      BY <1>0
    <3> QED
      BY <1>1, <1>2, <3>1 DEF Stops
  <2> QED
    BY <2>1, <2>2 DEF Divides
<1>4. Target(key, top) = IF p = Len(t) THEN Null ELSE t[p + 1]
  <2>1. Target(key, top) = node[t[p]].forward[1]
    BY <1>1 DEF Target
  <2> QED
    BY <2>1, BottomNext
<1>5. ASSUME NEW level \in 1..top
      PROVE  \E q \in 1..p :
               Predecessors(key, top)[level] = t[q] /\ Stops(node, t, level, key, q)
  <2>1. PICK q \in 1..Len(t) :
               Predecessors(key, top)[level] = t[q] /\ Stops(node, t, level, key, q)
    BY PredecessorsStop
  <2>2. ~ (p < q)
    <3> SUFFICES ASSUME p < q
                 PROVE  FALSE
      OBVIOUS
    <3>1. q \in (p + 1)..Len(t) /\ q # 1
      BY <1>0
    <3>2. key <= node[t[q]].key /\ node[t[q]].key < key
      BY <3>1, <1>3, <2>1 DEF Divides, Stops, Below
    <3> QED
      BY <3>2, <1>2
  <2>3. q \in 1..p
    BY <2>2
  <2> QED
    BY <2>1, <2>3
<1> QED
  BY <1>3, <1>4, <1>5

-----------------------------------------------------------------------------
\* The scan of the bottom level.

ChainOf(f, nd) ==
  f = [n \in LinkedIn(nd) |->
         IF nd[n].forward[1] = Null THEN << >>
         ELSE <<nd[n].forward[1]>> \o f[nd[n].forward[1]]]

ChainIn(nd) == (CHOOSE f : ChainOf(f, nd))[head]

\* The scan delivers the nodes in their order.
LEMMA ChainIs ==
  ASSUME NEW nd, NEW t, Lists(nd, t)
  PROVE  ChainIn(nd) = SubSeq(t, 2, Len(t))
<1> DEFINE L == Len(t)
           S == LinkedIn(nd)
           place(n) == CHOOSE i \in 1..L : t[i] = n
           rest == [i \in 1..L |-> SubSeq(t, i + 1, L)]
           g == [n \in S |-> rest[place(n)]]
           f == CHOOSE f : ChainOf(f, nd)
           next(n) == nd[n].forward[1]
<1>0. /\ t \in Seq(S) /\ L \in Nat /\ 1 \in 1..L /\ t[1] = head
      /\ \A i \in 1..L : t[i] \in S /\ t[i] # Null
  BY PlacesHold DEF Lists, InOrder
<1>1. \A n \in S : \E i \in 1..L : t[i] = n
  BY DEF Lists, InOrder
<1>2. \A i \in 1..L : place(t[i]) = i
  BY DEF Lists, InOrder
<1>3. \A i \in 1..L : g[t[i]] = rest[i]
  BY <1>0, <1>2
<1>4. \A i \in 1..L : next(t[i]) = IF i = L THEN Null ELSE t[i + 1]
  BY BottomNext
<1>5. \A i \in 1..L : rest[i] = IF i = L THEN << >> ELSE <<t[i + 1]>> \o rest[i + 1]
  <2> TAKE i \in 1..L
  <2>1. CASE i = L
    <3>1. i + 1 \in Int /\ L \in Int /\ L < i + 1
      BY <1>0, <2>1
    <3>2. SubSeq(t, i + 1, L) = << >>
      BY <3>1, SubSeqEmpty
    <3> QED
      BY <2>1, <3>2
  <2>2. CASE i # L
    <3>1. i + 1 \in 1..L /\ L \in (i + 1)..L /\ i + 1 + 1 = i + 2
      BY <1>0, <2>2
    <3>2. SubSeq(t, i + 1, L) = <<t[i + 1]>> \o SubSeq(t, i + 1 + 1, L)
      BY <1>0, <3>1, SubSeqRecursiveFirst
    <3> QED
      BY <2>2, <3>1, <3>2
  <2> QED
    BY <2>1, <2>2
<1> HIDE DEF rest
<1>6. ChainOf(g, nd)
  <2>1. ASSUME NEW n \in S
        PROVE  g[n] = IF next(n) = Null THEN << >> ELSE <<next(n)>> \o g[next(n)]
    <3> HIDE DEF g
    <3>1. PICK i \in 1..L : t[i] = n
      BY <1>1
    <3>2. CASE i = L
      <4>1. next(n) = Null /\ g[n] = << >>
        BY <1>3, <1>4, <1>5, <3>1, <3>2
      <4> QED
        BY <4>1
    <3>3. CASE i # L
      <4>1. i + 1 \in 1..L
        BY <1>0, <3>3
      <4>2. next(n) = t[i + 1] /\ next(n) # Null
        BY <1>0, <1>4, <3>1, <3>3, <4>1
      <4>3. g[n] = <<t[i + 1]>> \o g[t[i + 1]]
        BY <1>3, <1>5, <3>1, <3>3, <4>1
      <4> QED
        BY <4>2, <4>3
    <3> QED
      BY <3>2, <3>3
  <2>2. g = [n \in S |-> g[n]]
    OBVIOUS
  <2> HIDE DEF g
  <2> QED
    BY <2>1, <2>2 DEF ChainOf
<1>7. ChainOf(f, nd)
  BY <1>6
<1> HIDE DEF f, g
<1>8. ASSUME NEW n \in S
      PROVE  f[n] = IF next(n) = Null THEN << >> ELSE <<next(n)>> \o f[next(n)]
  BY <1>7 DEF ChainOf
<1>9. \A i \in 1..L : f[t[i]] = rest[i]
  <2> DEFINE B == {i \in 1..L : f[t[i]] # rest[i]}
  <2> SUFFICES ASSUME B # {}
               PROVE  FALSE
    OBVIOUS
  <2>1. PICK b \in B : \A y \in B : y <= b
    <3>1. B \in SUBSET (1..L)
      OBVIOUS
    <3> HIDE DEF B
    <3> QED
      BY <3>1, <1>0, GreatestExists
  <2>2. b \in 1..L /\ f[t[b]] # rest[b]
    BY <2>1
  <2>3. CASE b = L
    BY <1>0, <1>4, <1>5, <1>8, <2>2, <2>3
  <2>4. CASE b # L
    <3>1. b + 1 \in 1..L /\ ~ (b + 1 <= b)
      BY <1>0, <2>2, <2>4
    <3>2. f[t[b + 1]] = rest[b + 1]
      BY <2>1, <3>1
    <3>3. next(t[b]) = t[b + 1] /\ t[b + 1] # Null /\ t[b] \in S
      BY <1>0, <1>4, <2>2, <2>4, <3>1
    <3>4. f[t[b]] = <<t[b + 1]>> \o f[t[b + 1]]
      BY <1>8, <3>3
    <3> QED
      BY <1>5, <2>2, <2>4, <3>2, <3>4
  <2> QED
    BY <2>3, <2>4
<1>10. ChainIn(nd) = f[t[1]]
  BY <1>0 DEF ChainIn, f
<1>11. rest[1] = SubSeq(t, 2, Len(t))
  BY <1>0 DEF rest
<1> QED
  BY <1>0, <1>9, <1>10, <1>11

\* The versions of the nodes in their order.
Version(nd, n) == [key |-> nd[n].key, value |-> nd[n].value, tranc_id |-> nd[n].tranc_id]

Versions(nd, t) == [i \in 1..(Len(t) - 1) |-> Version(nd, t[i + 1])]

FlushIn(nd) == [i \in DOMAIN ChainIn(nd) |-> Version(nd, ChainIn(nd)[i])]

\* The places of the scan.
LEMMA ChainPlaces ==
  ASSUME NEW nd, NEW t, Lists(nd, t)
  PROVE  /\ Len(t) - 1 \in Nat /\ ChainIn(nd) \in Seq(LinkedIn(nd))
         /\ Len(ChainIn(nd)) = Len(t) - 1 /\ DOMAIN ChainIn(nd) = 1..(Len(t) - 1)
         /\ \A i \in 1..(Len(t) - 1) : ChainIn(nd)[i] = t[i + 1]
<1> DEFINE c == SubSeq(t, 2, Len(t))
           S == LinkedIn(nd)
<1>0. Len(t) \in Nat \ {0} /\ \A i \in 1..Len(t) : t[i] \in S
  BY PlacesHold
<1>1. \A i \in 2..Len(t) : t[i] \in S
  BY <1>0
<1>2. /\ c \in Seq(S) /\ Len(c) = IF 2 <= Len(t) THEN Len(t) - 2 + 1 ELSE 0
      /\ \A i \in 1..(Len(t) - 2 + 1) : c[i] = t[2 + i - 1]
  <2>1. 2 \in Int /\ Len(t) \in Int
    BY <1>0
  <2> HIDE DEF S
  <2> QED
    BY <1>1, <2>1, SubSeqProperties
<1>3. Len(c) = Len(t) - 1 /\ Len(t) - 1 \in Nat
  <2>1. \A n \in Nat \ {0} : (IF 2 <= n THEN n - 2 + 1 ELSE 0) = n - 1 /\ n - 1 \in Nat
    OBVIOUS
  <2> HIDE DEF c
  <2> QED
    BY <1>0, <1>2, <2>1, Zenon
<1>4. \A i \in 1..(Len(t) - 1) : c[i] = t[i + 1]
  <2> TAKE i \in 1..(Len(t) - 1)
  <2>1. i \in 1..(Len(t) - 2 + 1) /\ 2 + i - 1 = i + 1
    BY <1>0
  <2> QED
    BY <1>2, <2>1
<1>5. ChainIn(nd) = c
  BY ChainIs
<1>6. DOMAIN c = 1..Len(c)
  BY <1>2
<1> HIDE DEF c
<1> QED
  BY <1>2, <1>3, <1>4, <1>5, <1>6

\* flush delivers the versions.
LEMMA FlushIs ==
  ASSUME NEW nd, NEW t, Lists(nd, t)
  PROVE  FlushIn(nd) = Versions(nd, t)
BY ChainPlaces DEF FlushIn, Versions

\* The operators of the specification are these.
LEMMA ScanIs ==
  /\ Chain = ChainIn(node) /\ flush = FlushIn(node)
  /\ Chain' = ChainIn(node') /\ flush' = FlushIn(node')
<1>1. Chain = ChainIn(node)
  BY DEF Chain, ChainIn, ChainOf, Linked, LinkedIn
<1>2. Chain' = ChainIn(node')
  BY DEF Chain, ChainIn, ChainOf, Linked, LinkedIn
<1> QED
  BY <1>1, <1>2 DEF flush, FlushIn, Version

-----------------------------------------------------------------------------
\* Linking a node.

\* Where place i is once something was put in behind place p.
Up(i, p) == IF i <= p THEN i ELSE i + 1

Insert(t, p, new) ==
  [i \in 1..(Len(t) + 1) |-> IF i <= p THEN t[i] ELSE IF i = p + 1 THEN new ELSE t[i - 1]]

\* What put makes of the nodes nd: new stands behind update on levels 1..h.
Spliced(nd, nd2, new, key, h, update) ==
  /\ WellTyped(nd2)
  /\ LinkedIn(nd2) = LinkedIn(nd) \cup {new}
  /\ \A n \in LinkedIn(nd) :
       /\ Ht(nd2, n) = Ht(nd, n) /\ nd2[n].key = nd[n].key
       /\ \A level \in 1..Ht(nd, n) :
            /\ nd2[n].forward[level] =
                 IF level <= h /\ update[level] = n THEN new ELSE nd[n].forward[level]
            /\ nd2[n].backward[level] =
                 IF level <= h /\ nd[update[level]].forward[level] = n
                   THEN new ELSE nd[n].backward[level]
  /\ Ht(nd2, new) = h /\ nd2[new].key = key
  /\ \A level \in 1..h : /\ nd2[new].forward[level] = nd[update[level]].forward[level]
                          /\ nd2[new].backward[level] = update[level]

\* u is t, with new in behind place p.
InsertedAt(t, p, new, u) ==
  /\ Len(u) = Len(t) + 1
  /\ u[p + 1] = new
  /\ \A i \in 1..Len(t) : /\ Up(i, p) \in 1..(Len(t) + 1) /\ Up(i, p) # p + 1
                          /\ u[Up(i, p)] = t[i]
  /\ \A i \in 1..(Len(t) + 1) : i = p + 1 \/ \E j \in 1..Len(t) : i = Up(j, p)
  /\ \A i, j \in 1..Len(t) : i < j <=> Up(i, p) < Up(j, p)

\* The places after an insertion.
LEMMA InsertPlaces ==
  ASSUME NEW S, NEW t \in Seq(S), NEW p \in 1..Len(t), NEW new,
         NEW u, u = Insert(t, p, new)
  PROVE  u \in Seq(S \cup {new}) /\ InsertedAt(t, p, new, u)
<1>0. Len(t) \in Nat
  OBVIOUS
<1>1. \A i \in 1..(Len(t) + 1) : u[i] \in S \cup {new}
  <2> TAKE i \in 1..(Len(t) + 1)
  <2>1. \A k \in 1..Len(t) : t[k] \in S
    OBVIOUS
  <2>2. CASE i <= p
    BY <1>0, <2>1, <2>2 DEF Insert
  <2>3. CASE i = p + 1
    BY <1>0, <2>3 DEF Insert
  <2>4. CASE i > p + 1
    <3>1. i - 1 \in 1..Len(t) /\ ~ (i <= p) /\ i # p + 1
      BY <1>0, <2>4
    <3> QED
      BY <2>1, <3>1 DEF Insert
  <2> QED
    BY <1>0, <2>2, <2>3, <2>4
<1>2. u = [i \in 1..(Len(t) + 1) |-> u[i]]
  BY DEF Insert
<1>3. u \in Seq(S \cup {new}) /\ Len(u) = Len(t) + 1
  <2>1. Len(t) + 1 \in Nat
    BY <1>0
  <2> QED
    BY <2>1, <1>1, <1>2
<1>4. u[p + 1] = new
  BY <1>0 DEF Insert
<1>5. \A i \in 1..Len(t) : /\ Up(i, p) \in 1..(Len(t) + 1) /\ Up(i, p) # p + 1
                           /\ u[Up(i, p)] = t[i]
  BY <1>0 DEF Insert, Up
<1>6. \A i \in 1..(Len(t) + 1) : i = p + 1 \/ \E j \in 1..Len(t) : i = Up(j, p)
  <2> TAKE i \in 1..(Len(t) + 1)
  <2>1. CASE i <= p
    BY <1>0, <2>1 DEF Up
  <2>2. CASE i > p + 1
    <3>1. i - 1 \in 1..Len(t) /\ i = Up(i - 1, p)
      BY <1>0, <2>2 DEF Up
    <3> QED
      BY <3>1
  <2> QED
    BY <1>0, <2>1, <2>2
<1>7. \A i, j \in 1..Len(t) : i < j <=> Up(i, p) < Up(j, p)
  BY <1>0 DEF Up
<1> QED
  BY <1>3, <1>4, <1>5, <1>6, <1>7 DEF InsertedAt

\* The new order is one, sorted by key.
LEMMA InsertInOrder ==
  ASSUME NEW nd, NEW t, Lists(nd, t), NEW key \in Nat, NEW p \in 1..Len(t),
         Divides(nd, t, key, p), NEW new \in Addresses, new \notin LinkedIn(nd),
         NEW h, NEW update, NEW nd2, Spliced(nd, nd2, new, key, h, update),
         NEW u, u = Insert(t, p, new)
  PROVE  InOrder(nd2, u)
<1>0. t \in Seq(LinkedIn(nd)) /\ Len(t) \in Nat /\ Len(t) + 1 \in Nat /\ t[1] = head
  BY DEF Lists, InOrder
<1>1. /\ u \in Seq(LinkedIn(nd2)) /\ Len(u) = Len(t) + 1
      /\ u[p + 1] = new
      /\ \A i \in 1..Len(t) : /\ Up(i, p) \in 1..(Len(t) + 1) /\ Up(i, p) # p + 1
                              /\ u[Up(i, p)] = t[i]
      /\ \A i \in 1..(Len(t) + 1) : i = p + 1 \/ \E j \in 1..Len(t) : i = Up(j, p)
      /\ \A i, j \in 1..Len(t) : i < j <=> Up(i, p) < Up(j, p)
  <2>1. LinkedIn(nd2) = LinkedIn(nd) \cup {new}
    BY DEF Spliced
  <2>2. u \in Seq(LinkedIn(nd) \cup {new}) /\ InsertedAt(t, p, new, u)
    BY <1>0, InsertPlaces
  <2> QED
    BY <2>1, <2>2, Zenon DEF InsertedAt
<1>2. u[1] = head
  <2>1. Up(1, p) = 1 /\ 1 \in 1..Len(t)
    BY <1>0 DEF Up
  <2> QED
    BY <1>0, <1>1, <2>1
<1>3. \A i \in 1..Len(t) : /\ t[i] \in LinkedIn(nd) /\ t[i] # new
                           /\ nd2[t[i]].key = nd[t[i]].key /\ nd[t[i]].key \in Nat
  BY PlacesHold DEF Spliced
<1>4. \A n \in LinkedIn(nd2) : \E i \in 1..Len(u) : u[i] = n
  <2> TAKE n \in LinkedIn(nd2)
  <2>1. CASE n = new
    <3>1. p + 1 \in 1..Len(u)
      BY <1>0, <1>1
    <3> QED
      BY <1>1, <2>1, <3>1
  <2>2. CASE n \in LinkedIn(nd)
    <3>1. PICK i \in 1..Len(t) : t[i] = n
      BY <2>2 DEF Lists, InOrder
    <3>2. Up(i, p) \in 1..Len(u) /\ u[Up(i, p)] = n
      BY <1>1, <3>1
    <3> QED
      BY <3>2
  <2> QED
    BY <2>1, <2>2 DEF Spliced
<1>5. \A i, j \in 1..Len(u) : u[i] = u[j] => i = j
  <2> SUFFICES ASSUME NEW i \in 1..Len(u), NEW j \in 1..Len(u), u[i] = u[j]
               PROVE  i = j
    OBVIOUS
  <2>1. CASE i = p + 1 /\ j = p + 1
    BY <2>1
  <2>2. CASE \E a, b \in 1..Len(t) : i = Up(a, p) /\ j = Up(b, p)
    <3>1. PICK a \in 1..Len(t), b \in 1..Len(t) : i = Up(a, p) /\ j = Up(b, p)
      BY <2>2
    <3>2. t[a] = t[b]
      BY <1>1, <3>1
    <3>3. a = b
      BY <3>2 DEF Lists, InOrder
    <3> QED
      BY <3>1, <3>3
  <2>3. CASE \E a \in 1..Len(t) : (i = Up(a, p) /\ j = p + 1) \/ (j = Up(a, p) /\ i = p + 1)
    <3>1. PICK a \in 1..Len(t) : (i = Up(a, p) /\ j = p + 1) \/ (j = Up(a, p) /\ i = p + 1)
      BY <2>3
    <3>2. t[a] = new
      BY <1>1, <3>1
    <3> QED
      BY <1>3, <3>2
  <2> QED
    BY <1>1, <2>1, <2>2, <2>3
<1>6. ASSUME NEW i \in 2..Len(u), NEW j \in 2..Len(u), i < j
      PROVE  nd2[u[i]].key <= nd2[u[j]].key
  <2>0. i \in 1..(Len(t) + 1) /\ j \in 1..(Len(t) + 1) /\ nd2[new].key = key
    BY <1>0, <1>1 DEF Spliced
  <2>1. CASE i = p + 1
    <3>0. j # p + 1
      BY <1>6, <2>1
    <3>1. PICK b \in 1..Len(t) : j = Up(b, p)
      BY <1>1, <2>0, <3>0
    <3>2. b \in (p + 1)..Len(t)
      BY <1>0, <1>6, <2>1, <3>1 DEF Up
    <3>3. key <= nd[t[b]].key
      BY <3>2 DEF Divides
    <3> QED
      BY <1>1, <1>3, <2>0, <2>1, <3>1, <3>3
  <2>2. CASE j = p + 1
    <3>0. i # p + 1
      BY <1>6, <2>2
    <3>1. PICK a \in 1..Len(t) : i = Up(a, p)
      BY <1>1, <2>0, <3>0
    <3>2. a \in 2..p
      BY <1>0, <1>6, <2>2, <3>1 DEF Up
    <3>3. nd[t[a]].key < key
      BY <3>2 DEF Divides
    <3> QED
      BY <1>1, <1>3, <2>0, <2>2, <3>1, <3>3
  <2>3. CASE i # p + 1 /\ j # p + 1
    <3>1. PICK a \in 1..Len(t) : i = Up(a, p)
      BY <1>1, <2>0, <2>3
    <3>2. PICK b \in 1..Len(t) : j = Up(b, p)
      BY <1>1, <2>0, <2>3
    <3>3. a < b /\ a \in 2..Len(t) /\ b \in 2..Len(t)
      BY <1>0, <1>6, <3>1, <3>2 DEF Up
    <3>4. nd[t[a]].key <= nd[t[b]].key
      BY <3>3 DEF Lists, InOrder
    <3> QED
      BY <1>1, <1>3, <3>1, <3>2, <3>4
  <2> QED
    BY <2>1, <2>2, <2>3
<1>7. Len(u) >= 1
  BY <1>0, <1>1
<1> QED
  BY <1>1, <1>2, <1>4, <1>5, <1>6, <1>7, Zenon DEF InOrder

\* The pointers thread the new order.
LEMMA InsertThreaded ==
  ASSUME NEW nd, NEW t, Lists(nd, t), NEW key \in Nat, NEW p \in 1..Len(t),
         Divides(nd, t, key, p), NEW new \in Addresses, new \notin LinkedIn(nd),
         NEW h \in Levels, NEW update,
         \A level \in 1..h : \E q \in 1..p :
           update[level] = t[q] /\ Stops(nd, t, level, key, q),
         NEW nd2, Spliced(nd, nd2, new, key, h, update),
         NEW u, u = Insert(t, p, new)
  PROVE  Threaded(nd2, u)
<1>0. /\ t \in Seq(LinkedIn(nd)) /\ Len(t) \in Nat /\ t[1] = head /\ h \in Nat /\ p \in Nat
      /\ \A l \in Levels : l \in Nat /\ l >= 1
      /\ MaxLevel \in Nat
  BY SkipListParameters DEF Lists, InOrder, Levels
<1>1. InsertedAt(t, p, new, u)
  BY <1>0, InsertPlaces
<1>2. /\ Len(u) = Len(t) + 1 /\ u[p + 1] = new
      /\ \A i \in 1..Len(t) : /\ Up(i, p) \in 1..(Len(t) + 1) /\ Up(i, p) # p + 1
                              /\ u[Up(i, p)] = t[i]
      /\ \A i \in 1..(Len(t) + 1) : i = p + 1 \/ \E j \in 1..Len(t) : i = Up(j, p)
      /\ \A i, j \in 1..Len(t) : i < j <=> Up(i, p) < Up(j, p)
  BY <1>1 DEF InsertedAt
<1>3. \A i \in 1..Len(t) : /\ t[i] \in LinkedIn(nd) /\ t[i] # Null /\ t[i] # new
                           /\ Ht(nd2, t[i]) = Ht(nd, t[i]) /\ Ht(nd, t[i]) \in Nat
                           /\ nd[t[i]].key \in Nat
  BY PlacesHold DEF Spliced
<1>4. Ht(nd2, new) = h
  BY DEF Spliced
<1>4a. \A i \in 1..Len(t) : \A l \in 1..Ht(nd, t[i]) :
         nd2[t[i]].forward[l] =
           IF l <= h /\ update[l] = t[i] THEN new ELSE nd[t[i]].forward[l]
  BY <1>3 DEF Spliced
<1>4b. \A i \in 1..Len(t) : \A l \in 1..Ht(nd, t[i]) :
         nd2[t[i]].backward[l] =
           IF l <= h /\ nd[update[l]].forward[l] = t[i] THEN new ELSE nd[t[i]].backward[l]
  BY <1>3 DEF Spliced
<1>5. \A i, j \in 1..Len(t) : t[i] = t[j] => i = j
  BY DEF Lists, InOrder
\* How the levels of u and t compare.
<1>6. ASSUME NEW l \in Levels, NEW i \in 1..Len(t), NEW j \in 1..Len(t),
             NextOn(nd2, u, l, Up(i, p), Up(j, p))
      PROVE  NextOn(nd, t, l, i, j) /\ (l <= h => ~ (i <= p /\ p < j))
  <2>1. i < j /\ l <= Ht(nd, t[i]) /\ l <= Ht(nd, t[j])
    BY <1>2, <1>3, <1>6 DEF NextOn
  <2>2. ASSUME NEW k \in (i + 1)..(j - 1)
        PROVE  Ht(nd, t[k]) < l
    <3>1. k \in 1..Len(t) /\ i < k /\ k < j
      BY <1>0
    <3>2. Up(i, p) < Up(k, p) /\ Up(k, p) < Up(j, p)
      BY <1>2, <3>1
    <3>3. Up(k, p) \in (Up(i, p) + 1)..(Up(j, p) - 1)
      BY <1>2, <3>1, <3>2
    <3>4. Ht(nd2, u[Up(k, p)]) < l
      BY <1>6, <3>3 DEF NextOn
    <3> QED
      BY <1>2, <1>3, <3>1, <3>4
  <2>3. ASSUME l <= h, i <= p, p < j
        PROVE  FALSE
    <3>1. p + 1 \in (Up(i, p) + 1)..(Up(j, p) - 1)
      BY <1>0, <2>3 DEF Up
    <3>2. Ht(nd2, u[p + 1]) < l
      BY <1>6, <3>1 DEF NextOn
    <3> QED
      BY <1>0, <1>2, <1>4, <2>3, <3>2
  <2> QED
    BY <2>1, <2>2, <2>3 DEF NextOn
<1>7. ASSUME NEW l \in Levels, NEW i \in 1..Len(t), LastOn(nd2, u, l, Up(i, p))
      PROVE  LastOn(nd, t, l, i) /\ (l <= h => ~ (i <= p))
  <2>1. l <= Ht(nd, t[i])
    BY <1>2, <1>3, <1>7 DEF LastOn
  <2>2. ASSUME NEW k \in (i + 1)..Len(t)
        PROVE  Ht(nd, t[k]) < l
    <3>1. k \in 1..Len(t) /\ i < k
      BY <1>0
    <3>2. Up(k, p) \in (Up(i, p) + 1)..Len(u)
      <4>1. Up(i, p) < Up(k, p) /\ Up(k, p) \in 1..(Len(t) + 1) /\ Len(u) = Len(t) + 1
        BY <1>2, <3>1
      <4>2. Up(i, p) \in 1..(Len(t) + 1)
        BY <1>2
      <4> QED
        BY <1>0, <4>1, <4>2
    <3>3. Ht(nd2, u[Up(k, p)]) < l
      BY <1>7, <3>2 DEF LastOn
    <3> QED
      BY <1>2, <1>3, <3>1, <3>3
  <2>3. ASSUME l <= h, i <= p
        PROVE  FALSE
    <3>1. p + 1 \in (Up(i, p) + 1)..Len(u)
      BY <1>0, <1>2, <2>3 DEF Up
    <3>2. Ht(nd2, u[p + 1]) < l
      BY <1>7, <3>1 DEF LastOn
    <3> QED
      BY <1>0, <1>2, <1>4, <2>3, <3>2
  <2> QED
    BY <2>1, <2>2, <2>3 DEF LastOn
\* Where the new node goes on a level.
<1>8. ASSUME NEW l \in 1..h
      PROVE  \E q \in 1..p : /\ update[l] = t[q] /\ l <= Ht(nd, t[q])
                             /\ \A k \in (q + 1)..p : Ht(nd, t[k]) < l
  <2>1. PICK q \in 1..p : update[l] = t[q] /\ Stops(nd, t, l, key, q)
    OBVIOUS
  <2>2. ASSUME NEW k \in (q + 1)..p, ~ (Ht(nd, t[k]) < l)
        PROVE  FALSE
    <3>1. k \in 2..p /\ k \in (q + 1)..Len(t) /\ k \in 1..Len(t)
      BY <1>0
    <3>2. l <= Ht(nd, t[k])
      BY <1>0, <1>3, <2>2, <3>1
    <3>3. key <= nd[t[k]].key
      BY <2>1, <3>1, <3>2 DEF Stops
    <3>4. nd[t[k]].key < key
      BY <3>1 DEF Divides
    <3> QED
      BY <1>3, <3>1, <3>3, <3>4
  <2>3. l <= Ht(nd, t[q])
    BY <2>1 DEF Stops
  <2> QED
    BY <2>1, <2>2, <2>3
<1>9. ASSUME NEW l \in Levels, NEW i \in 1..Len(u), NEW j \in 1..Len(u),
             NextOn(nd2, u, l, i, j)
      PROVE  nd2[u[i]].forward[l] = u[j] /\ nd2[u[j]].backward[l] = u[i]
  <2>0. i \in 1..(Len(t) + 1) /\ j \in 1..(Len(t) + 1) /\ i < j
    BY <1>2, <1>9 DEF NextOn
  <2>1. CASE i = p + 1
    <3>1. l \in 1..h
      BY <1>0, <1>2, <1>4, <1>9, <2>1 DEF NextOn
    <3>2. PICK q \in 1..p : /\ update[l] = t[q] /\ l <= Ht(nd, t[q])
                            /\ \A k \in (q + 1)..p : Ht(nd, t[k]) < l
      BY <1>8, <3>1
    <3>3. j # p + 1
      BY <2>0, <2>1
    <3>4. PICK b \in 1..Len(t) : j = Up(b, p)
      BY <1>2, <2>0, <3>3
    <3>5. p < b /\ j = b + 1
      BY <1>0, <2>0, <2>1, <3>4 DEF Up
    <3>6. NextOn(nd, t, l, q, b)
      <4>1. l <= Ht(nd, t[b])
        BY <1>2, <1>3, <1>9, <3>4 DEF NextOn
      <4>2. ASSUME NEW k \in (q + 1)..(b - 1)
            PROVE  Ht(nd, t[k]) < l
        <5>1. CASE k <= p
          <6>1. k \in (q + 1)..p
            BY <1>0, <5>1
          <6> QED
            BY <3>2, <6>1
        <5>2. CASE p < k
          <6>1. k \in 1..Len(t) /\ Up(k, p) = k + 1 /\ k + 1 \in (i + 1)..(j - 1)
            <7>1. k \in 1..Len(t) /\ k \in Nat /\ b \in Nat /\ k <= b - 1
              BY <1>0
            <7>2. Up(k, p) = k + 1
              BY <1>0, <5>2, <7>1 DEF Up
            <7> QED
              BY <1>0, <2>1, <3>5, <5>2, <7>1, <7>2
          <6>2. Ht(nd2, u[k + 1]) < l
            BY <1>9, <6>1 DEF NextOn
          <6>3. u[k + 1] = t[k]
            BY <1>2, <6>1
          <6> QED
            BY <1>3, <6>1, <6>2, <6>3
        <5> QED
          BY <1>0, <5>1, <5>2
      <4> QED
        BY <1>0, <3>2, <3>5, <4>1, <4>2 DEF NextOn
    <3>7. q \in 1..Len(t) /\ u[j] = t[b] /\ u[i] = new
      BY <1>0, <1>2, <2>1, <3>4
    <3>8. nd[t[q]].forward[l] = t[b]
      BY <3>6, <3>7 DEF Lists, Threaded
    <3>9. nd2[new].forward[l] = t[b]
      BY <3>1, <3>2, <3>8 DEF Spliced
    <3>10. nd2[t[b]].backward[l] = new
      <4>1. l \in 1..Ht(nd, t[b])
        BY <1>0, <1>3, <3>1, <3>6 DEF NextOn
      <4>2. l <= h
        BY <3>1
      <4>3. nd[update[l]].forward[l] = t[b]
        BY <3>2, <3>8
      <4>4. nd2[t[b]].backward[l] =
              IF l <= h /\ nd[update[l]].forward[l] = t[b] THEN new ELSE nd[t[b]].backward[l]
        BY <1>4b, <4>1, Zenon
      <4> QED
        BY <4>2, <4>3, <4>4, Zenon
    <3> QED
      BY <3>7, <3>9, <3>10
  <2>2. CASE j = p + 1
    <3>1. l \in 1..h
      BY <1>0, <1>2, <1>4, <1>9, <2>2 DEF NextOn
    <3>2. PICK q \in 1..p : /\ update[l] = t[q] /\ l <= Ht(nd, t[q])
                            /\ \A k \in (q + 1)..p : Ht(nd, t[k]) < l
      BY <1>8, <3>1
    <3>3. i # p + 1
      BY <2>0, <2>2
    <3>4. PICK a \in 1..Len(t) : i = Up(a, p)
      BY <1>2, <2>0, <3>3
    <3>5. a <= p /\ i = a
      BY <1>0, <2>0, <2>2, <3>4 DEF Up
    <3>6. l <= Ht(nd, t[a])
      BY <1>2, <1>3, <1>9, <3>4 DEF NextOn
    <3>7. a = q
      <4>1. ~ (q < a)
        <5> SUFFICES ASSUME q < a
                     PROVE  FALSE
          OBVIOUS
        <5>1. a \in (q + 1)..p
          BY <1>0, <3>5
        <5>2. Ht(nd, t[a]) < l
          BY <3>2, <5>1
        <5>3. Ht(nd, t[a]) \in Nat /\ l \in Nat
          BY <1>0, <1>3
        <5> QED
          BY <3>6, <5>2, <5>3
      <4>2. ~ (a < q)
        <5> SUFFICES ASSUME a < q
                     PROVE  FALSE
          OBVIOUS
        <5>1. q \in (i + 1)..(j - 1) /\ q \in 1..Len(t) /\ Up(q, p) = q
          BY <1>0, <2>2, <3>5 DEF Up
        <5>2. Ht(nd2, u[q]) < l
          BY <1>9, <5>1 DEF NextOn
        <5>3. u[q] = t[q]
          BY <1>2, <5>1
        <5> QED
          BY <1>0, <1>3, <3>2, <5>1, <5>2, <5>3
      <4> QED
        BY <4>1, <4>2
    <3>8. u[i] = t[a] /\ u[j] = new
      BY <1>2, <2>2, <3>4
    <3>9. nd2[new].backward[l] = t[a]
      BY <3>1, <3>2, <3>7 DEF Spliced
    <3>10. nd2[t[a]].forward[l] = new
      <4>1. l \in 1..Ht(nd, t[a]) /\ l <= h
        BY <1>0, <1>3, <3>1, <3>6
      <4> QED
        BY <4>1, <1>4a, <3>2, <3>7, Zenon
    <3> QED
      BY <3>8, <3>9, <3>10
  <2>3. CASE i # p + 1 /\ j # p + 1
    <3>1. PICK a \in 1..Len(t) : i = Up(a, p)
      BY <1>2, <2>0, <2>3
    <3>2. PICK b \in 1..Len(t) : j = Up(b, p)
      BY <1>2, <2>0, <2>3
    <3>3. NextOn(nd, t, l, a, b) /\ (l <= h => ~ (a <= p /\ p < b))
      BY <1>6, <1>9, <3>1, <3>2
    <3>4. u[i] = t[a] /\ u[j] = t[b]
      BY <1>2, <3>1, <3>2
    <3>5. nd[t[a]].forward[l] = t[b] /\ nd[t[b]].backward[l] = t[a]
      BY <3>3 DEF Lists, Threaded
    <3>6. l \in 1..Ht(nd, t[a]) /\ l \in 1..Ht(nd, t[b])
      BY <1>0, <1>3, <3>3 DEF NextOn
    <3>7. CASE ~ (l <= h)
      <4>1. nd2[t[a]].forward[l] = nd[t[a]].forward[l]
        BY <1>4a, <3>6, <3>7, Zenon
      <4>2. nd2[t[b]].backward[l] = nd[t[b]].backward[l]
        BY <1>4b, <3>6, <3>7, Zenon
      <4> QED
        BY <3>4, <3>5, <4>1, <4>2
    <3>8. CASE l <= h
      <4>1. l \in 1..h
        <5>1. l \in Nat /\ l >= 1 /\ h \in Nat
          BY <1>0
        <5> QED
          BY <5>1, <3>8
      <4>2. PICK q \in 1..p : /\ update[l] = t[q] /\ l <= Ht(nd, t[q])
                              /\ \A k \in (q + 1)..p : Ht(nd, t[k]) < l
        BY <1>8, <4>1
      <4>3. q \in 1..Len(t)
        BY <1>0
      <4>4. a # q
        <5> SUFFICES ASSUME a = q
                     PROVE  FALSE
          OBVIOUS
        <5>1. a <= p /\ b <= p /\ a < b
          BY <1>0, <3>3, <3>8 DEF NextOn
        <5>2. b \in (q + 1)..p
          BY <1>0, <5>1
        <5>3. Ht(nd, t[b]) < l
          BY <4>2, <5>2
        <5> QED
          BY <1>0, <1>3, <3>6, <5>3
      <4>5. update[l] # t[a]
        BY <1>5, <4>2, <4>3, <4>4
      <4>6. nd[t[q]].forward[l] # t[b]
        <5> SUFFICES ASSUME nd[t[q]].forward[l] = t[b]
                     PROVE  FALSE
          OBVIOUS
        <5>0. /\ l \in Nat /\ Ht(nd, t[a]) \in Nat /\ Ht(nd, t[q]) \in Nat /\ t[b] # Null
              /\ a \in Nat /\ b \in Nat /\ q \in Nat
          BY <1>0, <1>3, <4>3
        <5>1. PICK m \in (q + 1)..Len(t) :
                     NextOn(nd, t, l, q, m) /\ nd[t[q]].forward[l] = t[m]
          <6>1. \/ LastOn(nd, t, l, q) /\ nd[t[q]].forward[l] = Null
                \/ \E m \in (q + 1)..Len(t) :
                     NextOn(nd, t, l, q, m) /\ nd[t[q]].forward[l] = t[m]
            BY <4>2, <4>3, ForwardIs
          <6>2. nd[t[q]].forward[l] # Null
            BY <5>0
          <6> QED
            BY <6>1, <6>2
        <5>2. m \in 1..Len(t)
          BY <1>0, <5>1
        <5>3. m = b
          BY <1>5, <5>1, <5>2
        <5>4. a < b /\ q < b /\ l <= Ht(nd, t[a]) /\ l <= Ht(nd, t[q])
          BY <3>3, <5>1, <5>3 DEF NextOn
        <5>5. CASE a < q
          <6>1. q \in (a + 1)..(b - 1)
            BY <5>0, <5>4, <5>5, Between, Zenon
          <6>2. Ht(nd, t[q]) < l
            BY <3>3, <6>1 DEF NextOn
          <6> QED
            BY <5>0, <5>4, <6>2
        <5>6. CASE q < a
          <6>1. a \in (q + 1)..(m - 1)
            BY <5>0, <5>3, <5>4, <5>6, Between, Zenon
          <6>2. Ht(nd, t[a]) < l
            BY <5>1, <6>1 DEF NextOn
          <6> QED
            BY <5>0, <5>4, <6>2
        <5> QED
          BY <4>4, <5>0, <5>5, <5>6
      <4>7. nd2[t[a]].forward[l] = nd[t[a]].forward[l]
        BY <1>4a, <3>6, <4>5, Zenon
      <4>8. nd2[t[b]].backward[l] = nd[t[b]].backward[l]
        <5>1. nd[update[l]].forward[l] # t[b]
          BY <4>2, <4>6
        <5> QED
          BY <1>4b, <3>6, <5>1, Zenon
      <4> QED
        BY <3>4, <3>5, <4>7, <4>8
    <3> QED
      BY <3>7, <3>8
  <2> QED
    BY <2>1, <2>2, <2>3
<1>10. ASSUME NEW l \in Levels, NEW i \in 1..Len(u), LastOn(nd2, u, l, i)
       PROVE  nd2[u[i]].forward[l] = Null
  <2>0. i \in 1..(Len(t) + 1)
    BY <1>2
  <2>1. CASE i = p + 1
    <3>1. l \in 1..h
      BY <1>0, <1>2, <1>4, <1>10, <2>1 DEF LastOn
    <3>2. PICK q \in 1..p : /\ update[l] = t[q] /\ l <= Ht(nd, t[q])
                            /\ \A k \in (q + 1)..p : Ht(nd, t[k]) < l
      BY <1>8, <3>1
    <3>3. LastOn(nd, t, l, q)
      <4>1. ASSUME NEW k \in (q + 1)..Len(t)
            PROVE  Ht(nd, t[k]) < l
        <5>1. CASE k <= p
          <6>1. k \in (q + 1)..p
            BY <1>0, <5>1
          <6> QED
            BY <3>2, <6>1
        <5>2. CASE p < k
          <6>1. k \in 1..Len(t) /\ Up(k, p) = k + 1 /\ k + 1 \in (i + 1)..Len(u)
            BY <1>0, <1>2, <2>1, <5>2 DEF Up
          <6>2. Ht(nd2, u[k + 1]) < l
            BY <1>10, <6>1 DEF LastOn
          <6>3. u[k + 1] = t[k]
            BY <1>2, <6>1
          <6> QED
            BY <1>3, <6>1, <6>2, <6>3
        <5> QED
          BY <1>0, <5>1, <5>2
      <4> QED
        BY <3>2, <4>1 DEF LastOn
    <3>4. q \in 1..Len(t)
      BY <1>0
    <3>5. nd[t[q]].forward[l] = Null
      BY <3>3, <3>4 DEF Lists, Threaded
    <3>6. nd2[new].forward[l] = Null
      BY <3>1, <3>2, <3>5 DEF Spliced
    <3> QED
      BY <1>2, <2>1, <3>6
  <2>2. CASE i # p + 1
    <3>1. PICK a \in 1..Len(t) : i = Up(a, p)
      BY <1>2, <2>0, <2>2
    <3>2. LastOn(nd, t, l, a) /\ (l <= h => ~ (a <= p))
      BY <1>7, <1>10, <3>1
    <3>3. nd[t[a]].forward[l] = Null
      BY <3>2 DEF Lists, Threaded
    <3>4. l \in 1..Ht(nd, t[a])
      BY <1>0, <1>3, <3>2 DEF LastOn
    <3>5. ~ (l <= h /\ update[l] = t[a])
      <4> SUFFICES ASSUME l <= h, update[l] = t[a]
                   PROVE  FALSE
        OBVIOUS
      <4>1. l \in 1..h
        BY <1>0
      <4>2. PICK q \in 1..p : update[l] = t[q]
        BY <1>8, <4>1
      <4>3. q \in 1..Len(t) /\ q <= p
        BY <1>0
      <4> QED
        BY <1>5, <3>2, <4>2, <4>3
    <3>6. nd2[t[a]].forward[l] = Null
      BY <1>4a, <3>3, <3>4, <3>5, Zenon
    <3> QED
      BY <1>2, <3>1, <3>6
  <2> QED
    BY <2>1, <2>2
<1>11. ASSUME NEW l \in Levels
       PROVE  nd2[head].backward[l] = Null
  <2>1. nd[head].backward[l] = Null /\ head \in LinkedIn(nd) /\ l \in 1..Ht(nd, head)
    <3>1. 1 \in 1..Len(t) /\ Ht(nd, t[1]) = MaxLevel
      BY PlacesHold
    <3> QED
      BY <1>0, <1>3, <3>1 DEF Lists, Threaded, Levels
  <2>2. ~ (l <= h /\ nd[update[l]].forward[l] = head)
    <3> SUFFICES ASSUME l <= h, nd[update[l]].forward[l] = head
                 PROVE  FALSE
      OBVIOUS
    <3>1. l \in 1..h
      BY <1>0
    <3>2. PICK q \in 1..p : update[l] = t[q] /\ l <= Ht(nd, t[q])
      BY <1>8, <3>1
    <3>3. q \in 1..Len(t) /\ 1 \in 1..Len(t) /\ t[1] # Null
      BY <1>0, <1>3
    <3>4. PICK m \in (q + 1)..Len(t) : nd[t[q]].forward[l] = t[m]
      <4>1. \/ LastOn(nd, t, l, q) /\ nd[t[q]].forward[l] = Null
            \/ \E j \in (q + 1)..Len(t) :
                 NextOn(nd, t, l, q, j) /\ nd[t[q]].forward[l] = t[j]
        BY <3>2, <3>3, ForwardIs
      <4>2. nd[t[q]].forward[l] # Null
        BY <1>0, <3>2, <3>3
      <4> QED
        BY <4>1, <4>2
    <3>5. m \in 1..Len(t) /\ m # 1
      BY <1>0, <3>4
    <3> QED
      BY <1>0, <1>5, <3>2, <3>3, <3>4, <3>5
  <2> QED
    BY <2>1, <2>2 DEF Spliced
<1> QED
  BY <1>9, <1>10, <1>11 DEF Threaded

-----------------------------------------------------------------------------
\* Unlinking a node.

Without(t, p) == [i \in 1..(Len(t) - 1) |-> t[Up(i, p)]]

\* What remove makes of the nodes nd: gone no longer stands behind update.
Unspliced(nd, nd2, gone, update) ==
  /\ WellTyped(nd2)
  /\ LinkedIn(nd2) = LinkedIn(nd) \ {gone}
  /\ \A n \in LinkedIn(nd2) :
       /\ Ht(nd2, n) = Ht(nd, n) /\ nd2[n].key = nd[n].key
       /\ \A level \in 1..Ht(nd, n) :
            /\ nd2[n].forward[level] =
                 IF level <= Ht(nd, gone) /\ update[level] = n
                   THEN nd[gone].forward[level] ELSE nd[n].forward[level]
            /\ nd2[n].backward[level] =
                 IF level <= Ht(nd, gone) /\ nd[gone].forward[level] = n
                   THEN update[level] ELSE nd[n].backward[level]

\* The places after a removal: t is what an insertion would make of u.
LEMMA RemovePlaces ==
  ASSUME NEW S, NEW t \in Seq(S), NEW p \in 1..(Len(t) - 1),
         \A i, j \in 1..Len(t) : t[i] = t[j] => i = j,
         NEW u, u = Without(t, p)
  PROVE  u \in Seq(S \ {t[p + 1]}) /\ InsertedAt(u, p, t[p + 1], t)
<1>0. Len(t) \in Nat /\ Len(t) - 1 \in Nat /\ p + 1 \in 1..Len(t) /\ p \in Nat
  OBVIOUS
<1>1. \A i \in 1..(Len(t) - 1) : Up(i, p) \in 1..Len(t) /\ Up(i, p) # p + 1
  BY <1>0 DEF Up
<1>2. \A i \in 1..(Len(t) - 1) : u[i] = t[Up(i, p)] /\ u[i] \in S \ {t[p + 1]}
  <2> TAKE i \in 1..(Len(t) - 1)
  <2>1. u[i] = t[Up(i, p)]
    BY DEF Without
  <2>2. t[Up(i, p)] \in S
    BY <1>1
  <2>3. t[Up(i, p)] # t[p + 1]
    BY <1>0, <1>1
  <2> QED
    BY <2>1, <2>2, <2>3
<1>3. u = [i \in 1..(Len(t) - 1) |-> u[i]]
  BY DEF Without
<1>4. u \in Seq(S \ {t[p + 1]}) /\ Len(u) = Len(t) - 1
  BY <1>0, <1>2, <1>3
<1>5. \A i \in 1..(Len(u) + 1) : i = p + 1 \/ \E j \in 1..Len(u) : i = Up(j, p)
  <2> TAKE i \in 1..(Len(u) + 1)
  <2>1. CASE i <= p
    <3>1. i \in 1..Len(u) /\ i = Up(i, p)
      BY <1>0, <1>4, <2>1 DEF Up
    <3> QED
      BY <3>1
  <2>2. CASE i > p + 1
    <3>1. i - 1 \in 1..Len(u) /\ i = Up(i - 1, p)
      BY <1>0, <1>4, <2>2 DEF Up
    <3> QED
      BY <3>1
  <2> QED
    BY <1>0, <1>4, <2>1, <2>2
<1>6. \A i, j \in 1..Len(u) : i < j <=> Up(i, p) < Up(j, p)
  BY <1>0, <1>4 DEF Up
<1>7. Len(t) = Len(u) + 1
  BY <1>0, <1>4
<1>8. \A i \in 1..Len(u) : /\ Up(i, p) \in 1..(Len(u) + 1) /\ Up(i, p) # p + 1
                           /\ t[Up(i, p)] = u[i]
  BY <1>1, <1>2, <1>4, <1>7
<1> QED
  BY <1>4, <1>5, <1>6, <1>7, <1>8, Zenon DEF InsertedAt

\* The order without the node is one.
LEMMA RemoveInOrder ==
  ASSUME NEW nd, NEW t, Lists(nd, t), NEW p \in 1..(Len(t) - 1), NEW update,
         NEW nd2, Unspliced(nd, nd2, t[p + 1], update),
         NEW u, u = Without(t, p)
  PROVE  InOrder(nd2, u)
<1> DEFINE gone == t[p + 1]
<1>0. /\ t \in Seq(LinkedIn(nd)) /\ Len(t) \in Nat /\ t[1] = head /\ p \in Nat
      /\ \A i, j \in 1..Len(t) : t[i] = t[j] => i = j
  <2>1. t \in Seq(LinkedIn(nd)) /\ t[1] = head
    BY DEF Lists, InOrder
  <2>2. \A i, j \in 1..Len(t) : t[i] = t[j] => i = j
    BY DEF Lists, InOrder
  <2> QED
    BY <2>1, <2>2
<1>1. u \in Seq(LinkedIn(nd2)) /\ InsertedAt(u, p, gone, t)
  <2>1. LinkedIn(nd2) = LinkedIn(nd) \ {gone}
    BY DEF Unspliced
  <2>2. u \in Seq(LinkedIn(nd) \ {gone}) /\ InsertedAt(u, p, gone, t)
    BY <1>0, RemovePlaces
  <2> QED
    BY <2>1, <2>2
<1>2. /\ Len(t) = Len(u) + 1
      /\ \A i \in 1..Len(u) : /\ Up(i, p) \in 1..Len(t) /\ Up(i, p) # p + 1
                              /\ u[i] = t[Up(i, p)]
      /\ \A i \in 1..Len(t) : i = p + 1 \/ \E j \in 1..Len(u) : i = Up(j, p)
      /\ \A i, j \in 1..Len(u) : i < j <=> Up(i, p) < Up(j, p)
  BY <1>1 DEF InsertedAt
<1>3. Len(u) \in Nat /\ Len(u) >= 1 /\ 1 \in 1..Len(u)
      /\ \A i \in 1..Len(u) : u[i] \in LinkedIn(nd2)
  BY <1>0, <1>1, <1>2
<1>4. u[1] = head
  <2>1. Up(1, p) = 1
    BY <1>0 DEF Up
  <2> QED
    BY <1>0, <1>2, <1>3, <2>1
<1>5. \A n \in LinkedIn(nd2) : \E i \in 1..Len(u) : u[i] = n
  <2> TAKE n \in LinkedIn(nd2)
  <2>1. n \in LinkedIn(nd) /\ n # gone
    BY DEF Unspliced
  <2>2. PICK i \in 1..Len(t) : t[i] = n
    BY <2>1 DEF Lists, InOrder
  <2>3. PICK j \in 1..Len(u) : i = Up(j, p)
    BY <1>2, <2>1, <2>2
  <2> QED
    BY <1>2, <2>2, <2>3
<1>6. ASSUME NEW i \in 1..Len(u), NEW j \in 1..Len(u), u[i] = u[j]
      PROVE  i = j
  <2>1. Up(i, p) = Up(j, p)
    BY <1>0, <1>2, <1>6
  <2>2. ~ (i < j) /\ ~ (j < i)
    BY <1>2, <2>1
  <2> QED
    BY <2>2
<1>7. ASSUME NEW i \in 2..Len(u), NEW j \in 2..Len(u), i < j
      PROVE  nd2[u[i]].key <= nd2[u[j]].key
  <2>1. i \in 1..Len(u) /\ j \in 1..Len(u)
    BY <1>3
  <2>2. Up(i, p) \in 2..Len(t) /\ Up(j, p) \in 2..Len(t) /\ Up(i, p) < Up(j, p)
    BY <1>0, <1>2, <1>3, <1>7, <2>1 DEF Up
  <2>3. nd[t[Up(i, p)]].key <= nd[t[Up(j, p)]].key
    BY <2>2 DEF Lists, InOrder
  <2>4. nd2[u[i]].key = nd[u[i]].key /\ nd2[u[j]].key = nd[u[j]].key
    BY <1>3, <2>1 DEF Unspliced
  <2> QED
    BY <1>2, <2>1, <2>3, <2>4
<1> QED
  BY <1>1, <1>3, <1>4, <1>5, <1>6, <1>7, Zenon DEF InOrder

\* The pointers thread the order without the node.
LEMMA RemoveThreaded ==
  ASSUME NEW nd, NEW t, Lists(nd, t), NEW key \in Nat, NEW p \in 1..(Len(t) - 1),
         Divides(nd, t, key, p), NEW update,
         \A level \in 1..Ht(nd, t[p + 1]) : \E q \in 1..p :
           update[level] = t[q] /\ Stops(nd, t, level, key, q),
         NEW nd2, Unspliced(nd, nd2, t[p + 1], update),
         NEW u, u = Without(t, p)
  PROVE  Threaded(nd2, u)
<1> DEFINE gone == t[p + 1]
           h == Ht(nd, gone)
<1>0. /\ t \in Seq(LinkedIn(nd)) /\ Len(t) \in Nat /\ t[1] = head /\ p \in Nat
      /\ p + 1 \in 1..Len(t)
      /\ \A l \in Levels : l \in Nat /\ l >= 1
      /\ MaxLevel \in Nat
  <2>1. t \in Seq(LinkedIn(nd)) /\ Len(t) \in Nat /\ t[1] = head
    BY DEF Lists, InOrder
  <2>2. p \in Nat /\ p + 1 \in 1..Len(t)
    BY <2>1
  <2>3. MaxLevel \in Nat /\ \A l \in Levels : l \in Nat /\ l >= 1
    BY SkipListParameters DEF Levels
  <2> QED
    BY <2>1, <2>2, <2>3
<1>1. \A i, j \in 1..Len(t) : t[i] = t[j] => i = j
  BY DEF Lists, InOrder
<1>2. /\ Len(t) = Len(u) + 1
      /\ \A i \in 1..Len(u) : /\ Up(i, p) \in 1..Len(t) /\ Up(i, p) # p + 1
                              /\ u[i] = t[Up(i, p)]
      /\ \A i \in 1..Len(t) : i = p + 1 \/ \E j \in 1..Len(u) : i = Up(j, p)
      /\ \A i, j \in 1..Len(u) : i < j <=> Up(i, p) < Up(j, p)
      /\ Len(u) \in Nat
  <2>1. u \in Seq(LinkedIn(nd) \ {gone}) /\ InsertedAt(u, p, gone, t)
    BY <1>0, <1>1, RemovePlaces
  <2> QED
    BY <2>1 DEF InsertedAt
<1>3. \A i \in 1..Len(t) : /\ t[i] \in LinkedIn(nd) /\ t[i] # Null
                           /\ Ht(nd, t[i]) \in Nat /\ nd[t[i]].key \in Nat
  BY PlacesHold
<1>4. h \in Nat
  BY <1>0, <1>3
<1>5. \A i \in 1..Len(u) : u[i] \in LinkedIn(nd2) /\ Ht(nd2, u[i]) = Ht(nd, t[Up(i, p)])
  <2> TAKE i \in 1..Len(u)
  <2>1. u[i] \in LinkedIn(nd) /\ u[i] # gone
    BY <1>0, <1>1, <1>2, <1>3
  <2> QED
    BY <1>2, <2>1 DEF Unspliced
\* The places of the predecessors.
<1>6. ASSUME NEW l \in 1..h
      PROVE  \E q \in 1..p : /\ update[l] = t[q] /\ l <= Ht(nd, t[q])
                             /\ \A k \in (q + 1)..p : Ht(nd, t[k]) < l
  <2>1. PICK q \in 1..p : update[l] = t[q] /\ Stops(nd, t, l, key, q)
    OBVIOUS
  <2>2. ASSUME NEW k \in (q + 1)..p, ~ (Ht(nd, t[k]) < l)
        PROVE  FALSE
    <3>1. k \in 2..p /\ k \in (q + 1)..Len(t) /\ k \in 1..Len(t)
      BY <1>0
    <3>2. l <= Ht(nd, t[k])
      BY <1>0, <1>3, <1>4, <2>2, <3>1
    <3>3. key <= nd[t[k]].key
      BY <2>1, <3>1, <3>2 DEF Stops
    <3>4. nd[t[k]].key < key
      BY <3>1 DEF Divides
    <3> QED
      BY <1>3, <3>1, <3>3, <3>4
  <2>3. l <= Ht(nd, t[q])
    BY <2>1 DEF Stops
  <2> QED
    BY <2>1, <2>2, <2>3
<1> HIDE DEF gone, h
<1>7. gone = t[p + 1] /\ Ht(nd, t[p + 1]) = h
  BY DEF gone, h
\* A place of u before p with nothing behind it up to p is the predecessor.
<1>8. ASSUME NEW l \in 1..h, NEW i \in 1..p, l <= Ht(nd, t[i]),
             \A k \in (i + 1)..p : Ht(nd, t[k]) < l
      PROVE  update[l] = t[i]
  <2>1. PICK q \in 1..p : /\ update[l] = t[q] /\ l <= Ht(nd, t[q])
                          /\ \A k \in (q + 1)..p : Ht(nd, t[k]) < l
    BY <1>6
  <2>2. q \in 1..Len(t) /\ i \in 1..Len(t) /\ Ht(nd, t[q]) \in Nat /\ Ht(nd, t[i]) \in Nat
    BY <1>0, <1>3
  <2>3. ~ (i < q)
    <3> SUFFICES ASSUME i < q
                 PROVE  FALSE
      OBVIOUS
    <3>1. q \in (i + 1)..p
      BY <1>0
    <3>2. Ht(nd, t[q]) < l
      BY <1>8, <3>1
    <3> QED
      BY <1>4, <2>1, <2>2, <3>2
  <2>4. ~ (q < i)
    <3> SUFFICES ASSUME q < i
                 PROVE  FALSE
      OBVIOUS
    <3>1. i \in (q + 1)..p
      BY <1>0
    <3>2. Ht(nd, t[i]) < l
      BY <2>1, <3>1
    <3> QED
      BY <1>4, <1>8, <2>2, <3>2
  <2> QED
    BY <2>1, <2>3, <2>4
\* What follows a place of u on a level, seen in t.
<1>9. ASSUME NEW l \in Levels, NEW i \in 1..Len(u), NEW m \in 1..Len(t), Up(i, p) < m,
             \A k \in (i + 1)..Len(u) : Up(k, p) < m => Ht(nd2, u[k]) < l
      PROVE  \A k \in (Up(i, p) + 1)..(m - 1) : k # p + 1 => Ht(nd, t[k]) < l
  <2> SUFFICES ASSUME NEW k \in (Up(i, p) + 1)..(m - 1), k # p + 1
               PROVE  Ht(nd, t[k]) < l
    OBVIOUS
  <2>1. k \in 1..Len(t) /\ Up(i, p) < k /\ k < m
    BY <1>0, <1>2
  <2>2. PICK j \in 1..Len(u) : k = Up(j, p)
    BY <1>2, <2>1
  <2>3. j \in (i + 1)..Len(u)
    <3>1. i < j
      BY <1>2, <2>1, <2>2
    <3> QED
      BY <1>2, <3>1
  <2>4. Ht(nd2, u[j]) < l
    BY <1>9, <2>1, <2>2, <2>3
  <2> QED
    BY <1>5, <2>2, <2>4
<1>10. ASSUME NEW l \in Levels, NEW i \in 1..Len(u), NEW j \in 1..Len(u),
              NextOn(nd2, u, l, i, j)
       PROVE  nd2[u[i]].forward[l] = u[j] /\ nd2[u[j]].backward[l] = u[i]
  <2> DEFINE a == Up(i, p)
             b == Up(j, p)
  <2>0. /\ i < j /\ a \in 1..Len(t) /\ b \in 1..Len(t) /\ a < b
        /\ u[i] = t[a] /\ u[j] = t[b] /\ a # p + 1 /\ b # p + 1
    BY <1>2, <1>10 DEF NextOn
  <2>1. l <= Ht(nd, t[a]) /\ l <= Ht(nd, t[b])
    BY <1>5, <1>10 DEF NextOn
  <2>2. \A k \in (i + 1)..Len(u) : Up(k, p) < b => Ht(nd2, u[k]) < l
    <3> SUFFICES ASSUME NEW k \in (i + 1)..Len(u), Up(k, p) < b
                 PROVE  Ht(nd2, u[k]) < l
      OBVIOUS
    <3>1. k \in 1..Len(u)
      BY <1>2
    <3>2. k < j
      BY <1>2, <3>1
    <3>3. k \in (i + 1)..(j - 1)
      BY <1>2, <3>2
    <3> QED
      BY <1>10, <3>3 DEF NextOn
  <2> HIDE DEF a, b
  <2>3. \A k \in (a + 1)..(b - 1) : k # p + 1 => Ht(nd, t[k]) < l
    BY <1>9, <2>0, <2>2 DEF a
  <2>4. l \in 1..Ht(nd, t[a]) /\ l \in 1..Ht(nd, t[b]) /\ l \in Nat
    BY <1>0, <1>3, <2>0, <2>1
  <2>5. u[i] \in LinkedIn(nd2) /\ u[j] \in LinkedIn(nd2)
    BY <1>5
  <2>6. /\ nd2[t[a]].forward[l] =
             IF l <= h /\ update[l] = t[a] THEN nd[gone].forward[l] ELSE nd[t[a]].forward[l]
        /\ nd2[t[b]].backward[l] =
             IF l <= h /\ nd[gone].forward[l] = t[b] THEN update[l] ELSE nd[t[b]].backward[l]
    <3>1. \A n \in LinkedIn(nd2) : \A level \in 1..Ht(nd, n) :
            nd2[n].forward[level] =
              IF level <= Ht(nd, t[p + 1]) /\ update[level] = n
                THEN nd[t[p + 1]].forward[level] ELSE nd[n].forward[level]
      BY DEF Unspliced
    <3>2. \A n \in LinkedIn(nd2) : \A level \in 1..Ht(nd, n) :
            nd2[n].backward[level] =
              IF level <= Ht(nd, t[p + 1]) /\ nd[t[p + 1]].forward[level] = n
                THEN update[level] ELSE nd[n].backward[level]
      BY DEF Unspliced
    <3>3. /\ t[a] \in LinkedIn(nd2) /\ t[b] \in LinkedIn(nd2)
          /\ l \in 1..Ht(nd, t[a]) /\ l \in 1..Ht(nd, t[b])
      BY <2>0, <2>4, <2>5
    <3>4. nd2[t[a]].forward[l] =
             IF l <= Ht(nd, t[p + 1]) /\ update[l] = t[a]
               THEN nd[t[p + 1]].forward[l] ELSE nd[t[a]].forward[l]
      BY <3>1, <3>3, Zenon
    <3>5. nd2[t[b]].backward[l] =
             IF l <= Ht(nd, t[p + 1]) /\ nd[t[p + 1]].forward[l] = t[b]
               THEN update[l] ELSE nd[t[b]].backward[l]
      BY <3>2, <3>3, Zenon
    <3> QED
      BY <1>7, <3>4, <3>5, Zenon
  <2>7. CASE l <= h /\ a < p + 1 /\ p + 1 < b
    <3>0. l \in 1..h /\ a \in 1..p
      BY <1>0, <1>4, <2>0, <2>4, <2>7
    <3>1. \A k \in (a + 1)..p : Ht(nd, t[k]) < l
      <4> TAKE k \in (a + 1)..p
      <4>1. k \in (a + 1)..(b - 1) /\ k # p + 1
        BY <1>0, <2>0, <2>7
      <4> QED
        BY <2>3, <4>1
    <3>2. update[l] = t[a]
      BY <1>8, <2>1, <3>0, <3>1
    <3>3. NextOn(nd, t, l, p + 1, b)
      <4>1. \A k \in (p + 1 + 1)..(b - 1) : Ht(nd, t[k]) < l
        <5> TAKE k \in (p + 1 + 1)..(b - 1)
        <5>1. k \in (a + 1)..(b - 1) /\ k # p + 1
          BY <1>0, <2>0, <2>7
        <5> QED
          BY <2>3, <5>1
      <4> QED
        BY <1>7, <2>1, <2>7, <4>1 DEF NextOn
    <3>4. nd[gone].forward[l] = t[b]
      BY <1>0, <1>7, <2>0, <3>3 DEF Lists, Threaded
    <3> QED
      BY <2>0, <2>6, <2>7, <3>2, <3>4
  <2>8. CASE ~ (l <= h /\ a < p + 1 /\ p + 1 < b)
    <3>1. \A k \in (a + 1)..(b - 1) : Ht(nd, t[k]) < l
      <4> TAKE k \in (a + 1)..(b - 1)
      <4>1. CASE k # p + 1
        BY <2>3, <4>1
      <4>2. CASE k = p + 1
        <5>1. a < p + 1 /\ p + 1 < b
          BY <2>0, <4>2
        <5>2. ~ (l <= h)
          BY <2>8, <5>1
        <5> QED
          BY <1>4, <1>7, <2>4, <4>2, <5>2
      <4> QED
        BY <4>1, <4>2
    <3>2. NextOn(nd, t, l, a, b)
      BY <2>0, <2>1, <3>1 DEF NextOn
    <3>3. nd[t[a]].forward[l] = t[b] /\ nd[t[b]].backward[l] = t[a]
      BY <2>0, <3>2 DEF Lists, Threaded
    <3>4. ~ (l <= h /\ update[l] = t[a])
      <4> SUFFICES ASSUME l <= h, update[l] = t[a]
                   PROVE  FALSE
        OBVIOUS
      <4>0. l \in 1..h
        BY <1>4, <2>4
      <4>1. PICK q \in 1..p : /\ update[l] = t[q]
                              /\ \A k \in (q + 1)..p : Ht(nd, t[k]) < l
        BY <1>6, <4>0
      <4>2. q \in 1..Len(t)
        BY <1>0
      <4>3. q = a
        BY <1>1, <2>0, <4>1, <4>2
      <4>4. b \in (q + 1)..p
        BY <1>0, <2>0, <2>8, <4>3
      <4>5. Ht(nd, t[b]) < l /\ Ht(nd, t[b]) \in Nat
        BY <1>3, <2>0, <4>1, <4>4
      <4> QED
        BY <2>1, <2>4, <4>5
    <3>5. ~ (l <= h /\ nd[gone].forward[l] = t[b])
      <4> SUFFICES ASSUME l <= h, nd[gone].forward[l] = t[b]
                   PROVE  FALSE
        OBVIOUS
      <4>1. \/ LastOn(nd, t, l, p + 1) /\ nd[gone].forward[l] = Null
            \/ \E m \in (p + 1 + 1)..Len(t) :
                  NextOn(nd, t, l, p + 1, m) /\ nd[gone].forward[l] = t[m]
        BY <1>0, <1>7, ForwardIs
      <4>2. t[b] # Null
        BY <1>3, <2>0
      <4>3. PICK m \in (p + 1 + 1)..Len(t) :
                   NextOn(nd, t, l, p + 1, m) /\ nd[gone].forward[l] = t[m]
        BY <4>1, <4>2
      <4>4. m \in 1..Len(t) /\ p + 1 < m
        <5>1. Len(t) \in Nat /\ p \in Nat /\ m \in (p + 1 + 1)..Len(t)
          BY <1>0, <4>3
        <5> QED
          BY <5>1
      <4>5. m = b
        BY <1>1, <2>0, <4>3, <4>4
      <4>6. a \in (p + 1 + 1)..(m - 1)
        BY <1>0, <2>0, <2>8, <4>4, <4>5
      <4>7. Ht(nd, t[a]) < l /\ Ht(nd, t[a]) \in Nat
        BY <1>3, <2>0, <4>3, <4>6 DEF NextOn
      <4> QED
        BY <2>1, <2>4, <4>7
    <3> QED
      BY <2>0, <2>6, <3>3, <3>4, <3>5
  <2> QED
    BY <2>7, <2>8
<1>11. ASSUME NEW l \in Levels, NEW i \in 1..Len(u), LastOn(nd2, u, l, i)
       PROVE  nd2[u[i]].forward[l] = Null
  <2> DEFINE a == Up(i, p)
  <2>0. a \in 1..Len(t) /\ u[i] = t[a] /\ a # p + 1 /\ u[i] \in LinkedIn(nd2)
    BY <1>2, <1>5
  <2>1. l <= Ht(nd, t[a])
    BY <1>5, <1>11 DEF LastOn
  <2>2. \A k \in (a + 1)..Len(t) : k # p + 1 => Ht(nd, t[k]) < l
    <3> SUFFICES ASSUME NEW k \in (a + 1)..Len(t), k # p + 1
                 PROVE  Ht(nd, t[k]) < l
      OBVIOUS
    <3>1. k \in 1..Len(t) /\ a < k
      BY <1>0, <2>0
    <3>2. PICK j \in 1..Len(u) : k = Up(j, p)
      BY <1>2, <3>1
    <3>3. i < j
      BY <1>2, <3>1, <3>2
    <3>4. j \in (i + 1)..Len(u)
      BY <1>2, <3>3
    <3>5. Ht(nd2, u[j]) < l
      BY <1>11, <3>4 DEF LastOn
    <3> QED
      BY <1>5, <3>2, <3>5
  <2> HIDE DEF a
  <2>3. l \in 1..Ht(nd, t[a]) /\ l \in Nat
    BY <1>0, <1>3, <2>0, <2>1
  <2>4. nd2[t[a]].forward[l] =
          IF l <= h /\ update[l] = t[a] THEN nd[gone].forward[l] ELSE nd[t[a]].forward[l]
    BY <1>7, <2>0, <2>3 DEF Unspliced
  <2>5. CASE l <= h /\ a < p + 1
    <3>0. l \in 1..h /\ a \in 1..p
      BY <1>0, <1>4, <2>0, <2>3, <2>5
    <3>1. \A k \in (a + 1)..p : Ht(nd, t[k]) < l
      <4> TAKE k \in (a + 1)..p
      <4>1. k \in (a + 1)..Len(t) /\ k # p + 1
        BY <1>0, <2>0
      <4> QED
        BY <2>2, <4>1
    <3>2. update[l] = t[a]
      BY <1>8, <2>1, <3>0, <3>1
    <3>3. LastOn(nd, t, l, p + 1)
      <4>1. \A k \in (p + 1 + 1)..Len(t) : Ht(nd, t[k]) < l
        <5> TAKE k \in (p + 1 + 1)..Len(t)
        <5>1. k \in (a + 1)..Len(t) /\ k # p + 1
          BY <1>0, <2>0, <2>5
        <5> QED
          BY <2>2, <5>1
      <4> QED
        BY <1>7, <2>5, <4>1 DEF LastOn
    <3>4. nd[gone].forward[l] = Null
      BY <1>0, <1>7, <3>3 DEF Lists, Threaded
    <3> QED
      BY <2>0, <2>4, <2>5, <3>2, <3>4
  <2>6. CASE ~ (l <= h /\ a < p + 1)
    <3>1. \A k \in (a + 1)..Len(t) : Ht(nd, t[k]) < l
      <4> TAKE k \in (a + 1)..Len(t)
      <4>1. CASE k # p + 1
        BY <2>2, <4>1
      <4>2. CASE k = p + 1
        <5>1. a < p + 1
          BY <2>0, <4>2
        <5>2. ~ (l <= h)
          BY <2>6, <5>1
        <5> QED
          BY <1>4, <1>7, <2>3, <4>2, <5>2
      <4> QED
        BY <4>1, <4>2
    <3>2. LastOn(nd, t, l, a)
      BY <2>1, <3>1 DEF LastOn
    <3>3. nd[t[a]].forward[l] = Null
      BY <2>0, <3>2 DEF Lists, Threaded
    <3>4. ~ (l <= h /\ update[l] = t[a])
      <4> SUFFICES ASSUME l <= h, update[l] = t[a]
                   PROVE  FALSE
        OBVIOUS
      <4>0. l \in 1..h
        BY <1>4, <2>3
      <4>1. PICK q \in 1..p : update[l] = t[q]
        BY <1>6, <4>0
      <4>2. q \in 1..Len(t) /\ q < p + 1
        BY <1>0
      <4>3. q = a
        BY <1>1, <2>0, <4>1, <4>2
      <4> QED
        BY <2>6, <4>2, <4>3
    <3> QED
      BY <2>0, <2>4, <3>3, <3>4
  <2> QED
    BY <2>5, <2>6
<1>12. ASSUME NEW l \in Levels
       PROVE  nd2[head].backward[l] = Null
  <2>0. 1 \in 1..Len(t) /\ Ht(nd, t[1]) = MaxLevel /\ t[1] # Null
    BY PlacesHold
  <2>1. nd[head].backward[l] = Null /\ head \in LinkedIn(nd2) /\ l \in 1..Ht(nd, head)
    <3>1. head # gone
      BY <1>0, <1>1, <1>7, <2>0
    <3>2. head \in LinkedIn(nd2)
      BY <1>0, <1>3, <1>7, <2>0, <3>1 DEF Unspliced
    <3> QED
      BY <1>0, <2>0, <3>2 DEF Lists, Threaded, Levels
  <2>2. ~ (l <= h /\ nd[gone].forward[l] = head)
    <3> SUFFICES ASSUME l <= h, nd[gone].forward[l] = head
                 PROVE  FALSE
      OBVIOUS
    <3>1. \/ LastOn(nd, t, l, p + 1) /\ nd[gone].forward[l] = Null
          \/ \E m \in (p + 1 + 1)..Len(t) :
                NextOn(nd, t, l, p + 1, m) /\ nd[gone].forward[l] = t[m]
      BY <1>0, <1>7, ForwardIs
    <3>2. PICK m \in (p + 1 + 1)..Len(t) : nd[gone].forward[l] = t[m]
      BY <1>0, <2>0, <3>1
    <3>3. m \in 1..Len(t) /\ m # 1
      BY <1>0, <3>2
    <3> QED
      BY <1>0, <1>1, <2>0, <3>2, <3>3
  <2> QED
    BY <1>7, <2>1, <2>2 DEF Unspliced
<1> QED
  BY <1>10, <1>11, <1>12 DEF Threaded

-----------------------------------------------------------------------------
\* What the steps do to the nodes.

\* A node, taken apart.
LEMMA NodeIs ==
  ASSUME NEW nd, WellTyped(nd), NEW n \in LinkedIn(nd)
  PROVE  /\ n \in Addresses /\ nd[n] \in Nodes /\ nd[n] # Null
         /\ nd[n].key \in Nat /\ nd[n].value \in Nat /\ nd[n].tranc_id \in Nat
         /\ nd[n].forward \in [1..Ht(nd, n) -> Addresses \cup {Null}]
         /\ nd[n].backward \in [1..Ht(nd, n) -> Addresses \cup {Null}]
         /\ Ht(nd, n) \in Levels /\ Ht(nd, n) \in Nat
<1>1. n \in Addresses /\ nd[n] # Null /\ nd[n] \in Nodes /\ Ht(nd, n) \in Levels
      /\ Len(nd[n].backward) = Ht(nd, n)
  BY DEF WellTyped, LinkedIn
<1>2. /\ nd[n].key \in Nat /\ nd[n].value \in Nat /\ nd[n].tranc_id \in Nat
      /\ nd[n].forward \in Seq(Addresses \cup {Null})
      /\ nd[n].backward \in Seq(Addresses \cup {Null})
  BY <1>1 DEF Nodes
<1>3. \A q \in Seq(Addresses \cup {Null}) : q \in [1..Len(q) -> Addresses \cup {Null}]
  OBVIOUS
<1>4. /\ nd[n].forward \in [1..Len(nd[n].forward) -> Addresses \cup {Null}]
      /\ nd[n].backward \in [1..Len(nd[n].backward) -> Addresses \cup {Null}]
  BY <1>2, <1>3
<1>5. Ht(nd, n) \in Nat
  BY <1>1, SkipListParameters DEF Levels
<1> QED
  BY <1>1, <1>2, <1>4, <1>5 DEF Ht

\* A node, put together.
NodeOf(x, key, value, tranc_id, h, f, b) ==
  /\ x \in Nodes /\ x # Null /\ Len(x.forward) = h /\ Len(x.backward) = h
  /\ x.key = key /\ x.value = value /\ x.tranc_id = tranc_id
  /\ x.forward = f /\ x.backward = b

\* What is built of a node's parts is one.
LEMMA MakeNode ==
  ASSUME NEW key \in Nat, NEW value \in Nat, NEW tranc_id \in Nat, NEW h \in Nat,
         NEW f \in [1..h -> Addresses \cup {Null}], NEW b \in [1..h -> Addresses \cup {Null}],
         NEW x, x = [key |-> key, value |-> value, tranc_id |-> tranc_id,
                     forward |-> f, backward |-> b]
  PROVE  NodeOf(x, key, value, tranc_id, h, f, b)
<1>1. /\ f \in Seq(Addresses \cup {Null}) /\ Len(f) = h
      /\ b \in Seq(Addresses \cup {Null}) /\ Len(b) = h
  OBVIOUS
<1>2. x \in Nodes
  BY <1>1 DEF Nodes
<1>3. x # Null
  BY <1>2, SkipListParameters
<1> QED
  BY <1>1, <1>2, <1>3 DEF NodeOf

\* A node with other pointers.
LEMMA PointersReplaced ==
  ASSUME NEW x \in Nodes, NEW f, NEW b
  PROVE  [x EXCEPT !.forward = f, !.backward = b] =
           [key |-> x.key, value |-> x.value, tranc_id |-> x.tranc_id,
            forward |-> f, backward |-> b]
<1> DEFINE y == [x EXCEPT !.forward = f]
           Made(F, B) == [key |-> x.key, value |-> x.value, tranc_id |-> x.tranc_id,
                          forward |-> F, backward |-> B]
<1>1. x = Made(x.forward, x.backward)
  BY DEF Nodes
<1>2. y = Made(f, x.backward)
  BY <1>1
<1>3. [y EXCEPT !.backward = b] = Made(f, b)
  <2> HIDE DEF y
  <2> QED
    BY <1>2
<1>4. [x EXCEPT !.forward = f, !.backward = b] = [y EXCEPT !.backward = b]
  OBVIOUS
<1> QED
  BY <1>3, <1>4

\* The nodes once put has linked a new one, and once remove has unlinked one.
NodesWith(key, value, tranc_id, h, new, update) ==
  [n \in Addresses |->
     IF n = new
       THEN [key |-> key, value |-> value, tranc_id |-> tranc_id,
             forward  |-> [level \in 1..h |-> node[update[level]].forward[level]],
             backward |-> [level \in 1..h |-> update[level]]]
       ELSE IF n \in Linked THEN SpliceIn(n, new, h, update) ELSE Null]

NodesWithout(target, update) ==
  [n \in Addresses |->
     IF n \notin Linked \/ n = target THEN Null
     ELSE [node[n] EXCEPT
             !.forward = [level \in DOMAIN @ |->
                IF level <= Height(target) /\ update[level] = n
                  THEN node[target].forward[level] ELSE @[level]],
             !.backward = [level \in DOMAIN @ |->
                IF level <= Height(target) /\ node[target].forward[level] = n
                  THEN update[level] ELSE @[level]]]]

\* put, of a new node.
LEMMA InsertSplices ==
  ASSUME NEW t, Lists(node, t), NEW key \in Nat, NEW value \in Nat, NEW tranc_id \in Nat,
         NEW h \in Levels, NEW new \in Addresses, new \notin Linked, NEW update,
         \A level \in 1..h : \E q \in 1..Len(t) :
           update[level] = t[q] /\ level <= Ht(node, t[q]),
         NEW nd2,
         nd2 = NodesWith(key, value, tranc_id, h, new, update)
  PROVE  /\ Spliced(node, nd2, new, key, h, update)
         /\ nd2[new].value = value /\ nd2[new].tranc_id = tranc_id
         /\ \A n \in LinkedIn(node) : /\ nd2[n].value = node[n].value
                                      /\ nd2[n].tranc_id = node[n].tranc_id
<1> DEFINE fnew == [level \in 1..h |-> node[update[level]].forward[level]]
           bnew == [level \in 1..h |-> update[level]]
           f(n) == [level \in 1..Ht(node, n) |->
                      IF level <= h /\ update[level] = n THEN new ELSE node[n].forward[level]]
           b(n) == [level \in 1..Ht(node, n) |->
                      IF level <= h /\ node[update[level]].forward[level] = n
                        THEN new ELSE node[n].backward[level]]
<1>0. /\ WellTyped(node) /\ h \in Nat /\ Linked = LinkedIn(node) /\ Null \notin Addresses
      /\ head \in LinkedIn(node)
  BY SkipListParameters DEF Lists, Levels, Linked, LinkedIn, WellTyped, head, Addresses
<1>1. fnew \in [1..h -> Addresses \cup {Null}] /\ bnew \in [1..h -> Addresses \cup {Null}]
  <2> SUFFICES ASSUME NEW l \in 1..h
               PROVE  /\ update[l] \in Addresses
                      /\ node[update[l]].forward[l] \in Addresses \cup {Null}
    OBVIOUS
  <2>1. PICK q \in 1..Len(t) : update[l] = t[q] /\ l <= Ht(node, t[q])
    OBVIOUS
  <2>2. t[q] \in LinkedIn(node)
    BY PlacesHold
  <2>3. /\ t[q] \in Addresses /\ Ht(node, t[q]) \in Nat
        /\ node[t[q]].forward \in [1..Ht(node, t[q]) -> Addresses \cup {Null}]
    BY <1>0, <2>2, NodeIs
  <2>4. l \in 1..Ht(node, t[q])
    BY <1>0, <2>1, <2>3
  <2> QED
    BY <2>1, <2>3, <2>4
<1>2. nd2[new] = [key |-> key, value |-> value, tranc_id |-> tranc_id,
                  forward |-> fnew, backward |-> bnew]
  BY DEF NodesWith
<1>3. /\ nd2[new] \in Nodes /\ nd2[new] # Null
      /\ Ht(nd2, new) = h /\ Len(nd2[new].backward) = h
      /\ nd2[new].key = key /\ nd2[new].value = value /\ nd2[new].tranc_id = tranc_id
      /\ nd2[new].forward = fnew /\ nd2[new].backward = bnew
  <2>1. NodeOf(nd2[new], key, value, tranc_id, h, fnew, bnew)
    <3> HIDE DEF fnew, bnew
    <3> QED
      BY <1>0, <1>1, <1>2, MakeNode
  <2> QED
    BY <2>1 DEF NodeOf, Ht
<1>4. ASSUME NEW n \in LinkedIn(node)
      PROVE  /\ nd2[n] \in Nodes /\ nd2[n] # Null
             /\ Ht(nd2, n) = Ht(node, n) /\ Len(nd2[n].backward) = Ht(node, n)
             /\ nd2[n].key = node[n].key /\ nd2[n].value = node[n].value
             /\ nd2[n].tranc_id = node[n].tranc_id
             /\ nd2[n].forward = f(n) /\ nd2[n].backward = b(n)
  <2>1. /\ n \in Addresses /\ node[n] \in Nodes /\ node[n].key \in Nat
        /\ node[n].value \in Nat /\ node[n].tranc_id \in Nat
        /\ node[n].forward \in [1..Ht(node, n) -> Addresses \cup {Null}]
        /\ node[n].backward \in [1..Ht(node, n) -> Addresses \cup {Null}]
        /\ Ht(node, n) \in Nat
    BY <1>0, NodeIs
  <2>2. n # new
    BY <1>0
  <2>3. nd2[n] = SpliceIn(n, new, h, update)
    BY <1>0, <2>1, <2>2 DEF NodesWith
  <2>4. f(n) \in [1..Ht(node, n) -> Addresses \cup {Null}]
    BY <2>1
  <2>5. b(n) \in [1..Ht(node, n) -> Addresses \cup {Null}]
    BY <2>1
  <2>6. SpliceIn(n, new, h, update) =
          [key |-> node[n].key, value |-> node[n].value, tranc_id |-> node[n].tranc_id,
           forward |-> f(n), backward |-> b(n)]
    <3>1. DOMAIN node[n].forward = 1..Ht(node, n) /\ DOMAIN node[n].backward = 1..Ht(node, n)
      BY <2>1
    <3>2. SpliceIn(n, new, h, update) = [node[n] EXCEPT !.forward = f(n), !.backward = b(n)]
      BY <3>1 DEF SpliceIn
    <3> HIDE DEF f, b
    <3> QED
      BY <2>1, <3>2, PointersReplaced
  <2>7. NodeOf(nd2[n], node[n].key, node[n].value, node[n].tranc_id, Ht(node, n), f(n), b(n))
    <3> HIDE DEF f, b
    <3> QED
      BY <2>1, <2>3, <2>4, <2>5, <2>6, MakeNode
  <2> QED
    BY <2>7 DEF NodeOf, Ht
<1>5. \A n \in Addresses : n # new /\ n \notin LinkedIn(node) => nd2[n] = Null
  BY <1>0 DEF NodesWith
<1>6. LinkedIn(nd2) = LinkedIn(node) \cup {new}
  BY <1>0, <1>3, <1>4, <1>5 DEF LinkedIn
<1>7. WellTyped(nd2)
  <2>1. nd2 \in [Addresses -> Nodes \cup {Null}]
    <3>1. \A n \in Addresses : nd2[n] \in Nodes \cup {Null}
      BY <1>3, <1>4, <1>5
    <3>2. nd2 = [n \in Addresses |-> nd2[n]]
      BY DEF NodesWith
    <3> QED
      BY <3>1, <3>2
  <2>2. nd2[head] # Null /\ Ht(nd2, head) = MaxLevel
    BY <1>0, <1>4 DEF WellTyped
  <2>3. \A n \in LinkedIn(nd2) : Ht(nd2, n) \in Levels /\ Len(nd2[n].backward) = Ht(nd2, n)
    <3> TAKE n \in LinkedIn(nd2)
    <3>1. CASE n = new
      BY <1>3, <3>1
    <3>2. CASE n \in LinkedIn(node)
      <4>1. Ht(node, n) \in Levels
        BY <1>0, <3>2, NodeIs
      <4>2. Ht(nd2, n) = Ht(node, n) /\ Len(nd2[n].backward) = Ht(node, n)
        BY <1>4, <3>2
      <4> QED
        BY <4>1, <4>2
    <3> QED
      BY <1>6, <3>1, <3>2
  <2> QED
    BY <2>1, <2>2, <2>3 DEF WellTyped
<1>8. \A n \in LinkedIn(node) :
        \A level \in 1..Ht(node, n) :
          /\ nd2[n].forward[level] =
               IF level <= h /\ update[level] = n THEN new ELSE node[n].forward[level]
          /\ nd2[n].backward[level] =
               IF level <= h /\ node[update[level]].forward[level] = n
                 THEN new ELSE node[n].backward[level]
  <2> TAKE n \in LinkedIn(node)
  <2> TAKE level \in 1..Ht(node, n)
  <2>1. nd2[n].forward = f(n) /\ nd2[n].backward = b(n)
    BY <1>4
  <2> QED
    BY <2>1
<1>9. \A level \in 1..h : /\ nd2[new].forward[level] = node[update[level]].forward[level]
                          /\ nd2[new].backward[level] = update[level]
  BY <1>3
<1> HIDE DEF f, b, fnew, bnew
<1>10. Spliced(node, nd2, new, key, h, update)
  BY <1>3, <1>4, <1>6, <1>7, <1>8, <1>9, Zenon DEF Spliced
<1> QED
  BY <1>3, <1>4, <1>10

\* remove.
LEMMA RemoveUnsplices ==
  ASSUME NEW t, Lists(node, t), NEW p \in 1..(Len(t) - 1), NEW update,
         \A level \in 1..Ht(node, t[p + 1]) : \E q \in 1..Len(t) : update[level] = t[q],
         NEW target, target = t[p + 1], NEW nd2,
         nd2 = NodesWithout(target, update)
  PROVE  /\ Unspliced(node, nd2, target, update)
         /\ \A n \in LinkedIn(nd2) : /\ nd2[n].value = node[n].value
                                     /\ nd2[n].tranc_id = node[n].tranc_id
<1> DEFINE h == Ht(node, target)
           f(n) == [level \in 1..Ht(node, n) |->
                      IF level <= h /\ update[level] = n
                        THEN node[target].forward[level] ELSE node[n].forward[level]]
           b(n) == [level \in 1..Ht(node, n) |->
                      IF level <= h /\ node[target].forward[level] = n
                        THEN update[level] ELSE node[n].backward[level]]
<1>0. /\ WellTyped(node) /\ Linked = LinkedIn(node) /\ Null \notin Addresses
      /\ head \in LinkedIn(node)
  BY SkipListParameters DEF Lists, Levels, Linked, LinkedIn, WellTyped, head, Addresses
<1>1. p + 1 \in 1..Len(t) /\ target \in LinkedIn(node)
  <2>1. Len(t) \in Nat
    BY PlacesHold
  <2>2. p + 1 \in 1..Len(t)
    BY <2>1
  <2> QED
    BY <2>2, PlacesHold
<1>2. target # head
  <2>1. Len(t) \in Nat /\ t[1] = head /\ 1 \in 1..Len(t)
    BY PlacesHold
  <2>2. \A i, j \in 1..Len(t) : t[i] = t[j] => i = j
    BY DEF Lists, InOrder
  <2>3. p + 1 # 1
    BY <2>1
  <2> QED
    BY <1>1, <2>1, <2>2, <2>3
<1>3. /\ h \in Nat
      /\ \A l \in 1..h : update[l] \in Addresses
                          /\ node[target].forward[l] \in Addresses \cup {Null}
  <2>1. /\ node[target].forward \in [1..Ht(node, target) -> Addresses \cup {Null}]
        /\ Ht(node, target) \in Nat
    BY <1>0, <1>1, NodeIs
  <2>2. \A l \in 1..h : update[l] \in Addresses
    BY PlacesHold
  <2> QED
    BY <2>1, <2>2
<1>4. ASSUME NEW n \in LinkedIn(node), n # target
      PROVE  /\ nd2[n] \in Nodes /\ nd2[n] # Null
             /\ Ht(nd2, n) = Ht(node, n) /\ Len(nd2[n].backward) = Ht(node, n)
             /\ nd2[n].key = node[n].key /\ nd2[n].value = node[n].value
             /\ nd2[n].tranc_id = node[n].tranc_id
             /\ nd2[n].forward = f(n) /\ nd2[n].backward = b(n)
  <2>1. /\ n \in Addresses /\ node[n] \in Nodes /\ node[n].key \in Nat
        /\ node[n].value \in Nat /\ node[n].tranc_id \in Nat
        /\ node[n].forward \in [1..Ht(node, n) -> Addresses \cup {Null}]
        /\ node[n].backward \in [1..Ht(node, n) -> Addresses \cup {Null}]
        /\ Ht(node, n) \in Nat
    BY <1>0, NodeIs
  <2>2. f(n) \in [1..Ht(node, n) -> Addresses \cup {Null}]
    <3> SUFFICES ASSUME NEW l \in 1..Ht(node, n)
                 PROVE  f(n)[l] \in Addresses \cup {Null}
      OBVIOUS
    <3>1. CASE l <= h /\ update[l] = n
      <4>1. l \in 1..h
        BY <1>3, <2>1, <3>1
      <4> QED
        BY <1>3, <3>1, <4>1
    <3>2. CASE ~ (l <= h /\ update[l] = n)
      BY <2>1, <3>2
    <3> QED
      BY <3>1, <3>2
  <2>3. b(n) \in [1..Ht(node, n) -> Addresses \cup {Null}]
    <3> SUFFICES ASSUME NEW l \in 1..Ht(node, n)
                 PROVE  b(n)[l] \in Addresses \cup {Null}
      OBVIOUS
    <3>1. CASE l <= h /\ node[target].forward[l] = n
      <4>1. l \in 1..h
        BY <1>3, <2>1, <3>1
      <4> QED
        BY <1>3, <3>1, <4>1
    <3>2. CASE ~ (l <= h /\ node[target].forward[l] = n)
      BY <2>1, <3>2
    <3> QED
      BY <3>1, <3>2
  <2>4. nd2[n] =
          [key |-> node[n].key, value |-> node[n].value, tranc_id |-> node[n].tranc_id,
           forward |-> f(n), backward |-> b(n)]
    <3>1. DOMAIN node[n].forward = 1..Ht(node, n) /\ DOMAIN node[n].backward = 1..Ht(node, n)
      BY <2>1
    <3>2. Height(target) = h
      BY DEF Height, Ht
    <3>3. nd2[n] = [node[n] EXCEPT !.forward = f(n), !.backward = b(n)]
      BY <1>0, <1>4, <2>1, <3>1, <3>2 DEF NodesWithout
    <3> HIDE DEF f, b
    <3> QED
      BY <2>1, <3>3, PointersReplaced
  <2>5. NodeOf(nd2[n], node[n].key, node[n].value, node[n].tranc_id, Ht(node, n), f(n), b(n))
    <3> HIDE DEF f, b
    <3> QED
      BY <2>1, <2>2, <2>3, <2>4, MakeNode
  <2> QED
    BY <2>5 DEF NodeOf, Ht
<1>5. \A n \in Addresses : n = target \/ n \notin LinkedIn(node) => nd2[n] = Null
  BY <1>0 DEF NodesWithout
<1>6. LinkedIn(nd2) = LinkedIn(node) \ {target}
  <2>1. \A n \in Addresses : n # target /\ n \in LinkedIn(node) => nd2[n] # Null
    BY <1>4
  <2>2. LinkedIn(node) \subseteq Addresses /\ LinkedIn(nd2) = {n \in Addresses : nd2[n] # Null}
    BY DEF LinkedIn
  <2> QED
    BY <1>5, <2>1, <2>2
<1>7. WellTyped(nd2)
  <2>1. nd2 \in [Addresses -> Nodes \cup {Null}]
    <3>1. \A n \in Addresses : nd2[n] \in Nodes \cup {Null}
      BY <1>4, <1>5
    <3>2. nd2 = [n \in Addresses |-> nd2[n]]
      BY DEF NodesWithout
    <3> QED
      BY <3>1, <3>2
  <2>2. nd2[head] # Null /\ Ht(nd2, head) = MaxLevel
    BY <1>0, <1>2, <1>4 DEF WellTyped
  <2>3. \A n \in LinkedIn(nd2) : Ht(nd2, n) \in Levels /\ Len(nd2[n].backward) = Ht(nd2, n)
    BY <1>0, <1>4, <1>6, NodeIs
  <2> QED
    BY <2>1, <2>2, <2>3 DEF WellTyped
<1>8. \A n \in LinkedIn(nd2) :
        \A level \in 1..Ht(node, n) :
          /\ nd2[n].forward[level] =
               IF level <= h /\ update[level] = n
                 THEN node[target].forward[level] ELSE node[n].forward[level]
          /\ nd2[n].backward[level] =
               IF level <= h /\ node[target].forward[level] = n
                 THEN update[level] ELSE node[n].backward[level]
  <2> TAKE n \in LinkedIn(nd2)
  <2> TAKE level \in 1..Ht(node, n)
  <2>1. nd2[n].forward = f(n) /\ nd2[n].backward = b(n)
    BY <1>4, <1>6
  <2> QED
    BY <2>1
<1>9. \A n \in LinkedIn(nd2) : Ht(nd2, n) = Ht(node, n) /\ nd2[n].key = node[n].key
  BY <1>4, <1>6
<1>10. Unspliced(node, nd2, target, update)
  BY <1>6, <1>7, <1>8, <1>9, Zenon DEF Unspliced
<1> QED
  BY <1>4, <1>6, <1>10

Overwrites(nd, nd2, target, value) == nd2 = [nd EXCEPT ![target].value = value]

\* The nodes nd2 after the value of target was overwritten.
Overwritten(nd, nd2, t, target, value) ==
  /\ Lists(nd2, t) /\ LinkedIn(nd2) = LinkedIn(nd)
  /\ nd2[target].value = value
  /\ \A n \in LinkedIn(nd) :
       /\ Ht(nd2, n) = Ht(nd, n)
       /\ nd2[n].key = nd[n].key /\ nd2[n].tranc_id = nd[n].tranc_id
       /\ n # target => nd2[n].value = nd[n].value

\* put, of a version that is there.
LEMMA OverwriteKeeps ==
  ASSUME NEW nd, NEW t, Lists(nd, t), NEW target \in LinkedIn(nd), NEW value \in Nat,
         NEW nd2, Overwrites(nd, nd2, target, value)
  PROVE  Overwritten(nd, nd2, t, target, value)
<1>0. WellTyped(nd) /\ nd \in [Addresses -> Nodes \cup {Null}] /\ Null \notin Nodes
  BY SkipListParameters DEF Lists, WellTyped
<1>1. target \in Addresses /\ nd[target] \in Nodes
  BY <1>0, NodeIs
<1>2. nd2[target] = [nd[target] EXCEPT !.value = value]
  BY <1>0, <1>1 DEF Overwrites
<1>3. \A n \in Addresses : n # target => nd2[n] = nd[n]
  BY <1>0 DEF Overwrites
<1>4. /\ nd2[target] \in Nodes
      /\ nd2[target].value = value /\ nd2[target].key = nd[target].key
      /\ nd2[target].tranc_id = nd[target].tranc_id
      /\ nd2[target].forward = nd[target].forward
      /\ nd2[target].backward = nd[target].backward
  BY <1>1, <1>2 DEF Nodes
<1>5. LinkedIn(nd2) = LinkedIn(nd)
  BY <1>0, <1>3, <1>4 DEF LinkedIn
<1>6. \A n \in LinkedIn(nd) :
        /\ nd2[n].key = nd[n].key /\ nd2[n].tranc_id = nd[n].tranc_id
        /\ nd2[n].forward = nd[n].forward /\ nd2[n].backward = nd[n].backward
        /\ n # target => nd2[n].value = nd[n].value
  BY <1>3, <1>4 DEF LinkedIn
<1>7. \A n \in LinkedIn(nd) : Ht(nd2, n) = Ht(nd, n)
  BY <1>6 DEF Ht
<1>8. nd2 \in [Addresses -> Nodes \cup {Null}]
  <2>1. \A n \in Addresses : nd2[n] \in Nodes \cup {Null}
    BY <1>0, <1>3, <1>4
  <2>2. nd2 = [n \in Addresses |-> nd2[n]]
    BY <1>0 DEF Overwrites
  <2> QED
    BY <2>1, <2>2
<1>9. WellTyped(nd2)
  <2>1. head \in LinkedIn(nd)
    BY <1>0, SkipListParameters DEF LinkedIn, WellTyped, head, Addresses
  <2>2. nd2[head] # Null /\ Ht(nd2, head) = MaxLevel
    BY <1>0, <1>5, <1>7, <2>1 DEF WellTyped, LinkedIn
  <2>3. \A n \in LinkedIn(nd2) : Ht(nd2, n) \in Levels /\ Len(nd2[n].backward) = Ht(nd2, n)
    BY <1>0, <1>5, <1>6, <1>7 DEF WellTyped
  <2> QED
    BY <1>8, <2>2, <2>3 DEF WellTyped
<1>10. \A i \in 1..Len(t) : t[i] \in LinkedIn(nd)
  BY PlacesHold
<1>11. InOrder(nd2, t)
  <2>1. InOrder(nd, t)
    BY DEF Lists
  <2>2. \A i, j \in 2..Len(t) : i < j => nd2[t[i]].key <= nd2[t[j]].key
    <3> SUFFICES ASSUME NEW i \in 2..Len(t), NEW j \in 2..Len(t), i < j
                 PROVE  nd2[t[i]].key <= nd2[t[j]].key
      OBVIOUS
    <3>1. i \in 1..Len(t) /\ j \in 1..Len(t)
      BY PlacesHold
    <3>2. nd[t[i]].key <= nd[t[j]].key
      BY <2>1 DEF InOrder
    <3> QED
      BY <1>6, <1>10, <3>1, <3>2
  <2> QED
    BY <1>5, <2>1, <2>2, Zenon DEF InOrder
<1>12. Threaded(nd2, t)
  <2>0. Len(t) \in Nat /\ t[1] = head /\ 1 \in 1..Len(t)
    BY PlacesHold
  <2>1. ASSUME NEW l \in Levels, NEW i \in 1..Len(t), NEW j \in 1..Len(t),
               NextOn(nd2, t, l, i, j)
        PROVE  nd2[t[i]].forward[l] = t[j] /\ nd2[t[j]].backward[l] = t[i]
    <3>1. NextOn(nd, t, l, i, j)
      <4>1. \A k \in (i + 1)..(j - 1) : k \in 1..Len(t)
        BY <2>0
      <4> QED
        BY <1>7, <1>10, <2>1, <4>1 DEF NextOn
    <3>2. nd[t[i]].forward[l] = t[j] /\ nd[t[j]].backward[l] = t[i]
      BY <3>1 DEF Lists, Threaded
    <3> QED
      BY <1>6, <1>10, <3>2
  <2>2. ASSUME NEW l \in Levels, NEW i \in 1..Len(t), LastOn(nd2, t, l, i)
        PROVE  nd2[t[i]].forward[l] = Null
    <3>1. LastOn(nd, t, l, i)
      <4>1. \A k \in (i + 1)..Len(t) : k \in 1..Len(t)
        BY <2>0
      <4> QED
        BY <1>7, <1>10, <2>2, <4>1 DEF LastOn
    <3>2. nd[t[i]].forward[l] = Null
      BY <3>1 DEF Lists, Threaded
    <3> QED
      BY <1>6, <1>10, <3>2
  <2>3. \A l \in Levels : nd2[head].backward[l] = Null
    BY <1>6, <1>10, <2>0 DEF Lists, Threaded
  <2> QED
    BY <2>1, <2>2, <2>3 DEF Threaded
<1> QED
  BY <1>4, <1>5, <1>6, <1>7, <1>9, <1>11, <1>12 DEF Lists, Overwritten

-----------------------------------------------------------------------------
\* The steps.

\* The greater of two numbers.
LEMMA MaxOfTwo ==
  ASSUME NEW a \in Nat, NEW b \in Nat
  PROVE  Max({a, b}) \in {a, b} /\ a <= Max({a, b}) /\ b <= Max({a, b})
<1>1. \E x \in {a, b} : \A y \in {a, b} : x >= y
  OBVIOUS
<1>2. Max({a, b}) \in {a, b} /\ \A y \in {a, b} : Max({a, b}) >= y
  BY <1>1 DEF Max
<1> QED
  BY <1>2

\* A version at the place behind p that put overwrites.
Leads(t, p, key, tranc_id) ==
  p < Len(t) /\ node[t[p + 1]].key = key /\ node[t[p + 1]].tranc_id = tranc_id

\* What put does to a table in order t.
PutDone(t, key, value, tranc_id, p) ==
  LET version == [key |-> key, value |-> value, tranc_id |-> tranc_id]
  IN  /\ Divides(node, t, key, p)
      /\ \/ /\ Leads(t, p, key, tranc_id)
            /\ Lists(node', t)
            /\ \A i \in 1..Len(t) :
                 Version(node', t[i]) = IF i = p + 1 THEN version ELSE Version(node, t[i])
         \/ /\ ~ Leads(t, p, key, tranc_id)
            /\ \E new \in Addresses :
                 /\ Lists(node', Insert(t, p, new))
                 /\ Version(node', new) = version
                 /\ \A i \in 1..Len(t) : Version(node', t[i]) = Version(node, t[i])

\* put keeps the nodes in order.
LEMMA PutDoes ==
  ASSUME NEW t, Lists(node, t), current_level \in Levels, LowEnough(node, current_level),
         NEW key \in Keys, NEW value \in Values, NEW tranc_id \in TrancIds,
         NEW new_level \in Levels, Put(key, value, tranc_id, new_level)
  PROVE  /\ \E p \in 1..Len(t) : PutDone(t, key, value, tranc_id, p)
         /\ current_level' \in Levels /\ LowEnough(node', current_level')
<1> DEFINE top == Max({current_level, new_level})
           update == Predecessors(key, top)
           target == Target(key, top)
<1>0. /\ key \in Nat /\ value \in Nat /\ tranc_id \in Nat /\ Null \notin Addresses
      /\ \A l \in Levels : l \in Nat
  BY SkipListParameters DEF Levels
<1>1. top \in Levels /\ current_level <= top /\ new_level <= top /\ current_level' = top
      /\ top \in Nat
  BY <1>0, MaxOfTwo DEF Put, RaiseLevel
<1> HIDE DEF top
<1>2. PICK p \in 1..Len(t) :
             /\ Divides(node, t, key, p)
             /\ target = IF p = Len(t) THEN Null ELSE t[p + 1]
             /\ \A level \in 1..top : \E q \in 1..p :
                  update[level] = t[q] /\ Stops(node, t, level, key, q)
  BY <1>0, <1>1, SearchFinds
<1>3. \/ SameVersion(target, key, tranc_id) /\ PutOverwrite(target, value)
      \/ /\ ~ SameVersion(target, key, tranc_id)
         /\ PutInsert(key, value, tranc_id, new_level, update)
  BY DEF Put, top
<1> HIDE DEF update, target
<1>4. Len(t) \in Nat /\ p \in Nat /\ \A i \in 1..Len(t) : t[i] \in LinkedIn(node) /\ t[i] # Null
  BY PlacesHold
<1>5. SameVersion(target, key, tranc_id) <=> Leads(t, p, key, tranc_id)
  <2>1. CASE p = Len(t)
    BY <1>2, <2>1, <1>4 DEF SameVersion, Holds, Leads
  <2>2. CASE p # Len(t)
    <3>1. p < Len(t) /\ p + 1 \in 1..Len(t)
      BY <1>4, <2>2
    <3> QED
      BY <1>2, <1>4, <2>2, <3>1 DEF SameVersion, Holds, Leads
  <2> QED
    BY <2>1, <2>2
<1>6. CASE SameVersion(target, key, tranc_id) /\ PutOverwrite(target, value)
  <2>1. /\ Leads(t, p, key, tranc_id) /\ p + 1 \in 1..Len(t) /\ target = t[p + 1]
        /\ target \in LinkedIn(node)
    BY <1>2, <1>4, <1>5, <1>6 DEF Leads
  <2>2. Overwrites(node, node', target, value)
    BY <1>6 DEF PutOverwrite, Overwrites
  <2>3a. Overwritten(node, node', t, target, value)
    BY <1>0, <2>1, <2>2, OverwriteKeeps
  <2>3. /\ Lists(node', t) /\ LinkedIn(node') = LinkedIn(node)
        /\ node'[target].value = value
        /\ \A n \in LinkedIn(node) :
             /\ Ht(node', n) = Ht(node, n)
             /\ node'[n].key = node[n].key /\ node'[n].tranc_id = node[n].tranc_id
             /\ n # target => node'[n].value = node[n].value
    BY <2>3a DEF Overwritten
  <2>4. ASSUME NEW i \in 1..Len(t)
        PROVE  Version(node', t[i]) =
                 IF i = p + 1 THEN [key |-> key, value |-> value, tranc_id |-> tranc_id]
                 ELSE Version(node, t[i])
    <3>1. i # p + 1 => t[i] # target
      BY <2>1 DEF Lists, InOrder
    <3>2. CASE i = p + 1
      BY <1>4, <2>1, <2>3, <3>2 DEF Version, Leads
    <3>3. CASE i # p + 1
      BY <1>4, <2>3, <3>1, <3>3 DEF Version
    <3> QED
      BY <3>2, <3>3
  <2>5. LowEnough(node', top)
    <3> SUFFICES ASSUME NEW n \in LinkedIn(node') \ {head}
                 PROVE  Ht(node', n) <= top
      BY DEF LowEnough
    <3>1. n \in LinkedIn(node) /\ Ht(node', n) = Ht(node, n) /\ Ht(node, n) <= current_level
      BY <2>3 DEF LowEnough
    <3>2. Ht(node, n) \in Nat /\ current_level \in Nat
      BY <1>0, <3>1, NodeIs DEF Lists
    <3> QED
      BY <1>1, <3>1, <3>2
  <2> QED
    BY <1>1, <1>2, <2>1, <2>3, <2>4, <2>5 DEF PutDone
<1>7. CASE /\ ~ SameVersion(target, key, tranc_id)
           /\ PutInsert(key, value, tranc_id, new_level, update)
  <2> DEFINE new == Min(Addresses \ Linked)
             u == Insert(t, p, new)
  <2>1. new \in Addresses /\ new \notin Linked
    <3> DEFINE F == Addresses \ Linked
    <3>1. F # {} /\ F \in SUBSET Nat
      BY <1>7, SkipListParameters DEF PutInsert, Linked, Addresses
    <3>2. \E x \in F : \A y \in F : x <= y
      <4> HIDE DEF F
      <4> QED
        BY <3>1, LeastExists
    <3>3. Min(F) \in F
      <4> HIDE DEF F
      <4> QED
        BY <3>2 DEF Min
    <3> QED
      BY <3>3
  <2>2. node' = NodesWith(key, value, tranc_id, new_level, new, update)
    BY <1>7 DEF PutInsert, NodesWith
  <2> HIDE DEF new
  <2>3. \A level \in 1..new_level : \E q \in 1..p :
          update[level] = t[q] /\ Stops(node, t, level, key, q)
    <3> TAKE level \in 1..new_level
    <3>1. level \in 1..top
      BY <1>0, <1>1
    <3> QED
      BY <1>2, <3>1
  <2>4. \A level \in 1..new_level : \E q \in 1..Len(t) :
          update[level] = t[q] /\ level <= Ht(node, t[q])
    <3> TAKE level \in 1..new_level
    <3>1. PICK q \in 1..p : update[level] = t[q] /\ Stops(node, t, level, key, q)
      BY <2>3
    <3>2. q \in 1..Len(t)
      BY <1>4
    <3> QED
      BY <3>1, <3>2 DEF Stops
  <2>5. /\ Spliced(node, node', new, key, new_level, update)
        /\ node'[new].value = value /\ node'[new].tranc_id = tranc_id
        /\ \A n \in LinkedIn(node) : /\ node'[n].value = node[n].value
                                     /\ node'[n].tranc_id = node[n].tranc_id
    BY <1>0, <2>1, <2>2, <2>4, InsertSplices
  <2>6. new \notin LinkedIn(node)
    BY <2>1 DEF Linked, LinkedIn
  <2>7. InOrder(node', u)
    BY <1>0, <1>2, <2>1, <2>5, <2>6, InsertInOrder
  <2>8. Threaded(node', u)
    BY <1>0, <1>2, <2>1, <2>3, <2>5, <2>6, InsertThreaded
  <2>9. Lists(node', u)
    BY <2>5, <2>7, <2>8 DEF Lists, Spliced
  <2>10. Version(node', new) = [key |-> key, value |-> value, tranc_id |-> tranc_id]
    BY <2>5 DEF Version, Spliced
  <2>11. \A i \in 1..Len(t) : Version(node', t[i]) = Version(node, t[i])
    BY <1>4, <2>5 DEF Version, Spliced
  <2>12. LowEnough(node', top)
    <3> SUFFICES ASSUME NEW n \in LinkedIn(node') \ {head}
                 PROVE  Ht(node', n) <= top
      BY DEF LowEnough
    <3>1. CASE n = new
      BY <1>1, <2>5, <3>1 DEF Spliced
    <3>2. CASE n \in LinkedIn(node)
      <4>1. Ht(node', n) = Ht(node, n) /\ Ht(node, n) <= current_level
        BY <2>5, <3>2 DEF LowEnough, Spliced
      <4>2. Ht(node, n) \in Nat /\ current_level \in Nat
        BY <1>0, <3>2, NodeIs DEF Lists
      <4> QED
        BY <1>1, <4>1, <4>2
    <3> QED
      BY <2>5, <3>1, <3>2 DEF Spliced
  <2>13. ~ Leads(t, p, key, tranc_id)
    BY <1>5, <1>7
  <2> QED
    BY <1>1, <1>2, <2>1, <2>9, <2>10, <2>11, <2>12, <2>13 DEF PutDone
<1> QED
  BY <1>3, <1>6, <1>7

\* What remove does to a table in order t.
RemoveDone(t, key, p) ==
  /\ Divides(node, t, key, p) /\ p < Len(t) /\ node[t[p + 1]].key = key
  /\ Lists(node', Without(t, p))
  /\ \A i \in 1..Len(t) : i # p + 1 => Version(node', t[i]) = Version(node, t[i])

\* remove keeps the nodes in order.
LEMMA RemoveDoes ==
  ASSUME NEW t, Lists(node, t), current_level \in Levels, LowEnough(node, current_level),
         NEW key \in Keys, Remove(key)
  PROVE  /\ \E p \in 1..Len(t) : RemoveDone(t, key, p)
         /\ LowEnough(node', current_level)
<1> DEFINE update == Predecessors(key, current_level)
           target == Target(key, current_level)
<1>0. key \in Nat /\ \A l \in Levels : l \in Nat
  BY SkipListParameters DEF Levels
<1>1. PICK p \in 1..Len(t) :
             /\ Divides(node, t, key, p)
             /\ target = IF p = Len(t) THEN Null ELSE t[p + 1]
             /\ \A level \in 1..current_level : \E q \in 1..p :
                  update[level] = t[q] /\ Stops(node, t, level, key, q)
  BY <1>0, SearchFinds
<1>2. Holds(target, key) /\ node' = NodesWithout(target, update)
  BY DEF Remove, NodesWithout
<1> HIDE DEF update, target
<1>3. Len(t) \in Nat /\ p \in Nat /\ \A i \in 1..Len(t) : t[i] \in LinkedIn(node) /\ t[i] # Null
  BY PlacesHold
<1>4. p < Len(t) /\ p + 1 \in 1..Len(t) /\ p \in 1..(Len(t) - 1)
  BY <1>1, <1>2, <1>3 DEF Holds
<1>5. target = t[p + 1] /\ node[target].key = key
  BY <1>1, <1>2, <1>4 DEF Holds
<1>6. \A i, j \in 1..Len(t) : t[i] = t[j] => i = j
  BY DEF Lists, InOrder
<1>7. Ht(node, t[p + 1]) <= current_level /\ Ht(node, t[p + 1]) \in Nat
  <2>1. t[p + 1] # head
    <3>1. 1 \in 1..Len(t) /\ t[1] = head /\ p + 1 # 1
      BY <1>3, PlacesHold
    <3> QED
      BY <1>4, <1>6, <3>1
  <2>2. Ht(node, t[p + 1]) \in Nat
    BY <1>4, PlacesHold
  <2> QED
    BY <1>3, <1>4, <2>1, <2>2 DEF LowEnough
<1>8. \A level \in 1..Ht(node, t[p + 1]) : \E q \in 1..p :
        update[level] = t[q] /\ Stops(node, t, level, key, q)
  <2> TAKE level \in 1..Ht(node, t[p + 1])
  <2>1. level \in 1..current_level
    BY <1>0, <1>7
  <2> QED
    BY <1>1, <2>1
<1>9. \A level \in 1..Ht(node, t[p + 1]) : \E q \in 1..Len(t) : update[level] = t[q]
  <2> TAKE level \in 1..Ht(node, t[p + 1])
  <2>1. PICK q \in 1..p : update[level] = t[q]
    BY <1>8
  <2>2. q \in 1..Len(t)
    BY <1>3
  <2> QED
    BY <2>1, <2>2
<1>10. /\ Unspliced(node, node', target, update)
       /\ \A n \in LinkedIn(node') : /\ node'[n].value = node[n].value
                                     /\ node'[n].tranc_id = node[n].tranc_id
  BY <1>2, <1>4, <1>5, <1>9, RemoveUnsplices
<1>11. InOrder(node', Without(t, p))
  BY <1>4, <1>5, <1>10, RemoveInOrder
<1>12. Threaded(node', Without(t, p))
  BY <1>0, <1>1, <1>4, <1>5, <1>8, <1>10, RemoveThreaded
<1>13. Lists(node', Without(t, p))
  BY <1>10, <1>11, <1>12 DEF Lists, Unspliced
<1>14. \A i \in 1..Len(t) : i # p + 1 => Version(node', t[i]) = Version(node, t[i])
  <2> SUFFICES ASSUME NEW i \in 1..Len(t), i # p + 1
               PROVE  Version(node', t[i]) = Version(node, t[i])
    OBVIOUS
  <2>1. t[i] # target
    BY <1>4, <1>5, <1>6
  <2>2. t[i] \in LinkedIn(node')
    BY <1>3, <1>10, <2>1 DEF Unspliced
  <2> QED
    BY <1>10, <2>2 DEF Version, Unspliced
<1>15. LowEnough(node', current_level)
  <2> SUFFICES ASSUME NEW n \in LinkedIn(node') \ {head}
               PROVE  Ht(node', n) <= current_level
    BY DEF LowEnough
  <2>1. n \in LinkedIn(node) /\ Ht(node', n) = Ht(node, n)
    BY <1>10 DEF Unspliced
  <2> QED
    BY <2>1 DEF LowEnough
<1> QED
  BY <1>1, <1>4, <1>5, <1>13, <1>14, <1>15 DEF RemoveDone

-----------------------------------------------------------------------------
\* The invariant holds.

\* A new head alone.
LEMMA EmptyLists ==
  Lists(EmptyTable, <<head>>) /\ \A top : LowEnough(EmptyTable, top)
<1> DEFINE none == [level \in Levels |-> Null]
<1>0. MaxLevel \in Nat /\ MaxNodes \in Nat /\ Null \notin Nodes
      /\ Levels = 1..MaxLevel /\ 1 <= MaxLevel
  BY SkipListParameters DEF Levels
<1>1. none \in [1..MaxLevel -> Addresses \cup {Null}]
  BY <1>0
<1>2. NewHead = [key |-> 0, value |-> 0, tranc_id |-> 0, forward |-> none, backward |-> none]
  BY DEF NewHead
<1>3. NodeOf(NewHead, 0, 0, 0, MaxLevel, none, none)
  <2> HIDE DEF none
  <2> QED
    BY <1>0, <1>1, <1>2, MakeNode
<1>4. head \in Addresses
  BY <1>0 DEF head, Addresses
<1>5. EmptyTable[head] = NewHead /\ \A n \in Addresses : n # head => EmptyTable[n] = Null
  BY <1>4 DEF EmptyTable
<1>6. LinkedIn(EmptyTable) = {head}
  BY <1>3, <1>4, <1>5 DEF LinkedIn, NodeOf
<1>7. Ht(EmptyTable, head) = MaxLevel /\ Len(EmptyTable[head].backward) = MaxLevel
  BY <1>3, <1>5 DEF Ht, NodeOf
<1>8. WellTyped(EmptyTable)
  <2>1. EmptyTable \in [Addresses -> Nodes \cup {Null}]
    BY <1>3 DEF EmptyTable, NodeOf
  <2>2. EmptyTable[head] # Null
    BY <1>3, <1>5 DEF NodeOf
  <2>3. MaxLevel \in Levels
    BY <1>0
  <2> QED
    BY <1>6, <1>7, <2>1, <2>2, <2>3 DEF WellTyped
<1>9. <<head>> \in Seq({head}) /\ Len(<<head>>) = 1 /\ <<head>>[1] = head
  OBVIOUS
<1>10. InOrder(EmptyTable, <<head>>)
  <2>1. \A n \in LinkedIn(EmptyTable) : \E i \in 1..Len(<<head>>) : <<head>>[i] = n
    BY <1>6, <1>9
  <2>2. \A i, j \in 1..Len(<<head>>) : i = j
    BY <1>9
  <2>3. \A i, j \in 2..Len(<<head>>) : ~ (i < j)
    BY <1>9
  <2> QED
    BY <1>6, <1>9, <2>1, <2>2, <2>3 DEF InOrder
<1>11. \A level \in Levels :
         EmptyTable[head].forward[level] = Null /\ EmptyTable[head].backward[level] = Null
  BY <1>3, <1>5 DEF NodeOf
<1>12. Threaded(EmptyTable, <<head>>)
  <2>3. \A level \in Levels, i, j \in 1..Len(<<head>>) :
          ~ NextOn(EmptyTable, <<head>>, level, i, j)
    BY <1>9 DEF NextOn
  <2>4. \A i \in 1..Len(<<head>>) : <<head>>[i] = head
    BY <1>9
  <2> QED
    BY <1>11, <2>3, <2>4, Zenon DEF Threaded
<1>13. \A top : LowEnough(EmptyTable, top)
  BY <1>6 DEF LowEnough
<1> QED
  BY <1>8, <1>10, <1>12, <1>13 DEF Lists

\* Init.
LEMMA InvInit == Init => Inv
<1> SUFFICES ASSUME Init
             PROVE  Inv
  OBVIOUS
<1>1. current_level \in Levels
  BY SkipListParameters DEF Init, Levels
<1>2. node = EmptyTable
  BY DEF Init
<1> QED
  BY <1>1, <1>2, EmptyLists DEF Inv

\* Every call and every stutter.
LEMMA InvStep == Inv /\ [Next]_vars => Inv'
<1> SUFFICES ASSUME Inv, [Next]_vars
             PROVE  Inv'
  OBVIOUS
<1>1. PICK t : Lists(node, t)
  BY DEF Inv
<1>2. current_level \in Levels /\ LowEnough(node, current_level)
  BY DEF Inv
<1>3. ASSUME NEW key \in Keys, NEW value \in Values, NEW tranc_id \in TrancIds,
             NEW new_level \in Levels, Put(key, value, tranc_id, new_level)
      PROVE  Inv'
  <2>1. /\ \E p \in 1..Len(t) : PutDone(t, key, value, tranc_id, p)
        /\ current_level' \in Levels /\ LowEnough(node', current_level')
    BY <1>1, <1>2, <1>3, PutDoes
  <2>2. \E u : Lists(node', u)
    BY <2>1 DEF PutDone
  <2> QED
    BY <2>1, <2>2 DEF Inv
<1>4. ASSUME NEW key \in Keys, Remove(key)
      PROVE  Inv'
  <2>1. /\ \E p \in 1..Len(t) : RemoveDone(t, key, p)
        /\ LowEnough(node', current_level)
    BY <1>1, <1>2, <1>4, RemoveDoes
  <2>2. \E u : Lists(node', u)
    BY <2>1 DEF RemoveDone
  <2>3. current_level' = current_level
    BY <1>4 DEF Remove
  <2> QED
    BY <1>2, <2>1, <2>2, <2>3 DEF Inv
<1>5. CASE Clear
  <2>1. node' = EmptyTable /\ current_level' = current_level
    BY <1>5 DEF Clear
  <2> QED
    BY <1>2, <2>1, EmptyLists DEF Inv
<1>6. CASE UNCHANGED vars
  BY <1>1, <1>2, <1>6 DEF Inv, vars
<1> QED
  BY <1>3, <1>4, <1>5, <1>6 DEF Next

\* The list stays in order, whatever is put, removed or cleared.
THEOREM StaysInOrder == Spec => []Inv
<1>1. Init => Inv
  BY InvInit
<1>2. Inv /\ [Next]_vars => Inv'
  BY InvStep
<1> QED
  BY <1>1, <1>2, PTL DEF Spec

-----------------------------------------------------------------------------
\* The properties.

\* What Min chooses.
LEMMA MinIs ==
  ASSUME NEW S \in SUBSET Nat, NEW x \in S, \A y \in S : x <= y
  PROVE  Min(S) = x
<1>1. Min(S) \in S /\ \A y \in S : Min(S) <= y
  BY DEF Min
<1>2. x <= Min(S) /\ Min(S) <= x /\ x \in Nat /\ Min(S) \in Nat
  BY <1>1
<1>3. \A a, b \in Nat : a <= b /\ b <= a => a = b
  OBVIOUS
<1> QED
  BY <1>2, <1>3, Zenon

\* The head and the scan are all places.
LEMMA OrderIs ==
  ASSUME NEW t, Lists(node, t)
  PROVE  <<head>> \o Chain = t
<1> DEFINE S == LinkedIn(node)
           c == ChainIn(node)
           o == <<head>> \o c
<1>1. /\ Len(t) \in Nat \ {0} /\ t[1] = head /\ t \in Seq(S) /\ head \in S
  BY PlacesHold DEF Lists, InOrder
<1>2. /\ c \in Seq(S) /\ Len(c) = Len(t) - 1
      /\ \A i \in 1..(Len(t) - 1) : c[i] = t[i + 1]
  BY ChainPlaces
<1> HIDE DEF S, c
<1>3. <<head>> \in Seq(S) /\ Len(<<head>>) = 1 /\ <<head>>[1] = head
  BY <1>1
<1>4. /\ o \in Seq(S) /\ Len(o) = 1 + Len(c)
      /\ \A i \in 1..(1 + Len(c)) : o[i] = IF i <= 1 THEN <<head>>[i] ELSE c[i - 1]
  BY <1>2, <1>3, ConcatProperties
<1>5. Len(o) = Len(t)
  BY <1>1, <1>2, <1>4
<1>6. ASSUME NEW i \in 1..Len(t)
      PROVE  o[i] = t[i]
  <2>1. CASE i = 1
    BY <1>1, <1>2, <1>3, <1>4, <2>1
  <2>2. CASE i # 1
    <3>1. i \in 1..(1 + Len(c)) /\ ~ (i <= 1) /\ i - 1 \in 1..(Len(t) - 1) /\ i - 1 + 1 = i
      BY <1>1, <1>2, <2>2
    <3> QED
      BY <1>2, <1>4, <3>1
  <2> QED
    BY <2>1, <2>2
<1>7. o = t
  <2> HIDE DEF o
  <2> QED
    BY <1>1, <1>4, <1>5, <1>6, SeqEqual
<1> QED
  BY <1>7, ScanIs DEF c

\* In an order of the nodes, every level is nested in the bottom one.
LEMMA OrderNested == Inv => LevelsNested
<1> SUFFICES ASSUME Inv
             PROVE  LevelsNested
  OBVIOUS
<1> DEFINE order == <<head>> \o Chain
           later(i, level) == {j \in (i + 1)..Len(order) : level <= Height(order[j])}
<1>1. PICK t : Lists(node, t)
  BY DEF Inv
<1>2. order = t
  BY <1>1, OrderIs
<1> HIDE DEF order
<1>3. /\ Linked = LinkedIn(node) /\ \A n : Height(n) = Ht(node, n)
  BY DEF Linked, LinkedIn, Height, Ht
<1>4. /\ Len(t) \in Nat
      /\ \A i \in 1..Len(t) : /\ t[i] \in LinkedIn(node) /\ Ht(node, t[i]) \in Levels
                              /\ Ht(node, t[i]) \in Nat
  BY <1>1, PlacesHold
<1>5. {order[i] : i \in 1..Len(order)} = Linked
  <2>1. \A n \in LinkedIn(node) : \E i \in 1..Len(t) : t[i] = n
    BY <1>1 DEF Lists, InOrder
  <2> QED
    BY <1>2, <1>3, <1>4, <2>1
<1>6. \A i \in 2..(Len(order) - 1) : node[order[i]].key <= node[order[i + 1]].key
  <2> SUFFICES ASSUME NEW i \in 2..(Len(t) - 1)
               PROVE  node[t[i]].key <= node[t[i + 1]].key
    BY <1>2
  <2>1. i \in 2..Len(t) /\ i + 1 \in 2..Len(t) /\ i < i + 1
    BY <1>4
  <2> QED
    BY <1>1, <2>1 DEF Lists, InOrder
<1>7. ASSUME NEW i \in 1..Len(order), NEW level \in 1..Height(order[i])
      PROVE  node[order[i]].forward[level] =
               IF later(i, level) = {} THEN Null ELSE order[Min(later(i, level))]
  <2>0. i \in 1..Len(t) /\ level \in Levels /\ level \in Nat /\ level <= Ht(node, t[i])
    BY <1>2, <1>3, <1>4, SkipListParameters DEF Levels
  <2>1. later(i, level) = {j \in (i + 1)..Len(t) : level <= Ht(node, t[j])}
    BY <1>2, <1>3
  <2>2. \A j \in (i + 1)..Len(t) : j \in 1..Len(t) /\ Ht(node, t[j]) \in Nat
    BY <1>4, <2>0
  <2> HIDE DEF later
  <2>3. CASE LastOn(node, t, level, i) /\ node[t[i]].forward[level] = Null
    <3>1. later(i, level) = {}
      BY <2>0, <2>1, <2>2, <2>3 DEF LastOn
    <3> QED
      BY <1>2, <2>3, <3>1
  <2>4. CASE \E j \in (i + 1)..Len(t) :
               NextOn(node, t, level, i, j) /\ node[t[i]].forward[level] = t[j]
    <3>1. PICK j \in (i + 1)..Len(t) :
                 NextOn(node, t, level, i, j) /\ node[t[i]].forward[level] = t[j]
      BY <2>4
    <3>2. j \in later(i, level)
      BY <2>1, <3>1 DEF NextOn
    <3>3. ASSUME NEW k \in later(i, level)
          PROVE  j <= k
      <4>1. k \in (i + 1)..Len(t) /\ level <= Ht(node, t[k]) /\ Ht(node, t[k]) \in Nat
        BY <2>1, <2>2, <3>3
      <4>2. k \notin (i + 1)..(j - 1)
        BY <2>0, <3>1, <4>1 DEF NextOn
      <4> QED
        BY <2>0, <4>1, <4>2
    <3>4. later(i, level) \in SUBSET Nat
      BY <2>0, <2>1
    <3>5. Min(later(i, level)) = j
      BY <3>2, <3>3, <3>4, MinIs
    <3> QED
      BY <1>2, <3>1, <3>2, <3>5
  <2> QED
    BY <1>1, <2>0, <2>3, <2>4, ForwardIs
<1>8. \A n \in Linked \ {head} : Height(n) <= current_level
  BY <1>3 DEF Inv, LowEnough
<1> QED
  BY <1>5, <1>6, <1>7, <1>8 DEF LevelsNested, order, later

\* The lower of two numbers.
LEMMA MinOfTwo ==
  ASSUME NEW a \in Nat, NEW b \in Nat
  PROVE  Min({a, b}) \in Nat /\ Min({a, b}) <= a /\ Min({a, b}) <= b
<1>1. \E x \in {a, b} : \A y \in {a, b} : x <= y
  OBVIOUS
<1>2. Min({a, b}) \in {a, b} /\ \A y \in {a, b} : Min({a, b}) <= y
  BY <1>1 DEF Min
<1> QED
  BY <1>2

\* What the backward pointer of a place other than the head's is.
LEMMA BackwardIs ==
  ASSUME NEW nd, NEW t, Lists(nd, t), NEW level \in Levels,
         NEW j \in 2..Len(t), level <= Ht(nd, t[j])
  PROVE  \E i \in 1..(j - 1) : NextOn(nd, t, level, i, j) /\ nd[t[j]].backward[level] = t[i]
<1> DEFINE S == {i \in 1..(j - 1) : level <= Ht(nd, t[i])}
<1>0. Len(t) \in Nat /\ level \in Nat /\ j \in 1..Len(t) /\ j - 1 \in Nat /\ level <= MaxLevel
  BY PlacesHold, SkipListParameters DEF Levels
<1>1. S \in SUBSET (1..(j - 1)) /\ 1 \in S
  <2>1. Ht(nd, t[1]) = MaxLevel
    BY PlacesHold
  <2> QED
    BY <1>0, <2>1
<1>2. PICK i \in S : \A y \in S : y <= i
  <2> HIDE DEF S
  <2> QED
    BY <1>0, <1>1, GreatestExists
<1>3. ASSUME NEW m \in (i + 1)..(j - 1)
      PROVE  Ht(nd, t[m]) < level
  <2>1. m \notin S /\ m \in 1..(j - 1) /\ m \in 1..Len(t)
    BY <1>0, <1>2, <1>3
  <2>2. Ht(nd, t[m]) \in Nat
    BY <2>1, PlacesHold
  <2> QED
    BY <2>1, <2>2, <1>0
<1>4. i \in 1..(j - 1) /\ i \in 1..Len(t) /\ i < j /\ level <= Ht(nd, t[i])
  BY <1>0, <1>2
<1>5. NextOn(nd, t, level, i, j)
  BY <1>3, <1>4 DEF NextOn
<1>6. nd[t[j]].backward[level] = t[i]
  BY <1>0, <1>4, <1>5 DEF Lists, Threaded
<1> QED
  BY <1>4, <1>5, <1>6

\* In an order of the nodes, the pointers of a level go both ways.
LEMMA OrderBothWays == Inv => BackwardInvertsForward
<1> SUFFICES ASSUME Inv, NEW n \in Linked, NEW m \in Linked,
                    NEW level \in 1..(Min({Height(n), Height(m)}))
             PROVE  node[n].forward[level] = m <=> node[m].backward[level] = n
  BY DEF BackwardInvertsForward
<1>1. PICK t : Lists(node, t)
  BY DEF Inv
<1>2. n \in LinkedIn(node) /\ m \in LinkedIn(node) /\ Height(n) = Ht(node, n)
      /\ Height(m) = Ht(node, m)
  BY DEF Linked, LinkedIn, Height, Ht
<1>3. PICK a \in 1..Len(t) : t[a] = n
  BY <1>1, <1>2 DEF Lists, InOrder
<1>4. PICK b \in 1..Len(t) : t[b] = m
  BY <1>1, <1>2 DEF Lists, InOrder
<1>5. Len(t) \in Nat /\ t[1] = head /\ 1 \in 1..Len(t) /\ n # Null /\ m # Null
      /\ Ht(node, n) \in Levels /\ Ht(node, m) \in Levels
      /\ Ht(node, n) \in Nat /\ Ht(node, m) \in Nat
  BY <1>1, <1>3, <1>4, PlacesHold
<1>6. level \in Levels /\ level <= Ht(node, n) /\ level <= Ht(node, m)
  <2>1. /\ Min({Height(n), Height(m)}) \in Nat /\ Min({Height(n), Height(m)}) <= Height(n)
        /\ Min({Height(n), Height(m)}) <= Height(m)
    BY <1>2, <1>5, MinOfTwo
  <2> QED
    BY <1>2, <1>5, <2>1, SkipListParameters DEF Levels
<1>7. \A i, j \in 1..Len(t) : t[i] = t[j] => i = j
  BY <1>1 DEF Lists, InOrder
<1>8. ASSUME node[n].forward[level] = m
      PROVE  node[m].backward[level] = n
  <2>1. PICK j \in (a + 1)..Len(t) :
               NextOn(node, t, level, a, j) /\ node[n].forward[level] = t[j]
    BY <1>1, <1>3, <1>5, <1>6, <1>8, ForwardIs
  <2>2. j \in 1..Len(t) /\ t[j] = m
    BY <1>5, <1>8, <2>1
  <2> QED
    BY <1>1, <1>3, <1>6, <2>1, <2>2 DEF Lists, Threaded
<1>9. ASSUME node[m].backward[level] = n
      PROVE  node[n].forward[level] = m
  <2>1. b # 1
    <3> SUFFICES ASSUME b = 1
                 PROVE  FALSE
      OBVIOUS
    <3>1. node[head].backward[level] = Null
      BY <1>1, <1>6 DEF Lists, Threaded
    <3> QED
      BY <1>4, <1>5, <1>9, <3>1
  <2>2. b \in 2..Len(t)
    BY <1>5, <2>1
  <2>3. PICK i \in 1..(b - 1) :
               NextOn(node, t, level, i, b) /\ node[t[b]].backward[level] = t[i]
    BY <1>1, <1>4, <1>6, <2>2, BackwardIs
  <2>4. i \in 1..Len(t) /\ t[i] = n
    BY <1>4, <1>5, <1>9, <2>3
  <2> QED
    BY <1>1, <1>4, <1>6, <2>3, <2>4 DEF Lists, Threaded
<1> QED
  BY <1>8, <1>9

\* In an order of the nodes, the search finds what the scan finds.
LEMMA OrderSearched == Inv => LatestFound
<1> SUFFICES ASSUME Inv, NEW key \in Keys
             PROVE  Get(key, 0) = FirstHit(key, 0)
  BY DEF LatestFound
<1>0. Hits(key, 0) = {i \in DOMAIN Chain : node[Chain[i]].key = key}
  BY DEF Hits
<1> DEFINE chain == Chain
           hits == {i \in DOMAIN chain : node[chain[i]].key = key}
           target == Target(key, current_level)
<1>1. PICK t : Lists(node, t)
  BY DEF Inv
<1>2. /\ Len(t) - 1 \in Nat /\ DOMAIN chain = 1..(Len(t) - 1)
      /\ \A i \in 1..(Len(t) - 1) : chain[i] = t[i + 1]
  BY <1>1, ChainPlaces, ScanIs
<1>3. key \in Nat /\ current_level \in Levels
  BY SkipListParameters DEF Inv
<1>4. PICK p \in 1..Len(t) :
             /\ Divides(node, t, key, p)
             /\ target = IF p = Len(t) THEN Null ELSE t[p + 1]
  BY <1>1, <1>3, SearchFinds
<1>5. Get(key, 0) = IF Holds(target, key) THEN target ELSE Null
  BY DEF Get
<1> HIDE DEF chain, target
<1>6. Len(t) \in Nat /\ \A i \in 1..Len(t) : node[t[i]].key \in Nat /\ t[i] # Null
  BY <1>1, PlacesHold
<1>7. \A i \in hits : i \in 1..(Len(t) - 1) /\ i + 1 \in 1..Len(t) /\ node[t[i + 1]].key = key
  BY <1>2, <1>6
<1>8. \A i \in hits : p <= i
  <2> SUFFICES ASSUME NEW i \in hits, ~ (p <= i)
               PROVE  FALSE
    BY <1>2
  <2>1. i + 1 \in 2..p
    BY <1>6, <1>7
  <2>2. node[t[i + 1]].key < key
    BY <1>4, <2>1 DEF Divides
  <2> QED
    BY <1>3, <1>7, <2>2
<1>9. CASE Holds(target, key)
  <2>1. p \in 1..(Len(t) - 1) /\ target = t[p + 1] /\ node[t[p + 1]].key = key
    BY <1>4, <1>6, <1>9 DEF Holds
  <2>2. p \in hits /\ chain[p] = target
    BY <1>2, <2>1
  <2>3. hits \in SUBSET Nat
    BY <1>6, <1>7
  <2>4. Min(hits) = p
    <3> HIDE DEF hits
    <3> QED
      BY <1>8, <2>2, <2>3, MinIs
  <2> QED
    BY <1>0, <1>5, <1>9, <2>2, <2>4 DEF chain, FirstHit
<1>10. CASE ~ Holds(target, key)
  <2>1. hits = {}
    <3> SUFFICES ASSUME NEW i \in hits
                 PROVE  FALSE
      OBVIOUS
    <3>1. i \in 1..(Len(t) - 1) /\ p <= i /\ i + 1 \in 1..Len(t) /\ node[t[i + 1]].key = key
      BY <1>7, <1>8
    <3>2. p # Len(t) /\ p + 1 \in 1..Len(t) /\ target = t[p + 1]
      BY <1>4, <1>6, <3>1
    <3>3. key <= node[t[p + 1]].key
      <4>1. p + 1 \in (p + 1)..Len(t)
        BY <1>6, <3>2
      <4> QED
        BY <1>4, <4>1 DEF Divides
    <3>4. node[t[p + 1]].key <= node[t[i + 1]].key
      <4>1. CASE p = i
        BY <1>6, <3>2, <4>1
      <4>2. CASE p # i
        <5>1. p + 1 \in 2..Len(t) /\ i + 1 \in 2..Len(t) /\ p + 1 < i + 1
          BY <1>6, <3>1, <4>2
        <5> QED
          BY <1>1, <5>1 DEF Lists, InOrder
      <4> QED
        BY <4>1, <4>2
    <3>5. node[t[p + 1]].key = key
      BY <1>3, <1>6, <3>1, <3>2, <3>3, <3>4
    <3> QED
      BY <1>6, <1>10, <3>2, <3>5 DEF Holds
  <2> QED
    BY <1>0, <1>5, <1>10, <2>1 DEF chain, FirstHit
<1> QED
  BY <1>9, <1>10

\* No put, remove or clear leaves a node behind on some level of the skip list or
\* links the levels out of order, and no node gets taller than current_level.
THEOREM LevelsStayNested == Spec => []LevelsNested
BY StaysInOrder, OrderNested, PTL

\* backward_ stays the inverse of forward_ on every level, whatever put and remove
\* link and unlink.
THEOREM BackwardStaysInverse == Spec => []BackwardInvertsForward
BY StaysInOrder, OrderBothWays, PTL

\* get without a transaction id, which descends through the levels from a
\* current_level that may be stale, always returns the version of the key that was
\* written last.
THEOREM GetFindsLatest == Spec => []LatestFound
BY StaysInOrder, OrderSearched, PTL

-----------------------------------------------------------------------------
\* The refinement.

VersionSet == [key : Nat, value : Nat, tranc_id : Nat]

\* A sequence cut in two.
LEMMA CutSeq ==
  ASSUME NEW S, NEW v \in Seq(S), NEW p \in 1..(Len(v) + 1), NEW q \in p..(p + 1), q <= Len(v) + 1
  PROVE  /\ SubSeq(v, 1, p - 1) \in Seq(S) /\ Len(SubSeq(v, 1, p - 1)) = p - 1
         /\ \A i \in 1..(p - 1) : SubSeq(v, 1, p - 1)[i] = v[i]
         /\ SubSeq(v, q, Len(v)) \in Seq(S) /\ Len(SubSeq(v, q, Len(v))) = Len(v) + 1 - q
         /\ \A i \in 1..(Len(v) + 1 - q) : SubSeq(v, q, Len(v))[i] = v[q + i - 1]
<1>0. Len(v) \in Nat /\ p \in Nat /\ q \in Nat /\ p >= 1 /\ q >= 1
      /\ \A i \in 1..Len(v) : v[i] \in S
  OBVIOUS
<1>1. /\ SubSeq(v, 1, p - 1) \in Seq(S)
      /\ Len(SubSeq(v, 1, p - 1)) = IF 1 <= p - 1 THEN p - 1 - 1 + 1 ELSE 0
      /\ \A i \in 1..(p - 1 - 1 + 1) : SubSeq(v, 1, p - 1)[i] = v[1 + i - 1]
  <2>1. \A i \in 1..(p - 1) : v[i] \in S
    BY <1>0
  <2>2. 1 \in Int /\ p - 1 \in Int
    BY <1>0
  <2> QED
    BY <2>1, <2>2, SubSeqProperties
<1>2. /\ SubSeq(v, q, Len(v)) \in Seq(S)
      /\ Len(SubSeq(v, q, Len(v))) = IF q <= Len(v) THEN Len(v) - q + 1 ELSE 0
      /\ \A i \in 1..(Len(v) - q + 1) : SubSeq(v, q, Len(v))[i] = v[q + i - 1]
  <2>1. \A i \in q..Len(v) : v[i] \in S
    BY <1>0
  <2>2. q \in Int /\ Len(v) \in Int
    BY <1>0
  <2> QED
    BY <2>1, <2>2, SubSeqProperties
<1>3. (IF 1 <= p - 1 THEN p - 1 - 1 + 1 ELSE 0) = p - 1 /\ p - 1 - 1 + 1 = p - 1
  BY <1>0
<1>4. (IF q <= Len(v) THEN Len(v) - q + 1 ELSE 0) = Len(v) + 1 - q
      /\ Len(v) - q + 1 = Len(v) + 1 - q
  BY <1>0
<1>5. \A i \in 1..(p - 1) : 1 + i - 1 = i
  BY <1>0
<1>6. Len(SubSeq(v, 1, p - 1)) = p - 1 /\ Len(SubSeq(v, q, Len(v))) = Len(v) + 1 - q
  BY <1>1, <1>2, <1>3, <1>4, Zenon
<1>7. \A i \in 1..(p - 1) : SubSeq(v, 1, p - 1)[i] = v[i]
  BY <1>1, <1>3, <1>5, Zenon
<1>8. \A i \in 1..(Len(v) + 1 - q) : SubSeq(v, q, Len(v))[i] = v[q + i - 1]
  BY <1>2, <1>4, Zenon
<1> QED
  BY <1>1, <1>2, <1>6, <1>7, <1>8

\* A sequence with one element more.
LEMMA OneMore ==
  ASSUME NEW S, NEW v \in Seq(S), NEW p \in 1..(Len(v) + 1), NEW x \in S, NEW w \in Seq(S),
         Len(w) = Len(v) + 1,
         \A i \in 1..(Len(v) + 1) :
           w[i] = IF i < p THEN v[i] ELSE IF i = p THEN x ELSE v[i - 1]
  PROVE  w = SubSeq(v, 1, p - 1) \o <<x>> \o SubSeq(v, p, Len(v))
<1> DEFINE a == SubSeq(v, 1, p - 1)
           b == SubSeq(v, p, Len(v))
           c == a \o <<x>>
           d == c \o b
<1>0. Len(v) \in Nat /\ p \in Nat /\ p >= 1 /\ p <= Len(v) + 1
  OBVIOUS
<1>1. /\ a \in Seq(S) /\ Len(a) = p - 1 /\ \A i \in 1..(p - 1) : a[i] = v[i]
      /\ b \in Seq(S) /\ Len(b) = Len(v) + 1 - p
      /\ \A i \in 1..(Len(v) + 1 - p) : b[i] = v[p + i - 1]
  BY <1>0, CutSeq
<1> HIDE DEF a, b
<1>2. <<x>> \in Seq(S) /\ Len(<<x>>) = 1 /\ <<x>>[1] = x
  OBVIOUS
<1>3. /\ c \in Seq(S) /\ Len(c) = Len(a) + Len(<<x>>)
      /\ \A i \in 1..(Len(a) + Len(<<x>>)) :
           c[i] = IF i <= Len(a) THEN a[i] ELSE <<x>>[i - Len(a)]
  BY <1>1, <1>2, ConcatProperties
<1>4. Len(c) = p /\ \A i \in 1..p : c[i] = IF i < p THEN v[i] ELSE x
  <2>1. Len(a) + Len(<<x>>) = p
    BY <1>0, <1>1, <1>2
  <2>2. ASSUME NEW i \in 1..p
        PROVE  c[i] = IF i < p THEN v[i] ELSE x
    <3>1. CASE i < p
      <4>1. i <= Len(a) /\ i \in 1..(p - 1)
        BY <1>0, <1>1, <3>1
      <4> QED
        BY <1>1, <1>3, <2>1, <3>1, <4>1
    <3>2. CASE ~ (i < p)
      <4>1. ~ (i <= Len(a)) /\ i - Len(a) = 1
        BY <1>0, <1>1, <3>2
      <4> QED
        BY <1>2, <1>3, <2>1, <3>2, <4>1
    <3> QED
      BY <3>1, <3>2
  <2> QED
    BY <1>3, <2>1, <2>2
<1>5. c \in Seq(S)
  BY <1>3
<1> HIDE DEF c
<1>6. /\ d \in Seq(S) /\ Len(d) = Len(c) + Len(b)
      /\ \A i \in 1..(Len(c) + Len(b)) : d[i] = IF i <= Len(c) THEN c[i] ELSE b[i - Len(c)]
  BY <1>1, <1>5, ConcatProperties
<1> HIDE DEF d
<1>7. Len(d) = Len(w)
  BY <1>0, <1>1, <1>4, <1>6
<1>8. ASSUME NEW i \in 1..Len(w)
      PROVE  w[i] = d[i]
  <2>1. Len(c) + Len(b) = Len(v) + 1 /\ i \in 1..(Len(v) + 1)
    BY <1>0, <1>1, <1>4
  <2>2. CASE i <= p
    <3>1. i \in 1..p
      BY <1>0, <2>2
    <3>2. d[i] = c[i]
      BY <1>4, <1>6, <2>1, <2>2
    <3>3. CASE i < p
      BY <1>4, <2>1, <3>1, <3>2, <3>3
    <3>4. CASE i = p
      <4>1. ~ (i < p)
        BY <1>0, <3>4
      <4>2. w[i] = x /\ c[i] = x
        BY <1>4, <2>1, <3>1, <3>4, <4>1
      <4> QED
        BY <3>2, <4>2
    <3>5. i < p \/ i = p
      BY <1>0, <2>2
    <3> QED
      BY <3>3, <3>4, <3>5
  <2>3. CASE ~ (i <= p)
    <3>1. i - p \in 1..(Len(v) + 1 - p) /\ p + (i - p) - 1 = i - 1 /\ ~ (i < p) /\ i # p
      BY <1>0, <2>1, <2>3
    <3>2. d[i] = b[i - p]
      BY <1>4, <1>6, <2>1, <2>3
    <3>3. b[i - p] = v[i - 1]
      BY <1>1, <3>1
    <3> QED
      BY <2>1, <3>1, <3>2, <3>3
  <2> QED
    BY <2>2, <2>3
<1>9. d \in Seq(S)
  BY <1>6
<1>10. w = d
  BY <1>7, <1>8, <1>9, SeqEqual
<1> QED
  BY <1>10 DEF a, b, c, d

\* A sequence with one element less.
LEMMA OneLess ==
  ASSUME NEW S, NEW v \in Seq(S), NEW p \in 1..Len(v), NEW w \in Seq(S),
         Len(w) = Len(v) - 1,
         \A i \in 1..(Len(v) - 1) : w[i] = IF i < p THEN v[i] ELSE v[i + 1]
  PROVE  w = SubSeq(v, 1, p - 1) \o SubSeq(v, p + 1, Len(v))
<1> DEFINE a == SubSeq(v, 1, p - 1)
           b == SubSeq(v, p + 1, Len(v))
           d == a \o b
<1>0. Len(v) \in Nat /\ p \in Nat /\ p >= 1 /\ p <= Len(v)
  OBVIOUS
<1>1. /\ a \in Seq(S) /\ Len(a) = p - 1 /\ \A i \in 1..(p - 1) : a[i] = v[i]
      /\ b \in Seq(S) /\ Len(b) = Len(v) + 1 - (p + 1)
      /\ \A i \in 1..(Len(v) + 1 - (p + 1)) : b[i] = v[(p + 1) + i - 1]
  <2>1. p \in 1..(Len(v) + 1) /\ p + 1 \in p..(p + 1) /\ p + 1 <= Len(v) + 1
    BY <1>0
  <2> QED
    BY <2>1, CutSeq
<1> HIDE DEF a, b
<1>2. /\ d \in Seq(S) /\ Len(d) = Len(a) + Len(b)
      /\ \A i \in 1..(Len(a) + Len(b)) : d[i] = IF i <= Len(a) THEN a[i] ELSE b[i - Len(a)]
  BY <1>1, ConcatProperties
<1> HIDE DEF d
<1>3. Len(d) = Len(w) /\ Len(a) + Len(b) = Len(v) - 1
  BY <1>0, <1>1, <1>2
<1>4. ASSUME NEW i \in 1..Len(w)
      PROVE  w[i] = d[i]
  <2>1. i \in 1..(Len(v) - 1)
    OBVIOUS
  <2>2. CASE i < p
    <3>1. i <= Len(a) /\ i \in 1..(p - 1)
      BY <1>0, <1>1, <2>2
    <3>2. d[i] = a[i]
      BY <1>2, <1>3, <2>1, <3>1
    <3> QED
      BY <1>1, <2>1, <2>2, <3>1, <3>2
  <2>3. CASE ~ (i < p)
    <3>1. /\ ~ (i <= Len(a)) /\ i - Len(a) \in 1..(Len(v) + 1 - (p + 1))
          /\ (p + 1) + (i - Len(a)) - 1 = i + 1
      BY <1>0, <1>1, <2>1, <2>3
    <3>2. d[i] = b[i - Len(a)]
      BY <1>2, <1>3, <2>1, <3>1
    <3>3. b[i - Len(a)] = v[i + 1]
      BY <1>1, <3>1
    <3> QED
      BY <2>1, <2>3, <3>2, <3>3
  <2> QED
    BY <2>2, <2>3
<1>5. d \in Seq(S)
  BY <1>2
<1>6. w = d
  BY <1>3, <1>4, <1>5, SeqEqual
<1> QED
  BY <1>6 DEF a, b, d

\* What the versions of an order of the nodes are.
LEMMA VersionsAre ==
  ASSUME NEW nd, NEW t, Lists(nd, t)
  PROVE  /\ Versions(nd, t) \in Seq(VersionSet) /\ Len(Versions(nd, t)) = Len(t) - 1
         /\ Len(t) - 1 \in Nat /\ Len(t) \in Nat
         /\ \A i \in 1..(Len(t) - 1) :
              /\ i + 1 \in 1..Len(t)
              /\ Versions(nd, t)[i] = Version(nd, t[i + 1])
              /\ Versions(nd, t)[i].key = nd[t[i + 1]].key
              /\ Versions(nd, t)[i].tranc_id = nd[t[i + 1]].tranc_id
              /\ nd[t[i + 1]].key \in Nat
<1> DEFINE v == Versions(nd, t)
<1>1. Len(t) \in Nat /\ Len(t) - 1 \in Nat /\ WellTyped(nd)
      /\ \A i \in 1..Len(t) : t[i] \in LinkedIn(nd)
  BY PlacesHold DEF Lists
<1>2. \A i \in 1..(Len(t) - 1) : i + 1 \in 1..Len(t)
  BY <1>1
<1>3. ASSUME NEW i \in 1..(Len(t) - 1)
      PROVE  /\ Version(nd, t[i + 1]) \in VersionSet
             /\ Version(nd, t[i + 1]).key = nd[t[i + 1]].key
             /\ Version(nd, t[i + 1]).tranc_id = nd[t[i + 1]].tranc_id
             /\ nd[t[i + 1]].key \in Nat
  <2>1. /\ nd[t[i + 1]].key \in Nat /\ nd[t[i + 1]].value \in Nat
        /\ nd[t[i + 1]].tranc_id \in Nat
    BY <1>1, <1>2, NodeIs
  <2> QED
    BY <2>1 DEF Version, VersionSet
<1>4. \A i \in 1..(Len(t) - 1) : v[i] = Version(nd, t[i + 1])
  BY DEF Versions
<1>5. v \in [1..(Len(t) - 1) -> VersionSet]
  BY <1>3 DEF Versions
<1>6. \A n \in Nat : \A f \in [1..n -> VersionSet] : f \in Seq(VersionSet) /\ Len(f) = n
  OBVIOUS
<1>7. v \in Seq(VersionSet) /\ Len(v) = Len(t) - 1
  <2> HIDE DEF v
  <2> QED
    BY <1>1, <1>5, <1>6
<1> HIDE DEF v
<1>8. \A i \in 1..(Len(t) - 1) : /\ v[i].key = nd[t[i + 1]].key
                                  /\ v[i].tranc_id = nd[t[i + 1]].tranc_id
  BY <1>3, <1>4
<1>9. \A i \in 1..(Len(t) - 1) : nd[t[i + 1]].key \in Nat
  BY <1>3
<1> QED
  BY <1>1, <1>2, <1>4, <1>7, <1>8, <1>9 DEF v

\* What flush returns, before and after a step.
LEMMA FlushVersions ==
  /\ \A t : Lists(node, t) => flush = Versions(node, t)
  /\ \A t : Lists(node', t) => flush' = Versions(node', t)
BY ScanIs, FlushIs

\* Where the abstract table finds a key.
LEMMA FirstIs ==
  ASSUME NEW t, Lists(node, t), NEW key \in Nat, NEW p \in 1..Len(t), Divides(node, t, key, p)
  PROVE  Table!FirstAtOrAfter(key) = p
<1> DEFINE v == flush
           fits(i) == /\ \A j \in 1..(i - 1) : v[j].key < key
                      /\ i <= Len(v) => v[i].key >= key
<1>1. v = Versions(node, t)
  BY FlushVersions
<1>2. /\ Len(v) = Len(t) - 1 /\ Len(t) \in Nat
      /\ \A i \in 1..(Len(t) - 1) : v[i].key = node[t[i + 1]].key /\ node[t[i + 1]].key \in Nat
  BY <1>1, VersionsAre
<1>3. Table!FirstAtOrAfter(key) = CHOOSE i \in 1..(Len(v) + 1) : fits(i)
  BY DEF Table!FirstAtOrAfter
<1> HIDE DEF v
<1>4. Len(v) + 1 = Len(t)
  BY <1>2
<1>5. \A j \in 1..(p - 1) : v[j].key < key
  <2> TAKE j \in 1..(p - 1)
  <2>1. j + 1 \in 2..p /\ j \in 1..(Len(t) - 1)
    BY <1>2
  <2> QED
    BY <1>2, <2>1 DEF Divides
<1>6. ASSUME p <= Len(v)
      PROVE  v[p].key >= key /\ v[p].key \in Nat
  <2>1. p + 1 \in (p + 1)..Len(t) /\ p \in 1..(Len(t) - 1)
    BY <1>2, <1>6
  <2>2. key <= node[t[p + 1]].key
    BY <2>1 DEF Divides
  <2> QED
    BY <1>2, <2>1, <2>2
<1>7. fits(p)
  BY <1>5, <1>6
<1>8. ASSUME NEW i \in 1..Len(t), fits(i), i # p
      PROVE  FALSE
  <2>1. CASE i < p
    <3>1. i \in 1..(p - 1) /\ i <= Len(v) /\ i \in 1..(Len(t) - 1)
      BY <1>2, <2>1
    <3>2. v[i].key < key /\ v[i].key >= key /\ v[i].key \in Nat
      BY <1>2, <1>5, <1>8, <3>1
    <3> QED
      BY <3>2
  <2>2. CASE p < i
    <3>1. p \in 1..(i - 1) /\ p <= Len(v)
      BY <1>2, <2>2
    <3>2. v[p].key < key /\ v[p].key >= key /\ v[p].key \in Nat
      BY <1>6, <1>8, <3>1
    <3> QED
      BY <3>2
  <2> QED
    BY <1>2, <1>8, <2>1, <2>2
<1> HIDE DEF fits
<1> QED
  BY <1>3, <1>4, <1>7, <1>8

\* Init.
LEMMA RefinesInit == Init => Table!Init
<1> SUFFICES ASSUME Init
             PROVE  Table!Init
  OBVIOUS
<1>1. Lists(node, <<head>>)
  BY EmptyLists DEF Init
<1>2. flush \in Seq(VersionSet) /\ Len(flush) = 0
  <2>1. Len(<<head>>) = 1
    OBVIOUS
  <2> QED
    BY <1>1, <2>1, FlushVersions, VersionsAre
<1>3. flush = << >>
  BY <1>2
<1> QED
  BY <1>3 DEF Table!Init, Init

\* put.
LEMMA RefinesPut ==
  ASSUME Inv, NEW key \in Keys, NEW value \in Values, NEW tranc_id \in TrancIds,
         NEW new_level \in Levels, Put(key, value, tranc_id, new_level)
  PROVE  Table!Put(key, value, tranc_id)
<1> DEFINE version == [key |-> key, value |-> value, tranc_id |-> tranc_id]
           v == flush
           w == flush'
<1>0. key \in Nat /\ value \in Nat /\ tranc_id \in Nat
  BY SkipListParameters
<1>1. PICK t : Lists(node, t)
  BY DEF Inv
<1>2. PICK p \in 1..Len(t) : PutDone(t, key, value, tranc_id, p)
  BY <1>1, PutDoes DEF Inv
<1>3. Table!FirstAtOrAfter(key) = p
  BY <1>0, <1>1, <1>2, FirstIs DEF PutDone
<1>4. call' = <<"put", key, value, tranc_id>>
  BY DEF Put
<1>5. v = Versions(node, t)
  BY <1>1, FlushVersions
<1>6. /\ v \in Seq(VersionSet) /\ Len(v) = Len(t) - 1 /\ Len(t) - 1 \in Nat /\ Len(t) \in Nat
      /\ \A i \in 1..(Len(t) - 1) : /\ i + 1 \in 1..Len(t)
                                    /\ v[i] = Version(node, t[i + 1])
                                    /\ v[i].key = node[t[i + 1]].key
                                    /\ v[i].tranc_id = node[t[i + 1]].tranc_id
  <2>1. /\ Versions(node, t) \in Seq(VersionSet) /\ Len(Versions(node, t)) = Len(t) - 1
        /\ Len(t) - 1 \in Nat /\ Len(t) \in Nat
        /\ \A i \in 1..(Len(t) - 1) :
             /\ i + 1 \in 1..Len(t)
             /\ Versions(node, t)[i] = Version(node, t[i + 1])
             /\ Versions(node, t)[i].key = node[t[i + 1]].key
             /\ Versions(node, t)[i].tranc_id = node[t[i + 1]].tranc_id
    BY <1>1, VersionsAre
  <2> HIDE DEF v
  <2> QED
    BY <1>5, <2>1, Zenon
<1>7. version \in VersionSet
  BY <1>0 DEF VersionSet
<1> SUFFICES IF p <= Len(v) /\ v[p].key = key /\ v[p].tranc_id = tranc_id
               THEN w = [v EXCEPT ![p] = version]
               ELSE w = SubSeq(v, 1, p - 1) \o <<version>> \o SubSeq(v, p, Len(v))
  BY <1>3, <1>4 DEF Table!Put, Table!Leads
<1>8. p <= Len(v) /\ v[p].key = key /\ v[p].tranc_id = tranc_id <=> Leads(t, p, key, tranc_id)
  <2>1. p <= Len(v) <=> p < Len(t)
    BY <1>6
  <2>2. p < Len(t) => p \in 1..(Len(t) - 1)
    BY <1>6
  <2> HIDE DEF v
  <2> QED
    BY <1>6, <2>1, <2>2 DEF Leads
<1>9. ASSUME Leads(t, p, key, tranc_id)
      PROVE  w = [v EXCEPT ![p] = version]
  <2>1. /\ Lists(node', t)
        /\ \A i \in 1..Len(t) :
             Version(node', t[i]) = IF i = p + 1 THEN version ELSE Version(node, t[i])
    BY <1>2, <1>9 DEF PutDone
  <2>2. w = Versions(node', t)
    BY <2>1, FlushVersions
  <2>3. p \in 1..(Len(t) - 1)
    BY <1>6, <1>9 DEF Leads
  <2>4. \A i \in 1..(Len(t) - 1) : i + 1 = p + 1 <=> i = p
    BY <1>6
  <2>5. w = [i \in 1..(Len(t) - 1) |-> Version(node', t[i + 1])]
    BY <2>2 DEF Versions
  <2>6. v = [i \in 1..(Len(t) - 1) |-> Version(node, t[i + 1])]
    BY <1>5 DEF Versions
  <2>7. \A i \in 1..(Len(t) - 1) :
          Version(node', t[i + 1]) = IF i = p THEN version ELSE Version(node, t[i + 1])
    BY <1>6, <2>1, <2>4
  <2> HIDE DEF version, v, w
  <2> QED
    BY <2>3, <2>5, <2>6, <2>7
<1>10. ASSUME ~ Leads(t, p, key, tranc_id)
       PROVE  w = SubSeq(v, 1, p - 1) \o <<version>> \o SubSeq(v, p, Len(v))
  <2>1. PICK new \in Addresses :
               /\ Lists(node', Insert(t, p, new))
               /\ Version(node', new) = version
               /\ \A i \in 1..Len(t) : Version(node', t[i]) = Version(node, t[i])
    BY <1>2, <1>10 DEF PutDone
  <2> DEFINE u == Insert(t, p, new)
  <2>2. Len(u) = Len(t) + 1
    <3>1. Len(t) + 1 \in Nat
      BY <1>6
    <3> QED
      BY <3>1 DEF Insert
  <2>3. \A i \in 1..(Len(t) + 1) :
          u[i] = IF i <= p THEN t[i] ELSE IF i = p + 1 THEN new ELSE t[i - 1]
    BY DEF Insert
  <2> HIDE DEF u
  <2>4. w = Versions(node', u)
    BY <2>1, FlushVersions DEF u
  <2>5. /\ w \in Seq(VersionSet) /\ Len(w) = Len(u) - 1
        /\ \A i \in 1..(Len(u) - 1) : w[i] = Version(node', u[i + 1])
    BY <2>1, <2>4, VersionsAre DEF u
  <2> HIDE DEF v, w, version
  <2>6. Len(w) = Len(v) + 1 /\ Len(u) - 1 = Len(v) + 1 /\ p \in 1..(Len(v) + 1)
    BY <1>6, <2>2, <2>5
  <2>7. ASSUME NEW i \in 1..(Len(v) + 1)
        PROVE  w[i] = IF i < p THEN v[i] ELSE IF i = p THEN version ELSE v[i - 1]
    <3>0. i + 1 \in 1..(Len(t) + 1) /\ i \in 1..(Len(u) - 1)
      BY <1>6, <2>6
    <3>1. i + 1 \in 1..(Len(t) + 1) /\ w[i] = Version(node', u[i + 1])
      BY <2>5, <3>0
    <3>2. CASE i < p
      <4>1. i + 1 <= p /\ i \in 1..(Len(t) - 1) /\ i + 1 \in 1..Len(t)
        BY <1>6, <3>2
      <4> QED
        BY <1>6, <2>1, <2>3, <3>1, <3>2, <4>1
    <3>3. CASE i = p
      <4>1. ~ (i + 1 <= p) /\ i + 1 = p + 1 /\ ~ (i < p)
        BY <1>6, <3>3
      <4> QED
        BY <2>1, <2>3, <3>1, <3>3, <4>1
    <3>4. CASE i > p
      <4>1. /\ ~ (i + 1 <= p) /\ i + 1 # p + 1 /\ ~ (i < p) /\ i # p
            /\ i - 1 \in 1..(Len(t) - 1) /\ i \in 1..Len(t) /\ i + 1 - 1 = i /\ i - 1 + 1 = i
        BY <1>6, <3>4
      <4>2. w[i] = Version(node', t[i])
        BY <2>3, <3>1, <4>1
      <4>3. v[i - 1] = Version(node, t[i])
        BY <1>6, <4>1
      <4> QED
        BY <2>1, <4>1, <4>2, <4>3
    <3> QED
      BY <1>6, <3>2, <3>3, <3>4
  <2> QED
    BY <1>6, <1>7, <2>5, <2>6, <2>7, OneMore
<1> HIDE DEF v, w, version
<1> QED
  BY <1>8, <1>9, <1>10

\* remove.
LEMMA RefinesRemove ==
  ASSUME Inv, NEW key \in Keys, Remove(key)
  PROVE  Table!Remove(key)
<1> DEFINE v == flush
           w == flush'
<1>0. key \in Nat
  BY SkipListParameters
<1>1. PICK t : Lists(node, t)
  BY DEF Inv
<1>2. PICK p \in 1..Len(t) : RemoveDone(t, key, p)
  BY <1>1, RemoveDoes DEF Inv
<1>3. Table!FirstAtOrAfter(key) = p
  BY <1>0, <1>1, <1>2, FirstIs DEF RemoveDone
<1>4. call' = <<"remove", key>>
  BY DEF Remove
<1>5. v = Versions(node, t)
  BY <1>1, FlushVersions
<1>6. /\ v \in Seq(VersionSet) /\ Len(v) = Len(t) - 1 /\ Len(t) - 1 \in Nat /\ Len(t) \in Nat
      /\ \A i \in 1..(Len(t) - 1) : /\ i + 1 \in 1..Len(t)
                                    /\ v[i] = Version(node, t[i + 1])
                                    /\ v[i].key = node[t[i + 1]].key
  BY <1>1, <1>5, VersionsAre
<1>7. /\ p < Len(t) /\ node[t[p + 1]].key = key /\ Lists(node', Without(t, p))
      /\ \A i \in 1..Len(t) : i # p + 1 => Version(node', t[i]) = Version(node, t[i])
  BY <1>2 DEF RemoveDone
<1>8. p \in 1..(Len(t) - 1) /\ p \in 1..Len(v) /\ p <= Len(v)
  BY <1>6, <1>7
<1>9. v[p].key = key
  BY <1>6, <1>7, <1>8
<1> SUFFICES w = SubSeq(v, 1, p - 1) \o SubSeq(v, p + 1, Len(v))
  BY <1>3, <1>4, <1>8, <1>9 DEF Table!Remove, Table!Leads
<1> DEFINE u == Without(t, p)
<1>10. Len(u) = Len(t) - 1 /\ \A i \in 1..(Len(t) - 1) : u[i] = t[Up(i, p)]
  BY <1>6 DEF Without
<1> HIDE DEF u
<1>11. w = Versions(node', u)
  BY <1>7, FlushVersions DEF u
<1>12. /\ w \in Seq(VersionSet) /\ Len(w) = Len(u) - 1
       /\ \A i \in 1..(Len(u) - 1) : w[i] = Version(node', u[i + 1])
  BY <1>7, <1>11, VersionsAre DEF u
<1> HIDE DEF v, w
<1>13. Len(w) = Len(v) - 1 /\ Len(u) - 1 = Len(v) - 1
  BY <1>6, <1>10, <1>12
<1>14. ASSUME NEW i \in 1..(Len(v) - 1)
       PROVE  w[i] = IF i < p THEN v[i] ELSE v[i + 1]
  <2>1. i + 1 \in 1..(Len(t) - 1) /\ w[i] = Version(node', u[i + 1]) /\ i \in 1..(Len(t) - 1)
    BY <1>6, <1>12, <1>13
  <2>2. CASE i < p
    <3>1. Up(i + 1, p) = i + 1 /\ i + 1 # p + 1 /\ i + 1 \in 1..Len(t)
      BY <1>6, <2>2 DEF Up
    <3> QED
      BY <1>6, <1>7, <1>10, <2>1, <2>2, <3>1
  <2>3. CASE ~ (i < p)
    <3>1. Up(i + 1, p) = (i + 1) + 1 /\ (i + 1) + 1 # p + 1 /\ (i + 1) + 1 \in 1..Len(t)
      BY <1>6, <2>3 DEF Up
    <3> QED
      BY <1>6, <1>7, <1>10, <2>1, <2>3, <3>1
  <2> QED
    BY <2>2, <2>3
<1> QED
  BY <1>6, <1>8, <1>12, <1>13, <1>14, OneLess

\* Every call is a call of the abstract table.
LEMMA RefinesStep == Inv /\ [Next]_vars => [Table!Next]_<<flush, call>>
<1> SUFFICES ASSUME Inv, [Next]_vars
             PROVE  [Table!Next]_<<flush, call>>
  OBVIOUS
<1>1. ASSUME NEW key \in Keys, NEW value \in Values, NEW tranc_id \in TrancIds,
             NEW new_level \in Levels, Put(key, value, tranc_id, new_level)
      PROVE  Table!Next
  BY <1>1, RefinesPut DEF Table!Next
<1>2. ASSUME NEW key \in Keys, Remove(key)
      PROVE  Table!Next
  BY <1>2, RefinesRemove DEF Table!Next
<1>3. CASE Clear
  <2>1. Lists(node', <<head>>) /\ call' = <<"clear">>
    BY <1>3, EmptyLists DEF Clear
  <2>2. flush' \in Seq(VersionSet) /\ Len(flush') = 0
    <3>1. Len(<<head>>) = 1
      OBVIOUS
    <3> QED
      BY <2>1, <3>1, FlushVersions, VersionsAre
  <2>3. flush' = << >>
    BY <2>2
  <2> QED
    BY <2>1, <2>3 DEF Table!Next, Table!Clear
<1>4. CASE UNCHANGED vars
  <2>1. node' = node /\ call' = call
    BY <1>4 DEF vars
  <2>2. flush' = flush
    BY <2>1, ScanIs
  <2> QED
    BY <2>1, <2>2
<1> QED
  BY <1>1, <1>2, <1>3, <1>4 DEF Next

\* The pointers and towers of the skip list implement a sorted table of versions:
\* what flush() returns is changed by put, remove and clear exactly as the abstract
\* table is.
THEOREM SkipListImplementsTable == Spec => ImplementsVersionTable
<1>1. Init => Inv /\ Table!Init
  BY InvInit, RefinesInit
<1>2. Inv /\ [Next]_vars => Inv' /\ [Table!Next]_<<flush, call>>
  BY InvStep, RefinesStep
<1> QED
  BY <1>1, <1>2, PTL DEF Spec, ImplementsVersionTable, Table!Spec
=============================================================================
