--------------------------- MODULE ReadPathProofs ---------------------------
(***************************************************************************)
(* Proofs about the scans of ReadPath, for every finite set of keys, ids   *)
(* and tables, every number of sources, blocks and SSTs, every content and *)
(* every snapshot.                                                         *)
(***************************************************************************)
EXTENDS ReadPath, TLAPS, FiniteSetTheorems, FunctionTheorems, SequenceTheorems,
        WellFoundedInduction

-----------------------------------------------------------------------------
\* Sorting by counting what comes before.

\* R is a strict order of S.
Orders(R, S) ==
  /\ \A x \in S : <<x, x>> \notin R
  /\ \A x, y, z \in S : <<x, y>> \in R /\ <<y, z>> \in R => <<x, z>> \in R
  /\ \A x, y \in S : x = y \/ <<x, y>> \in R \/ <<y, x>> \in R

\* s lists the elements of S in the order R.
Enumerates(s, S, R) ==
  /\ s \in Seq(S) /\ Len(s) \in Nat /\ DOMAIN s = 1..Len(s)
  /\ \A x \in S : \E i \in DOMAIN s : s[i] = x
  /\ \A i, j \in DOMAIN s : i < j => <<s[i], s[j]>> \in R

\* Place i is taken by an element with i - 1 elements before it, if there is one.
Ranked(s, S, R) ==
  /\ s = [i \in 1..Cardinality(S) |-> s[i]]
  /\ \A i \in 1..Cardinality(S), x \in S :
       Cardinality({y \in S : <<y, x>> \in R}) = i - 1 =>
         s[i] \in S /\ Cardinality({y \in S : <<y, s[i]>> \in R}) = i - 1

\* rank numbers the elements of S in the order R, by the count of what comes before.
Ranks(rank, S, R) ==
  /\ rank \in [S -> 1..Cardinality(S)]
  /\ \A x \in S : /\ rank[x] \in Nat /\ Cardinality({y \in S : <<y, x>> \in R}) \in Nat
                  /\ Cardinality({y \in S : <<y, x>> \in R}) + 1 = rank[x]
  /\ \A x, y \in S : rank[x] = rank[y] => x = y
  /\ \A x, y \in S : rank[x] < rank[y] => <<x, y>> \in R
  /\ \A i \in 1..Cardinality(S) : \E x \in S : rank[x] = i

\* The elements of a finite set have such numbers, and every number is taken.
LEMMA RanksExist ==
  ASSUME NEW S, IsFiniteSet(S), NEW R, Orders(R, S)
  PROVE  \E rank : Ranks(rank, S, R)
<1> DEFINE c == Cardinality(S)
           Below(x) == {y \in S : <<y, x>> \in R}
           rank == [x \in S |-> Cardinality(Below(x)) + 1]
<1>1. c \in Nat
  BY FS_CardinalityType
<1>2. \A x \in S : IsFiniteSet(Below(x)) /\ Cardinality(Below(x)) \in Nat
  BY FS_Subset, FS_CardinalityType
<1>3. ASSUME NEW x \in S, NEW T \in SUBSET S, Below(x) \subseteq T, x \in T
      PROVE  Cardinality(Below(x)) < Cardinality(T)
  <2>1. IsFiniteSet(T) /\ Cardinality(T) \in Nat
    BY FS_Subset, FS_CardinalityType
  <2>2. Below(x) \in SUBSET T /\ Below(x) # T
    BY <1>3 DEF Orders
  <2>3. Cardinality(Below(x)) <= Cardinality(T) /\ Cardinality(T) # Cardinality(Below(x))
    BY <2>1, <2>2, FS_Subset
  <2> HIDE DEF Below
  <2> QED
    BY <1>2, <2>1, <2>3
<1>4. rank \in [S -> 1..c]
  <2> SUFFICES ASSUME NEW x \in S
               PROVE  Cardinality(Below(x)) + 1 \in 1..c
    OBVIOUS
  <2>1. Cardinality(Below(x)) < c
    BY <1>3
  <2> QED
    BY <1>1, <1>2, <2>1
<1>5. \A x, y \in S : <<x, y>> \in R => rank[x] < rank[y]
  <2> SUFFICES ASSUME NEW x \in S, NEW y \in S, <<x, y>> \in R
               PROVE  Cardinality(Below(x)) + 1 < Cardinality(Below(y)) + 1
    OBVIOUS
  <2>1. x \in Below(y) /\ Below(y) \in SUBSET S
    OBVIOUS
  <2>2. Below(x) \subseteq Below(y)
    BY DEF Orders
  <2>3. Cardinality(Below(x)) < Cardinality(Below(y))
    BY <1>3, <2>1, <2>2
  <2> HIDE DEF Below
  <2> QED
    BY <1>2, <2>3
<1> HIDE DEF Below
<1>6. \A x \in S : /\ rank[x] \in Nat /\ Cardinality(Below(x)) + 1 = rank[x]
                   /\ Cardinality(Below(x)) \in Nat
  BY <1>2
<1> HIDE DEF rank
<1>7. \A x, y \in S : /\ rank[x] = rank[y] => x = y
                      /\ rank[x] < rank[y] => <<x, y>> \in R
  <2> SUFFICES ASSUME NEW x \in S, NEW y \in S
               PROVE  /\ rank[x] = rank[y] => x = y
                      /\ rank[x] < rank[y] => <<x, y>> \in R
    OBVIOUS
  <2>1. x = y \/ <<x, y>> \in R \/ <<y, x>> \in R
    BY DEF Orders
  <2>2. rank[x] \in Nat /\ rank[y] \in Nat
    BY <1>6
  <2> QED
    BY <1>5, <2>1, <2>2
<1> HIDE DEF c
<1>8. \A i \in 1..c : \E x \in S : rank[x] = i
  <2>1. rank \in Injection(S, 1..c)
    BY <1>4, <1>7 DEF Injection, IsInjective
  <2>2. IsFiniteSet(1..c) /\ Cardinality(1..c) = c
    BY <1>1, FS_Interval
  <2>3. rank \in Surjection(S, 1..c)
    BY <2>1, <2>2, FS_Injection DEF c
  <2> QED
    BY <2>3 DEF Surjection
<1>9. Ranks(rank, S, R)
  BY <1>4, <1>6, <1>7, <1>8 DEF Ranks, c, Below
<1> QED
  BY <1>9

\* A sequence whose i-th element has i - 1 elements before it lists the elements of
\* the set in order.
LEMMA RankEnumerates ==
  ASSUME NEW S, IsFiniteSet(S), NEW R, Orders(R, S), NEW s,
         Ranked(s, S, R)
  PROVE  Enumerates(s, S, R)
<1> DEFINE c == Cardinality(S)
           Below(x) == {y \in S : <<y, x>> \in R}
<1>1. c \in Nat
  BY FS_CardinalityType
<1>2. PICK rank : Ranks(rank, S, R)
  BY RanksExist
<1>3. rank \in [S -> 1..c]
  BY <1>2 DEF Ranks
<1>4. \A x \in S : /\ rank[x] \in Nat /\ Cardinality(Below(x)) + 1 = rank[x]
                   /\ Cardinality(Below(x)) \in Nat
  BY <1>2 DEF Ranks
<1>5. \A x, y \in S : /\ rank[x] = rank[y] => x = y
                      /\ rank[x] < rank[y] => <<x, y>> \in R
  BY <1>2 DEF Ranks
<1>6. \A i \in 1..c : \E x \in S : rank[x] = i
  BY <1>2 DEF Ranks
<1> HIDE DEF c, Below
<1>7. /\ DOMAIN s = 1..c
      /\ \A i \in 1..c, x \in S :
           Cardinality(Below(x)) = i - 1 => s[i] \in S /\ Cardinality(Below(s[i])) = i - 1
  BY Zenon DEF Ranked, c, Below
<1>8. \A i \in 1..c : s[i] \in S /\ rank[s[i]] = i
  <2> SUFFICES ASSUME NEW i \in 1..c
               PROVE  s[i] \in S /\ rank[s[i]] = i
    OBVIOUS
  <2>1. PICK x \in S : rank[x] = i
    BY <1>6
  <2>2. Cardinality(Below(x)) = i - 1
    BY <1>4, <2>1
  <2>3. s[i] \in S /\ Cardinality(Below(s[i])) = i - 1
    BY <1>7, <2>2
  <2>4. Cardinality(Below(s[i])) + 1 = rank[s[i]]
    BY <1>4, <2>3
  <2>5. i \in Int
    BY <1>1
  <2> QED
    BY <2>3, <2>4, <2>5
<1>9. s \in Seq(S) /\ Len(s) = c
  <2>1. s = [i \in 1..c |-> s[i]]
    BY DEF Ranked, c
  <2> QED
    BY <1>1, <1>8, <2>1
<1>10. \A x \in S : \E i \in 1..c : s[i] = x
  <2> SUFFICES ASSUME NEW x \in S
               PROVE  \E i \in 1..c : s[i] = x
    OBVIOUS
  <2>1. rank[x] \in 1..c
    BY <1>3
  <2>2. s[rank[x]] \in S /\ rank[s[rank[x]]] = rank[x]
    BY <1>8, <2>1
  <2> QED
    BY <1>5, <2>1, <2>2
<1>11. \A i, j \in 1..c : i < j => <<s[i], s[j]>> \in R
  <2> SUFFICES ASSUME NEW i \in 1..c, NEW j \in 1..c, i < j
               PROVE  <<s[i], s[j]>> \in R
    OBVIOUS
  <2>1. s[i] \in S /\ s[j] \in S /\ rank[s[i]] < rank[s[j]]
    BY <1>8
  <2> QED
    BY <1>5, <2>1
<1> QED
  BY <1>1, <1>7, <1>9, <1>10, <1>11 DEF Enumerates

-----------------------------------------------------------------------------
\* Level_Iterator.

\* s ascends by key and holds elements of S.
Ascends(s, S) ==
  /\ s \in Seq(S)
  /\ \A i, j \in DOMAIN s : i < j => s[i].key < s[j].key

\* A nonempty set of numbers has a least one.
LEMMA LeastExists ==
  ASSUME NEW S \in SUBSET Nat, S # {}
  PROVE  \E x \in S : \A y \in S : x <= y
<1>1. PICK x \in S : \A y \in S : ~ (<<y, x>> \in OpToRel(<, Nat))
  BY NatLessThanWellFounded, WFMin
<1>2. \A y \in S : ~ (y < x)
  BY <1>1 DEF OpToRel
<1> QED
  BY <1>2

\* The instance counts as everybody else.
LEMMA LevelCardinality == \A S : Level!Cardinality(S) = Cardinality(S)
BY DEF Level!Cardinality, Cardinality

\* What a version is.
LEMMA VersionIs ==
  ASSUME NEW l, NEW x \in Level!Versions(l)
  PROVE  /\ x.key \in ScanKeys /\ x.id \in Ids /\ x.key \in Nat \ {0} /\ x.id \in Nat
         /\ stored[x.key][x.id] # << >> /\ stored[x.key][x.id][1] = l
         /\ x = [key |-> x.key, id |-> x.id, value |-> stored[x.key][x.id][2]]
<1>1. PICK k \in ScanKeys, t \in Ids :
        /\ stored[k][t] # << >> /\ stored[k][t][1] = l
        /\ x = [key |-> k, id |-> t, value |-> stored[k][t][2]]
  BY DEF Level!Versions
<1>2. k \in Nat \ {0} /\ t \in Nat
  BY ScanAssumption
<1> QED
  BY <1>1, <1>2

\* What a source may deliver.
Entries(l) == Level!Scanned(l) \cup {Level!Marker}

\* An entry is a version or the marker.
LEMMA EntryIs ==
  ASSUME NEW l, NEW x \in Entries(l)
  PROVE  /\ x.key \in Nat
         /\ x.key = 0 => x.value = Deleted /\ x = Level!Marker
         /\ x.key # 0 => x \in Level!Scanned(l) /\ x \in Level!Versions(l) \ lost
<1>1. CASE x \in Level!Scanned(l)
  <2>1. x \in Level!Versions(l) \ lost
    BY <1>1 DEF Level!Scanned, Level!Newest
  <2> QED
    BY <1>1, <2>1, VersionIs
<1>2. CASE x = Level!Marker
  BY <1>2 DEF Level!Marker, Level!MarkerKey
<1> QED
  BY <1>1, <1>2 DEF Entries

\* A source delivers a key once.
LEMMA EntryIsOne ==
  ASSUME NEW l, NEW x \in Entries(l), NEW y \in Entries(l), x.key = y.key
  PROVE  x = y
<1>1. CASE x.key = 0
  <2>1. x = Level!Marker
    BY <1>1, EntryIs
  <2>2. y = Level!Marker
    BY <1>1, EntryIs
  <2> QED
    BY <2>1, <2>2
<1>2. CASE x.key # 0
  <2>1. /\ x \in Level!Scanned(l) /\ x \in Level!Versions(l)
        /\ y \in Level!Scanned(l) /\ y \in Level!Versions(l)
    BY <1>2, EntryIs
  <2>2. x.id <= y.id /\ y.id <= x.id
    BY <2>1 DEF Level!Scanned, Level!Newest
  <2>3. x.id = y.id
    BY <2>1, <2>2, VersionIs
  <2>4. /\ x = [key |-> x.key, id |-> x.id, value |-> stored[x.key][x.id][2]]
        /\ y = [key |-> y.key, id |-> y.id, value |-> stored[y.key][y.id][2]]
    BY <2>1, VersionIs
  <2> QED
    BY <2>3, <2>4
<1> QED
  BY <1>1, <1>2

\* Above the level of the newest visible version there is no visible one.
LEMMA NothingAbove ==
  ASSUME stored \in [ScanKeys -> Level!Histories],
         NEW i \in Level!Sources, NEW y \in Level!Scanned(i),
         NEW j \in Level!Sources, NEW x \in Level!Versions(j), x \in Level!Live \ lost,
         x.key = y.key, i <= j
  PROVE  y = x
<1> DEFINE k == x.key
<1>1. i \in Int /\ j \in Int
  BY DEF Level!Sources
<1>2. /\ y \in Level!Versions(i) /\ Level!Visible(y) /\ Level!Visible(x)
      /\ \A z \in Level!Versions(i) \ lost : z.key = y.key /\ Level!Visible(z) => z.id <= y.id
      /\ \A l \in Level!Sources : \A z \in Level!Versions(l) :
           z.key = x.key /\ Level!Visible(z) => z.id <= x.id
  BY DEF Level!Live, Level!Newest, Level!Scanned
<1>3. /\ k \in ScanKeys /\ x.id \in Ids /\ x.id \in Nat
      /\ stored[k][x.id] # << >> /\ stored[k][x.id][1] = j
      /\ x = [key |-> k, id |-> x.id, value |-> stored[k][x.id][2]]
  BY VersionIs
<1>4. /\ y.id \in Ids /\ y.id \in Nat
      /\ stored[k][y.id] # << >> /\ stored[k][y.id][1] = i
      /\ y = [key |-> k, id |-> y.id, value |-> stored[k][y.id][2]]
  BY <1>2, VersionIs
<1>5. y.id <= x.id
  BY <1>2
<1>6. stored[k] \in Level!Histories
  BY <1>3
<1>7. y.id < x.id => j <= i
  BY <1>3, <1>4, <1>6 DEF Level!Histories
<1>8. i = j => x.id <= y.id
  BY <1>2
<1>9. x.id = y.id
  BY <1>1, <1>3, <1>4, <1>5, <1>7, <1>8
<1> QED
  BY <1>3, <1>4, <1>9

\* A level holds finitely many versions.
LEMMA VersionsFinite ==
  ASSUME NEW l
  PROVE  IsFiniteSet(Level!Versions(l))
<1> DEFINE P == {q \in ScanKeys \X Ids :
                   stored[q[1]][q[2]] # << >> /\ stored[q[1]][q[2]][1] = l}
           f == [p \in P |-> [key |-> p[1], id |-> p[2], value |-> stored[p[1]][p[2]][2]]]
<1>1. IsFiniteSet(ScanKeys) /\ IsFiniteSet(Ids)
  BY FiniteAssumption, FS_Subset
<1>2. IsFiniteSet(ScanKeys \X Ids)
  BY <1>1, FS_Product
<1>3. IsFiniteSet(P)
  BY <1>2, FS_Subset
<1>4. Level!Versions(l) = {f[p] : p \in P}
  BY DEF Level!Versions
<1> HIDE DEF P
<1>5. f \in Surjection(P, Level!Versions(l))
  BY <1>4 DEF Surjection
<1> QED
  BY <1>3, <1>5, FS_Surjection

\* InKeyOrder sorts entries with different keys.
LEMMA InKeyOrderSorts ==
  ASSUME NEW S, IsFiniteSet(S), \A x \in S : x.key \in Nat,
         \A x, y \in S : x.key = y.key => x = y
  PROVE  /\ Ascends(Level!InKeyOrder(S), S)
         /\ \A x \in S : \E i \in DOMAIN Level!InKeyOrder(S) : Level!InKeyOrder(S)[i] = x
<1> DEFINE R == {p \in S \X S : p[1].key < p[2].key}
           s == Level!InKeyOrder(S)
           Below(x) == {y \in S : y.key < x.key}
<1>1. Orders(R, S)
  BY DEF Orders
<1>2. s = [i \in 1..Cardinality(S) |-> CHOOSE x \in S : Level!Cardinality(Below(x)) = i - 1]
  BY LevelCardinality DEF Level!InKeyOrder
<1>3. \A x \in S : {y \in S : <<y, x>> \in R} = Below(x)
  OBVIOUS
<1>4. \A x \in S : Level!Cardinality(Below(x)) = Cardinality({y \in S : <<y, x>> \in R})
  BY <1>3, LevelCardinality
<1> HIDE DEF Below, s
<1>5. ASSUME NEW i \in 1..Cardinality(S), NEW x \in S,
             Cardinality({y \in S : <<y, x>> \in R}) = i - 1
      PROVE  s[i] \in S /\ Cardinality({y \in S : <<y, s[i]>> \in R}) = i - 1
  <2>1. Level!Cardinality(Below(x)) = i - 1
    BY <1>4, <1>5
  <2>2. s[i] = CHOOSE z \in S : Level!Cardinality(Below(z)) = i - 1
    BY <1>2
  <2>3. s[i] \in S /\ Level!Cardinality(Below(s[i])) = i - 1
    BY <2>1, <2>2, Zenon
  <2> QED
    BY <1>4, <2>3
<1>6. s = [i \in 1..Cardinality(S) |-> s[i]]
  BY <1>2
<1>7. Ranked(s, S, R)
  BY <1>5, <1>6 DEF Ranked
<1> HIDE DEF R
<1>8. Enumerates(s, S, R)
  BY <1>1, <1>7, RankEnumerates
<1>9. \A i, j \in DOMAIN s : i < j => s[i].key < s[j].key
  BY <1>8 DEF Enumerates, R
<1> QED
  BY <1>8, <1>9 DEF Enumerates, Ascends, s

\* What source l still has to deliver.
Remains(s, l) == Ascends(s, Entries(l))

\* A source that stands on the marker.
OnMarker(l) == iter_vec[l] # << >> /\ iter_vec[l][1].key = 0

\* The live versions that the scans of the SSTs reach.
Reached == Level!Live \ lost

\* Behind what has been delivered, and x is delivered or still to come.
LevelInv ==
  /\ stored \in [ScanKeys -> Level!Histories]
  /\ DOMAIN iter_vec = Level!Sources
  /\ \A l \in Level!Sources : Remains(iter_vec[l], l)
  /\ \A i, j \in Level!Sources : i < j /\ OnMarker(i) /\ iter_vec[j] # << >> => OnMarker(j)
  /\ Ascends(output, UNION {Level!Versions(l) : l \in Level!Sources})
  /\ \/ /\ cached_value = << >>
        /\ \A l \in Level!Sources : \A i \in DOMAIN iter_vec[l], j \in DOMAIN output :
             output[j].key < iter_vec[l][i].key
     \/ /\ output # << >> /\ cached_value = <<output[Len(output)]>>
        /\ \A l \in Level!Sources : \A i \in DOMAIN iter_vec[l], j \in DOMAIN output :
             output[j].key <= iter_vec[l][i].key
        /\ \A x \in Reached : x.key = output[Len(output)].key => x = output[Len(output)]
  /\ \A x \in Reached :
       \/ \E j \in DOMAIN output : output[j] = x
       \/ \E l \in Level!Sources :
            x \in Level!Versions(l) /\ \E i \in DOMAIN iter_vec[l] : iter_vec[l][i] = x

\* If the markers are last the constructor begins with the invariant.
LEMMA LevelInit ==
  ASSUME Level!MarkersLast, Level!Init
  PROVE  LevelInv
<1>1. /\ stored \in [ScanKeys -> Level!Histories] /\ marked \in SUBSET (3..Levels)
      /\ iter_vec = [l \in Level!Sources |-> Level!SourceOf(l)]
      /\ cached_value = << >> /\ output = << >>
  BY DEF Level!Init
<1> DEFINE S(l) == IF l <= 2 THEN {x \in Level!Scanned(l) : x.value # Deleted}
                   ELSE Level!Scanned(l) \cup (IF l \in marked THEN {Level!Marker} ELSE {})
<1>2. \A l \in Level!Sources : Level!SourceOf(l) = Level!InKeyOrder(S(l))
  BY DEF Level!SourceOf
<1>3. \A l \in Level!Sources : S(l) \subseteq Entries(l)
  BY DEF Entries
<1>4. \A l \in Level!Sources :
        /\ \A x \in Level!Scanned(l) : x.value # Deleted => x \in S(l)
        /\ l \in marked => Level!Marker \in S(l)
        /\ l \notin marked => S(l) \subseteq Level!Scanned(l)
  <2>1. \A l \in marked : l \in 3..Levels
    BY <1>1
  <2>2. \A l \in marked : ~ (l <= 2)
    BY <2>1
  <2> QED
    BY <2>2
<1>5. \A l \in Level!Sources : IsFiniteSet(S(l))
  <2> SUFFICES ASSUME NEW l \in Level!Sources
               PROVE  IsFiniteSet(S(l))
    OBVIOUS
  <2>1. IsFiniteSet(Level!Versions(l) \cup {Level!Marker})
    BY VersionsFinite, FS_AddElement
  <2>2. S(l) \subseteq Level!Versions(l) \cup {Level!Marker}
    BY DEF Level!Scanned, Level!Newest
  <2> HIDE DEF S
  <2> QED
    BY <2>1, <2>2, FS_Subset
<1> HIDE DEF S
<1>6. ASSUME NEW l \in Level!Sources
      PROVE  /\ Ascends(iter_vec[l], S(l)) /\ Remains(iter_vec[l], l)
             /\ \A x \in S(l) : \E i \in DOMAIN iter_vec[l] : iter_vec[l][i] = x
  <2>1. IsFiniteSet(S(l))
    BY <1>5
  <2>2. \A x \in S(l) : x.key \in Nat
    BY <1>3, EntryIs
  <2>3. \A x, y \in S(l) : x.key = y.key => x = y
    BY <1>3, EntryIsOne
  <2>4. /\ Ascends(Level!InKeyOrder(S(l)), S(l))
        /\ \A x \in S(l) : \E i \in DOMAIN Level!InKeyOrder(S(l)) : Level!InKeyOrder(S(l))[i] = x
    BY <2>1, <2>2, <2>3, InKeyOrderSorts
  <2>5. iter_vec[l] = Level!InKeyOrder(S(l))
    BY <1>1, <1>2
  <2>6. Ascends(iter_vec[l], S(l))
    BY <2>4, <2>5
  <2>7. Remains(iter_vec[l], l)
    BY <1>3, <2>6 DEF Remains, Ascends
  <2> QED
    BY <2>4, <2>5, <2>6, <2>7
<1>7. ASSUME NEW i \in Level!Sources, NEW j \in Level!Sources, i < j, OnMarker(i),
             iter_vec[j] # << >>
      PROVE  OnMarker(j)
  <2>1. iter_vec[i] \in Seq(S(i)) /\ iter_vec[j] \in Seq(S(j))
    BY <1>6 DEF Ascends
  <2>2. 1 \in DOMAIN iter_vec[i] /\ 1 \in DOMAIN iter_vec[j]
    BY <1>7, <2>1 DEF OnMarker
  <2>3. iter_vec[i][1] \in S(i) /\ iter_vec[i][1].key = 0 /\ iter_vec[j][1] \in S(j)
    BY <1>7, <2>1, <2>2 DEF OnMarker
  <2>4. i \in marked
    <3>1. \A x \in Level!Scanned(i) : x.key # 0
      BY VersionIs DEF Level!Scanned, Level!Newest
    <3> QED
      BY <1>4, <2>3, <3>1
  <2>5. j \in marked
    <3> SUFFICES ASSUME j \notin marked
                 PROVE  FALSE
      OBVIOUS
    <3>1. Level!Versions(j) = {}
      BY <1>7, <2>4 DEF Level!MarkersLast
    <3>2. iter_vec[j][1] \in Level!Versions(j)
      BY <1>4, <2>3 DEF Level!Scanned, Level!Newest
    <3> QED
      BY <3>1, <3>2
  <2>6. PICK q \in DOMAIN iter_vec[j] : iter_vec[j][q] = Level!Marker
    BY <1>4, <1>6, <2>5
  <2>7. iter_vec[j][q].key = 0 /\ iter_vec[j][1].key \in Nat
    BY <1>3, <2>3, <2>6, EntryIs DEF Level!Marker, Level!MarkerKey
  <2>8. q = 1 \/ 1 < q
    BY <2>1, <2>6
  <2>9. 1 < q => iter_vec[j][1].key < iter_vec[j][q].key
    BY <1>6, <2>2 DEF Ascends
  <2> QED
    BY <1>7, <2>7, <2>8, <2>9 DEF OnMarker
<1>8. ASSUME NEW x \in Reached
      PROVE  \E l \in Level!Sources :
               x \in Level!Versions(l) /\ \E i \in DOMAIN iter_vec[l] : iter_vec[l][i] = x
  <2>1. PICK l \in Level!Sources : x \in Level!Versions(l) /\ x \in Level!Scanned(l)
    BY DEF Reached, Level!Live, Level!Newest, Level!Scanned
  <2>2. x \in S(l)
    BY <1>4, <2>1 DEF Reached, Level!Live
  <2> QED
    BY <1>6, <2>1, <2>2
<1>9. DOMAIN output = {} /\ Ascends(output, UNION {Level!Versions(l) : l \in Level!Sources})
  BY <1>1 DEF Ascends
<1> QED
  BY <1>1, <1>6, <1>7, <1>8, <1>9 DEF LevelInv

\* t is s past its first entry if that has the key k.
Past(t, s, k) == t = IF s # << >> /\ s[1].key = k THEN Tail(s) ELSE s

Numbered(S) == \A x \in S : x.key \in Nat

\* A source moved past a key that is not above its own.
LEMMA SkipsKey ==
  ASSUME NEW S, Numbered(S), NEW s, Ascends(s, S), NEW k \in Nat,
         \A i \in DOMAIN s : k <= s[i].key, NEW t, Past(t, s, k)
  PROVE  /\ Ascends(t, S)
         /\ \A i \in DOMAIN t : k < t[i].key
         /\ \A i \in DOMAIN s : s[i].key = k \/ \E j \in DOMAIN t : t[j] = s[i]
<1> DEFINE n == Len(s)
<1>1. s \in Seq(S) /\ n \in Nat /\ DOMAIN s = 1..n /\ \A i \in 1..n : s[i].key \in Nat
  BY DEF Ascends, Numbered
<1>2. \A i, j \in 1..n : i < j => s[i].key < s[j].key
  BY <1>1 DEF Ascends
<1> HIDE DEF n
<1>3. CASE s # << >> /\ s[1].key = k
  <2>1. t = Tail(s)
    BY <1>3 DEF Past
  <2>2. n > 0
    BY <1>1, <1>3 DEF n
  <2>3. t \in Seq(S) /\ Len(t) = n - 1 /\ \A i \in 1..(n - 1) : t[i] = s[i + 1]
    BY <1>1, <1>3, <2>1 DEF n
  <2>4. DOMAIN t = 1..(n - 1)
    BY <1>1, <2>2, <2>3
  <2>5. \A i \in 1..(n - 1) : i + 1 \in 1..n /\ 1 \in 1..n /\ 1 < i + 1
    BY <1>1, <2>2
  <2>6. \A i \in 1..(n - 1) : k < t[i].key
    BY <1>2, <1>3, <2>3, <2>5
  <2>7. \A i, j \in 1..(n - 1) : i < j => t[i].key < t[j].key
    <3> SUFFICES ASSUME NEW i \in 1..(n - 1), NEW j \in 1..(n - 1), i < j
                 PROVE  t[i].key < t[j].key
      OBVIOUS
    <3>1. i + 1 \in 1..n /\ j + 1 \in 1..n /\ i + 1 < j + 1
      BY <1>1
    <3> QED
      BY <1>2, <2>3, <3>1
  <2>8. ASSUME NEW i \in 1..n, s[i].key # k
        PROVE  \E j \in 1..(n - 1) : t[j] = s[i]
    <3>1. i # 1 /\ i - 1 \in 1..(n - 1) /\ (i - 1) + 1 = i
      BY <1>1, <1>3, <2>8
    <3> QED
      BY <2>3, <3>1
  <2> QED
    BY <1>1, <2>3, <2>4, <2>6, <2>7, <2>8 DEF Ascends
<1>4. CASE ~ (s # << >> /\ s[1].key = k)
  <2>1. t = s
    BY <1>4 DEF Past
  <2>2. ASSUME NEW i \in 1..n
        PROVE  k < s[i].key
    <3>1. s # << >> /\ 1 \in 1..n /\ (i = 1 \/ 1 < i)
      BY <1>1, <2>2
    <3>2. s[1].key # k /\ k <= s[1].key /\ s[1].key \in Nat /\ s[i].key \in Nat
      BY <1>1, <1>4, <3>1
    <3>3. i = 1 \/ s[1].key < s[i].key
      BY <1>2, <3>1
    <3> QED
      BY <3>2, <3>3
  <2> QED
    BY <1>1, <2>1, <2>2
<1> QED
  BY <1>3, <1>4

\* get_min_key_idx finds the smallest key: the first source that has it, or of the
\* markers the last one.
LEMMA MinKeyFound ==
  ASSUME DOMAIN iter_vec = Level!Sources, \A l \in Level!Sources : Remains(iter_vec[l], l),
         \A i, j \in Level!Sources : i < j /\ OnMarker(i) /\ iter_vec[j] # << >> => OnMarker(j),
         ~ Level!is_end, NEW m, m = Level!get_min_key_idx
  PROVE  /\ m \in Level!Sources /\ iter_vec[m] # << >>
         /\ iter_vec[m][1] \in Entries(m)
         /\ \A l \in Level!Sources : \A i \in DOMAIN iter_vec[l] :
              /\ iter_vec[m][1].key <= iter_vec[l][i].key
              /\ iter_vec[m][1].key # 0 /\ iter_vec[m][1].key = iter_vec[l][i].key => m <= l
<1> DEFINE V == Level!Valid
           key == [l \in V |-> iter_vec[l][1].key]
<1>1. Level!Sources \subseteq Nat
  BY DEF Level!Sources
<1>2. V \subseteq Level!Sources /\ V # {} /\ V \subseteq Nat
  BY <1>1 DEF Level!Valid, Level!is_end
<1>3. ASSUME NEW l \in Level!Sources, NEW i \in DOMAIN iter_vec[l]
      PROVE  /\ l \in V /\ iter_vec[l][1] \in Entries(l)
             /\ iter_vec[l][1].key \in Nat /\ iter_vec[l][i].key \in Nat
             /\ iter_vec[l][1].key <= iter_vec[l][i].key
  <2> DEFINE s == iter_vec[l]
  <2>1. /\ s \in Seq(Entries(l))
        /\ \A p, q \in DOMAIN s : p < q => s[p].key < s[q].key
    BY DEF Remains, Ascends
  <2> HIDE DEF s
  <2>2. i \in DOMAIN s
    BY DEF s
  <2>3. s # << >> /\ 1 \in DOMAIN s /\ (i = 1 \/ 1 < i)
    BY <2>1, <2>2
  <2>4. s[1] \in Entries(l) /\ s[i] \in Entries(l)
    BY <2>1, <2>2, <2>3
  <2>5. s[1].key \in Nat /\ s[i].key \in Nat
    BY <2>4, EntryIs
  <2>6. s[1].key <= s[i].key
    BY <2>1, <2>2, <2>3, <2>5
  <2> QED
    BY <2>3, <2>4, <2>5, <2>6 DEF s, Level!Valid
<1>4. ASSUME NEW l \in V
      PROVE  /\ 1 \in DOMAIN iter_vec[l] /\ iter_vec[l] # << >>
             /\ key[l] = iter_vec[l][1].key
  <2>1. l \in Level!Sources /\ iter_vec[l] # << >>
    BY DEF Level!Valid
  <2>2. iter_vec[l] \in Seq(Entries(l))
    BY <2>1 DEF Remains, Ascends
  <2> QED
    BY <2>1, <2>2
<1> HIDE DEF V, key
<1>5. \A l \in V : key[l] \in Nat
  BY <1>2, <1>3, <1>4
<1>6. CASE \E a \in V : key[a] = 0
  <2>1. PICK a \in V : key[a] = 0
    BY <1>6
  <2>2. \A l \in V : a <= l => key[l] = 0
    <3> SUFFICES ASSUME NEW l \in V, a < l
                 PROVE  key[l] = 0
      BY <1>2, <2>1
    <3>1. OnMarker(a) /\ iter_vec[l] # << >>
      BY <1>4, <2>1 DEF OnMarker
    <3>2. OnMarker(l)
      BY <1>2, <3>1
    <3> QED
      BY <1>4, <3>2 DEF OnMarker
  <2>3. Level!Compared = {}
    <3> SUFFICES ASSUME NEW l \in Level!Compared
                 PROVE  FALSE
      OBVIOUS
    <3>1. l \in V /\ \A j \in V : l <= j => key[j] # 0
      BY <1>4 DEF Level!Compared, V, Level!MarkerKey
    <3>2. key[l] # 0 /\ ~ (l <= a)
      BY <1>2, <2>1, <3>1
    <3> QED
      BY <1>2, <2>1, <2>2, <3>1, <3>2
  <2>4. \E b \in V : \A j \in V : j <= b
    <3>1. \A l \in V : l \in 1..Levels
      BY <1>2 DEF Level!Sources
    <3>2. Levels \in Nat
      BY ScanAssumption
    <3> DEFINE D == {Levels - l : l \in V}
    <3>3. D \in SUBSET Nat /\ D # {}
      BY <1>2, <3>1, <3>2
    <3> HIDE DEF D
    <3>4. PICK d \in D : \A q \in D : d <= q
      BY <3>3, LeastExists
    <3>5. PICK b \in V : d = Levels - b
      BY DEF D
    <3>6. \A j \in V : Levels - b <= Levels - j
      BY <3>4, <3>5 DEF D
    <3> QED
      BY <3>1, <3>2, <3>5, <3>6
  <2>5. m \in V /\ \A j \in V : j <= m
    <3>1. m = CHOOSE b \in V : \A j \in V : j <= b
      BY <2>3 DEF Level!get_min_key_idx, V
    <3> QED
      BY <2>4, <3>1, Zenon
  <2>6. iter_vec[m][1].key = 0
    BY <1>4, <2>1, <2>2, <2>5
  <2> QED
    BY <1>2, <1>3, <1>4, <2>5, <2>6
<1>7. CASE \A a \in V : key[a] # 0
  <2>6. Level!Compared = V
    BY <1>4, <1>5, <1>7 DEF Level!Compared, V, Level!MarkerKey
  <2>7. \E a \in V : \A l \in V :
          (l < a => Level!TakesOver(a, l)) /\ (l > a => ~ Level!TakesOver(l, a))
    <3> DEFINE found == {key[l] : l \in V}
    <3>1. found \in SUBSET Nat /\ found # {}
      BY <1>2, <1>5
    <3> HIDE DEF found
    <3>2. PICK k \in found : \A q \in found : k <= q
      BY <3>1, LeastExists
    <3>3. k \in found /\ \A l \in V : k <= key[l]
      BY <3>2 DEF found
    <3> DEFINE A == {l \in V : key[l] = k}
    <3>4. A \in SUBSET Nat /\ A # {}
      BY <1>2, <3>3 DEF found
    <3>5. PICK a \in A : \A l \in A : a <= l
      BY <3>4, LeastExists
    <3>6. ASSUME NEW l \in V
          PROVE  /\ l < a => key[a] < key[l]
                 /\ ~ (key[l] < key[a])
      <4>1. key[a] = k /\ key[a] <= key[l] /\ (key[l] = k => a <= l)
        BY <3>3, <3>5
      <4>2. key[l] \in Nat /\ key[a] \in Nat /\ l \in Nat /\ a \in Nat
        BY <1>2, <1>5
      <4> QED
        BY <4>1, <4>2
    <3> QED
      BY <1>4, <3>6 DEF Level!TakesOver
  <2>8. \E a \in Level!Compared : \A l \in Level!Compared :
          (l < a => Level!TakesOver(a, l)) /\ (l > a => ~ Level!TakesOver(l, a))
    BY <2>6, <2>7
  <2>9. m \in Level!Compared /\ \A l \in Level!Compared :
          (l < m => Level!TakesOver(m, l)) /\ (l > m => ~ Level!TakesOver(l, m))
    <3>1. Level!Compared # {}
      BY <1>2, <2>6
    <3>2. m = CHOOSE a \in Level!Compared : \A l \in Level!Compared :
                (l < a => Level!TakesOver(a, l)) /\ (l > a => ~ Level!TakesOver(l, a))
      BY <3>1, Zenon DEF Level!get_min_key_idx
    <3> QED
      BY <2>8, <3>2, Zenon
  <2>10. m \in V /\ \A l \in V : /\ l < m => key[m] < key[l]
                                 /\ l > m => ~ (key[l] < key[m])
    <3>1. m \in V
      BY <2>6, <2>9
    <3> SUFFICES ASSUME NEW l \in V
                 PROVE  /\ l < m => key[m] < key[l]
                        /\ l > m => ~ (key[l] < key[m])
      BY <3>1
    <3>2. l \in Level!Compared
      BY <2>6
    <3>3. (l < m => Level!TakesOver(m, l)) /\ (l > m => ~ Level!TakesOver(l, m))
      BY <2>9, <3>2
    <3> QED
      BY <1>4, <3>1, <3>3 DEF Level!TakesOver
  <2>11. ASSUME NEW l \in V
         PROVE  key[m] <= key[l] /\ (key[m] = key[l] => m <= l)
    <3>1. key[l] \in Nat /\ key[m] \in Nat /\ l \in Nat /\ m \in Nat
      BY <1>2, <1>5, <2>10
    <3> QED
      BY <2>10, <3>1
  <2>12. ASSUME NEW l \in Level!Sources, NEW i \in DOMAIN iter_vec[l]
         PROVE  /\ iter_vec[m][1].key <= iter_vec[l][i].key
                /\ iter_vec[m][1].key = iter_vec[l][i].key => m <= l
    <3>1. key[m] = iter_vec[m][1].key /\ key[m] \in Nat
      BY <1>4, <1>5, <2>10
    <3>2. /\ l \in V /\ key[l] = iter_vec[l][1].key /\ key[l] \in Nat
          /\ iter_vec[l][i].key \in Nat /\ key[l] <= iter_vec[l][i].key
      BY <1>3, <1>4, <1>5
    <3>3. key[m] <= key[l] /\ (key[m] = key[l] => m <= l)
      BY <2>11, <3>2
    <3> QED
      BY <3>1, <3>2, <3>3
  <2> QED
    BY <1>2, <1>3, <1>4, <2>10, <2>12
<1> QED
  BY <1>6, <1>7

\* A source past a key.
LEMMA SourceSkips ==
  ASSUME NEW l, NEW s, Remains(s, l), NEW k \in Nat,
         \A i \in DOMAIN s : k <= s[i].key, NEW t, Past(t, s, k)
  PROVE  /\ Remains(t, l)
         /\ \A i \in DOMAIN t : k < t[i].key
         /\ \A i \in DOMAIN s : s[i].key = k \/ \E j \in DOMAIN t : t[j] = s[i]
<1>1. Numbered(Entries(l))
  BY EntryIs DEF Numbered
<1>2. Ascends(s, Entries(l))
  BY DEF Remains
<1> QED
  BY <1>1, <1>2, SkipsKey DEF Remains

\* Past the key of the chosen entry: what remains lies behind it, and a live entry
\* with another key stays.
LEMMA SourcesSkip ==
  ASSUME NEW k \in Nat, \A l \in Level!Sources : Remains(iter_vec[l], l),
         \A l \in Level!Sources : \A i \in DOMAIN iter_vec[l] : k <= iter_vec[l][i].key,
         Level!skip_key(k)
  PROVE  /\ DOMAIN iter_vec' = Level!Sources
         /\ \A l \in Level!Sources :
              /\ Remains(iter_vec'[l], l)
              /\ \A i \in DOMAIN iter_vec'[l] : k < iter_vec'[l][i].key
              /\ \A i \in DOMAIN iter_vec[l] :
                   \/ iter_vec[l][i].key = k
                   \/ \E j \in DOMAIN iter_vec'[l] : iter_vec'[l][j] = iter_vec[l][i]
<1>1. DOMAIN iter_vec' = Level!Sources
  BY DEF Level!skip_key
<1>2. \A l \in Level!Sources : Past(iter_vec'[l], iter_vec[l], k)
  BY DEF Level!skip_key, Past
<1>3. ASSUME NEW l \in Level!Sources
      PROVE  /\ Remains(iter_vec'[l], l)
             /\ \A i \in DOMAIN iter_vec'[l] : k < iter_vec'[l][i].key
             /\ \A i \in DOMAIN iter_vec[l] :
                  \/ iter_vec[l][i].key = k
                  \/ \E j \in DOMAIN iter_vec'[l] : iter_vec'[l][j] = iter_vec[l][i]
  <2>1. Past(iter_vec'[l], iter_vec[l], k)
    BY <1>2
  <2>2. Remains(iter_vec[l], l) /\ \A i \in DOMAIN iter_vec[l] : k <= iter_vec[l][i].key
    OBVIOUS
  <2>3. /\ Remains(iter_vec'[l], l)
        /\ \A i \in DOMAIN iter_vec'[l] : k < iter_vec'[l][i].key
    BY <2>1, <2>2, SourceSkips
  <2>4. ASSUME NEW i \in DOMAIN iter_vec[l]
        PROVE  \/ iter_vec[l][i].key = k
               \/ \E j \in DOMAIN iter_vec'[l] : iter_vec'[l][j] = iter_vec[l][i]
    BY <2>1, <2>2, SourceSkips
  <2> QED
    BY <2>3, <2>4
<1> QED
  BY <1>1, <1>3

\* Past any key no source stands on a marker.
LEMMA PastMarkers ==
  ASSUME NEW k \in Nat, NEW l, Remains(iter_vec'[l], l),
         \A i \in DOMAIN iter_vec'[l] : k < iter_vec'[l][i].key
  PROVE  ~ OnMarker(l)'
<1> SUFFICES ASSUME iter_vec'[l] # << >>, iter_vec'[l][1].key = 0
             PROVE  FALSE
  BY DEF OnMarker
<1>1. iter_vec'[l] \in Seq(Entries(l))
  BY DEF Remains, Ascends
<1>2. 1 \in DOMAIN iter_vec'[l]
  BY <1>1
<1> QED
  BY <1>2

\* What the invariant says depends on the contents only through stored and the
\* snapshot.
LEMMA SameContents ==
  ASSUME UNCHANGED <<stored, max_tranc_id, lost>>
  PROVE  /\ \A l : Level!Versions(l)' = Level!Versions(l)
         /\ \A l : Entries(l)' = Entries(l)
         /\ Reached' = Reached
<1>1. \A l : Level!Versions(l)' = Level!Versions(l)
  BY DEF Level!Versions
<1>2. \A S : Level!Newest(S)' = Level!Newest(S)
  BY DEF Level!Newest, Level!Visible
<1>3. \A l : Entries(l)' = Entries(l)
  BY <1>1, <1>2 DEF Entries, Level!Scanned, Level!Marker, Level!MarkerKey
<1>4. Level!Live' = Level!Live
  BY <1>1, <1>2 DEF Level!Live, Level!Newest, Level!Visible, Level!Versions
<1> QED
  BY <1>1, <1>3, <1>4 DEF Reached

\* A live version is the chosen entry if it has its key.
LEMMA LiveIsChosen ==
  ASSUME LevelInv, NEW m \in Level!Sources, NEW e \in Entries(m),
         e.key # 0,
         \A l \in Level!Sources : \A i \in DOMAIN iter_vec[l] :
           e.key = iter_vec[l][i].key => m <= l,
         \A j \in DOMAIN output : output[j].key < e.key,
         NEW x \in Reached, x.key = e.key
  PROVE  x = e
<1>1. x \in UNION {Level!Versions(l) : l \in Level!Sources}
  BY DEF Reached, Level!Live, Level!Newest
<1>2. e.key \in Nat /\ e \in Level!Scanned(m)
  BY EntryIs
<1>3. \A j \in DOMAIN output : output[j] # x
  BY <1>2
<1>4. PICK l \in Level!Sources :
        x \in Level!Versions(l) /\ \E i \in DOMAIN iter_vec[l] : iter_vec[l][i] = x
  BY <1>3 DEF LevelInv
<1>5. m <= l
  BY <1>4
<1> QED
  BY <1>2, <1>4, <1>5, NothingAbove DEF LevelInv, Reached

\* The loop passes over a deletion.
LEMMA ChooseDeleted ==
  ASSUME LevelInv, Level!Choose, iter_vec[Level!get_min_key_idx][1].value = Deleted
  PROVE  LevelInv'
<1>1. PICK m : m = Level!get_min_key_idx
  OBVIOUS
<1>2. PICK e : e = iter_vec[m][1]
  OBVIOUS
<1>3. /\ e.value = Deleted /\ Level!skip_key(e.key) /\ ~ Level!is_end
      /\ cached_value = << >> /\ UNCHANGED <<cached_value, output, stored, max_tranc_id, lost>>
  BY <1>1, <1>2 DEF Level!Choose
<1>4. /\ DOMAIN iter_vec = Level!Sources /\ \A l \in Level!Sources : Remains(iter_vec[l], l)
      /\ \A l \in Level!Sources : \A i \in DOMAIN iter_vec[l], j \in DOMAIN output :
           output[j].key < iter_vec[l][i].key
      /\ \A i, j \in Level!Sources : i < j /\ OnMarker(i) /\ iter_vec[j] # << >> => OnMarker(j)
  BY <1>3 DEF LevelInv
<1>5. /\ m \in Level!Sources /\ iter_vec[m] # << >> /\ e \in Entries(m)
      /\ \A l \in Level!Sources : \A i \in DOMAIN iter_vec[l] :
           /\ e.key <= iter_vec[l][i].key
           /\ e.key # 0 /\ e.key = iter_vec[l][i].key => m <= l
  BY <1>1, <1>2, <1>3, <1>4, MinKeyFound
<1>6. e.key \in Nat /\ \A j \in DOMAIN output : output[j].key < e.key
  <2>1. iter_vec[m] \in Seq(Entries(m))
    BY <1>4, <1>5 DEF Remains, Ascends
  <2>2. 1 \in DOMAIN iter_vec[m]
    BY <1>5, <2>1
  <2> QED
    BY <1>2, <1>4, <1>5, <2>2, EntryIs
<1>7. /\ DOMAIN iter_vec' = Level!Sources
      /\ \A l \in Level!Sources :
           /\ Remains(iter_vec'[l], l)
           /\ \A i \in DOMAIN iter_vec'[l] : e.key < iter_vec'[l][i].key
           /\ \A i \in DOMAIN iter_vec[l] :
                \/ iter_vec[l][i].key = e.key
                \/ \E j \in DOMAIN iter_vec'[l] : iter_vec'[l][j] = iter_vec[l][i]
  BY <1>3, <1>4, <1>5, <1>6, SourcesSkip
<1>8. \A x \in Reached : x.key # e.key
  <2> SUFFICES ASSUME NEW x \in Reached, x.key = e.key
               PROVE  FALSE
    OBVIOUS
  <2>1. x.key # 0
    BY VersionIs DEF Reached, Level!Live, Level!Newest
  <2>2. x = e
    BY <1>5, <1>6, <2>1, LiveIsChosen
  <2> QED
    BY <1>3, <2>2 DEF Reached, Level!Live
<1>9. \A x \in Reached :
        \/ \E j \in DOMAIN output : output[j] = x
        \/ \E l \in Level!Sources :
             x \in Level!Versions(l) /\ \E i \in DOMAIN iter_vec'[l] : iter_vec'[l][i] = x
  <2> SUFFICES ASSUME NEW x \in Reached, NEW l \in Level!Sources, x \in Level!Versions(l),
                      NEW i \in DOMAIN iter_vec[l], iter_vec[l][i] = x
               PROVE  \E j \in DOMAIN iter_vec'[l] : iter_vec'[l][j] = x
    BY DEF LevelInv
  <2> QED
    BY <1>7, <1>8
<1>10. \A l \in Level!Sources : \A i \in DOMAIN iter_vec'[l], j \in DOMAIN output :
         output[j].key < iter_vec'[l][i].key
  <2> SUFFICES ASSUME NEW l \in Level!Sources, NEW i \in DOMAIN iter_vec'[l],
                      NEW j \in DOMAIN output
               PROVE  output[j].key < iter_vec'[l][i].key
    OBVIOUS
  <2>1. iter_vec'[l] \in Seq(Entries(l))
    BY <1>7 DEF Remains, Ascends
  <2>2. iter_vec'[l][i] \in Entries(l)
    BY <2>1
  <2>3. iter_vec'[l][i].key \in Nat
    BY <2>2, EntryIs
  <2>4. output[j].key \in Nat
    <3>1. output \in Seq(UNION {Level!Versions(n) : n \in Level!Sources})
      BY DEF LevelInv, Ascends
    <3>2. output[j] \in UNION {Level!Versions(n) : n \in Level!Sources}
      BY <3>1
    <3> QED
      BY <3>2, VersionIs
  <2>5. output[j].key < e.key /\ e.key < iter_vec'[l][i].key
    BY <1>6, <1>7
  <2> QED
    BY <1>6, <2>3, <2>4, <2>5
<1> QED
  <2>1. Level!Sources' = Level!Sources /\ Level!Histories' = Level!Histories
    BY DEF Level!Sources, Level!Histories
  <2>2. /\ \A l : Level!Versions(l)' = Level!Versions(l)
        /\ \A l : Entries(l)' = Entries(l)
        /\ Reached' = Reached
    BY <1>3, SameContents
  <2>3. \A l \in Level!Sources : ~ OnMarker(l)'
    BY <1>6, <1>7, PastMarkers
  <2>4. DOMAIN iter_vec' = Level!Sources /\ \A l \in Level!Sources : Remains(iter_vec[l], l)'
    BY <1>7, <2>2 DEF Remains, Ascends
  <2> QED
    BY <1>3, <1>9, <1>10, <2>1, <2>2, <2>3, <2>4 DEF LevelInv

\* The loop stops at an entry with a value.
LEMMA ChooseValue ==
  ASSUME LevelInv, Level!Choose, iter_vec[Level!get_min_key_idx][1].value # Deleted
  PROVE  LevelInv'
<1> DEFINE All == UNION {Level!Versions(l) : l \in Level!Sources}
           n == Len(output)
<1>1. PICK m : m = Level!get_min_key_idx
  OBVIOUS
<1>2. PICK e : e = iter_vec[m][1]
  OBVIOUS
<1>3. /\ cached_value' = <<e>> /\ output' = Append(output, e) /\ ~ Level!is_end
      /\ cached_value = << >> /\ UNCHANGED <<iter_vec, stored, max_tranc_id, lost>>
  BY <1>1, <1>2 DEF Level!Choose
<1>4. /\ DOMAIN iter_vec = Level!Sources /\ \A l \in Level!Sources : Remains(iter_vec[l], l)
      /\ \A l \in Level!Sources : \A i \in DOMAIN iter_vec[l], j \in DOMAIN output :
           output[j].key < iter_vec[l][i].key
      /\ \A i, j \in Level!Sources : i < j /\ OnMarker(i) /\ iter_vec[j] # << >> => OnMarker(j)
  BY <1>3 DEF LevelInv
<1>5. /\ m \in Level!Sources /\ iter_vec[m] # << >> /\ e \in Entries(m)
      /\ \A l \in Level!Sources : \A i \in DOMAIN iter_vec[l] :
           /\ e.key <= iter_vec[l][i].key
           /\ e.key # 0 /\ e.key = iter_vec[l][i].key => m <= l
  BY <1>1, <1>2, <1>3, <1>4, MinKeyFound
<1>6. e.key \in Nat \ {0} /\ e \in All /\ \A j \in DOMAIN output : output[j].key < e.key
  <2>1. iter_vec[m] \in Seq(Entries(m))
    BY <1>4, <1>5 DEF Remains, Ascends
  <2>2. 1 \in DOMAIN iter_vec[m]
    BY <1>5, <2>1
  <2>3. e.key \in Nat /\ e.key # 0 /\ e \in Level!Versions(m)
    BY <1>1, <1>2, <1>5, EntryIs
  <2> QED
    BY <1>2, <1>4, <1>5, <2>2, <2>3
<1>7. output \in Seq(All) /\ \A i, j \in DOMAIN output : i < j => output[i].key < output[j].key
  BY DEF LevelInv, Ascends
<1>8. \A x \in All : x.key \in Nat
  BY VersionIs
<1> HIDE DEF All
<1>9. n \in Nat /\ DOMAIN output = 1..n
  BY <1>7
<1>10. /\ output' \in Seq(All) /\ Len(output') = n + 1 /\ DOMAIN output' = 1..(n + 1)
       /\ output'[n + 1] = e /\ \A j \in 1..n : output'[j] = output[j]
  <2>1. output' \in Seq(All) /\ Len(output') = n + 1
    BY <1>3, <1>6, <1>7
  <2> QED
    BY <1>3, <1>7, <1>9, <2>1
<1> HIDE DEF n
<1>11. \A j \in 1..(n + 1) : j \in 1..n \/ j = n + 1
  BY <1>9
<1>12. \A i, j \in 1..(n + 1) : i < j => output'[i].key < output'[j].key
  <2> SUFFICES ASSUME NEW i \in 1..(n + 1), NEW j \in 1..(n + 1), i < j
               PROVE  output'[i].key < output'[j].key
    OBVIOUS
  <2>1. i \in 1..n
    BY <1>9
  <2>2. CASE j \in 1..n
    BY <1>7, <1>9, <1>10, <2>1, <2>2
  <2>3. CASE j = n + 1
    BY <1>6, <1>9, <1>10, <2>1, <2>3
  <2> QED
    BY <1>11, <2>2, <2>3
<1>13. \A l \in Level!Sources : \A i \in DOMAIN iter_vec[l], j \in 1..(n + 1) :
         output'[j].key <= iter_vec[l][i].key
  <2> SUFFICES ASSUME NEW l \in Level!Sources, NEW i \in DOMAIN iter_vec[l],
                      NEW j \in 1..(n + 1)
               PROVE  output'[j].key <= iter_vec[l][i].key
    OBVIOUS
  <2>1. CASE j \in 1..n
    <3>1. output[j].key < iter_vec[l][i].key /\ output[j] \in All
      BY <1>4, <1>7, <1>9, <2>1
    <3>2. iter_vec[l] \in Seq(Entries(l))
      BY <1>4 DEF Remains, Ascends
    <3>3. iter_vec[l][i] \in Entries(l)
      BY <3>2
    <3>4. iter_vec[l][i].key \in Nat
      BY <3>3, EntryIs
    <3> QED
      BY <1>8, <1>10, <2>1, <3>1, <3>4
  <2>2. CASE j = n + 1
    BY <1>5, <1>10, <2>2
  <2> QED
    BY <1>11, <2>1, <2>2
<1>14. \A x \in Reached : x.key = e.key => x = e
  BY <1>5, <1>6, LiveIsChosen
<1>15. \A x \in Reached :
         \/ \E j \in DOMAIN output' : output'[j] = x
         \/ \E l \in Level!Sources :
              x \in Level!Versions(l) /\ \E i \in DOMAIN iter_vec[l] : iter_vec[l][i] = x
  <2>1. \A j \in 1..n : j \in 1..(n + 1)
    BY <1>9
  <2> QED
    BY <1>9, <1>10, <2>1 DEF LevelInv
<1> QED
  <2>1. Level!Sources' = Level!Sources /\ Level!Histories' = Level!Histories
    BY DEF Level!Sources, Level!Histories
  <2>2. /\ \A l : Level!Versions(l)' = Level!Versions(l)
        /\ \A l : Entries(l)' = Entries(l)
        /\ Reached' = Reached
    BY <1>3, SameContents
  <2>3. (UNION {Level!Versions(l) : l \in Level!Sources})' = All
    BY <2>1, <2>2 DEF All
  <2>4. /\ output' # << >> /\ Len(output') \in DOMAIN output' /\ output'[Len(output')] = e
        /\ cached_value' = <<output'[Len(output')]>>
    BY <1>3, <1>9, <1>10
  <2>5. Ascends(output, UNION {Level!Versions(l) : l \in Level!Sources})'
    BY <1>10, <1>12, <2>3 DEF Ascends
  <2>6. \A l \in Level!Sources : Remains(iter_vec[l], l)'
    BY <1>3, <1>4, <2>2 DEF Remains, Ascends
  <2>7. (stored \in [ScanKeys -> Level!Histories] /\ DOMAIN iter_vec = Level!Sources)'
    BY <1>3, <2>1 DEF LevelInv
  <2>8. \A l \in Level!Sources : \A i \in DOMAIN iter_vec'[l], j \in DOMAIN output' :
          output'[j].key <= iter_vec'[l][i].key
    BY <1>3, <1>10, <1>13
  <2>9. \A x \in Reached : x.key = output'[Len(output')].key => x = output'[Len(output')]
    BY <1>14, <2>4
  <2>10. \A i, j \in Level!Sources :
           i < j /\ OnMarker(i)' /\ iter_vec'[j] # << >> => OnMarker(j)'
    BY <1>3, <1>4 DEF OnMarker
  <2> HIDE DEF All
  <2> QED
    BY <1>3, <1>15, <2>1, <2>10, <2>2, <2>4, <2>5, <2>6, <2>7, <2>8, <2>9 DEF LevelInv

\* operator++ begins with leaving the key.
LEMMA IncrementStep ==
  ASSUME LevelInv, Level!Increment
  PROVE  LevelInv'
<1> DEFINE n == Len(output)
           k == output[n].key
<1>1. /\ cached_value # << >> /\ cached_value' = << >>
      /\ UNCHANGED <<stored, max_tranc_id, lost, output>>
  BY DEF Level!Increment
<1>2. /\ output # << >> /\ cached_value = <<output[n]>>
      /\ DOMAIN iter_vec = Level!Sources /\ \A l \in Level!Sources : Remains(iter_vec[l], l)
      /\ \A l \in Level!Sources : \A i \in DOMAIN iter_vec[l], j \in DOMAIN output :
           output[j].key <= iter_vec[l][i].key
      /\ \A x \in Reached : x.key = k => x = output[n]
  BY <1>1 DEF LevelInv
<1>3. /\ output \in Seq(UNION {Level!Versions(l) : l \in Level!Sources})
      /\ \A i, j \in DOMAIN output : i < j => output[i].key < output[j].key
  BY DEF LevelInv, Ascends
<1>4. n \in Nat \ {0} /\ DOMAIN output = 1..n /\ n \in DOMAIN output
  BY <1>2, <1>3
<1>5. \A j \in DOMAIN output : output[j].key \in Nat
  <2> SUFFICES ASSUME NEW j \in DOMAIN output
               PROVE  output[j].key \in Nat
    OBVIOUS
  <2>1. output[j] \in UNION {Level!Versions(l) : l \in Level!Sources}
    BY <1>3
  <2> QED
    BY <2>1, VersionIs
<1>6. Level!skip_key(k)
  BY <1>2 DEF Level!Increment
<1> HIDE DEF n
<1>7. \A j \in DOMAIN output : output[j].key <= k
  <2> SUFFICES ASSUME NEW j \in DOMAIN output
               PROVE  output[j].key <= k
    OBVIOUS
  <2>1. j = n \/ j < n
    BY <1>4
  <2>2. j < n => output[j].key < k
    BY <1>3, <1>4
  <2> QED
    BY <1>4, <1>5, <2>1, <2>2
<1>8. k \in Nat /\ \A l \in Level!Sources : \A i \in DOMAIN iter_vec[l] : k <= iter_vec[l][i].key
  BY <1>2, <1>4, <1>5
<1> HIDE DEF k
<1>9. /\ DOMAIN iter_vec' = Level!Sources
      /\ \A l \in Level!Sources :
           /\ Remains(iter_vec'[l], l)
           /\ \A i \in DOMAIN iter_vec'[l] : k < iter_vec'[l][i].key
           /\ \A i \in DOMAIN iter_vec[l] :
                \/ iter_vec[l][i].key = k
                \/ \E j \in DOMAIN iter_vec'[l] : iter_vec'[l][j] = iter_vec[l][i]
  BY <1>2, <1>6, <1>8, SourcesSkip
<1>10. \A l \in Level!Sources : \A i \in DOMAIN iter_vec'[l], j \in DOMAIN output :
         output[j].key < iter_vec'[l][i].key
  <2> SUFFICES ASSUME NEW l \in Level!Sources, NEW i \in DOMAIN iter_vec'[l],
                      NEW j \in DOMAIN output
               PROVE  output[j].key < iter_vec'[l][i].key
    OBVIOUS
  <2>1. iter_vec'[l] \in Seq(Entries(l))
    BY <1>9 DEF Remains, Ascends
  <2>2. iter_vec'[l][i] \in Entries(l)
    BY <2>1
  <2>3. iter_vec'[l][i].key \in Nat
    BY <2>2, EntryIs
  <2>4. output[j].key <= k /\ k < iter_vec'[l][i].key
    BY <1>7, <1>9
  <2> QED
    BY <1>5, <1>8, <2>3, <2>4
<1>11. \A x \in Reached :
         \/ \E j \in DOMAIN output : output[j] = x
         \/ \E l \in Level!Sources :
              x \in Level!Versions(l) /\ \E i \in DOMAIN iter_vec'[l] : iter_vec'[l][i] = x
  <2> SUFFICES ASSUME NEW x \in Reached, NEW l \in Level!Sources, x \in Level!Versions(l),
                      NEW i \in DOMAIN iter_vec[l], iter_vec[l][i] = x, x.key # k
               PROVE  \E j \in DOMAIN iter_vec'[l] : iter_vec'[l][j] = x
    BY <1>2, <1>4 DEF LevelInv
  <2> QED
    BY <1>9
<1> QED
  <2>1. Level!Sources' = Level!Sources /\ Level!Histories' = Level!Histories
    BY DEF Level!Sources, Level!Histories
  <2>2. /\ \A l : Level!Versions(l)' = Level!Versions(l)
        /\ \A l : Entries(l)' = Entries(l)
        /\ Reached' = Reached
    BY <1>1, SameContents
  <2>3. \A l \in Level!Sources : ~ OnMarker(l)'
    BY <1>8, <1>9, PastMarkers
  <2>4. DOMAIN iter_vec' = Level!Sources /\ \A l \in Level!Sources : Remains(iter_vec[l], l)'
    BY <1>9, <2>2 DEF Remains, Ascends
  <2>5. /\ Ascends(output, UNION {Level!Versions(l) : l \in Level!Sources})'
        /\ stored' \in [ScanKeys -> Level!Histories']
    BY <1>1, <2>1, <2>2 DEF LevelInv, Ascends
  <2> QED
    BY <1>1, <1>10, <1>11, <2>1, <2>2, <2>3, <2>4, <2>5 DEF LevelInv

\* The invariant of the database scan, where the database scan is what runs and the
\* markers are last.
LEMMA LevelInvariant == ReadSpec => [](kind = "level" /\ Level!MarkersLast => LevelInv)
<1> DEFINE Inv == kind = "level" /\ Level!MarkersLast => LevelInv
<1>1. ReadInit => Inv
  BY LevelInit DEF ReadInit
<1>2. Inv /\ [ReadNext]_read_vars => Inv'
  <2> SUFFICES ASSUME Inv, [ReadNext]_read_vars, kind' = "level", Level!MarkersLast'
               PROVE  LevelInv'
    OBVIOUS
  <2>1. kind = "level"
    BY DEF ReadNext, read_vars, scan_vars
  <2>2. \/ Level!Choose \/ Level!Increment
        \/ UNCHANGED <<stored, marked, max_tranc_id, lost, iter_vec, cached_value, output>>
    BY <2>1 DEF ReadNext, read_vars, scan_vars, level, Level!Next
  <2>3. UNCHANGED <<stored, marked, max_tranc_id, lost>>
    BY <2>2 DEF Level!Choose, Level!Increment
  <2>4. Level!Sources' = Level!Sources /\ Level!Histories' = Level!Histories
    BY DEF Level!Sources, Level!Histories
  <2>5. /\ \A l : Level!Versions(l)' = Level!Versions(l)
        /\ \A l : Entries(l)' = Entries(l)
        /\ Reached' = Reached
    BY <2>3, SameContents
  <2>6. Level!MarkersLast
    BY <2>3, <2>4, <2>5 DEF Level!MarkersLast
  <2>7. LevelInv
    BY <2>1, <2>6
  <2>8. CASE UNCHANGED <<stored, marked, max_tranc_id, lost, iter_vec, cached_value, output>>
    BY <2>4, <2>5, <2>7, <2>8 DEF LevelInv, Remains, Ascends, OnMarker
  <2>9. CASE Level!Choose
    BY <2>7, <2>9, ChooseDeleted, ChooseValue
  <2>10. CASE Level!Increment
    BY <2>7, <2>10, IncrementStep
  <2> QED
    BY <2>2, <2>8, <2>9, <2>10
<1> QED
  BY <1>1, <1>2, PTL DEF ReadSpec

\* Level_Iterator visits keys in ascending order, each one once, for any number of
\* levels, any contents and every snapshot, if every level behind one with a commit
\* marker has a marker too, or is empty.
THEOREM DatabaseScanInOrder == ReadSpec => []OrderedWithMarkersLast
<1>1. (kind = "level" /\ Level!MarkersLast => LevelInv) => OrderedWithMarkersLast
  BY DEF LevelInv, Ascends, OrderedWithMarkersLast, Level!OrderedWithMarkersLast,
         Level!ScanInOrder
<1> QED
  BY <1>1, LevelInvariant, PTL

\* The scans of the SSTs lose nothing without a transaction, and nothing of the
\* memtable.
LEMMA LostIs == ReadSpec => [](kind = "level" => lost \subseteq
                                 UNION {Level!Losable(l) : l \in Level!Sources})
<1> DEFINE Inv == kind = "level" => lost \subseteq UNION {Level!Losable(l) : l \in Level!Sources}
<1>1. ReadInit => Inv
  BY DEF ReadInit, Level!Init
<1>2. Inv /\ [ReadNext]_read_vars => Inv'
  <2> SUFFICES ASSUME Inv, [ReadNext]_read_vars, kind' = "level"
               PROVE  Inv'
    OBVIOUS
  <2>1. kind = "level"
    BY DEF ReadNext, read_vars, scan_vars
  <2>2. UNCHANGED <<stored, max_tranc_id, lost>>
    BY <2>1 DEF ReadNext, read_vars, scan_vars, level, Level!Next, Level!Choose, Level!Increment
  <2>3. \A l : Level!Losable(l)' = Level!Losable(l)
    BY <2>2 DEF Level!Losable, Level!Versions, Level!Visible
  <2>4. Level!Sources' = Level!Sources
    BY DEF Level!Sources
  <2> QED
    BY <2>1, <2>2, <2>3, <2>4
<1> QED
  BY <1>1, <1>2, PTL DEF ReadSpec

\* At the end of Level_Iterator's scan every live key has been visited with its
\* newest visible version, for any number of levels and any contents in which markers
\* are last: without a transaction in whichever level that is, with one if it is in
\* the memtable.
THEOREM DatabaseScanComplete == ReadSpec => []LiveKeysVisited
<1>1. /\ kind = "level" /\ Level!MarkersLast => LevelInv
      /\ kind = "level" => lost \subseteq UNION {Level!Losable(l) : l \in Level!Sources}
      => LiveKeysVisited
  <2> SUFFICES ASSUME LevelInv, Level!is_end, cached_value = << >>, NEW x \in Level!Live,
                      lost \subseteq UNION {Level!Losable(l) : l \in Level!Sources},
                      max_tranc_id = 0 \/ x \in Level!Versions(1)
               PROVE  \E j \in DOMAIN output : output[j] = x
    BY DEF LiveKeysVisited, Level!LiveKeysVisited, Level!ToSet
  <2>1. \A l \in Level!Sources : DOMAIN iter_vec[l] = {}
    BY DEF Level!is_end
  <2>2. x \notin lost
    <3> SUFFICES ASSUME NEW l \in Level!Sources, x \in Level!Losable(l)
                 PROVE  FALSE
      OBVIOUS
    <3>1. l # 1 /\ max_tranc_id # 0 /\ x \in Level!Versions(l)
      BY DEF Level!Losable
    <3> QED
      BY <3>1, VersionIs
  <2> QED
    BY <2>1, <2>2 DEF LevelInv, Reached
<1> QED
  BY <1>1, LevelInvariant, LostIs, PTL

-----------------------------------------------------------------------------
\* The order of the entries of a table, and TwoMergeIterator.

\* d comes before e: the smaller key, of one key the newer version.
Precedes(d, e) == d.key < e.key \/ (d.key = e.key /\ d.id > e.id)

\* Entries with numbers, no two with the same ones.
Placed(S) ==
  /\ \A x \in S : x.key \in Nat /\ x.id \in Nat
  /\ \A x, y \in S : x.key = y.key /\ x.id = y.id => x = y

\* s holds elements of S in order, each at most once.
Lists(s, S) ==
  /\ s \in Seq(S)
  /\ \A i, j \in DOMAIN s : i < j => Precedes(s[i], s[j])

Els(s) == {s[i] : i \in DOMAIN s}

\* s is sorted as the iterators sort: every place by the count of what precedes it.
RankedEntries(s, S) ==
  s = [i \in 1..Cardinality(S) |->
         CHOOSE e \in S : Cardinality({d \in S : Precedes(d, e)}) = i - 1]

\* Entries sorted by their ranks are listed in order, all of them.
LEMMA EntriesSorted ==
  ASSUME NEW S, IsFiniteSet(S), Placed(S), NEW s, RankedEntries(s, S)
  PROVE  Lists(s, S) /\ Els(s) = S
<1> DEFINE R == {p \in S \X S : Precedes(p[1], p[2])}
           Below(x) == {d \in S : Precedes(d, x)}
<1>1. Orders(R, S)
  <2>1. \A x \in S : <<x, x>> \notin R
    BY DEF Placed, Precedes
  <2>2. \A x, y, z \in S : <<x, y>> \in R /\ <<y, z>> \in R => <<x, z>> \in R
    BY DEF Placed, Precedes
  <2>3. \A x, y \in S : x = y \/ <<x, y>> \in R \/ <<y, x>> \in R
    BY DEF Placed, Precedes
  <2> QED
    BY <2>1, <2>2, <2>3 DEF Orders
<1>2. s = [i \in 1..Cardinality(S) |-> CHOOSE x \in S : Cardinality(Below(x)) = i - 1]
  BY DEF RankedEntries
<1>3. \A x \in S : {y \in S : <<y, x>> \in R} = Below(x)
  OBVIOUS
<1> HIDE DEF Below
<1>4. ASSUME NEW i \in 1..Cardinality(S), NEW x \in S,
             Cardinality({y \in S : <<y, x>> \in R}) = i - 1
      PROVE  s[i] \in S /\ Cardinality({y \in S : <<y, s[i]>> \in R}) = i - 1
  <2>1. Cardinality(Below(x)) = i - 1
    BY <1>3, <1>4
  <2>2. s[i] = CHOOSE z \in S : Cardinality(Below(z)) = i - 1
    BY <1>2
  <2>3. s[i] \in S /\ Cardinality(Below(s[i])) = i - 1
    BY <2>1, <2>2, Zenon
  <2> QED
    BY <1>3, <2>3
<1>5. s = [i \in 1..Cardinality(S) |-> s[i]]
  BY <1>2
<1>6. Ranked(s, S, R)
  BY <1>4, <1>5 DEF Ranked
<1> HIDE DEF R
<1>7. Enumerates(s, S, R)
  BY <1>1, <1>6, RankEnumerates
<1>8. \A i, j \in DOMAIN s : i < j => Precedes(s[i], s[j])
  BY <1>7 DEF Enumerates, R
<1> QED
  BY <1>7, <1>8 DEF Enumerates, Lists, Els

\* A list of elements of S has no others.
LEMMA ListedElements ==
  ASSUME NEW S, NEW s, Lists(s, S)
  PROVE  Els(s) \subseteq S
BY DEF Lists, Els

\* The head of a list precedes the rest, and the rest is what the tail holds.
LEMMA HeadAndTail ==
  ASSUME NEW S, Placed(S), NEW s, Lists(s, S), s # << >>
  PROVE  /\ s[1] \in Els(s) /\ Els(s) = {s[1]} \cup Els(Tail(s))
         /\ \A e \in Els(Tail(s)) : Precedes(s[1], e) /\ e # s[1]
         /\ Lists(Tail(s), S)
<1> DEFINE n == Len(s)
<1>1. /\ s \in Seq(S) /\ n \in Nat /\ n >= 1 /\ DOMAIN s = 1..n
      /\ Tail(s) \in Seq(S) /\ DOMAIN Tail(s) = 1..(n - 1)
      /\ \A i \in 1..(n - 1) : Tail(s)[i] = s[i + 1]
  BY DEF Lists
<1> HIDE DEF n
<1>2. \A i, j \in 1..n : i < j => Precedes(s[i], s[j])
  BY <1>1 DEF Lists
<1>3. \A i \in 1..n : s[i] \in S
  BY <1>1
<1>4. Els(s) = {s[1]} \cup Els(Tail(s))
  <2>1. ASSUME NEW i \in 1..n
        PROVE  s[i] = s[1] \/ s[i] \in Els(Tail(s))
    <3>1. i = 1 \/ (i - 1 \in 1..(n - 1) /\ (i - 1) + 1 = i)
      BY <1>1, <2>1
    <3> QED
      BY <1>1, <3>1 DEF Els
  <2>2. ASSUME NEW i \in 1..(n - 1)
        PROVE  Tail(s)[i] \in Els(s)
    <3>1. i + 1 \in 1..n
      BY <1>1
    <3> QED
      BY <1>1, <3>1 DEF Els
  <2>3. 1 \in 1..n
    BY <1>1
  <2> QED
    BY <1>1, <2>1, <2>2, <2>3 DEF Els
<1>5. \A e \in Els(Tail(s)) : Precedes(s[1], e) /\ e # s[1]
  <2> SUFFICES ASSUME NEW i \in 1..(n - 1)
               PROVE  Precedes(s[1], s[i + 1]) /\ s[i + 1] # s[1]
    BY <1>1 DEF Els
  <2>1. 1 \in 1..n /\ i + 1 \in 1..n /\ 1 < i + 1
    BY <1>1
  <2>2. Precedes(s[1], s[i + 1]) /\ s[1] \in S
    BY <1>2, <1>3, <2>1
  <2> QED
    BY <2>2 DEF Precedes, Placed
<1>6. \A i, j \in 1..(n - 1) : i < j => Precedes(Tail(s)[i], Tail(s)[j])
  <2> SUFFICES ASSUME NEW i \in 1..(n - 1), NEW j \in 1..(n - 1), i < j
               PROVE  Precedes(s[i + 1], s[j + 1])
    BY <1>1
  <2>1. i + 1 \in 1..n /\ j + 1 \in 1..n /\ i + 1 < j + 1
    BY <1>1
  <2> QED
    BY <1>2, <2>1
<1> QED
  BY <1>1, <1>4, <1>5, <1>6 DEF Lists, Els

\* The instance counts as everybody else.
LEMMA MergeCardinality == \A S : Merge!Cardinality(S) = Cardinality(S)
BY DEF Merge!Cardinality, Cardinality

\* The entries of one source.
LEMMA MergeEntries ==
  ASSUME NEW src
  PROVE  /\ IsFiniteSet(Merge!Entries(src)) /\ Placed(Merge!Entries(src))
         /\ \A e \in Merge!Entries(src) : e.src = src
<1>1. FewKeys \subseteq Nat /\ Ids \subseteq Nat
  BY ScanAssumption
<1>2. Placed(Merge!Entries(src)) /\ \A e \in Merge!Entries(src) : e.src = src
  <2>1. \A e \in Merge!Entries(src) :
          /\ e.key \in Nat /\ e.id \in Nat /\ e.src = src
          /\ e = [key |-> e.key, id |-> e.id, src |-> src]
    <3>1. ASSUME NEW e \in Merge!Entries(src)
          PROVE  /\ e.key \in FewKeys /\ e.id \in Ids /\ e.src = src
                 /\ e = [key |-> e.key, id |-> e.id, src |-> src]
      BY DEF Merge!Entries
    <3> QED
      BY <1>1, <3>1
  <2> QED
    BY <2>1 DEF Placed
<1>3. IsFiniteSet(FewKeys) /\ IsFiniteSet(Ids)
  <2>1. FewKeys \subseteq SstKeys \cup ScanKeys \cup FewKeys \cup Ids \cup Tables
    OBVIOUS
  <2>2. Ids \subseteq SstKeys \cup ScanKeys \cup FewKeys \cup Ids \cup Tables
    OBVIOUS
  <2> QED
    BY <2>1, <2>2, FiniteAssumption, FS_Subset
<1>4. IsFiniteSet(FewKeys \X Ids)
  BY <1>3, FS_Product
<1>5. IsFiniteSet(Merge!Entries(src))
  <2> DEFINE f == [p \in FewKeys \X Ids |-> [key |-> p[1], id |-> p[2], src |-> src]]
  <2>1. f \in [FewKeys \X Ids -> Merge!Entries(src)]
    BY DEF Merge!Entries
  <2>2. ASSUME NEW e \in Merge!Entries(src)
        PROVE  \E p \in FewKeys \X Ids : f[p] = e
    <3>1. e.key \in FewKeys /\ e.id \in Ids /\ e = [key |-> e.key, id |-> e.id, src |-> src]
      BY DEF Merge!Entries
    <3>2. <<e.key, e.id>> \in FewKeys \X Ids /\ f[<<e.key, e.id>>] = e
      BY <3>1
    <3> QED
      BY <3>2
  <2> HIDE DEF f
  <2>3. f \in Surjection(FewKeys \X Ids, Merge!Entries(src))
    BY <2>1, <2>2 DEF Surjection
  <2> QED
    BY <1>4, <2>3, FS_Surjection
<1> QED
  BY <1>2, <1>5

\* What an iterator may deliver is sorted and, in a query, one version per key.
LEMMA MergeInputs ==
  ASSUME NEW src, NEW s \in Merge!Inputs(src)
  PROVE  /\ Lists(s, Merge!Entries(src))
         /\ ~ keep_all_versions => \A d, e \in Els(s) : d.key = e.key => d = e
<1>1. PICK S \in SUBSET Merge!Entries(src) :
        /\ s = Merge!Sorted(S)
        /\ keep_all_versions \/ Merge!OnePerKey(S)
  BY Zenon DEF Merge!Inputs
<1>2. IsFiniteSet(S) /\ Placed(S)
  BY MergeEntries, FS_Subset DEF Placed
<1>3. RankedEntries(s, S)
  <2> DEFINE Below(x) == {d \in S : Precedes(d, x)}
  <2>1. s = [i \in 1..Merge!Cardinality(S) |->
               CHOOSE e \in S : Merge!Cardinality(Below(e)) = i - 1]
    BY <1>1 DEF Merge!Sorted, Merge!Before, Precedes
  <2> HIDE DEF Below
  <2>2. s = [i \in 1..Cardinality(S) |-> CHOOSE e \in S : Cardinality(Below(e)) = i - 1]
    BY <2>1, MergeCardinality
  <2> QED
    BY <2>2 DEF RankedEntries, Below
<1>4. Lists(s, S) /\ Els(s) = S
  BY <1>2, <1>3, EntriesSorted
<1>5. Lists(s, Merge!Entries(src))
  BY <1>4 DEF Lists
<1> QED
  BY <1>1, <1>4, <1>5 DEF Merge!OnePerKey

\* Of the two sources: a query has one version per key, a compaction no snapshot.
MergeFacts ==
  /\ max_tranc_id \in Nat /\ keep_all_versions \in BOOLEAN
  /\ keep_all_versions => max_tranc_id = 0
  /\ \A e \in Els(sources.a) : e.src = "a"
  /\ ~ keep_all_versions =>
       /\ \A d, e \in Els(sources.a) : d.key = e.key => d = e
       /\ \A d, e \in Els(sources.b) : d.key = e.key => d = e

\* What a and b still hold and what out has: everything wanted, in order, and what
\* has been delivered never comes after what is still to come.
MergeParts(a, b, out) ==
  /\ Lists(a, Merge!Entries("a")) /\ Lists(b, Merge!Entries("b"))
  /\ Els(a) \subseteq Els(sources.a) /\ Els(b) \subseteq Els(sources.b)
  /\ out \in Seq(Merge!Wanted)
  /\ \A e \in Merge!Wanted : e \in Els(out) \cup Els(a) \cup Els(b)
  /\ \A i, j \in DOMAIN out : i < j => out[i] # out[j] /\ ~ Precedes(out[j], out[i])
  /\ \A d \in Els(out), e \in Els(a) \cup Els(b) :
       d # e /\ ~ Precedes(e, d) /\ (~ keep_all_versions => d.key < e.key)

\* Where a query stands the two heads have different keys.
HeadsApart(a, b) == ~ keep_all_versions /\ a # << >> /\ b # << >> => a[1].key # b[1].key

MergeInv ==
  /\ MergeFacts /\ MergeParts(it_a, it_b, output) /\ HeadsApart(it_a, it_b)
  /\ choose_a = Merge!choose_it_a(it_a, it_b)

\* What is wanted, said of the elements.
LEMMA MergeWanted ==
  \A e : e \in Merge!Wanted <=>
           \/ e \in Els(sources.a)
           \/ /\ e \in Els(sources.b)
              /\ keep_all_versions \/ \A d \in Els(sources.a) : d.key # e.key
BY DEF Merge!Wanted, Merge!ToSet, Els

\* The iterators below deliver nothing invisible, so nothing is skipped.
LEMMA NothingToSkip ==
  ASSUME MergeFacts, NEW S, NEW it \in Seq(S)
  PROVE  Merge!skip_by_tranc_id(it) = it
<1>1. CASE max_tranc_id = 0
  BY <1>1 DEF Merge!skip_by_tranc_id
<1>2. CASE max_tranc_id # 0
  <2> DEFINE stops == {n \in 0..Len(it) : Merge!get_tranc_id(Merge!Drop(it, n)) <= max_tranc_id}
             first == CHOOSE n \in stops : \A m \in stops : n <= m
  <2>1. ~ keep_all_versions /\ max_tranc_id \in Nat
    BY <1>2 DEF MergeFacts
  <2>2. \A d : Merge!get_tranc_id(d) = max_tranc_id
    BY <2>1 DEF Merge!get_tranc_id
  <2>3. stops = 0..Len(it) /\ Len(it) \in Nat
    BY <2>1, <2>2
  <2>4. Merge!skip_by_tranc_id(it) = Merge!Drop(it, first)
    BY <1>2 DEF Merge!skip_by_tranc_id
  <2> HIDE DEF stops
  <2>5. 0 \in stops /\ \A m \in stops : 0 <= m
    BY <2>3
  <2>6. first \in stops /\ \A m \in stops : first <= m
    BY <2>5, Zenon
  <2> HIDE DEF first
  <2>7. first = 0
    BY <2>3, <2>5, <2>6
  <2>8. Merge!Drop(it, 0) = it
    BY DEF Merge!Drop
  <2> QED
    BY <2>4, <2>7, <2>8
<1> QED
  BY <1>1, <1>2

\* The end of the constructor and of operator++ skips the key of it_b that it_a has.
LEMMA MergeSettles ==
  ASSUME MergeFacts, NEW a, NEW b, NEW out, MergeParts(a, b, out),
         NEW s, s = Merge!Settled(a, b)
  PROVE  /\ MergeParts(s.it_a, s.it_b, out) /\ HeadsApart(s.it_a, s.it_b)
         /\ s.choose_a = Merge!choose_it_a(s.it_a, s.it_b)
<1>1. Merge!skip_by_tranc_id(a) = a /\ Merge!skip_by_tranc_id(b) = b
  BY NothingToSkip DEF MergeParts, Lists
<1>2. /\ s.it_a = a /\ s.it_b = Merge!skip_it_b(a, b)
      /\ s.choose_a = Merge!choose_it_a(s.it_a, s.it_b)
  BY <1>1 DEF Merge!Settled
<1>3. CASE ~ keep_all_versions /\ a # << >> /\ b # << >> /\ a[1].key = b[1].key
  <2>1. s.it_b = Tail(b)
    BY <1>2, <1>3 DEF Merge!skip_it_b
  <2>2. /\ b[1] \in Els(b) /\ Els(b) = {b[1]} \cup Els(Tail(b))
        /\ \A e \in Els(Tail(b)) : Precedes(b[1], e) /\ e # b[1]
        /\ Lists(Tail(b), Merge!Entries("b"))
    BY <1>3, HeadAndTail, MergeEntries DEF MergeParts
  <2>3. a[1] \in Els(a)
    BY <1>3, HeadAndTail, MergeEntries DEF MergeParts
  <2>4. \A e \in Els(Tail(b)) : e.key # b[1].key
    BY <1>3, <2>2 DEF MergeParts, MergeFacts
  <2>5. HeadsApart(a, Tail(b))
    <3>1. Tail(b) # << >> => Tail(b)[1] \in Els(Tail(b))
      BY <2>2, HeadAndTail, MergeEntries
    <3> QED
      BY <1>3, <2>4, <3>1 DEF HeadsApart
  <2>6. a[1] \in Els(sources.a) /\ b[1] \in Merge!Entries("b")
    BY <2>2, <2>3, ListedElements DEF MergeParts
  <2>7. b[1] \notin Merge!Wanted
    <3>1. b[1] \notin Els(a)
      BY <2>6, MergeEntries, ListedElements DEF MergeParts
    <3>2. b[1] \in Merge!Wanted => b[1] \in Els(sources.a)
      BY <1>3, <2>6, MergeWanted
    <3>3. ASSUME b[1] \in Els(sources.a)
          PROVE  FALSE
      <4>1. a[1] = b[1]
        BY <1>3, <2>6, <3>3 DEF MergeFacts
      <4> QED
        BY <2>3, <3>1, <4>1
    <3> QED
      BY <3>2, <3>3
  <2>8. MergeParts(a, Tail(b), out)
    BY <2>2, <2>7 DEF MergeParts
  <2> QED
    BY <1>2, <2>1, <2>5, <2>8
<1>4. CASE ~ (~ keep_all_versions /\ a # << >> /\ b # << >> /\ a[1].key = b[1].key)
  <2>1. s.it_b = b
    BY <1>2, <1>4 DEF Merge!skip_it_b
  <2> QED
    BY <1>2, <1>4, <2>1 DEF HeadsApart
<1> QED
  BY <1>3, <1>4

\* One entry moves from the sources to the output.
LEMMA MergeDelivers ==
  ASSUME NEW a, NEW b, NEW out, MergeParts(a, b, out), NEW e, NEW c, NEW d,
         Lists(c, Merge!Entries("a")) /\ Lists(d, Merge!Entries("b")),
         Els(c) \subseteq Els(a) /\ Els(d) \subseteq Els(b),
         Els(a) \cup Els(b) = {e} \cup Els(c) \cup Els(d),
         e \in Merge!Wanted,
         \A x \in Els(c) \cup Els(d) :
           e # x /\ ~ Precedes(x, e) /\ (~ keep_all_versions => e.key < x.key)
  PROVE  MergeParts(c, d, Append(out, e))
<1> DEFINE n == Len(out)
           new == Append(out, e)
<1>1. /\ out \in Seq(Merge!Wanted) /\ n \in Nat /\ DOMAIN out = 1..n
      /\ new \in Seq(Merge!Wanted) /\ DOMAIN new = 1..(n + 1)
      /\ new[n + 1] = e /\ \A i \in 1..n : new[i] = out[i]
  BY DEF MergeParts
<1> HIDE DEF n, new
<1>2. Els(new) = Els(out) \cup {e}
  <2>1. \A i \in 1..(n + 1) : i \in 1..n \/ i = n + 1
    BY <1>1
  <2>2. \A i \in 1..n : i \in 1..(n + 1)
    BY <1>1
  <2>3. n + 1 \in 1..(n + 1)
    BY <1>1
  <2> QED
    BY <1>1, <2>1, <2>2, <2>3 DEF Els
<1>3. e \in Els(a) \cup Els(b)
  OBVIOUS
<1>4. \A x \in Els(out) : x # e /\ ~ Precedes(e, x) /\ (~ keep_all_versions => x.key < e.key)
  BY <1>3 DEF MergeParts
<1>5. \A i, j \in 1..(n + 1) : i < j => new[i] # new[j] /\ ~ Precedes(new[j], new[i])
  <2> SUFFICES ASSUME NEW i \in 1..(n + 1), NEW j \in 1..(n + 1), i < j
               PROVE  new[i] # new[j] /\ ~ Precedes(new[j], new[i])
    OBVIOUS
  <2>1. i \in 1..n /\ (j \in 1..n \/ j = n + 1)
    BY <1>1
  <2>2. CASE j \in 1..n
    BY <1>1, <2>1, <2>2 DEF MergeParts
  <2>3. CASE j = n + 1
    <3>1. new[i] \in Els(out) /\ new[j] = e
      BY <1>1, <2>1, <2>3 DEF Els
    <3> QED
      BY <1>4, <3>1
  <2> QED
    BY <2>1, <2>2, <2>3
<1>6. \A x \in Els(new), y \in Els(c) \cup Els(d) :
        x # y /\ ~ Precedes(y, x) /\ (~ keep_all_versions => x.key < y.key)
  <2> SUFFICES ASSUME NEW x \in Els(new), NEW y \in Els(c) \cup Els(d)
               PROVE  x # y /\ ~ Precedes(y, x) /\ (~ keep_all_versions => x.key < y.key)
    OBVIOUS
  <2>1. y \in Els(a) \cup Els(b)
    OBVIOUS
  <2>2. CASE x = e
    BY <2>2
  <2>3. CASE x \in Els(out)
    BY <2>1, <2>3 DEF MergeParts
  <2> QED
    BY <1>2, <2>2, <2>3
<1>7. \A x \in Merge!Wanted : x \in Els(new) \cup Els(c) \cup Els(d)
  <2> SUFFICES ASSUME NEW x \in Merge!Wanted
               PROVE  x \in Els(new) \cup Els(c) \cup Els(d)
    OBVIOUS
  <2>1. x \in Els(out) \/ x \in Els(a) \cup Els(b)
    BY DEF MergeParts
  <2>2. x \in Els(out) \/ x = e \/ x \in Els(c) \cup Els(d)
    BY <2>1
  <2> QED
    BY <1>2, <2>2
<1>8. Els(c) \subseteq Els(sources.a) /\ Els(d) \subseteq Els(sources.b)
  BY DEF MergeParts
<1>9. new \in Seq(Merge!Wanted) /\ DOMAIN new = 1..(n + 1)
  BY <1>1
<1>10. MergeParts(c, d, new)
  BY <1>5, <1>6, <1>7, <1>8, <1>9 DEF MergeParts
<1> QED
  BY <1>10 DEF new

\* The head that choose_it_a takes is wanted and nothing left comes before it.
LEMMA ChosenHead ==
  ASSUME MergeInv, ~ Merge!is_end,
         NEW e, e = IF choose_a THEN it_a[1] ELSE it_b[1],
         NEW c, c = IF choose_a THEN Tail(it_a) ELSE it_a,
         NEW d, d = IF choose_a THEN it_b ELSE Tail(it_b)
  PROVE  MergeParts(c, d, Append(output, e))
<1> DEFINE A == Els(it_a)
           B == Els(it_b)
<1>1. /\ MergeFacts /\ MergeParts(it_a, it_b, output) /\ HeadsApart(it_a, it_b)
      /\ choose_a = Merge!choose_it_a(it_a, it_b)
      /\ Lists(it_a, Merge!Entries("a")) /\ Lists(it_b, Merge!Entries("b"))
  BY DEF MergeInv, MergeParts
<1>2. it_a # << >> =>
        /\ it_a[1] \in A /\ A = {it_a[1]} \cup Els(Tail(it_a))
        /\ \A x \in Els(Tail(it_a)) : Precedes(it_a[1], x) /\ x # it_a[1]
        /\ Lists(Tail(it_a), Merge!Entries("a"))
  BY <1>1, HeadAndTail, MergeEntries
<1>3. it_b # << >> =>
        /\ it_b[1] \in B /\ B = {it_b[1]} \cup Els(Tail(it_b))
        /\ \A x \in Els(Tail(it_b)) : Precedes(it_b[1], x) /\ x # it_b[1]
        /\ Lists(Tail(it_b), Merge!Entries("b"))
  BY <1>1, HeadAndTail, MergeEntries
<1>4. /\ it_a = << >> => A = {}
      /\ it_b = << >> => B = {}
  BY DEF Els
<1>5. /\ \A x \in A : x \in Els(sources.a) /\ x.src = "a" /\ x.key \in Nat /\ x.id \in Nat
      /\ \A x \in B : x \in Els(sources.b) /\ x.src = "b" /\ x.key \in Nat /\ x.id \in Nat
  <2>1. A \subseteq Merge!Entries("a") /\ B \subseteq Merge!Entries("b")
    BY <1>1, ListedElements
  <2>2. \A x \in Merge!Entries("a") : x.src = "a" /\ x.key \in Nat /\ x.id \in Nat
    BY MergeEntries DEF Placed
  <2>3. \A x \in Merge!Entries("b") : x.src = "b" /\ x.key \in Nat /\ x.id \in Nat
    BY MergeEntries DEF Placed
  <2> QED
    BY <1>1, <2>1, <2>2, <2>3 DEF MergeParts
<1>6. ~ keep_all_versions =>
        /\ \A x, y \in A : x.key = y.key => x = y
        /\ \A x, y \in B : x.key = y.key => x = y
  BY <1>1, <1>5 DEF MergeFacts
<1>7. ~ (it_a = << >> /\ it_b = << >>)
  BY DEF Merge!is_end
<1>8. keep_all_versions =>
        /\ it_a # << >> => Merge!get_tranc_id(it_a) = it_a[1].id
        /\ it_b # << >> => Merge!get_tranc_id(it_b) = it_b[1].id
  BY DEF Merge!get_tranc_id
<1> HIDE DEF A, B
<1>9. CASE choose_a
  <2>1. /\ it_a # << >> /\ e = it_a[1] /\ c = Tail(it_a) /\ d = it_b
        /\ \/ it_b = << >>
           \/ it_a[1].key < it_b[1].key
           \/ /\ it_a[1].key = it_b[1].key
              /\ keep_all_versions => Merge!get_tranc_id(it_a) > Merge!get_tranc_id(it_b)
    BY <1>1, <1>9 DEF Merge!choose_it_a
  <2>2. e \in A /\ A = {e} \cup Els(c) /\ Lists(c, Merge!Entries("a"))
    BY <1>2, <2>1
  <2>3. \A x \in Els(c) :
          e # x /\ ~ Precedes(x, e) /\ (~ keep_all_versions => e.key < x.key)
    <3>1. \A x \in Els(c) : Precedes(e, x) /\ x # e /\ x \in A
      BY <1>2, <2>1, <2>2
    <3> QED
      BY <1>5, <1>6, <2>2, <3>1 DEF Precedes
  <2>4. ASSUME NEW x \in B
        PROVE  e # x /\ ~ Precedes(x, e) /\ (~ keep_all_versions => e.key < x.key)
    <3>1. it_b # << >>
      BY <1>4
    <3>2. it_b[1] \in B /\ (x = it_b[1] \/ Precedes(it_b[1], x))
      BY <1>3, <3>1
    <3>3. \/ e.key < it_b[1].key
          \/ keep_all_versions /\ e.key = it_b[1].key /\ e.id > it_b[1].id
      BY <1>1, <1>8, <2>1, <3>1 DEF HeadsApart, MergeFacts
    <3> QED
      BY <1>5, <2>2, <2>4, <3>2, <3>3 DEF Precedes
  <2>5. e \in Merge!Wanted
    BY <1>5, <2>2, MergeWanted
  <2>6. Lists(d, Merge!Entries("b")) /\ Els(d) = B
    BY <1>1, <2>1 DEF B
  <2>7. MergeParts(it_a, it_b, output) /\ A = Els(it_a) /\ B = Els(it_b)
    BY <1>1 DEF A, B
  <2> QED
    BY <2>2, <2>3, <2>4, <2>5, <2>6, <2>7, MergeDelivers
<1>10. CASE ~ choose_a
  <2>1. /\ it_b # << >> /\ e = it_b[1] /\ c = it_a /\ d = Tail(it_b)
        /\ \/ it_a = << >>
           \/ /\ ~ (it_a[1].key < it_b[1].key)
              /\ \/ it_a[1].key # it_b[1].key
                 \/ /\ keep_all_versions
                    /\ ~ (Merge!get_tranc_id(it_a) > Merge!get_tranc_id(it_b))
    BY <1>1, <1>7, <1>10 DEF Merge!choose_it_a
  <2>2. e \in B /\ B = {e} \cup Els(d) /\ Lists(d, Merge!Entries("b"))
    BY <1>3, <2>1
  <2>3. \A x \in Els(d) :
          e # x /\ ~ Precedes(x, e) /\ (~ keep_all_versions => e.key < x.key)
    <3>1. \A x \in Els(d) : Precedes(e, x) /\ x # e /\ x \in B
      BY <1>3, <2>1, <2>2
    <3> QED
      BY <1>5, <1>6, <2>2, <3>1 DEF Precedes
  <2>4. ASSUME NEW x \in A
        PROVE  e # x /\ ~ Precedes(x, e) /\ (~ keep_all_versions => e.key < x.key)
    <3>1. it_a # << >>
      BY <1>4
    <3>2. it_a[1] \in A /\ (x = it_a[1] \/ Precedes(it_a[1], x))
      BY <1>2, <3>1
    <3>3. \/ e.key < it_a[1].key
          \/ keep_all_versions /\ e.key = it_a[1].key /\ ~ (it_a[1].id > e.id)
      BY <1>5, <1>8, <2>1, <2>2, <3>1, <3>2
    <3> QED
      BY <1>5, <2>2, <2>4, <3>2, <3>3 DEF Precedes
  <2>5. e \in Merge!Wanted
    <3>1. ASSUME ~ keep_all_versions, NEW x \in Els(sources.a)
          PROVE  x.key # e.key
      <4>1. x \in Merge!Wanted
        BY <3>1, MergeWanted
      <4>2. x \in Els(output) \/ x \in A \/ x \in B
        BY <1>1, <4>1 DEF MergeParts, A, B
      <4>3. CASE x \in Els(output)
        <5>1. x.key < e.key
          BY <1>1, <2>2, <3>1, <4>3 DEF MergeParts, B
        <5> QED
          BY <5>1, <1>5, <2>2
      <4>4. CASE x \in A
        BY <1>5, <2>2, <2>4, <3>1, <4>4
      <4>5. CASE x \in B
        BY <1>1, <1>5, <3>1, <4>5 DEF MergeFacts
      <4> QED
        BY <4>2, <4>3, <4>4, <4>5
    <3> QED
      BY <1>5, <2>2, <3>1, MergeWanted
  <2>6. Lists(c, Merge!Entries("a")) /\ Els(c) = A
    BY <1>1, <2>1 DEF A
  <2>7. MergeParts(it_a, it_b, output) /\ A = Els(it_a) /\ B = Els(it_b)
    BY <1>1 DEF A, B
  <2> QED
    BY <2>2, <2>3, <2>4, <2>5, <2>6, <2>7, MergeDelivers
<1> QED
  BY <1>9, <1>10

\* operator++ keeps the invariant.
LEMMA MergeStep ==
  ASSUME MergeInv, Merge!Next
  PROVE  MergeInv'
<1> DEFINE e == IF choose_a THEN it_a[1] ELSE it_b[1]
           c == IF choose_a THEN Tail(it_a) ELSE it_a
           d == IF choose_a THEN it_b ELSE Tail(it_b)
           s == Merge!Settled(c, d)
<1>1. /\ ~ Merge!is_end /\ output' = Append(output, e)
      /\ it_a' = s.it_a /\ it_b' = s.it_b /\ choose_a' = s.choose_a
      /\ UNCHANGED <<sources, max_tranc_id, keep_all_versions>>
  BY Zenon DEF Merge!Next
<1>2. MergeParts(c, d, Append(output, e))
  BY <1>1, ChosenHead
<1> HIDE DEF e, c, d
<1>3. /\ MergeParts(it_a', it_b', output') /\ HeadsApart(it_a', it_b')
      /\ choose_a' = Merge!choose_it_a(it_a', it_b')
  BY <1>1, <1>2, MergeSettles DEF MergeInv
<1>4. Merge!Wanted' = Merge!Wanted /\ \A src : (Merge!Entries(src))' = Merge!Entries(src)
  BY <1>1 DEF Merge!Wanted, Merge!Entries
<1>5. MergeParts(it_a, it_b, output)' /\ HeadsApart(it_a, it_b)' /\ MergeFacts'
  BY <1>1, <1>3, <1>4 DEF MergeInv, MergeParts, HeadsApart, MergeFacts
<1>6. (choose_a = Merge!choose_it_a(it_a, it_b))'
  BY <1>1, <1>3 DEF Merge!choose_it_a, Merge!get_tranc_id
<1> QED
  BY <1>5, <1>6 DEF MergeInv

\* The constructor establishes it.
LEMMA MergeStart ==
  ASSUME Merge!Init
  PROVE  MergeInv
<1> DEFINE s == Merge!Settled(sources.a, sources.b)
<1>1. /\ keep_all_versions \in BOOLEAN
      /\ max_tranc_id \in (IF keep_all_versions THEN {0} ELSE Snapshots)
      /\ sources \in [a : Merge!Inputs("a"), b : Merge!Inputs("b")]
      /\ it_a = s.it_a /\ it_b = s.it_b /\ choose_a = s.choose_a
      /\ output = << >>
  BY Zenon DEF Merge!Init
<1>2. sources.a \in Merge!Inputs("a") /\ sources.b \in Merge!Inputs("b")
  BY <1>1
<1>3. MergeFacts
  <2>1. max_tranc_id \in Nat /\ (keep_all_versions => max_tranc_id = 0)
    BY <1>1, ScanAssumption
  <2>2. \A e \in Els(sources.a) : e.src = "a"
    BY <1>2, MergeInputs, ListedElements, MergeEntries
  <2> QED
    BY <1>1, <1>2, <2>1, <2>2, MergeInputs DEF MergeFacts
<1>4. MergeParts(sources.a, sources.b, output)
  <2>1. output \in Seq(Merge!Wanted) /\ DOMAIN output = {} /\ Els(output) = {}
    BY <1>1 DEF Els
  <2>2. Lists(sources.a, Merge!Entries("a")) /\ Lists(sources.b, Merge!Entries("b"))
    BY <1>2, MergeInputs
  <2>3. \A e \in Merge!Wanted : e \in Els(sources.a) \/ e \in Els(sources.b)
    BY MergeWanted
  <2> QED
    BY <2>1, <2>2, <2>3 DEF MergeParts
<1> HIDE DEF s
<1> QED
  BY <1>1, <1>3, <1>4, MergeSettles DEF MergeInv, s

\* The merge always knows what is left of both sources.
LEMMA MergeInvariant == ReadSpec => [](kind = "merge" => MergeInv)
<1> DEFINE Inv == kind = "merge" => MergeInv
<1>1. ReadInit => Inv
  BY MergeStart DEF ReadInit
<1>2. Inv /\ [ReadNext]_read_vars => Inv'
  <2> SUFFICES ASSUME Inv, [ReadNext]_read_vars, kind' = "merge"
               PROVE  MergeInv'
    OBVIOUS
  <2>1. kind = "merge" /\ MergeInv
    BY DEF ReadNext, read_vars, scan_vars
  <2>2. CASE UNCHANGED <<sources, it_a, it_b, choose_a, max_tranc_id, keep_all_versions, output>>
    <3>1. Merge!Wanted' = Merge!Wanted /\ \A src : (Merge!Entries(src))' = Merge!Entries(src)
      BY <2>2 DEF Merge!Wanted, Merge!Entries
    <3>2. (choose_a = Merge!choose_it_a(it_a, it_b))'
      BY <2>1, <2>2 DEF MergeInv, Merge!choose_it_a, Merge!get_tranc_id
    <3> QED
      BY <2>1, <2>2, <3>1, <3>2 DEF MergeInv, MergeParts, HeadsApart, MergeFacts
  <2>3. CASE Merge!Next
    BY <2>1, <2>3, MergeStep
  <2> QED
    BY <2>1, <2>2, <2>3 DEF ReadNext, read_vars, scan_vars, merge
<1> QED
  BY <1>1, <1>2, PTL DEF ReadSpec

\* TwoMergeIterator delivers in order, nothing twice and nothing outdated, and at
\* its end everything wanted, for any two sorted sources of finitely many entries.
THEOREM MergeDeliversWanted ==
  ReadSpec => [](kind = "merge" => Merge!MergeDeliversOnlyWanted /\ Merge!MergeComplete)
<1>1. MergeInv => Merge!MergeDeliversOnlyWanted /\ Merge!MergeComplete
  <2> SUFFICES ASSUME MergeInv
               PROVE  Merge!MergeDeliversOnlyWanted /\ Merge!MergeComplete
    OBVIOUS
  <2>1. MergeParts(it_a, it_b, output) /\ output \in Seq(Merge!Wanted)
    BY DEF MergeInv, MergeParts
  <2>2. Merge!ToSet(output) \subseteq Merge!Wanted
    BY <2>1 DEF Merge!ToSet
  <2>3. DOMAIN output = 1..Len(output) /\ Len(output) \in Nat
    BY <2>1
  <2>4. Merge!IsInjective(output)
    <3> SUFFICES ASSUME NEW i \in DOMAIN output, NEW j \in DOMAIN output, i # j
                 PROVE  output[i] # output[j]
      BY DEF Merge!IsInjective
    <3>1. i < j \/ j < i
      BY <2>3
    <3> QED
      BY <2>1, <3>1 DEF MergeParts
  <2>5. \A i, j \in DOMAIN output : i < j => ~ Merge!Before(output[j], output[i])
    BY <2>1 DEF MergeParts, Merge!Before, Precedes
  <2>6. Merge!MergeComplete
    <3> SUFFICES ASSUME Merge!is_end, NEW e \in Merge!Wanted
                 PROVE  e \in Merge!ToSet(output)
      BY DEF Merge!MergeComplete
    <3>1. Els(it_a) = {} /\ Els(it_b) = {}
      BY DEF Merge!is_end, Els
    <3> QED
      BY <2>1, <3>1 DEF MergeParts, Merge!ToSet, Els
  <2> QED
    BY <2>2, <2>4, <2>5, <2>6 DEF Merge!MergeDeliversOnlyWanted
<1> QED
  BY <1>1, MergeInvariant, PTL

-----------------------------------------------------------------------------
\* Loops that move ahead, and HeapIterator.

\* A loop over 1..n that stops where stop says so and otherwise goes on at next.
Loop(n, stop, next) ==
  /\ n \in Nat /\ stop \in [1..n -> BOOLEAN]
  /\ \A j \in 1..n : ~ stop[j] => next[j] \in 1..n /\ next[j] > j

\* f[j] is where the loop stops that begins at j, for all j from m on.
StopsAt(f, m, n, stop, next) == f = [j \in m..n |-> IF stop[j] THEN j ELSE f[next[j]]]

\* A loop that only moves ahead has such a function.
LEMMA LoopEnds ==
  ASSUME NEW n, NEW stop, NEW next, Loop(n, stop, next)
  PROVE  \E f : StopsAt(f, 1, n, stop, next)
<1> DEFINE Has(m) == \E f : StopsAt(f, m, n, stop, next)
           Bad == {k \in Nat : k <= n /\ ~ Has(n + 1 - k)}
<1>1. n \in Nat
  BY DEF Loop
<1>2. Has(n + 1)
  <2> DEFINE f == [j \in (n + 1)..n |-> j]
  <2>1. (n + 1)..n = {}
    BY <1>1
  <2>2. StopsAt(f, n + 1, n, stop, next)
    BY <2>1 DEF StopsAt
  <2> QED
    BY <2>2
<1>3. ASSUME NEW m \in 1..n, Has(m + 1)
      PROVE  Has(m)
  <2>1. PICK f : StopsAt(f, m + 1, n, stop, next)
    BY <1>3
  <2> DEFINE g == [j \in m..n |->
                     IF j = m THEN (IF stop[m] THEN m ELSE f[next[m]]) ELSE f[j]]
  <2>2. ASSUME NEW j \in m..n
        PROVE  g[j] = IF stop[j] THEN j ELSE g[next[j]]
    <3>1. j \in 1..n /\ (~ stop[j] => next[j] \in (m + 1)..n /\ next[j] # m)
      BY <1>1, <1>3, <2>2 DEF Loop
    <3>2. \A k \in (m + 1)..n : k \in m..n /\ k # m
      BY <1>1, <1>3
    <3>3. ~ stop[j] => g[next[j]] = f[next[j]]
      BY <3>1, <3>2
    <3>4. CASE j = m
      BY <3>3, <3>4
    <3>5. CASE j # m
      <4>1. j \in (m + 1)..n
        BY <1>1, <1>3, <3>5
      <4>2. f[j] = IF stop[j] THEN j ELSE f[next[j]]
        BY <2>1, <4>1 DEF StopsAt
      <4> QED
        BY <3>3, <3>5, <4>2
    <3> QED
      BY <3>4, <3>5
  <2>3. g = [j \in m..n |-> g[j]]
    OBVIOUS
  <2> HIDE DEF g
  <2>4. StopsAt(g, m, n, stop, next)
    BY <2>2, <2>3 DEF StopsAt
  <2> QED
    BY <2>4
<1> HIDE DEF Has
<1>4. Bad = {}
  <2> SUFFICES ASSUME Bad # {}
               PROVE  FALSE
    OBVIOUS
  <2>1. PICK k \in Bad : \A q \in Bad : k <= q
    BY LeastExists
  <2>2. k \in Nat /\ k <= n /\ ~ Has(n + 1 - k)
    OBVIOUS
  <2>3. k # 0
    <3>1. n + 1 - 0 = n + 1
      BY <1>1
    <3> QED
      BY <1>2, <2>2, <3>1
  <2> DEFINE m == n + 1 - k
  <2>4. m \in 1..n /\ k - 1 \in Nat /\ k - 1 <= n /\ n + 1 - (k - 1) = m + 1 /\ ~ (k <= k - 1)
    BY <1>1, <2>2, <2>3
  <2>5. Has(m + 1)
    BY <2>1, <2>4
  <2> QED
    BY <1>3, <2>2, <2>4, <2>5
<1>5. CASE n = 0
  BY <1>1, <1>2, <1>5 DEF Has
<1>6. CASE n # 0
  <2>1. n \in Nat /\ n <= n /\ n + 1 - n = 1
    BY <1>1
  <2>2. Has(1)
    BY <1>4, <2>1
  <2> QED
    BY <2>2 DEF Has
<1> QED
  BY <1>5, <1>6

\* What the iterations of a loop keep holds where it stops.
LEMMA LoopKeeps ==
  ASSUME NEW n, NEW stop, NEW next, Loop(n, stop, next),
         NEW f, StopsAt(f, 1, n, stop, next),
         NEW S \in SUBSET (1..n), \A j \in S : ~ stop[j] => next[j] \in S,
         NEW i \in S
  PROVE  f[i] \in S /\ stop[f[i]] /\ f[i] >= i
<1> DEFINE Good(j) == f[j] \in S /\ stop[f[j]] /\ f[j] >= j
           Bad == {k \in Nat : k <= n /\ n - k \in S /\ ~ Good(n - k)}
<1>1. n \in Nat /\ \A j \in S : j \in 1..n
  BY DEF Loop
<1>2. \A j \in S : f[j] = IF stop[j] THEN j ELSE f[next[j]]
  BY DEF StopsAt
<1>3. \A j \in S : ~ stop[j] => next[j] \in S /\ next[j] > j
  BY DEF Loop
<1>4. Bad = {}
  <2> SUFFICES ASSUME Bad # {}
               PROVE  FALSE
    OBVIOUS
  <2>1. Bad \in SUBSET Nat
    OBVIOUS
  <2>2. PICK k \in Bad : \A q \in Bad : k <= q
    BY <2>1, LeastExists
  <2> DEFINE j == n - k
  <2>3. k \in Nat /\ k <= n /\ j \in S /\ ~ Good(j)
    BY <2>2
  <2> HIDE DEF Good
  <2>4. CASE stop[j]
    <3>1. f[j] = j
      BY <1>2, <2>3, <2>4
    <3>2. j >= j
      BY <1>1, <2>3
    <3> QED
      BY <2>3, <2>4, <3>1, <3>2 DEF Good
  <2>5. CASE ~ stop[j]
    <3> DEFINE m == next[j]
    <3>1. m \in S /\ m > j /\ f[j] = f[m] /\ m \in 1..n /\ j \in 1..n
      BY <1>1, <1>2, <1>3, <2>3, <2>5
    <3> HIDE DEF m
    <3>2. n - m \in Nat /\ n - m <= n /\ n - (n - m) = m /\ ~ (k <= n - m)
      BY <1>1, <2>3, <3>1
    <3>3. Good(m)
      BY <2>2, <3>1, <3>2
    <3>4. f[m] \in 1..n
      BY <1>1, <3>3 DEF Good
    <3> QED
      BY <2>3, <3>1, <3>3, <3>4 DEF Good
  <2> QED
    BY <2>4, <2>5
<1> HIDE DEF Good
<1>5. n - i \in Nat /\ n - i <= n /\ n - (n - i) = i
  BY <1>1
<1>6. Good(i)
  BY <1>4, <1>5
<1> QED
  BY <1>6 DEF Good

\* The first of some places from i on.
LEMMA FirstFound ==
  ASSUME NEW n \in Nat, NEW i \in 1..(n + 1), NEW F \in SUBSET (i..n), NEW p,
         p = IF F = {} THEN n + 1 ELSE CHOOSE j \in F : \A k \in F : j <= k
  PROVE  p \in i..(n + 1) /\ (p # n + 1 => p \in F) /\ \A j \in i..(p - 1) : j \notin F
<1>1. CASE F = {}
  BY <1>1
<1>2. CASE F # {}
  <2>1. F \in SUBSET Nat
    OBVIOUS
  <2>2. \E j \in F : \A k \in F : j <= k
    BY <1>2, <2>1, LeastExists
  <2>3. p = CHOOSE j \in F : \A k \in F : j <= k
    BY <1>2
  <2>4. p \in F /\ \A k \in F : p <= k
    BY <2>2, <2>3, Zenon
  <2>5. p \in i..n
    BY <2>4
  <2>6. \A j \in i..(p - 1) : ~ (p <= j)
    BY <2>5
  <2>7. p \in i..(n + 1)
    BY <2>5
  <2> QED
    BY <2>4, <2>6, <2>7
<1> QED
  BY <1>1, <1>2

\* The queue hands out its items by ascending key and never one that another still
\* in it would come before.
HeapFacts ==
  /\ max_tranc_id \in Nat /\ skip_delete \in BOOLEAN /\ keep_all_versions \in BOOLEAN
  /\ Len(items) \in Nat /\ DOMAIN items = 1..Len(items)
  /\ \A i \in DOMAIN items : items[i].key \in Nat /\ items[i].id \in Nat
  /\ \A i, j \in DOMAIN items :
       i < j => items[i].key <= items[j].key /\ ~ Heap!Greater(items[i], items[j])

\* No visible version that has been popped hides the top.
Clean(j) ==
  ~ keep_all_versions /\ j # Heap!End =>
    \A v \in 1..(j - 1) : Heap!Visible(items[v]) => items[v].key # items[j].key

\* Item p is to be delivered.
Due(p) == Heap!Current(p) /\ (skip_delete => items[p].value # Deleted)

\* The scan may be complete: deletions are kept or everything is visible.
AllSeen == skip_delete => \A i \in DOMAIN items : Heap!Visible(items[i])

\* What is due before j is in O.
Done(j, O) == \A p \in 1..(j - 1) : Due(p) => items[p] \in O

\* The places the loops may be at while O has been delivered.
Places(O) == {j \in 1..Heap!End : Clean(j) /\ (AllSeen => Done(j, O))}

\* The loop over invisible items stops at a visible one.
LEMMA SkipInvisible ==
  ASSUME HeapFacts, NEW i \in 1..Heap!End, NEW p, p = Heap!skip_by_tranc_id(i)
  PROVE  /\ p \in i..Heap!End /\ (p # Heap!End => Heap!Visible(items[p]))
         /\ \A j \in i..(p - 1) : ~ Heap!Visible(items[j])
<1> DEFINE n == Len(items)
           F == {j \in i..n : Heap!Visible(items[j])}
<1>1. Heap!End = n + 1 /\ n \in Nat
  BY DEF Heap!End, HeapFacts
<1>2. p = IF F = {} THEN n + 1 ELSE CHOOSE j \in F : \A k \in F : j <= k
  BY <1>1 DEF Heap!skip_by_tranc_id, Heap!FirstFrom
<1>3. F \in SUBSET (i..n)
  OBVIOUS
<1> HIDE DEF n, F
<1>4. p \in i..(n + 1) /\ (p # n + 1 => p \in F) /\ \A j \in i..(p - 1) : j \notin F
  BY <1>1, <1>2, <1>3, FirstFound
<1>5. \A j \in i..(p - 1) : j \in i..n
  BY <1>1, <1>4
<1> QED
  BY <1>1, <1>4, <1>5 DEF F

\* The loop over the items of a key stops at another key.
LEMMA SkipKeyItems ==
  ASSUME HeapFacts, NEW i \in 1..Len(items), NEW p, p = Heap!PastKey(i)
  PROVE  /\ p \in (i + 1)..Heap!End /\ (p # Heap!End => items[p].key # items[i].key)
         /\ \A j \in i..(p - 1) : items[j].key = items[i].key
<1> DEFINE n == Len(items)
           F == {j \in i..n : items[j].key # items[i].key}
<1>1. Heap!End = n + 1 /\ n \in Nat
  BY DEF Heap!End, HeapFacts
<1>2. p = IF F = {} THEN n + 1 ELSE CHOOSE j \in F : \A k \in F : j <= k
  BY <1>1 DEF Heap!PastKey, Heap!FirstFrom
<1>3. F \in SUBSET (i..n) /\ i \notin F /\ i \in 1..(n + 1)
  BY <1>1
<1> HIDE DEF n, F
<1>4. p \in i..(n + 1) /\ (p # n + 1 => p \in F) /\ \A j \in i..(p - 1) : j \notin F
  BY <1>1, <1>2, <1>3, FirstFound
<1>5. \A j \in i..(p - 1) : j \in i..n
  BY <1>1, <1>4
<1>6. p # i
  <2>1. i # n + 1
    BY <1>1 DEF n
  <2> QED
    BY <1>3, <1>4, <2>1
<1>7. p \in (i + 1)..(n + 1)
  BY <1>1, <1>3, <1>4, <1>6
<1> QED
  BY <1>1, <1>4, <1>5, <1>7 DEF F

\* Popping invisible items leaves the loops at one of their places.
LEMMA InvisibleKeepsPlace ==
  ASSUME HeapFacts, NEW O, NEW i \in Places(O)
  PROVE  Heap!skip_by_tranc_id(i) \in Places(O)
<1> DEFINE p == Heap!skip_by_tranc_id(i)
           n == Len(items)
<1>1. i \in 1..Heap!End /\ Clean(i) /\ (AllSeen => Done(i, O))
  BY DEF Places
<1>2. /\ p \in i..Heap!End /\ (p # Heap!End => Heap!Visible(items[p]))
      /\ \A j \in i..(p - 1) : ~ Heap!Visible(items[j])
  BY <1>1, SkipInvisible
<1>3. Heap!End = n + 1 /\ n \in Nat
  BY DEF Heap!End, HeapFacts
<1> HIDE DEF p, n
<1>4. p \in 1..Heap!End /\ p \in 1..(n + 1) /\ i \in 1..(n + 1) /\ i <= p
  BY <1>1, <1>2, <1>3
<1>5. \A v \in 1..(p - 1) : v \in 1..(i - 1) \/ v \in i..(p - 1)
  BY <1>4
<1>6. Clean(p)
  <2> SUFFICES ASSUME ~ keep_all_versions, p # Heap!End,
                      NEW v \in 1..(p - 1), Heap!Visible(items[v])
               PROVE  items[v].key # items[p].key
    BY DEF Clean
  <2>1. v \in 1..(i - 1)
    BY <1>2, <1>5
  <2>2. i \in 1..n /\ p \in 1..n /\ v \in 1..n /\ v < i /\ i # Heap!End
    BY <1>3, <1>4, <2>1
  <2>3. items[v].key # items[i].key
    BY <1>1, <2>1, <2>2 DEF Clean
  <2>4. \A j \in 1..n : items[j].key \in Nat
    BY DEF HeapFacts, n
  <2>5. items[v].key <= items[i].key
    BY <2>2 DEF HeapFacts, n
  <2>6. i = p \/ items[i].key <= items[p].key
    BY <1>4, <2>2 DEF HeapFacts, n
  <2> QED
    BY <2>2, <2>3, <2>4, <2>5, <2>6
<1>7. ASSUME AllSeen
      PROVE  Done(p, O)
  <2> SUFFICES ASSUME NEW v \in 1..(p - 1), Due(v)
               PROVE  items[v] \in O
    BY DEF Done
  <2>1. v \in 1..(i - 1)
    BY <1>2, <1>5 DEF Due, Heap!Current
  <2> QED
    BY <1>1, <1>7, <2>1 DEF Done
<1>8. p \in Places(O)
  BY <1>4, <1>6, <1>7 DEF Places
<1> QED
  BY <1>8 DEF p

\* Popping the items of a key, or one item where all versions are kept, leaves the
\* loops at one of their places if nothing due is popped but i, which is in O.
LEMMA PoppedKeepsPlace ==
  ASSUME HeapFacts, NEW O, NEW i \in Places(O), i # Heap!End,
         NEW p, p = IF keep_all_versions THEN i + 1 ELSE Heap!PastKey(i),
         AllSeen => Heap!Visible(items[i]) /\ (Due(i) => items[i] \in O)
  PROVE  p \in Places(O) /\ p > i
<1> DEFINE n == Len(items)
<1>1. i \in 1..Heap!End /\ Clean(i) /\ (AllSeen => Done(i, O))
  BY DEF Places
<1>2. Heap!End = n + 1 /\ n \in Nat
  BY DEF Heap!End, HeapFacts
<1>3. i \in 1..n
  BY <1>1, <1>2
<1>4. \A j \in 1..n : items[j].key \in Nat
  BY DEF HeapFacts
<1>5. CASE keep_all_versions
  <2>1. p = i + 1 /\ p \in 1..Heap!End /\ p > i
    BY <1>2, <1>3, <1>5
  <2>2. \A v \in 1..(p - 1) : v \in 1..(i - 1) \/ v = i
    BY <1>3, <2>1
  <2>3. AllSeen => Done(p, O)
    BY <1>1, <2>2 DEF Done
  <2>4. Clean(p)
    BY <1>5 DEF Clean
  <2> QED
    BY <2>1, <2>3, <2>4 DEF Places
<1>6. CASE ~ keep_all_versions
  <2>1. /\ p \in (i + 1)..Heap!End /\ (p # Heap!End => items[p].key # items[i].key)
        /\ \A j \in i..(p - 1) : items[j].key = items[i].key
    BY <1>3, <1>6, SkipKeyItems
  <2> HIDE DEF n
  <2>2. p \in 1..Heap!End /\ p \in 1..(n + 1) /\ p > i
    BY <1>2, <1>3, <2>1
  <2>3. \A v \in 1..(p - 1) : v \in 1..(i - 1) \/ v \in i..(p - 1)
    BY <1>3, <2>2
  <2>4. Clean(p)
    <3> SUFFICES ASSUME p # Heap!End, NEW v \in 1..(p - 1)
                 PROVE  items[v].key # items[p].key
      BY DEF Clean
    <3>1. p \in 1..n /\ v \in 1..n /\ (v \in 1..(i - 1) => v < i)
      BY <1>2, <1>3, <2>2
    <3>2. items[v].key <= items[i].key
      <4>1. CASE v \in 1..(i - 1)
        BY <1>3, <3>1, <4>1 DEF HeapFacts, n
      <4>2. CASE v \in i..(p - 1)
        BY <1>3, <1>4, <2>1, <4>2
      <4> QED
        BY <2>3, <4>1, <4>2
    <3>3. items[i].key <= items[p].key /\ items[p].key # items[i].key
      BY <1>3, <2>1, <2>2, <3>1 DEF HeapFacts, n
    <3> QED
      BY <1>3, <1>4, <3>1, <3>2, <3>3
  <2>5. ASSUME AllSeen
        PROVE  Done(p, O)
    <3> SUFFICES ASSUME NEW v \in 1..(p - 1), Due(v)
                 PROVE  items[v] \in O
      BY DEF Done
    <3>1. CASE v \in 1..(i - 1)
      BY <1>1, <2>5, <3>1 DEF Done
    <3>2. CASE v \in i..(p - 1) /\ v # i
      <4>1. items[v].key = items[i].key /\ i \in 1..(v - 1)
        BY <1>3, <2>1, <2>2, <3>2
      <4> QED
        BY <1>6, <2>5, <4>1 DEF Due, Heap!Current
    <3> QED
      BY <2>3, <2>5, <3>1, <3>2
  <2> QED
    BY <2>2, <2>4, <2>5 DEF Places
<1> QED
  BY <1>5, <1>6

\* The loop over deletions keeps what its iterations keep and stops behind them.
LEMMA SkipDeletedKeeps ==
  ASSUME HeapFacts, NEW S \in SUBSET (1..Heap!End), NEW i \in S,
         \A j \in S : j # Heap!End /\ items[j].value = Deleted => Heap!PastDeleted(j) \in S
  PROVE  /\ Heap!SkipDeleted(i) \in S /\ Heap!SkipDeleted(i) >= i
         /\ \/ Heap!SkipDeleted(i) = Heap!End
            \/ items[Heap!SkipDeleted(i)].value # Deleted
<1> DEFINE n == Heap!End
           stop == [j \in 1..n |-> j = n \/ items[j].value # Deleted]
           next == [j \in 1..n |-> Heap!PastDeleted(j)]
           g == CHOOSE f : f = [j \in 1..n |-> IF j = n \/ items[j].value # Deleted THEN j
                                                ELSE f[Heap!PastDeleted(j)]]
<1>1. Heap!SkipDeleted(i) = g[i]
  BY DEF Heap!SkipDeleted
<1>2. Len(items) \in Nat /\ n = Len(items) + 1
  BY DEF Heap!End, HeapFacts
<1>3. Loop(n, stop, next)
  <2>1. ASSUME NEW j \in 1..n, ~ stop[j]
        PROVE  next[j] \in 1..n /\ next[j] > j
    <3>1. j \in 1..Len(items) /\ next[j] = Heap!PastDeleted(j)
      <4>1. j # n /\ next[j] = Heap!PastDeleted(j)
        BY <2>1
      <4> HIDE DEF n
      <4> QED
        BY <1>2, <2>1, <4>1
    <3>2. CASE keep_all_versions
      BY <1>2, <3>1, <3>2 DEF Heap!PastDeleted
    <3>3. CASE ~ keep_all_versions
      <4>1. Heap!PastDeleted(j) = Heap!PastKey(j)
        BY <3>3 DEF Heap!PastDeleted
      <4>2. Heap!PastKey(j) \in (j + 1)..n
        BY <3>1, SkipKeyItems
      <4> QED
        BY <1>2, <3>1, <4>1, <4>2
    <3> QED
      BY <3>2, <3>3
  <2>2. stop \in [1..n -> BOOLEAN] /\ n \in Nat
    BY <1>2
  <2> HIDE DEF stop, next
  <2> QED
    BY <2>1, <2>2 DEF Loop
<1>4. \A f : StopsAt(f, 1, n, stop, next) <=>
               f = [j \in 1..n |-> IF j = n \/ items[j].value # Deleted THEN j
                                    ELSE f[Heap!PastDeleted(j)]]
  <2> SUFFICES ASSUME NEW f
               PROVE  [j \in 1..n |-> IF stop[j] THEN j ELSE f[next[j]]] =
                        [j \in 1..n |-> IF j = n \/ items[j].value # Deleted THEN j
                                         ELSE f[Heap!PastDeleted(j)]]
    BY Zenon DEF StopsAt
  <2> QED
    OBVIOUS
<1>5. StopsAt(g, 1, n, stop, next)
  <2>1. \E f : StopsAt(f, 1, n, stop, next)
    BY <1>3, LoopEnds
  <2>2. \E f : f = [j \in 1..n |-> IF j = n \/ items[j].value # Deleted THEN j
                                    ELSE f[Heap!PastDeleted(j)]]
    BY <1>4, <2>1, Zenon
  <2>3. g = [j \in 1..n |-> IF j = n \/ items[j].value # Deleted THEN j
                             ELSE g[Heap!PastDeleted(j)]]
    BY <2>2, Zenon
  <2> QED
    BY <1>4, <2>3, Zenon
<1>6. \A j \in S : ~ stop[j] => next[j] \in S
  OBVIOUS
<1>7. \A j \in 1..n : stop[j] <=> j = n \/ items[j].value # Deleted
  OBVIOUS
<1> HIDE DEF stop, next, g
<1>8. g[i] \in S /\ stop[g[i]] /\ g[i] >= i
  BY <1>3, <1>5, <1>6, LoopKeeps
<1> QED
  BY <1>1, <1>7, <1>8

\* One iteration of the loop of the constructor and of operator++.
Iteration(j) ==
  IF skip_delete THEN Heap!SkipDeleted(Heap!skip_by_tranc_id(j)) ELSE Heap!skip_by_tranc_id(j)

\* An iteration moves ahead.
LEMMA IterationMoves ==
  ASSUME HeapFacts, NEW j \in 1..Heap!End, ~ Heap!top_value_legal(j)
  PROVE  Iteration(j) \in 1..Heap!End /\ Iteration(j) > j
<1> DEFINE n == Heap!End
           p == Heap!skip_by_tranc_id(j)
           q == Heap!SkipDeleted(p)
<1>1. Len(items) \in Nat /\ n = Len(items) + 1 /\ n \in Nat
  BY DEF Heap!End, HeapFacts
<1>2. p \in j..n /\ (p # n => Heap!Visible(items[p]))
  BY SkipInvisible
<1>3. j # n /\ (Heap!Visible(items[j]) => skip_delete /\ items[j].value = Deleted)
  BY DEF Heap!top_value_legal, HeapFacts
<1>4. p \in 1..n /\ p >= j
  BY <1>1, <1>2
<1>5. ASSUME NEW k \in 1..n, k # n
      PROVE  Heap!PastDeleted(k) \in 1..n
  <2>1. k \in 1..Len(items)
    BY <1>1, <1>5
  <2>2. CASE keep_all_versions
    BY <1>1, <2>1, <2>2 DEF Heap!PastDeleted
  <2>3. CASE ~ keep_all_versions
    <3>1. Heap!PastDeleted(k) = Heap!PastKey(k)
      BY <2>3 DEF Heap!PastDeleted
    <3>2. Heap!PastKey(k) \in (k + 1)..n
      BY <2>1, SkipKeyItems
    <3> QED
      BY <1>1, <2>1, <3>1, <3>2
  <2> QED
    BY <2>2, <2>3
<1>6. q \in 1..n /\ q >= p /\ (q = n \/ items[q].value # Deleted)
  BY <1>4, <1>5, SkipDeletedKeeps
<1>7. skip_delete \in BOOLEAN
  BY DEF HeapFacts
<1> HIDE DEF p, q, n
<1>8. CASE skip_delete
  <2>1. q # j
    BY <1>2, <1>3, <1>4, <1>6
  <2>2. Iteration(j) = q
    BY <1>8 DEF Iteration, p, q
  <2> QED
    BY <1>1, <1>4, <1>6, <2>1, <2>2 DEF n
<1>9. CASE ~ skip_delete
  <2>1. p # j
    BY <1>2, <1>3, <1>9
  <2>2. Iteration(j) = p
    BY <1>9 DEF Iteration, p
  <2> QED
    BY <1>1, <1>4, <2>1, <2>2 DEF n
<1> QED
  BY <1>7, <1>8, <1>9

\* The loop stops at a legal top and keeps what its iterations keep.
LEMMA SettleKeeps ==
  ASSUME HeapFacts, NEW S \in SUBSET (1..Heap!End), NEW i \in S,
         \A j \in S : ~ Heap!top_value_legal(j) => Iteration(j) \in S
  PROVE  Heap!Settle(i) \in S /\ Heap!top_value_legal(Heap!Settle(i))
<1> DEFINE n == Heap!End
           stop == [j \in 1..n |-> Heap!top_value_legal(j)]
           next == [j \in 1..n |-> Iteration(j)]
           Def(f) == [j \in 1..n |->
                        IF Heap!top_value_legal(j) THEN j
                        ELSE IF skip_delete
                             THEN f[Heap!SkipDeleted(Heap!skip_by_tranc_id(j))]
                        ELSE f[Heap!skip_by_tranc_id(j)]]
           g == CHOOSE f : f = Def(f)
<1>1. Heap!Settle(i) = g[i]
  BY DEF Heap!Settle
<1>2. n \in Nat
  BY DEF Heap!End, HeapFacts
<1>3. stop \in [1..n -> BOOLEAN]
  BY DEF Heap!top_value_legal, Heap!Visible
<1>4. Loop(n, stop, next)
  <2>1. \A j \in 1..n : ~ stop[j] => next[j] \in 1..n /\ next[j] > j
    BY IterationMoves
  <2> HIDE DEF stop, next
  <2> QED
    BY <1>2, <1>3, <2>1 DEF Loop
<1>5. \A f : StopsAt(f, 1, n, stop, next) <=> f = Def(f)
  <2> SUFFICES ASSUME NEW f
               PROVE  [j \in 1..n |-> IF stop[j] THEN j ELSE f[next[j]]] = Def(f)
    BY Zenon DEF StopsAt
  <2> SUFFICES ASSUME NEW j \in 1..n
               PROVE  (IF stop[j] THEN j ELSE f[next[j]]) = Def(f)[j]
    OBVIOUS
  <2>1. stop[j] = Heap!top_value_legal(j) /\ next[j] = Iteration(j)
    OBVIOUS
  <2>2. skip_delete \in BOOLEAN
    BY DEF HeapFacts
  <2> QED
    BY <2>1, <2>2 DEF Iteration
<1> HIDE DEF Def
<1>6. StopsAt(g, 1, n, stop, next)
  <2>1. \E f : StopsAt(f, 1, n, stop, next)
    BY <1>4, LoopEnds
  <2>2. \E f : f = Def(f)
    BY <1>5, <2>1, Zenon
  <2>3. g = Def(g)
    BY <2>2, Zenon
  <2> QED
    BY <1>5, <2>3, Zenon
<1>7. /\ \A j \in S : ~ stop[j] => next[j] \in S
      /\ \A j \in 1..n : stop[j] = Heap!top_value_legal(j)
  OBVIOUS
<1> HIDE DEF stop, next, g
<1>8. g[i] \in S /\ stop[g[i]]
  BY <1>4, <1>6, <1>7, LoopKeeps
<1> QED
  BY <1>1, <1>7, <1>8

\* An iteration leaves the loops at one of their places.
LEMMA IterationKeepsPlace ==
  ASSUME HeapFacts, NEW O, NEW j \in Places(O)
  PROVE  Iteration(j) \in Places(O)
<1>1. Places(O) \in SUBSET (1..Heap!End)
  BY DEF Places
<1>2. ASSUME NEW k \in Places(O), skip_delete, k # Heap!End, items[k].value = Deleted
      PROVE  Heap!PastDeleted(k) \in Places(O)
  <2>1. ~ Due(k) /\ k \in DOMAIN items
    BY <1>1, <1>2 DEF Due, HeapFacts, Heap!End
  <2>2. AllSeen => Heap!Visible(items[k])
    BY <1>2, <2>1 DEF AllSeen
  <2>3. Heap!PastDeleted(k) = IF keep_all_versions THEN k + 1 ELSE Heap!PastKey(k)
    BY DEF Heap!PastDeleted
  <2> QED
    BY <1>2, <2>1, <2>2, <2>3, PoppedKeepsPlace
<1>3. Heap!skip_by_tranc_id(j) \in Places(O)
  BY InvisibleKeepsPlace
<1>4. skip_delete => Heap!SkipDeleted(Heap!skip_by_tranc_id(j)) \in Places(O)
  BY <1>1, <1>2, <1>3, SkipDeletedKeeps
<1>5. skip_delete \in BOOLEAN
  BY DEF HeapFacts
<1> QED
  BY <1>3, <1>4, <1>5 DEF Iteration

\* The loops end at one of their places, with a legal top.
LEMMA SettleKeepsPlace ==
  ASSUME HeapFacts, NEW O, NEW i \in Places(O)
  PROVE  Heap!Settle(i) \in Places(O) /\ Heap!top_value_legal(Heap!Settle(i))
<1>1. Places(O) \in SUBSET (1..Heap!End)
  BY DEF Places
<1> QED
  BY <1>1, IterationKeepsPlace, SettleKeeps

\* The instance counts as everybody else.
LEMMA HeapCardinality == \A S : Heap!Cardinality(S) = Cardinality(S)
BY DEF Heap!Cardinality, Cardinality

\* The versions of a set of tables: a newer table holds no smaller id of a key, and
\* a table holds a key and an id once.
AreVersions(T) ==
  /\ \A x \in T : x.key \in Nat /\ x.id \in Nat /\ x.idx \in Nat
  /\ \A x, y \in T : x.key = y.key /\ x.idx < y.idx => x.id >= y.id
  /\ \A x, y \in T : x.key = y.key /\ x.id = y.id /\ x.idx = y.idx => x = y

\* There are finitely many slots for versions.
LEMMA SlotsFinite == IsFiniteSet([key : ScanKeys, id : Ids, idx : Tables])
<1> DEFINE slots == [key : ScanKeys, id : Ids, idx : Tables]
           triples == ScanKeys \X (Ids \X Tables)
           f == [p \in triples |-> [key |-> p[1], id |-> p[2][1], idx |-> p[2][2]]]
<1>1. IsFiniteSet(ScanKeys) /\ IsFiniteSet(Ids) /\ IsFiniteSet(Tables)
  <2> DEFINE all == SstKeys \cup ScanKeys \cup FewKeys \cup Ids \cup Tables
  <2>1. ScanKeys \in SUBSET all /\ Ids \in SUBSET all /\ Tables \in SUBSET all
    OBVIOUS
  <2>2. IsFiniteSet(all)
    BY FiniteAssumption
  <2> HIDE DEF all
  <2> QED
    BY <2>1, <2>2, FS_Subset
<1>2. IsFiniteSet(Ids \X Tables)
  BY <1>1, FS_Product
<1>3. IsFiniteSet(triples)
  BY <1>1, <1>2, FS_Product
<1>4. f \in [triples -> slots]
  OBVIOUS
<1>5. ASSUME NEW x \in slots
      PROVE  \E p \in triples : f[p] = x
  <2>1. /\ x.key \in ScanKeys /\ x.id \in Ids /\ x.idx \in Tables
        /\ x = [key |-> x.key, id |-> x.id, idx |-> x.idx]
    OBVIOUS
  <2>2. <<x.key, <<x.id, x.idx>>>> \in triples /\ f[<<x.key, <<x.id, x.idx>>>>] = x
    BY <2>1
  <2> QED
    BY <2>2
<1> HIDE DEF f
<1>6. f \in Surjection(triples, slots)
  BY <1>4, <1>5 DEF Surjection
<1> QED
  BY <1>3, <1>6, FS_Surjection

\* What the queue is filled with is a finite set of versions, sorted.
LEMMA HeapInputs ==
  ASSUME NEW s \in Heap!Inputs
  PROVE  \E T : IsFiniteSet(T) /\ AreVersions(T) /\ s = Heap!Sorted(T)
<1> DEFINE slots == [key : ScanKeys, id : Ids, idx : Tables]
<1> DEFINE Items(S, v) ==
             {[key |-> x.key, id |-> x.id, idx |-> x.idx, value |-> v[x]] : x \in S}
<1>1. PICK S \in SUBSET slots :
        /\ \A a, b \in S : a.key = b.key /\ a.idx < b.idx => a.id >= b.id
        /\ \E v \in [S -> {Value, Deleted}] : s = Heap!Sorted(Items(S, v))
  BY Zenon DEF Heap!Inputs
<1>2. PICK v \in [S -> {Value, Deleted}] : s = Heap!Sorted(Items(S, v))
  BY <1>1
<1> DEFINE f == [x \in S |-> [key |-> x.key, id |-> x.id, idx |-> x.idx, value |-> v[x]]]
           T == Items(S, v)
<1>3. IsFiniteSet(S)
  BY SlotsFinite, FS_Subset
<1>4. f \in Surjection(S, T)
  BY DEF Surjection
<1>5. IsFiniteSet(T)
  <2> HIDE DEF f, T
  <2> QED
    BY <1>3, <1>4, FS_Surjection
<1>6. \A y \in T : \E x \in S : /\ y.key = x.key /\ y.id = x.id /\ y.idx = x.idx
                                /\ y = f[x]
  OBVIOUS
<1>7. \A x \in S : /\ x.key \in ScanKeys /\ x.id \in Ids /\ x.idx \in Tables
                   /\ x = [key |-> x.key, id |-> x.id, idx |-> x.idx]
  OBVIOUS
<1>8. s = Heap!Sorted(T)
  BY <1>2
<1> HIDE DEF f, T
<1>9. \A x \in S : x.key \in Nat /\ x.id \in Nat /\ x.idx \in Nat
  BY <1>7, ScanAssumption
<1>10. \A y \in T : y.key \in Nat /\ y.id \in Nat /\ y.idx \in Nat
  BY <1>6, <1>9
<1>11. ASSUME NEW x \in T, NEW y \in T, x.key = y.key, x.idx < y.idx
       PROVE  x.id >= y.id
  <2>1. PICK a \in S : x.key = a.key /\ x.id = a.id /\ x.idx = a.idx
    BY <1>6
  <2>2. PICK b \in S : y.key = b.key /\ y.id = b.id /\ y.idx = b.idx
    BY <1>6
  <2> QED
    BY <1>1, <1>11, <2>1, <2>2
<1>12. ASSUME NEW x \in T, NEW y \in T, x.key = y.key, x.id = y.id, x.idx = y.idx
       PROVE  x = y
  <2>1. PICK a \in S : x.key = a.key /\ x.id = a.id /\ x.idx = a.idx /\ x = f[a]
    BY <1>6
  <2>2. PICK b \in S : y.key = b.key /\ y.id = b.id /\ y.idx = b.idx /\ y = f[b]
    BY <1>6
  <2>3. a = b
    BY <1>7, <1>12, <2>1, <2>2
  <2> QED
    BY <2>1, <2>2, <2>3
<1>13. AreVersions(T)
  BY <1>10, <1>11, <1>12 DEF AreVersions
<1> QED
  BY <1>5, <1>8, <1>13

\* The queue hands out the versions in an order.
LEMMA HeapSorted ==
  ASSUME NEW T, IsFiniteSet(T), AreVersions(T), NEW s, s = Heap!Sorted(T)
  PROVE  /\ s \in Seq(T) /\ Len(s) \in Nat /\ DOMAIN s = 1..Len(s)
         /\ \A i, j \in DOMAIN s : i < j => s[i].key <= s[j].key /\ ~ Heap!Greater(s[i], s[j])
<1> DEFINE R == {p \in T \X T : p[1] # p[2] /\ Heap!Greater(p[2], p[1])}
           Below(x) == {y \in T : y # x /\ Heap!Greater(x, y)}
<1>1. Orders(R, T)
  <2>1. \A x \in T : <<x, x>> \notin R
    OBVIOUS
  <2>2. \A x, y \in T : <<x, y>> \in R <=> x # y /\ Heap!Greater(y, x)
    OBVIOUS
  <2> HIDE DEF R
  <2>3. \A x, y \in T : x # y /\ Heap!Greater(y, x) <=>
          \/ x.key < y.key
          \/ x.key = y.key /\ (x.idx < y.idx \/ (x.idx = y.idx /\ x.id > y.id))
    BY DEF Heap!Greater, AreVersions
  <2>4. \A x, y, z \in T : <<x, y>> \in R /\ <<y, z>> \in R => <<x, z>> \in R
    BY <2>2, <2>3 DEF AreVersions
  <2>5. ASSUME NEW x \in T, NEW y \in T, x # y
        PROVE  <<x, y>> \in R \/ <<y, x>> \in R
    <3>1. /\ x.key \in Nat /\ x.id \in Nat /\ x.idx \in Nat
          /\ y.key \in Nat /\ y.id \in Nat /\ y.idx \in Nat
          /\ ~ (x.key = y.key /\ x.id = y.id /\ x.idx = y.idx)
      BY <2>5 DEF AreVersions
    <3>2. \/ x.key < y.key \/ y.key < x.key
          \/ x.key = y.key /\ (x.idx < y.idx \/ (x.idx = y.idx /\ x.id > y.id))
          \/ y.key = x.key /\ (y.idx < x.idx \/ (y.idx = x.idx /\ y.id > x.id))
      BY <3>1
    <3>3. Heap!Greater(y, x) \/ Heap!Greater(x, y)
      BY <2>3, <3>2
    <3> QED
      BY <2>2, <2>5, <3>3
  <2> QED
    BY <2>1, <2>4, <2>5 DEF Orders
<1>2. s = [i \in 1..Cardinality(T) |-> CHOOSE x \in T : Cardinality(Below(x)) = i - 1]
  <2>1. s = [i \in 1..Heap!Cardinality(T) |->
               CHOOSE x \in T : Heap!Cardinality(Below(x)) = i - 1]
    BY DEF Heap!Sorted
  <2> HIDE DEF Below
  <2> QED
    BY <2>1, HeapCardinality
<1>3. \A x \in T : {y \in T : <<y, x>> \in R} = Below(x)
  OBVIOUS
<1> HIDE DEF Below
<1>4. ASSUME NEW i \in 1..Cardinality(T), NEW x \in T,
             Cardinality({y \in T : <<y, x>> \in R}) = i - 1
      PROVE  s[i] \in T /\ Cardinality({y \in T : <<y, s[i]>> \in R}) = i - 1
  <2>1. Cardinality(Below(x)) = i - 1
    BY <1>3, <1>4
  <2>2. s[i] = CHOOSE z \in T : Cardinality(Below(z)) = i - 1
    BY <1>2
  <2>3. s[i] \in T /\ Cardinality(Below(s[i])) = i - 1
    BY <2>1, <2>2, Zenon
  <2> QED
    BY <1>3, <2>3
<1>5. s = [i \in 1..Cardinality(T) |-> s[i]]
  BY <1>2
<1>6. Ranked(s, T, R)
  BY <1>4, <1>5 DEF Ranked
<1> HIDE DEF R
<1>7. Enumerates(s, T, R)
  BY <1>1, <1>6, RankEnumerates
<1>8. ASSUME NEW i \in DOMAIN s, NEW j \in DOMAIN s, i < j
      PROVE  s[i].key <= s[j].key /\ ~ Heap!Greater(s[i], s[j])
  <2>1. s[i] \in T /\ s[j] \in T /\ s[i] # s[j] /\ Heap!Greater(s[j], s[i])
    <3>1. <<s[i], s[j]>> \in R
      BY <1>7, <1>8 DEF Enumerates
    <3> QED
      BY <3>1 DEF R
  <2> QED
    BY <2>1 DEF Heap!Greater, AreVersions
<1> QED
  BY <1>7, <1>8 DEF Enumerates

\* The iterator stands on a legal top, at one of the places of its loops, and has
\* delivered in order items that were due.
HeapInv ==
  /\ HeapFacts /\ Heap!top_value_legal(pos)
  /\ pos \in Places(Els(output))
  /\ output \in Seq(Els(items))
  /\ \A m \in DOMAIN output : \E p \in 1..(pos - 1) : output[m] = items[p] /\ Due(p)
  /\ \A i, j \in DOMAIN output : i < j => ~ Heap!Greater(output[i], output[j])

\* The constructor establishes it.
LEMMA HeapStart ==
  ASSUME Heap!Init
  PROVE  HeapInv
<1>1. /\ items \in Heap!Inputs /\ max_tranc_id \in Snapshots
      /\ skip_delete \in BOOLEAN /\ keep_all_versions \in BOOLEAN
      /\ pos = Heap!Settle(1) /\ output = << >>
  BY DEF Heap!Init
<1>2. HeapFacts
  <2>1. PICK T : IsFiniteSet(T) /\ AreVersions(T) /\ items = Heap!Sorted(T)
    BY <1>1, HeapInputs
  <2>2. /\ items \in Seq(T) /\ Len(items) \in Nat /\ DOMAIN items = 1..Len(items)
        /\ \A i, j \in DOMAIN items :
             i < j => items[i].key <= items[j].key /\ ~ Heap!Greater(items[i], items[j])
    BY <2>1, HeapSorted
  <2>3. \A i \in DOMAIN items : items[i] \in T
    BY <2>2
  <2>4. \A i \in DOMAIN items : items[i].key \in Nat /\ items[i].id \in Nat
    BY <2>1, <2>3 DEF AreVersions
  <2>5. max_tranc_id \in Nat
    BY <1>1, ScanAssumption
  <2> QED
    BY <1>1, <2>2, <2>4, <2>5 DEF HeapFacts
<1>3. 1 \in Places(Els(output))
  <2>1. 1..(1 - 1) = {} /\ 1 \in 1..Heap!End
    BY <1>2 DEF HeapFacts, Heap!End
  <2> QED
    BY <2>1 DEF Places, Clean, Done
<1>4. pos \in Places(Els(output)) /\ Heap!top_value_legal(pos)
  BY <1>1, <1>2, <1>3, SettleKeepsPlace
<1>5. output \in Seq(Els(items)) /\ DOMAIN output = {}
  BY <1>1
<1> QED
  BY <1>2, <1>4, <1>5 DEF HeapInv

\* operator++ keeps it.
LEMMA HeapStep ==
  ASSUME HeapInv, Heap!Next
  PROVE  HeapInv'
<1> DEFINE O == Els(Append(output, items[pos]))
           m == Len(output)
           p == IF keep_all_versions THEN pos + 1 ELSE Heap!PastKey(pos)
<1>1. /\ pos # Heap!End /\ output' = Append(output, items[pos])
      /\ pos' = Heap!Settle(p)
      /\ UNCHANGED <<items, max_tranc_id, skip_delete, keep_all_versions>>
  BY DEF Heap!Next, Heap!Advance
<1>2. HeapFacts /\ Heap!top_value_legal(pos) /\ pos \in Places(Els(output))
  BY DEF HeapInv
<1>3. /\ m \in Nat /\ DOMAIN output = 1..m /\ output' \in Seq(Els(items))
      /\ Len(output') = m + 1 /\ DOMAIN output' = 1..(m + 1)
      /\ output'[m + 1] = items[pos] /\ \A i \in 1..m : output'[i] = output[i]
  <2>1. pos \in DOMAIN items
    BY <1>1, <1>2 DEF Places, HeapFacts, Heap!End
  <2>2. output \in Seq(Els(items)) /\ items[pos] \in Els(items)
    BY <2>1 DEF HeapInv, Els
  <2> QED
    BY <1>1, <2>2
<1>4. pos \in 1..Len(items) /\ Clean(pos) /\ Len(items) \in Nat /\ Heap!End = Len(items) + 1
  <2>1. pos \in 1..Heap!End /\ Clean(pos)
    BY <1>2 DEF Places
  <2>2. Len(items) \in Nat /\ Heap!End = Len(items) + 1
    BY <1>2 DEF HeapFacts, Heap!End
  <2> QED
    BY <1>1, <2>1, <2>2
<1>5. Due(pos) /\ Heap!Visible(items[pos])
  <2>1. Heap!Visible(items[pos]) /\ (skip_delete => items[pos].value # Deleted)
    BY <1>1, <1>2 DEF Heap!top_value_legal
  <2>2. Heap!Current(pos)
    BY <1>1, <1>2, <1>4, <2>1 DEF Clean, Heap!Current, HeapFacts
  <2> QED
    BY <2>1, <2>2 DEF Due
<1>6. Els(output) \subseteq O /\ items[pos] \in O
  <2>1. O = {output'[i] : i \in 1..(m + 1)}
    BY <1>1, <1>3 DEF Els
  <2>2. m + 1 \in 1..(m + 1) /\ \A i \in 1..m : i \in 1..(m + 1)
    BY <1>3
  <2> QED
    BY <1>3, <2>1, <2>2 DEF Els
<1> HIDE DEF O, m, p
<1>7. pos \in Places(O)
  BY <1>2, <1>6 DEF Places, Done
<1>8. p \in Places(O) /\ p > pos
  BY <1>1, <1>2, <1>5, <1>6, <1>7, PoppedKeepsPlace DEF p
<1>9. pos' \in Places(O) /\ Heap!top_value_legal(pos') /\ pos' >= p
  <2> DEFINE S == {j \in Places(O) : j >= p}
  <2>1. S \in SUBSET (1..Heap!End) /\ p \in S /\ p \in Nat
    BY <1>4, <1>8 DEF Places
  <2>2. ASSUME NEW j \in S, ~ Heap!top_value_legal(j)
        PROVE  Iteration(j) \in S
    <3>1. Iteration(j) \in Places(O)
      BY <1>2, IterationKeepsPlace
    <3>2. Iteration(j) > j /\ Iteration(j) \in 1..Heap!End /\ j \in 1..Heap!End
      BY <1>2, <2>1, <2>2, IterationMoves
    <3>3. Iteration(j) >= p
      BY <1>4, <2>1, <3>2
    <3> QED
      BY <3>1, <3>3
  <2> HIDE DEF S
  <2>3. Heap!Settle(p) \in S /\ Heap!top_value_legal(Heap!Settle(p))
    BY <1>2, <2>1, <2>2, SettleKeeps
  <2> QED
    BY <1>1, <2>3 DEF S
<1>10. /\ HeapFacts' /\ \A q : Due(q)' = Due(q) /\ Clean(q)' = Clean(q)
       /\ AllSeen' = AllSeen /\ Heap!End' = Heap!End
       /\ \A q : (Heap!top_value_legal(q))' = Heap!top_value_legal(q)
  BY <1>1, <1>2 DEF HeapFacts, Due, Clean, AllSeen, Heap!End, Heap!Current, Heap!Visible,
                    Heap!top_value_legal, Heap!Greater
<1>11. (pos \in Places(Els(output)))' /\ Heap!top_value_legal(pos)'
  <2>1. pos' \in 1..Heap!End /\ Clean(pos') /\ (AllSeen => Done(pos', O))
    BY <1>9 DEF Places
  <2>2. Els(output') = O
    BY <1>1 DEF O
  <2>3. (pos \in 1..Heap!End)' /\ Clean(pos)' /\ (AllSeen => Done(pos, Els(output)))'
    BY <1>1, <1>10, <2>1, <2>2 DEF Done, Due, Clean, AllSeen, Heap!End, Heap!Current, Heap!Visible
  <2>4. Heap!top_value_legal(pos)'
    BY <1>1, <1>9 DEF Heap!top_value_legal, Heap!Visible, Heap!End
  <2> QED
    BY <2>3, <2>4 DEF Places
<1>12. \A i \in 1..(m + 1) : i \in 1..m \/ i = m + 1
  BY <1>3
<1>13. pos \in 1..(pos' - 1) /\ \A q \in 1..(pos - 1) : q \in 1..(pos' - 1)
  <2>1. PICK new : new = pos'
    OBVIOUS
  <2>2. new \in 1..Heap!End /\ p \in 1..Heap!End /\ new >= p
    BY <1>8, <1>9, <2>1 DEF Places
  <2>3. pos \in Nat /\ pos >= 1 /\ new \in Nat /\ new > pos
    BY <1>4, <1>8, <2>2
  <2>4. pos \in 1..(new - 1) /\ \A q \in 1..(pos - 1) : q \in 1..(new - 1)
    BY <2>3
  <2> QED
    BY <2>1, <2>4
<1>14. ASSUME NEW i \in 1..(m + 1)
       PROVE  \E q \in 1..(pos' - 1) : output'[i] = items[q] /\ Due(q)
  <2>1. CASE i \in 1..m
    <3>1. PICK q \in 1..(pos - 1) : output[i] = items[q] /\ Due(q)
      BY <1>3, <2>1 DEF HeapInv
    <3>2. q \in 1..(pos' - 1)
      BY <1>13
    <3> QED
      BY <1>3, <2>1, <3>1, <3>2
  <2>2. CASE i = m + 1
    BY <1>3, <1>5, <1>13, <2>2
  <2> QED
    BY <1>12, <2>1, <2>2
<1>15. ASSUME NEW i \in 1..(m + 1), NEW j \in 1..(m + 1), i < j
       PROVE  ~ Heap!Greater(output'[i], output'[j])
  <2>1. i \in 1..m
    BY <1>3, <1>15
  <2>2. CASE j \in 1..m
    BY <1>3, <1>15, <2>1, <2>2 DEF HeapInv
  <2>3. CASE j = m + 1
    <3>1. PICK q \in 1..(pos - 1) : output[i] = items[q]
      BY <1>3, <2>1 DEF HeapInv
    <3>2. q \in 1..Len(items) /\ q < pos
      BY <1>4
    <3>3. ~ Heap!Greater(items[q], items[pos])
      BY <1>2, <1>4, <3>2 DEF HeapFacts
    <3> QED
      BY <1>3, <2>1, <2>3, <3>1, <3>3
  <2> QED
    BY <1>12, <2>2, <2>3
<1>16. (\A i \in DOMAIN output : \E q \in 1..(pos - 1) : output[i] = items[q] /\ Due(q))'
  BY <1>1, <1>3, <1>10, <1>14
<1>17. (\A i, j \in DOMAIN output : i < j => ~ Heap!Greater(output[i], output[j]))'
  BY <1>3, <1>15 DEF Heap!Greater
<1>18. (output \in Seq(Els(items)))'
  BY <1>1, <1>3 DEF Els
<1> QED
  BY <1>10, <1>11, <1>16, <1>17, <1>18 DEF HeapInv

\* Where HeapIterator stands is a place of its loops, with a legal top.
LEMMA HeapInvariant == ReadSpec => [](kind = "heap" => HeapInv)
<1> DEFINE Inv == kind = "heap" => HeapInv
<1>1. ReadInit => Inv
  BY HeapStart DEF ReadInit
<1>2. Inv /\ [ReadNext]_read_vars => Inv'
  <2> SUFFICES ASSUME Inv, [ReadNext]_read_vars, kind' = "heap"
               PROVE  HeapInv'
    OBVIOUS
  <2>1. kind = "heap" /\ HeapInv
    BY DEF ReadNext, read_vars, scan_vars
  <2>2. CASE UNCHANGED <<items, skip_delete, pos, max_tranc_id, keep_all_versions, output>>
    BY <2>1, <2>2
       DEF HeapInv, HeapFacts, Due, Clean, Done, Places, AllSeen, Els, Heap!End, Heap!Current,
           Heap!Visible, Heap!top_value_legal, Heap!Greater
  <2>3. CASE Heap!Next
    BY <2>1, <2>3, HeapStep
  <2> QED
    BY <2>1, <2>2, <2>3 DEF ReadNext, read_vars, scan_vars, heap
<1> QED
  BY <1>1, <1>2, PTL DEF ReadSpec

\* HeapIterator delivers in order nothing but current, visible versions, no deletion
\* it is to skip, and at its end all of them if deletions are kept or nothing is
\* invisible, for any tables of finitely many versions.
THEOREM HeapDeliversWanted ==
  ReadSpec => [](kind = "heap" => Heap!HeapDeliversOnlyWanted /\ Heap!HeapComplete)
<1>1. HeapInv => Heap!HeapDeliversOnlyWanted /\ Heap!HeapComplete
  <2> SUFFICES ASSUME HeapInv
               PROVE  Heap!HeapDeliversOnlyWanted /\ Heap!HeapComplete
    OBVIOUS
  <2>1. HeapFacts /\ Len(items) \in Nat /\ DOMAIN items = 1..Len(items)
        /\ Heap!End = Len(items) + 1 /\ pos \in 1..Heap!End /\ (AllSeen => Done(pos, Els(output)))
    BY DEF HeapInv, HeapFacts, Heap!End, Places
  <2>2. ASSUME NEW x
        PROVE  x \in Heap!Wanted <=> \E q \in 1..Len(items) : x = items[q] /\ Due(q)
    BY <2>1 DEF Heap!Wanted, Due
  <2>3. Heap!ToSet(output) \subseteq Heap!Wanted
    <3> SUFFICES ASSUME NEW i \in DOMAIN output
                 PROVE  output[i] \in Heap!Wanted
      BY DEF Heap!ToSet
    <3>1. PICK q \in 1..(pos - 1) : output[i] = items[q] /\ Due(q)
      BY DEF HeapInv
    <3>2. q \in 1..Len(items)
      BY <2>1
    <3> QED
      BY <2>2, <3>1, <3>2
  <2>4. ASSUME pos = Heap!End, AllSeen, NEW x \in Heap!Wanted
        PROVE  x \in Heap!ToSet(output)
    <3>1. PICK q \in 1..Len(items) : x = items[q] /\ Due(q)
      BY <2>2, <2>4
    <3>2. q \in 1..(pos - 1)
      BY <2>1, <2>4
    <3> QED
      BY <2>1, <2>4, <3>1, <3>2 DEF Done, Els, Heap!ToSet
  <2>5. Heap!HeapComplete
    BY <2>4 DEF Heap!HeapComplete, AllSeen
  <2> QED
    BY <2>3, <2>5 DEF HeapInv, Heap!HeapDeliversOnlyWanted
<1> QED
  BY <1>1, HeapInvariant, PTL

-----------------------------------------------------------------------------
\* The SSTs of a level, cut into blocks.

\* Numbers are ordered.
LEMMA NumbersOrdered ==
  ASSUME NEW S \in SUBSET Nat
  PROVE  Orders({p \in S \X S : p[1] < p[2]}, S)
BY DEF Orders

\* A finite nonempty set of numbers has a greatest one.
LEMMA GreatestExists ==
  ASSUME NEW S \in SUBSET Nat, S # {}, IsFiniteSet(S)
  PROVE  \E x \in S : \A y \in S : y <= x
<1> DEFINE R == {p \in S \X S : p[1] < p[2]}
           c == Cardinality(S)
<1>1. PICK rank : Ranks(rank, S, R)
  BY NumbersOrdered, RanksExist
<1>2. c \in Nat /\ c # 0
  BY FS_CardinalityType, FS_EmptySet
<1>3. /\ \A i \in 1..c : \E x \in S : rank[x] = i
      /\ \A x \in S : rank[x] \in 1..c
  BY <1>1 DEF Ranks
<1>4. \A x, y \in S : (rank[x] = rank[y] => x = y) /\ (rank[x] < rank[y] => <<x, y>> \in R)
  BY <1>1 DEF Ranks
<1>5. \A x, y \in S : <<x, y>> \in R => x < y
  OBVIOUS
<1> HIDE DEF R, c
<1>6. PICK x \in S : rank[x] = c
  BY <1>2, <1>3
<1>7. ASSUME NEW y \in S
      PROVE  y <= x
  <2>1. rank[y] \in 1..c /\ rank[x] = c
    BY <1>3, <1>6
  <2>2. rank[y] = rank[x] \/ rank[y] < rank[x]
    BY <1>2, <2>1
  <2>3. x = y \/ y < x
    BY <1>4, <1>5, <2>2
  <2> QED
    BY <2>3
<1> QED
  BY <1>7

\* c cuts E behind the keys in ends, which are keys of E but not its last one.
CutAt(c, E, ends) ==
  /\ \A k \in ends : \E e \in E : e.key = k
  /\ \E l \in E : l.key \notin ends /\ \A e \in E : e.key <= l.key
  /\ c = [i \in 1..(Cardinality(ends) + 1) |->
            {e \in E : Cardinality({k \in ends : k < e.key}) = i - 1}]

\* The parts of a cut: none is empty and the keys ascend from part to part.
Parts(c, E) ==
  /\ c \in Seq(SUBSET E) /\ Len(c) \in Nat \ {0} /\ DOMAIN c = 1..Len(c)
  /\ \A i \in DOMAIN c : c[i] # {}
  /\ \A i, j \in DOMAIN c : i < j => \A d \in c[i], e \in c[j] : d.key < e.key

\* A cut at some keys has such parts.
LEMMA CutHasParts ==
  ASSUME NEW E, IsFiniteSet(E), Placed(E), NEW ends, IsFiniteSet(ends), NEW c, CutAt(c, E, ends)
  PROVE  Parts(c, E)
<1> DEFINE n == Cardinality(ends)
           Under(x) == {k \in ends : k < x}
           R == {p \in ends \X ends : p[1] < p[2]}
<1>1. n \in Nat /\ ends \in SUBSET Nat /\ \A e \in E : e.key \in Nat
  BY FS_CardinalityType DEF CutAt, Placed
<1>2. \A x : /\ IsFiniteSet(Under(x)) /\ Cardinality(Under(x)) \in Nat
             /\ Cardinality(Under(x)) <= n
  <2> SUFFICES ASSUME NEW x
               PROVE  /\ IsFiniteSet(Under(x)) /\ Cardinality(Under(x)) \in Nat
                      /\ Cardinality(Under(x)) <= n
    OBVIOUS
  <2>1. Under(x) \in SUBSET ends
    OBVIOUS
  <2> HIDE DEF Under
  <2> QED
    BY <2>1, FS_Subset, FS_CardinalityType
<1>3. \A x, y \in Nat : x <= y => Cardinality(Under(x)) <= Cardinality(Under(y))
  <2> SUFFICES ASSUME NEW x \in Nat, NEW y \in Nat, x <= y
               PROVE  Cardinality(Under(x)) <= Cardinality(Under(y))
    OBVIOUS
  <2>1. Under(x) \in SUBSET Under(y)
    <3>1. \A k \in ends : k \in Nat
      BY <1>1
    <3>2. \A k \in ends : k < x => k < y
      BY <3>1
    <3> QED
      BY <3>2
  <2> HIDE DEF Under
  <2> QED
    BY <1>2, <2>1, FS_Subset
<1>4. c = [i \in 1..(n + 1) |-> {e \in E : Cardinality(Under(e.key)) = i - 1}]
  BY DEF CutAt
<1>5. c \in Seq(SUBSET E) /\ Len(c) = n + 1 /\ DOMAIN c = 1..(n + 1)
  <2> HIDE DEF Under, n
  <2> QED
    BY <1>1, <1>4
<1>6. ASSUME NEW i \in 1..(n + 1)
      PROVE  c[i] # {}
  <2>1. CASE i = n + 1
    <3>1. PICK l \in E : l.key \notin ends /\ \A e \in E : e.key <= l.key
      BY DEF CutAt
    <3>2. ASSUME NEW k \in ends
          PROVE  k < l.key
      <4>1. PICK e \in E : e.key = k
        BY DEF CutAt
      <4>2. k <= l.key /\ k # l.key /\ k \in Nat /\ l.key \in Nat
        BY <1>1, <3>1, <4>1
      <4> QED
        BY <4>2
    <3>3. Under(l.key) = ends
      BY <3>2
    <3>4. Cardinality(Under(l.key)) = i - 1
      <4>1. Cardinality(Under(l.key)) = n
        BY <3>3
      <4> HIDE DEF Under, n
      <4> QED
        BY <1>1, <2>1, <4>1
    <3> HIDE DEF Under
    <3> QED
      BY <1>4, <3>4
  <2>2. CASE i # n + 1
    <3>1. i \in 1..n
      BY <1>1, <2>2
    <3>2. PICK rank : Ranks(rank, ends, R)
      BY <1>1, NumbersOrdered, RanksExist
    <3>3. PICK k \in ends : rank[k] = i
      BY <3>1, <3>2 DEF Ranks
    <3>4. {y \in ends : <<y, k>> \in R} = Under(k)
      OBVIOUS
    <3>5. Cardinality(Under(k)) + 1 = i
      BY <3>2, <3>3, <3>4 DEF Ranks
    <3>6. PICK e \in E : e.key = k
      BY DEF CutAt
    <3> HIDE DEF Under
    <3>7. Cardinality(Under(e.key)) = i - 1
      BY <1>2, <3>5, <3>6
    <3> QED
      BY <1>4, <3>7
  <2> QED
    BY <2>1, <2>2
<1>7. ASSUME NEW i \in 1..(n + 1), NEW j \in 1..(n + 1), i < j, NEW d \in c[i], NEW e \in c[j]
      PROVE  d.key < e.key
  <2> HIDE DEF Under
  <2>1. /\ d \in E /\ Cardinality(Under(d.key)) = i - 1
        /\ e \in E /\ Cardinality(Under(e.key)) = j - 1
    BY <1>4
  <2>2. d.key \in Nat /\ e.key \in Nat
    BY <1>1, <2>1
  <2>3. ~ (Cardinality(Under(e.key)) <= Cardinality(Under(d.key)))
    BY <1>1, <1>7, <2>1
  <2>4. ~ (e.key <= d.key)
    BY <1>3, <2>2, <2>3
  <2> QED
    BY <2>2, <2>4
<1> HIDE DEF n
<1>8. n + 1 \in Nat \ {0}
  BY <1>1
<1> QED
  BY <1>5, <1>6, <1>7, <1>8 DEF Parts

\* The blocks of a table with entries of E.
Blocked(t, E) ==
  /\ Len(t) \in Nat \ {0} /\ DOMAIN t = 1..Len(t)
  /\ \A b \in DOMAIN t : Lists(t[b], E) /\ t[b] # << >>
  /\ \A b, c \in DOMAIN t : b < c => \A d \in Els(t[b]), e \in Els(t[c]) : d.key < e.key

\* Sorted parts are the blocks of a table.
LEMMA PartsAreBlocks ==
  ASSUME NEW E, IsFiniteSet(E), Placed(E), NEW c, Parts(c, E), NEW t,
         DOMAIN t = DOMAIN c, t = [b \in DOMAIN c |-> t[b]],
         \A b \in DOMAIN c : RankedEntries(t[b], c[b])
  PROVE  Blocked(t, E)
<1>1. ASSUME NEW b \in DOMAIN c
      PROVE  Lists(t[b], E) /\ t[b] # << >> /\ Els(t[b]) = c[b]
  <2>1. c[b] \in SUBSET E /\ c[b] # {}
    BY DEF Parts
  <2>2. IsFiniteSet(c[b]) /\ Placed(c[b])
    BY <2>1, FS_Subset DEF Placed
  <2>3. Lists(t[b], c[b]) /\ Els(t[b]) = c[b]
    BY <2>2, EntriesSorted
  <2>4. t[b] # << >>
    BY <2>1, <2>3 DEF Els
  <2> QED
    BY <2>1, <2>3, <2>4 DEF Lists
<1>2. Len(c) \in Nat \ {0} /\ DOMAIN c = 1..Len(c)
  BY DEF Parts
<1>3. Len(t) = Len(c)
  BY <1>2
<1>4. \A a, b \in DOMAIN t : a < b => \A d \in Els(t[a]), e \in Els(t[b]) : d.key < e.key
  BY <1>1 DEF Parts
<1> QED
  BY <1>1, <1>2, <1>3, <1>4 DEF Blocked

\* The instances count as everybody else.
LEMMA SstCardinality ==
  \A S : Sst!Cardinality(S) = Cardinality(S) /\ Search!Cardinality(S) = Cardinality(S)
BY DEF Sst!Cardinality, Search!Cardinality, Cardinality

\* The keys of finitely many entries are finitely many.
LEMMA KeysFinite ==
  ASSUME NEW E, IsFiniteSet(E)
  PROVE  IsFiniteSet({e.key : e \in E})
<1> DEFINE f == [e \in E |-> e.key]
<1>1. f \in Surjection(E, {e.key : e \in E})
  BY DEF Surjection
<1> HIDE DEF f
<1> QED
  BY <1>1, FS_Surjection

\* A cut of a scan or of a search has parts.
LEMMA CutsHaveParts ==
  ASSUME NEW E, IsFiniteSet(E), E # {}, Placed(E), NEW n,
         NEW c \in Sst!Cuts(E, n) \cup Search!Cuts(E, n)
  PROVE  Parts(c, E)
<1> DEFINE keys == {e.key : e \in E}
           last == CHOOSE k \in keys : \A j \in keys : j <= k
           Cut(ends) == [i \in 1..(Cardinality(ends) + 1) |->
                           {e \in E : Cardinality({k \in ends : k < e.key}) = i - 1}]
<1>1. \E ends \in SUBSET (keys \ {last}) : c = Cut(ends)
  <2>1. CASE c \in Sst!Cuts(E, n)
    <3>1. PICK ends \in SUBSET (keys \ {last}) :
            c = [i \in 1..(Sst!Cardinality(ends) + 1) |->
                   {e \in E : Sst!Cardinality({k \in ends : k < e.key}) = i - 1}]
      BY <2>1, Zenon DEF Sst!Cuts
    <3>2. c = Cut(ends)
      BY <3>1, SstCardinality
    <3> QED
      BY <3>2
  <2>2. CASE c \in Search!Cuts(E, n)
    <3>1. PICK ends \in SUBSET (keys \ {last}) :
            c = [i \in 1..(Search!Cardinality(ends) + 1) |->
                   {e \in E : Search!Cardinality({k \in ends : k < e.key}) = i - 1}]
      BY <2>2, Zenon DEF Search!Cuts
    <3>2. c = Cut(ends)
      BY <3>1, SstCardinality
    <3> QED
      BY <3>2
  <2> QED
    BY <2>1, <2>2
<1>2. PICK ends \in SUBSET (keys \ {last}) : c = Cut(ends)
  BY <1>1
<1>3. keys \in SUBSET Nat /\ keys # {} /\ IsFiniteSet(keys)
  BY KeysFinite DEF Placed
<1> HIDE DEF keys
<1>4. last \in keys /\ \A j \in keys : j <= last
  <2>1. \E k \in keys : \A j \in keys : j <= k
    BY <1>3, GreatestExists
  <2> QED
    BY <2>1, Zenon
<1> HIDE DEF last
<1>5. IsFiniteSet(ends)
  <2>1. ends \in SUBSET keys
    OBVIOUS
  <2> QED
    BY <1>3, <2>1, FS_Subset
<1>6. CutAt(c, E, ends)
  <2>1. \A k \in ends : \E e \in E : e.key = k
    BY DEF keys
  <2>2. PICK l \in E : l.key = last
    BY <1>4 DEF keys
  <2>3. l.key \notin ends /\ \A e \in E : e.key <= l.key
    BY <1>4, <2>2 DEF keys
  <2> QED
    BY <1>2, <2>1, <2>3 DEF CutAt
<1> QED
  BY <1>5, <1>6, CutHasParts

\* The blocks SSTBuilder makes of some entries.
LEMMA SstsAreBlocked ==
  ASSUME NEW E, IsFiniteSet(E), E # {}, Placed(E),
         NEW t \in Sst!SstsFrom(E) \cup Search!SstsFrom(E)
  PROVE  Blocked(t, E)
<1> DEFINE Below(S, e) == {d \in S : Precedes(d, e)}
<1>1. \A S : /\ RankedEntries(Sst!Sorted(S), S)
             /\ RankedEntries(Search!Sorted(S), S)
  <2> SUFFICES ASSUME NEW S
               PROVE  /\ RankedEntries(Sst!Sorted(S), S)
                      /\ RankedEntries(Search!Sorted(S), S)
    OBVIOUS
  <2>1. Sst!Sorted(S) = [i \in 1..Sst!Cardinality(S) |->
                           CHOOSE e \in S : Sst!Cardinality(Below(S, e)) = i - 1]
    BY DEF Sst!Sorted, Sst!Before, Precedes
  <2>2. Search!Sorted(S) = [i \in 1..Search!Cardinality(S) |->
                              CHOOSE e \in S : Search!Cardinality(Below(S, e)) = i - 1]
    BY DEF Search!Sorted, Search!Before, Precedes
  <2> DEFINE r == [i \in 1..Cardinality(S) |->
                     CHOOSE e \in S : Cardinality(Below(S, e)) = i - 1]
  <2>3. RankedEntries(r, S)
    BY DEF RankedEntries
  <2> HIDE DEF Below
  <2>4. Sst!Sorted(S) = r /\ Search!Sorted(S) = r
    BY <2>1, <2>2, SstCardinality
  <2> QED
    BY <2>3, <2>4
<1>2. \E c : /\ Parts(c, E) /\ DOMAIN t = DOMAIN c /\ t = [b \in DOMAIN c |-> t[b]]
             /\ \A b \in DOMAIN c : RankedEntries(t[b], c[b])
  <2>1. CASE t \in Sst!SstsFrom(E)
    <3>1. PICK c \in Sst!Cuts(E, MaxBlocks) : t = [i \in DOMAIN c |-> Sst!Sorted(c[i])]
      BY <2>1 DEF Sst!SstsFrom
    <3>2. Parts(c, E)
      BY CutsHaveParts
    <3>3. \A b \in DOMAIN c : t[b] = Sst!Sorted(c[b])
      BY <3>1
    <3>4. DOMAIN t = DOMAIN c /\ t = [b \in DOMAIN c |-> t[b]]
      BY <3>1
    <3> QED
      BY <1>1, <3>2, <3>3, <3>4
  <2>2. CASE t \in Search!SstsFrom(E)
    <3>1. PICK c \in Search!Cuts(E, MaxBlocks) : t = [i \in DOMAIN c |-> Search!Sorted(c[i])]
      BY <2>2 DEF Search!SstsFrom
    <3>2. Parts(c, E)
      BY CutsHaveParts
    <3>3. \A b \in DOMAIN c : t[b] = Search!Sorted(c[b])
      BY <3>1
    <3>4. DOMAIN t = DOMAIN c /\ t = [b \in DOMAIN c |-> t[b]]
      BY <3>1
    <3> QED
      BY <1>1, <3>2, <3>3, <3>4
  <2> QED
    BY <2>1, <2>2
<1>3. PICK c : /\ Parts(c, E) /\ DOMAIN t = DOMAIN c /\ t = [b \in DOMAIN c |-> t[b]]
               /\ \A b \in DOMAIN c : RankedEntries(t[b], c[b])
  BY <1>2
<1> QED
  BY <1>3, PartsAreBlocks

\* Sets of entries are finite and placed.
LEMMA SomeEntries ==
  ASSUME NEW E \in (SUBSET Sst!Entry) \cup (SUBSET Search!Entry)
  PROVE  IsFiniteSet(E) /\ Placed(E)
<1> DEFINE K1 == SstKeys \cup FewKeys
           all == [key : K1, id : Ids]
           f == [p \in K1 \X Ids |-> [key |-> p[1], id |-> p[2]]]
<1>1. E \in SUBSET all
  BY DEF Sst!Entry, Search!Entry
<1>2. K1 \subseteq Nat /\ Ids \subseteq Nat
  BY ScanAssumption
<1>3. IsFiniteSet(K1) /\ IsFiniteSet(Ids)
  <2> DEFINE every == SstKeys \cup ScanKeys \cup FewKeys \cup Ids \cup Tables
  <2>1. K1 \in SUBSET every /\ Ids \in SUBSET every
    OBVIOUS
  <2>2. IsFiniteSet(every)
    BY FiniteAssumption
  <2> HIDE DEF every, K1
  <2> QED
    BY <2>1, <2>2, FS_Subset
<1> HIDE DEF K1
<1>4. IsFiniteSet(K1 \X Ids)
  BY <1>3, FS_Product
<1>5. \A e \in all : e.key \in K1 /\ e.id \in Ids /\ e = [key |-> e.key, id |-> e.id]
  OBVIOUS
<1>6. f \in Surjection(K1 \X Ids, all)
  <2>1. f \in [K1 \X Ids -> all]
    OBVIOUS
  <2>2. ASSUME NEW e \in all
        PROVE  \E p \in K1 \X Ids : f[p] = e
    <3>1. e.key \in K1 /\ e.id \in Ids /\ e = [key |-> e.key, id |-> e.id]
      BY <1>5
    <3>2. <<e.key, e.id>> \in K1 \X Ids /\ f[<<e.key, e.id>>] = e
      BY <3>1
    <3> QED
      BY <3>2
  <2> HIDE DEF f, all
  <2> QED
    BY <2>1, <2>2 DEF Surjection
<1> HIDE DEF f, all
<1>7. IsFiniteSet(E)
  <2>1. IsFiniteSet(all)
    BY <1>4, <1>6, FS_Surjection
  <2> QED
    BY <1>1, <2>1, FS_Subset
<1>8. \A e \in E : e.key \in Nat /\ e.id \in Nat /\ e = [key |-> e.key, id |-> e.id]
  BY <1>1, <1>2, <1>5
<1>9. Placed(E)
  BY <1>8 DEF Placed
<1> QED
  BY <1>7, <1>9

-----------------------------------------------------------------------------
\* The scan of the SSTs.

\* There is an entry i in block b of SST s.
InTable(s, b, i) == s \in DOMAIN ssts /\ b \in DOMAIN ssts[s] /\ i \in DOMAIN ssts[s][b]

\* Place (s, b, i) comes before place (r, c, j).
Earlier(s, b, i, r, c, j) == s < r \/ (s = r /\ (b < c \/ (b = c /\ i < j)))

\* A block that is read forwards: its entries have numbers and are in order.
Ascending(block) ==
  /\ Len(block) \in Nat \ {0} /\ DOMAIN block = 1..Len(block)
  /\ \A i \in DOMAIN block : block[i].key \in Nat /\ block[i].id \in Nat
  /\ \A i, j \in DOMAIN block : i < j => Precedes(block[i], block[j])

\* What the SSTs of a level are: nothing is empty, and the versions of a key are in
\* one block.
Leveled ==
  /\ max_tranc_id \in Nat /\ keep_all \in BOOLEAN
  /\ Len(ssts) \in Nat \ {0} /\ DOMAIN ssts = 1..Len(ssts)
  /\ \A s \in DOMAIN ssts :
       /\ Len(ssts[s]) \in Nat \ {0} /\ DOMAIN ssts[s] = 1..Len(ssts[s])
       /\ \A b \in DOMAIN ssts[s] : Ascending(ssts[s][b])
  /\ \A s, b, i, r, c, j :
       InTable(s, b, i) /\ InTable(r, c, j) /\ (s < r \/ (s = r /\ b < c)) =>
         ssts[s][b][i].key < ssts[r][c][j].key

\* What a place is.
LEMMA PlaceIs ==
  ASSUME Leveled, NEW s, NEW b, NEW i, InTable(s, b, i)
  PROVE  /\ s \in 1..Len(ssts) /\ b \in 1..Len(ssts[s]) /\ i \in 1..Len(ssts[s][b])
         /\ Ascending(ssts[s][b])
         /\ ssts[s][b][i].key \in Nat /\ ssts[s][b][i].id \in Nat
         /\ ssts[s][b][i] \in Sst!Entries
<1>1. s \in 1..Len(ssts) /\ b \in 1..Len(ssts[s]) /\ Ascending(ssts[s][b])
  BY DEF Leveled, InTable
<1>2. /\ i \in 1..Len(ssts[s][b])
      /\ ssts[s][b][i].key \in Nat /\ ssts[s][b][i].id \in Nat
  BY <1>1 DEF Ascending, InTable
<1>3. ssts[s][b][i] \in Sst!Entries
  <2>1. ssts[s][b][i] \in Sst!ToSet(ssts[s][b])
    BY DEF InTable, Sst!ToSet
  <2> QED
    BY <2>1 DEF InTable, Sst!Entries
<1> QED
  BY <1>1, <1>2, <1>3

\* Every entry has a place.
LEMMA EntryHasPlace ==
  ASSUME NEW e \in Sst!Entries
  PROVE  \E s, b, i : InTable(s, b, i) /\ e = ssts[s][b][i]
<1>1. PICK s \in DOMAIN ssts : e \in UNION {Sst!ToSet(ssts[s][b]) : b \in DOMAIN ssts[s]}
  BY DEF Sst!Entries
<1>2. PICK b \in DOMAIN ssts[s] : e \in Sst!ToSet(ssts[s][b])
  BY <1>1
<1>3. PICK i \in DOMAIN ssts[s][b] : e = ssts[s][b][i]
  BY <1>2 DEF Sst!ToSet
<1> QED
  BY <1>3 DEF InTable

\* Earlier places hold earlier entries.
LEMMA EarlierPrecedes ==
  ASSUME Leveled, NEW s, NEW b, NEW i, InTable(s, b, i), NEW r, NEW c, NEW j, InTable(r, c, j),
         Earlier(s, b, i, r, c, j)
  PROVE  Precedes(ssts[s][b][i], ssts[r][c][j])
<1>1. CASE s < r \/ (s = r /\ b < c)
  BY <1>1 DEF Leveled, Precedes
<1>2. CASE s = r /\ b = c /\ i < j
  <2>1. Ascending(ssts[s][b]) /\ i \in DOMAIN ssts[s][b] /\ j \in DOMAIN ssts[s][b]
    BY <1>2, PlaceIs DEF InTable
  <2> QED
    BY <1>2, <2>1 DEF Ascending
<1> QED
  BY <1>1, <1>2 DEF Earlier

\* And earlier entries are at earlier places.
LEMMA PrecedingIsEarlier ==
  ASSUME Leveled, NEW s, NEW b, NEW i, InTable(s, b, i), NEW r, NEW c, NEW j, InTable(r, c, j),
         Precedes(ssts[s][b][i], ssts[r][c][j])
  PROVE  Earlier(s, b, i, r, c, j)
<1>1. /\ s \in 1..Len(ssts) /\ b \in 1..Len(ssts[s]) /\ i \in 1..Len(ssts[s][b])
      /\ r \in 1..Len(ssts) /\ c \in 1..Len(ssts[r]) /\ j \in 1..Len(ssts[r][c])
  BY PlaceIs
<1>2. s \in Int /\ b \in Int /\ i \in Int /\ r \in Int /\ c \in Int /\ j \in Int
  BY <1>1
<1>3. \/ Earlier(s, b, i, r, c, j) \/ Earlier(r, c, j, s, b, i)
      \/ (s = r /\ b = c /\ i = j)
  BY <1>2 DEF Earlier
<1> DEFINE d == ssts[s][b][i]
           e == ssts[r][c][j]
<1>4. d.key \in Nat /\ d.id \in Nat /\ e.key \in Nat /\ e.id \in Nat
  BY PlaceIs
<1>5. ~ Precedes(e, d) /\ ~ (s = r /\ b = c /\ i = j)
  BY <1>4 DEF Precedes
<1> QED
  BY <1>3, <1>5, EarlierPrecedes

\* The newest visible version of a key in a block is wanted.
LEMMA NewestIsWanted ==
  ASSUME Leveled, NEW s, NEW b, NEW i, InTable(s, b, i), Sst!Visible(ssts[s][b][i]),
         \/ keep_all
         \/ \A j \in 1..(i - 1) :
              ssts[s][b][j].key = ssts[s][b][i].key => ~ Sst!Visible(ssts[s][b][j])
  PROVE  ssts[s][b][i] \in Sst!Wanted
<1> DEFINE e == ssts[s][b][i]
<1>1. e \in Sst!Entries /\ e.key \in Nat /\ e.id \in Nat
  BY PlaceIs
<1>2. ASSUME ~ keep_all, NEW d \in Sst!Entries, d.key = e.key, Sst!Visible(d)
      PROVE  d.id <= e.id
  <2>1. PICK r, c, j : InTable(r, c, j) /\ d = ssts[r][c][j]
    BY <1>2, EntryHasPlace
  <2>2. d.key \in Nat /\ d.id \in Nat
    BY <2>1, PlaceIs
  <2>3. CASE Earlier(s, b, i, r, c, j)
    <3>1. Precedes(e, d)
      BY <2>1, <2>3, EarlierPrecedes
    <3> QED
      BY <1>1, <1>2, <2>2, <3>1 DEF Precedes
  <2>4. CASE Earlier(r, c, j, s, b, i)
    <3>1. ~ (r < s \/ (r = s /\ c < b))
      <4>1. r < s \/ (r = s /\ c < b) => d.key < e.key
        BY <2>1 DEF Leveled
      <4> QED
        BY <1>1, <1>2, <2>2, <4>1
    <3>2. r = s /\ c = b /\ j < i
      BY <2>4, <3>1 DEF Earlier
    <3>3. j \in 1..(i - 1)
      BY <2>1, <3>2, PlaceIs
    <3> QED
      BY <1>2, <2>1, <3>2, <3>3
  <2>5. CASE s = r /\ b = c /\ i = j
    BY <1>1, <2>1, <2>5
  <2>6. \/ Earlier(s, b, i, r, c, j) \/ Earlier(r, c, j, s, b, i)
        \/ (s = r /\ b = c /\ i = j)
    <3>1. s \in Int /\ b \in Int /\ i \in Int /\ r \in Int /\ c \in Int /\ j \in Int
      BY <2>1, PlaceIs
    <3> QED
      BY <3>1 DEF Earlier
  <2> QED
    BY <2>3, <2>4, <2>5, <2>6
<1> QED
  BY <1>1, <1>2 DEF Sst!Wanted

\* An older version of a key is not wanted, unless all are.
LEMMA OlderIsNotWanted ==
  ASSUME Leveled, NEW d \in Sst!Entries, Sst!Visible(d), NEW e, e.key \in Nat, e.id \in Nat,
         d.id \in Nat, d.key = e.key, Precedes(d, e), ~ keep_all
  PROVE  e \notin Sst!Wanted
<1>1. ~ (d.id <= e.id)
  BY DEF Precedes
<1> QED
  BY <1>1 DEF Sst!Wanted

\* LeastOf takes the least one.
LEMMA LeastIsLeast ==
  ASSUME NEW S \in SUBSET Nat, S # {}
  PROVE  Sst!LeastOf(S) \in S /\ \A y \in S : Sst!LeastOf(S) <= y
<1>1. \E x \in S : \A y \in S : x <= y
  BY LeastExists
<1> QED
  BY <1>1, Zenon DEF Sst!LeastOf

\* skip_by_tranc_id stops at the first visible entry.
LEMMA SkipFinds ==
  ASSUME Leveled, NEW block, Ascending(block), NEW i \in 1..(Len(block) + 1),
         NEW x, x = Sst!skip_by_tranc_id(block, i)
  PROVE  /\ x \in i..(Len(block) + 1)
         /\ x <= Len(block) => Sst!Visible(block[x])
         /\ \A j \in i..(x - 1) : ~ Sst!Visible(block[j])
         /\ max_tranc_id = 0 => x = i
<1> DEFINE n == Len(block)
           S == {j \in i..n : Sst!Visible(block[j])} \cup {n + 1}
<1>1. n \in Nat /\ i \in Nat /\ i <= n + 1
  BY DEF Ascending
<1>2. x = Sst!LeastOf(S)
  BY DEF Sst!skip_by_tranc_id
<1>3. S \in SUBSET Nat /\ S # {}
  BY <1>1
<1>4. x \in S /\ \A y \in S : x <= y
  BY <1>2, <1>3, LeastIsLeast
<1>5. max_tranc_id = 0 => \A j : Sst!Visible(block[j])
  BY DEF Sst!Visible
<1> HIDE DEF n
<1>6. x \in i..(n + 1) /\ (x <= n => Sst!Visible(block[x]))
  BY <1>1, <1>4
<1>7. \A j \in i..(x - 1) : j \in i..n /\ ~ (x <= j)
  BY <1>1, <1>6
<1>8. \A j \in i..(x - 1) : ~ Sst!Visible(block[j])
  BY <1>4, <1>7
<1>9. max_tranc_id = 0 => x = i
  <2> SUFFICES ASSUME max_tranc_id = 0
               PROVE  x = i
    OBVIOUS
  <2>1. i \in S
    BY <1>1, <1>5
  <2>2. x <= i
    BY <1>4, <2>1
  <2> QED
    BY <1>1, <1>6, <2>2
<1> QED
  BY <1>6, <1>8, <1>9 DEF n

\* operator++ of BlockIterator passes by nothing but invisible entries and, unless
\* all are wanted, older versions of the key.
LEMMA NextFinds ==
  ASSUME Leveled, NEW block, Ascending(block), NEW p \in 1..Len(block),
         NEW x, x = Sst!NextEntry(block, p)
  PROVE  /\ x \in (p + 1)..(Len(block) + 1)
         /\ x <= Len(block) =>
              Sst!Visible(block[x]) /\ (~ keep_all => block[p].key < block[x].key)
         /\ \A j \in (p + 1)..(x - 1) :
              Sst!Visible(block[j]) => ~ keep_all /\ block[j].key = block[p].key
<1> DEFINE n == Len(block)
           S == {j \in (p + 1)..n : block[j].key # block[p].key} \cup {n + 1}
           m == Sst!LeastOf(S)
           f == IF keep_all THEN p + 1 ELSE m
<1>1. /\ n \in Nat /\ p \in Nat /\ 1 <= p /\ p <= n
      /\ \A j \in 1..n : block[j].key \in Nat
      /\ \A i, j \in 1..n : i < j => block[i].key <= block[j].key
  <2>1. /\ n \in Nat /\ p \in Nat /\ 1 <= p /\ p <= n /\ DOMAIN block = 1..n
        /\ \A j \in 1..n : block[j].key \in Nat /\ block[j].id \in Nat
        /\ \A i, j \in 1..n : i < j => Precedes(block[i], block[j])
    BY DEF Ascending
  <2> QED
    BY <2>1 DEF Precedes
<1>2. S \in SUBSET Nat /\ S # {}
  BY <1>1
<1>3. m \in S /\ \A y \in S : m <= y
  BY <1>2, LeastIsLeast
<1>4. x = Sst!skip_by_tranc_id(block, f)
  BY DEF Sst!NextEntry
<1> HIDE DEF m
<1>5. /\ m \in (p + 1)..(n + 1)
      /\ m <= n => block[m].key # block[p].key
      /\ \A j \in (p + 1)..(m - 1) : block[j].key = block[p].key
  <2> HIDE DEF n
  <2>1. m \in (p + 1)..(n + 1) /\ (m <= n => block[m].key # block[p].key)
    BY <1>1, <1>3
  <2>2. \A j \in (p + 1)..(m - 1) : j \in (p + 1)..n /\ ~ (m <= j)
    BY <1>1, <2>1
  <2> QED
    BY <1>3, <2>1, <2>2
<1>6. f \in (p + 1)..(n + 1) /\ f \in 1..(n + 1)
  <2> HIDE DEF n
  <2> QED
    BY <1>1, <1>5
<1>7. /\ x \in f..(n + 1)
      /\ x <= n => Sst!Visible(block[x])
      /\ \A j \in f..(x - 1) : ~ Sst!Visible(block[j])
  BY <1>4, <1>6, SkipFinds
<1>8. x \in (p + 1)..(n + 1)
  <2> HIDE DEF n, f
  <2> QED
    BY <1>1, <1>6, <1>7
<1>9. ASSUME x <= n, ~ keep_all
      PROVE  block[p].key < block[x].key
  <2> HIDE DEF n
  <2>1. f = m /\ m <= x /\ m \in 1..n /\ p < m /\ x \in 1..n
    BY <1>1, <1>5, <1>7, <1>8, <1>9
  <2>2. block[m].key # block[p].key /\ block[p].key <= block[m].key
    BY <1>1, <1>5, <2>1
  <2>3. block[m].key <= block[x].key
    <3>1. m = x \/ m < x
      BY <2>1
    <3> QED
      BY <1>1, <2>1, <3>1
  <2>4. block[m].key \in Nat /\ block[p].key \in Nat /\ block[x].key \in Nat
    BY <1>1, <2>1
  <2> QED
    BY <2>2, <2>3, <2>4
<1>10. ASSUME NEW j \in (p + 1)..(x - 1), Sst!Visible(block[j])
       PROVE  ~ keep_all /\ block[j].key = block[p].key
  <2>1. j \notin f..(x - 1)
    BY <1>7, <1>10
  <2> HIDE DEF n
  <2>2. CASE keep_all
    BY <1>1, <1>8, <2>1, <2>2
  <2>3. CASE ~ keep_all
    <3>1. f = m
      BY <2>3
    <3>2. j \in (p + 1)..(m - 1)
      BY <1>1, <1>5, <1>8, <2>1, <3>1
    <3> QED
      BY <1>5, <2>3, <3>2
  <2> QED
    BY <2>2, <2>3
<1> QED
  BY <1>7, <1>8, <1>9, <1>10

\* Where a visible entry stands with nothing visible before it in its block, and the
\* block is a later one, the entry is wanted.
LEMMA FirstOfBlockIsWanted ==
  ASSUME Leveled, NEW s \in DOMAIN ssts, NEW b \in DOMAIN ssts[s],
         NEW x, x = Sst!skip_by_tranc_id(ssts[s][b], 1)
  PROVE  /\ x \in 1..(Len(ssts[s][b]) + 1)
         /\ max_tranc_id = 0 => x = 1
         /\ x <= Len(ssts[s][b]) => InTable(s, b, x) /\ ssts[s][b][x] \in Sst!Wanted
<1> DEFINE block == ssts[s][b]
<1>1. Ascending(block)
  BY DEF Leveled
<1>2. Len(block) \in Nat \ {0} /\ DOMAIN block = 1..Len(block) /\ 1 \in 1..(Len(block) + 1)
  BY <1>1 DEF Ascending
<1>3. /\ x \in 1..(Len(block) + 1)
      /\ x <= Len(block) => Sst!Visible(block[x])
      /\ \A j \in 1..(x - 1) : ~ Sst!Visible(block[j])
      /\ max_tranc_id = 0 => x = 1
  BY <1>1, <1>2, SkipFinds
<1>4. x <= Len(block) => InTable(s, b, x)
  BY <1>2, <1>3 DEF InTable
<1>5. x <= Len(block) => block[x] \in Sst!Wanted
  BY <1>3, <1>4, NewestIsWanted
<1> QED
  BY <1>3, <1>4, <1>5

\* operator++ passes by nothing wanted within a block.
LEMMA PassesNothingWanted ==
  ASSUME Leveled, NEW s, NEW b, NEW p, InTable(s, b, p), ssts[s][b][p] \in Sst!Wanted,
         NEW j, InTable(s, b, j), ssts[s][b][j] \in Sst!Wanted,
         NEW x, x = Sst!NextEntry(ssts[s][b], p), p < j
  PROVE  ~ (j < x)
<1> SUFFICES ASSUME j < x
             PROVE  FALSE
  OBVIOUS
<1> DEFINE d == ssts[s][b][p]
           e == ssts[s][b][j]
<1>1. /\ Ascending(ssts[s][b]) /\ p \in 1..Len(ssts[s][b]) /\ j \in 1..Len(ssts[s][b])
      /\ d \in Sst!Entries /\ d.id \in Nat /\ e.id \in Nat /\ e.key \in Nat
  BY PlaceIs
<1>2. x \in (p + 1)..(Len(ssts[s][b]) + 1)
  BY <1>1, NextFinds
<1>3. j \in (p + 1)..(x - 1)
  BY <1>1, <1>2
<1>4. Sst!Visible(d) /\ Sst!Visible(e)
  BY DEF Sst!Wanted
<1>5. ~ keep_all /\ e.key = d.key
  BY <1>1, <1>3, <1>4, NextFinds
<1>6. Precedes(d, e)
  BY EarlierPrecedes DEF Earlier
<1> QED
  BY <1>1, <1>4, <1>5, <1>6, OlderIsNotWanted

\* Where the iterator stands.
Cur == ssts[cur_idx][block_idx][current_index]

\* The iterator stands at an entry that is wanted.
Standing == InTable(cur_idx, block_idx, current_index) /\ Cur \in Sst!Wanted

\* From an entry that is wanted, (t, c, x) is the next place to stand, if good, and
\* the end otherwise.  Without a transaction nothing wanted is passed by.
Follows(t, c, x, good) ==
  /\ good => /\ InTable(t, c, x) /\ ssts[t][c][x] \in Sst!Wanted
             /\ Precedes(Cur, ssts[t][c][x])
  /\ max_tranc_id = 0 =>
       \A e \in Sst!Wanted : Precedes(Cur, e) => good /\ ~ Precedes(e, ssts[t][c][x])

\* Wanted entries behind the iterator are in a later block or at or behind the next
\* place in the block.
LEMMA WantedAhead ==
  ASSUME Leveled, Standing, NEW e \in Sst!Wanted, Precedes(Cur, e)
  PROVE  \E r, c, j :
           /\ InTable(r, c, j) /\ e = ssts[r][c][j]
           /\ r \in Nat /\ c \in Nat /\ j \in Nat /\ j >= 1
           /\ \/ cur_idx < r
              \/ cur_idx = r /\ block_idx < c
              \/ /\ cur_idx = r /\ block_idx = c /\ j <= Len(ssts[r][c])
                 /\ ~ (j < Sst!NextEntry(ssts[r][c], current_index))
<1>1. e \in Sst!Entries
  BY DEF Sst!Wanted
<1>2. PICK r, c, j : InTable(r, c, j) /\ e = ssts[r][c][j]
  BY <1>1, EntryHasPlace
<1>3. InTable(cur_idx, block_idx, current_index)
  BY DEF Standing
<1>4. Earlier(cur_idx, block_idx, current_index, r, c, j)
  BY <1>2, <1>3, PrecedingIsEarlier DEF Cur
<1>5. r \in 1..Len(ssts) /\ c \in 1..Len(ssts[r]) /\ j \in 1..Len(ssts[r][c])
  BY <1>2, PlaceIs
<1>6. cur_idx = r /\ block_idx = c /\ current_index < j =>
        ~ (j < Sst!NextEntry(ssts[r][c], current_index))
  BY <1>2, <1>3, PassesNothingWanted DEF Standing, Cur
<1>7. r \in Nat /\ c \in Nat /\ j \in Nat /\ j >= 1 /\ j <= Len(ssts[r][c])
  BY <1>5
<1> QED
  BY <1>2, <1>4, <1>6, <1>7 DEF Earlier

\* operator++ within a block.
LEMMA FollowsInBlock ==
  ASSUME Leveled, Standing, NEW x, x = Sst!NextEntry(Sst!Block, current_index),
         x <= Len(Sst!Block)
  PROVE  Follows(cur_idx, block_idx, x, TRUE)
<1> DEFINE s == cur_idx
           b == block_idx
           p == current_index
           block == ssts[s][b]
<1>1. /\ InTable(s, b, p) /\ Ascending(block) /\ p \in 1..Len(block)
      /\ block = Sst!Block /\ Len(block) \in Nat /\ DOMAIN block = 1..Len(block)
      /\ \A j \in 1..Len(block) : block[j].key \in Nat /\ block[j].id \in Nat
  BY PlaceIs DEF Standing, Sst!Block, Ascending
<1>2. /\ x \in (p + 1)..(Len(block) + 1)
      /\ Sst!Visible(block[x]) /\ (~ keep_all => block[p].key < block[x].key)
      /\ \A j \in (p + 1)..(x - 1) :
           Sst!Visible(block[j]) => ~ keep_all /\ block[j].key = block[p].key
  BY <1>1, NextFinds
<1>3. x \in 1..Len(block) /\ p < x
  BY <1>1, <1>2
<1>4. InTable(s, b, x)
  BY <1>1, <1>3 DEF InTable
<1>5. ASSUME ~ keep_all, NEW j \in 1..(x - 1), block[j].key = block[x].key
      PROVE  ~ Sst!Visible(block[j])
  <2>1. j \in 1..Len(block) /\ (j < p \/ j = p \/ j \in (p + 1)..(x - 1))
    BY <1>1, <1>3
  <2>2. block[p].key \in Nat /\ block[x].key \in Nat /\ block[p].key # block[j].key
    BY <1>1, <1>2, <1>3, <1>5
  <2>3. CASE j \in (p + 1)..(x - 1)
    BY <1>2, <2>2, <2>3
  <2>4. CASE j < p
    <3>1. Precedes(block[j], block[p])
      BY <1>1, <2>1, <2>4 DEF Ascending
    <3> QED
      BY <1>1, <1>2, <1>5, <2>1, <2>2, <3>1 DEF Precedes
  <2> QED
    BY <2>1, <2>2, <2>3, <2>4
<1>6. block[x] \in Sst!Wanted
  BY <1>2, <1>4, <1>5, NewestIsWanted
<1>7. Precedes(Cur, block[x])
  BY <1>1, <1>3, <1>4, EarlierPrecedes DEF Earlier, Cur
<1>8. ASSUME NEW e \in Sst!Wanted, Precedes(Cur, e)
      PROVE  ~ Precedes(e, block[x])
  <2> SUFFICES ASSUME Precedes(e, block[x])
               PROVE  FALSE
    OBVIOUS
  <2>1. PICK r, c, j :
          /\ InTable(r, c, j) /\ e = ssts[r][c][j]
          /\ r \in Nat /\ c \in Nat /\ j \in Nat /\ j >= 1
          /\ \/ cur_idx < r
             \/ cur_idx = r /\ block_idx < c
             \/ /\ cur_idx = r /\ block_idx = c /\ j <= Len(ssts[r][c])
                /\ ~ (j < Sst!NextEntry(ssts[r][c], current_index))
    BY <1>8, WantedAhead
  <2>2. Earlier(r, c, j, s, b, x)
    BY <1>4, <2>1, PrecedingIsEarlier
  <2>3. s \in Nat /\ b \in Nat
    BY <1>1, PlaceIs
  <2>4. r = s /\ c = b /\ j < x
    BY <2>1, <2>2, <2>3 DEF Earlier
  <2> QED
    BY <1>1, <2>1, <2>3, <2>4
<1> QED
  BY <1>4, <1>6, <1>7, <1>8 DEF Follows

\* operator++ into the next block.
LEMMA FollowsInNextBlock ==
  ASSUME Leveled, Standing, Sst!AtBlockEnd, Sst!HasNextBlock,
         NEW x, x = Sst!FirstOfNextBlock, x <= Len(ssts[cur_idx][block_idx + 1])
  PROVE  Follows(cur_idx, block_idx + 1, x, TRUE)
<1> DEFINE s == cur_idx
           b == block_idx
           n == Len(ssts[s][b])
<1>1. /\ InTable(s, b, current_index) /\ s \in 1..Len(ssts) /\ b \in 1..Len(ssts[s])
      /\ Sst!NextEntry(ssts[s][b], current_index) > n /\ b < Len(ssts[s])
      /\ current_index \in 1..n /\ Ascending(ssts[s][b])
  BY PlaceIs DEF Standing, Sst!AtBlockEnd, Sst!HasNextBlock, Sst!Block
<1>2. /\ s \in DOMAIN ssts /\ b + 1 \in DOMAIN ssts[s]
      /\ Sst!NextEntry(ssts[s][b], current_index) \in Nat /\ n \in Nat
  <2>1. DOMAIN ssts[s] = 1..Len(ssts[s]) /\ s \in DOMAIN ssts /\ Len(ssts[s]) \in Nat
    BY <1>1 DEF Leveled
  <2>2. n \in Nat
    BY <1>1 DEF Ascending
  <2>3. Sst!NextEntry(ssts[s][b], current_index) \in (current_index + 1)..(n + 1)
    BY <1>1, NextFinds
  <2> QED
    BY <1>1, <2>1, <2>2, <2>3
<1>3. /\ max_tranc_id = 0 => x = 1
      /\ InTable(s, b + 1, x) /\ ssts[s][b + 1][x] \in Sst!Wanted
  BY <1>2, FirstOfBlockIsWanted DEF Sst!FirstOfNextBlock
<1>4. Precedes(Cur, ssts[s][b + 1][x])
  <2>1. Earlier(s, b, current_index, s, b + 1, x)
    BY <1>1 DEF Earlier
  <2> QED
    BY <1>1, <1>3, <2>1, EarlierPrecedes DEF Cur
<1>5. ASSUME max_tranc_id = 0, NEW e \in Sst!Wanted, Precedes(Cur, e)
      PROVE  ~ Precedes(e, ssts[s][b + 1][x])
  <2> SUFFICES ASSUME Precedes(e, ssts[s][b + 1][x])
               PROVE  FALSE
    OBVIOUS
  <2>1. PICK r, c, j :
          /\ InTable(r, c, j) /\ e = ssts[r][c][j]
          /\ r \in Nat /\ c \in Nat /\ j \in Nat /\ j >= 1
          /\ \/ cur_idx < r
             \/ cur_idx = r /\ block_idx < c
             \/ /\ cur_idx = r /\ block_idx = c /\ j <= Len(ssts[r][c])
                /\ ~ (j < Sst!NextEntry(ssts[r][c], current_index))
    BY <1>5, WantedAhead
  <2>2. Earlier(r, c, j, s, b + 1, x)
    BY <1>3, <2>1, PrecedingIsEarlier
  <2>3. s < r \/ (s = r /\ b < c)
    <3> HIDE DEF n
    <3>1. ~ (s = r /\ b = c)
      <4> SUFFICES ASSUME s = r, b = c
                   PROVE  FALSE
        OBVIOUS
      <4>1. j <= n /\ ~ (j < Sst!NextEntry(ssts[s][b], current_index))
        BY <1>1, <2>1 DEF n
      <4> QED
        BY <1>1, <1>2, <2>1, <4>1
    <3> QED
      BY <2>1, <3>1
  <2> QED
    BY <1>1, <1>3, <1>5, <2>1, <2>2, <2>3 DEF Earlier
<1> QED
  BY <1>3, <1>4, <1>5 DEF Follows

\* operator++ into the next SST.
LEMMA FollowsInNextSst ==
  ASSUME Leveled, Standing, Sst!AtBlockEnd,
         Sst!HasNextBlock => Sst!FirstOfNextBlock > Len(ssts[cur_idx][block_idx + 1]),
         NEW x, cur_idx + 1 <= Len(ssts) => x = Sst!skip_by_tranc_id(ssts[cur_idx + 1][1], 1),
         NEW good, good = (cur_idx + 1 <= Len(ssts) /\ x <= Len(ssts[cur_idx + 1][1]))
  PROVE  Follows(cur_idx + 1, 1, x, good)
<1> DEFINE s == cur_idx
           b == block_idx
           n == Len(ssts[s][b])
<1>1. /\ InTable(s, b, current_index) /\ s \in 1..Len(ssts) /\ b \in 1..Len(ssts[s])
      /\ Sst!NextEntry(ssts[s][b], current_index) > n
      /\ current_index \in 1..n /\ Ascending(ssts[s][b])
  BY PlaceIs DEF Standing, Sst!AtBlockEnd, Sst!Block
<1>2. /\ s \in DOMAIN ssts /\ Sst!NextEntry(ssts[s][b], current_index) \in Nat /\ n \in Nat
      /\ DOMAIN ssts[s] = 1..Len(ssts[s]) /\ Len(ssts[s]) \in Nat
      /\ DOMAIN ssts = 1..Len(ssts) /\ Len(ssts) \in Nat
  <2>1. /\ DOMAIN ssts[s] = 1..Len(ssts[s]) /\ s \in DOMAIN ssts /\ Len(ssts[s]) \in Nat
        /\ DOMAIN ssts = 1..Len(ssts) /\ Len(ssts) \in Nat
    BY <1>1 DEF Leveled
  <2>2. n \in Nat
    BY <1>1 DEF Ascending
  <2>3. Sst!NextEntry(ssts[s][b], current_index) \in (current_index + 1)..(n + 1)
    BY <1>1, NextFinds
  <2> QED
    BY <1>1, <2>1, <2>2, <2>3
<1>3. s + 1 <= Len(ssts) =>
        /\ max_tranc_id = 0 => x = 1 /\ good
        /\ good => InTable(s + 1, 1, x) /\ ssts[s + 1][1][x] \in Sst!Wanted
  <2> SUFFICES ASSUME s + 1 <= Len(ssts)
               PROVE  /\ max_tranc_id = 0 => x = 1 /\ good
                      /\ good => InTable(s + 1, 1, x) /\ ssts[s + 1][1][x] \in Sst!Wanted
    OBVIOUS
  <2>1. s + 1 \in DOMAIN ssts
    BY <1>1, <1>2
  <2>2. 1 \in DOMAIN ssts[s + 1] /\ Ascending(ssts[s + 1][1])
    BY <2>1 DEF Leveled
  <2>3. Len(ssts[s + 1][1]) \in Nat \ {0}
    BY <2>2 DEF Ascending
  <2>4. x = Sst!skip_by_tranc_id(ssts[s + 1][1], 1)
    OBVIOUS
  <2>5. /\ max_tranc_id = 0 => x = 1
        /\ x <= Len(ssts[s + 1][1]) => InTable(s + 1, 1, x) /\ ssts[s + 1][1][x] \in Sst!Wanted
    BY <2>1, <2>2, <2>4, FirstOfBlockIsWanted
  <2>6. max_tranc_id = 0 => x = 1 /\ x <= Len(ssts[s + 1][1])
    BY <2>3, <2>5
  <2>7. x <= Len(ssts[s + 1][1]) <=> good
    BY Zenon
  <2> QED
    BY <2>5, <2>6, <2>7
<1>4. good => Precedes(Cur, ssts[s + 1][1][x])
  <2>1. Earlier(s, b, current_index, s + 1, 1, x)
    BY <1>1 DEF Earlier
  <2> QED
    BY <1>1, <1>3, <2>1, EarlierPrecedes DEF Cur
<1>5. max_tranc_id = 0 => b = Len(ssts[s])
  <2> SUFFICES ASSUME max_tranc_id = 0, b # Len(ssts[s])
               PROVE  FALSE
    OBVIOUS
  <2>1. b < Len(ssts[s]) /\ b + 1 \in DOMAIN ssts[s]
    <3> DEFINE m == Len(ssts[s])
    <3>1. b \in 1..m /\ m \in Nat /\ b # m /\ DOMAIN ssts[s] = 1..m
      BY <1>1, <1>2
    <3> HIDE DEF m
    <3>2. b < m /\ b + 1 \in 1..m
      BY <3>1
    <3> QED
      BY <3>1, <3>2 DEF m
  <2>2. Sst!FirstOfNextBlock = 1
    BY <1>2, <2>1, FirstOfBlockIsWanted DEF Sst!FirstOfNextBlock
  <2>3. Ascending(ssts[s][b + 1])
    BY <1>2, <2>1 DEF Leveled
  <2>4. Len(ssts[s][b + 1]) \in Nat \ {0}
    BY <2>3 DEF Ascending
  <2> QED
    BY <2>1, <2>2, <2>4 DEF Sst!HasNextBlock
<1>6. ASSUME max_tranc_id = 0, NEW e \in Sst!Wanted, Precedes(Cur, e)
      PROVE  good /\ ~ Precedes(e, ssts[s + 1][1][x])
  <2>1. PICK r, c, j :
          /\ InTable(r, c, j) /\ e = ssts[r][c][j]
          /\ r \in Nat /\ c \in Nat /\ j \in Nat /\ j >= 1
          /\ \/ cur_idx < r
             \/ cur_idx = r /\ block_idx < c
             \/ /\ cur_idx = r /\ block_idx = c /\ j <= Len(ssts[r][c])
                /\ ~ (j < Sst!NextEntry(ssts[r][c], current_index))
    BY <1>6, WantedAhead
  <2>2. r \in 1..Len(ssts) /\ c \in 1..Len(ssts[r])
    BY <2>1, PlaceIs
  <2>3. s < r
    <3>1. ~ (s = r /\ b < c)
      BY <1>1, <1>2, <1>5, <1>6, <2>2
    <3>2. ~ (s = r /\ b = c)
      <4> SUFFICES ASSUME s = r, b = c
                   PROVE  FALSE
        OBVIOUS
      <4>1. j <= n /\ ~ (j < Sst!NextEntry(ssts[s][b], current_index))
        BY <1>1, <2>1
      <4> HIDE DEF n
      <4> QED
        BY <1>1, <1>2, <2>1, <4>1
    <3> QED
      BY <2>1, <3>1, <3>2
  <2>4. s + 1 <= Len(ssts)
    BY <1>1, <1>2, <2>2, <2>3
  <2>5. good /\ x = 1 /\ InTable(s + 1, 1, x)
    BY <1>3, <1>6, <2>4
  <2>6. ~ Earlier(r, c, j, s + 1, 1, x)
    BY <1>1, <2>1, <2>2, <2>3, <2>5 DEF Earlier
  <2> QED
    BY <2>1, <2>5, <2>6, PrecedingIsEarlier
<1> QED
  BY <1>3, <1>4, <1>6 DEF Follows

\* A sorted list that is not empty is a block.
LEMMA ListIsAscending ==
  ASSUME NEW S, Placed(S), NEW s, Lists(s, S), s # << >>
  PROVE  Ascending(s)
<1>1. s \in Seq(S) /\ Len(s) \in Nat \ {0} /\ DOMAIN s = 1..Len(s)
  BY DEF Lists
<1>2. \A i \in DOMAIN s : s[i] \in S
  BY <1>1
<1> QED
  BY <1>1, <1>2 DEF Lists, Placed, Ascending

\* SSTs from the parts of a cut are those of a level.
LEMMA LeveledFromParts ==
  ASSUME NEW E, Placed(E), NEW c, Parts(c, E), DOMAIN ssts = DOMAIN c, Len(ssts) = Len(c),
         \A s \in DOMAIN c : Blocked(ssts[s], c[s]),
         max_tranc_id \in Nat, keep_all \in BOOLEAN
  PROVE  Leveled
<1>1. Len(ssts) \in Nat \ {0} /\ DOMAIN ssts = 1..Len(ssts)
  BY DEF Parts
<1>2. ASSUME NEW s \in DOMAIN ssts
      PROVE  /\ Len(ssts[s]) \in Nat \ {0} /\ DOMAIN ssts[s] = 1..Len(ssts[s])
             /\ \A b \in DOMAIN ssts[s] : Ascending(ssts[s][b])
             /\ \A b \in DOMAIN ssts[s] : \A i \in DOMAIN ssts[s][b] : ssts[s][b][i] \in c[s]
             /\ \A b, d \in DOMAIN ssts[s] : b < d =>
                  \A i \in DOMAIN ssts[s][b], j \in DOMAIN ssts[s][d] :
                    ssts[s][b][i].key < ssts[s][d][j].key
  <2>1. Blocked(ssts[s], c[s]) /\ c[s] \in SUBSET E
    BY DEF Parts
  <2>2. Placed(c[s])
    BY <2>1 DEF Placed
  <2>3. \A b \in DOMAIN ssts[s] : Lists(ssts[s][b], c[s]) /\ ssts[s][b] # << >>
    BY <2>1 DEF Blocked
  <2>4. \A b \in DOMAIN ssts[s] : Ascending(ssts[s][b])
    BY <2>2, <2>3, ListIsAscending
  <2>5. \A b \in DOMAIN ssts[s] : \A i \in DOMAIN ssts[s][b] : ssts[s][b][i] \in c[s]
    BY <2>3 DEF Lists
  <2> QED
    BY <2>1, <2>4, <2>5 DEF Blocked, Els
<1>3. ASSUME NEW s, NEW b, NEW i, NEW r, NEW d, NEW j,
             InTable(s, b, i), InTable(r, d, j), s < r \/ (s = r /\ b < d)
      PROVE  ssts[s][b][i].key < ssts[r][d][j].key
  <2>1. CASE s < r
    <3>1. ssts[s][b][i] \in c[s] /\ ssts[r][d][j] \in c[r]
      BY <1>2, <1>3 DEF InTable
    <3> QED
      BY <1>3, <2>1, <3>1 DEF Parts, InTable
  <2>2. CASE s = r /\ b < d
    BY <1>2, <1>3, <2>2 DEF InTable
  <2> QED
    BY <1>3, <2>1, <2>2
<1> QED
  BY <1>1, <1>2, <1>3 DEF Leveled

\* All inputs of a scan are the SSTs of a level.
LEMMA InputsAreLeveled ==
  ASSUME ssts \in Sst!Inputs, max_tranc_id \in Snapshots, keep_all \in BOOLEAN
  PROVE  Leveled
<1>1. PICK E \in (SUBSET Sst!Entry) \ {{}} :
        ssts \in UNION {{t \in [DOMAIN c -> UNION {Sst!SstsFrom(c[i]) : i \in DOMAIN c}] :
                           \A i \in DOMAIN c : t[i] \in Sst!SstsFrom(c[i])} :
                        c \in Sst!Cuts(E, MaxSsts)}
  BY DEF Sst!Inputs
<1>2. PICK c \in Sst!Cuts(E, MaxSsts) :
        ssts \in {t \in [DOMAIN c -> UNION {Sst!SstsFrom(c[i]) : i \in DOMAIN c}] :
                    \A i \in DOMAIN c : t[i] \in Sst!SstsFrom(c[i])}
  BY <1>1
<1>3. DOMAIN ssts = DOMAIN c /\ (\A i \in DOMAIN c : ssts[i] \in Sst!SstsFrom(c[i]))
      /\ ssts = [i \in DOMAIN c |-> ssts[i]]
  BY <1>2
<1>4. IsFiniteSet(E) /\ Placed(E) /\ E # {}
  BY SomeEntries
<1>5. Parts(c, E)
  BY <1>4, CutsHaveParts
<1>6. ASSUME NEW i \in DOMAIN c
      PROVE  Blocked(ssts[i], c[i])
  <2>1. c[i] \in SUBSET E /\ c[i] # {}
    BY <1>5 DEF Parts
  <2>2. IsFiniteSet(c[i]) /\ Placed(c[i])
    BY <1>4, <2>1, FS_Subset DEF Placed
  <2>3. ssts[i] \in Sst!SstsFrom(c[i])
    BY <1>3
  <2> QED
    BY <2>1, <2>2, <2>3, SstsAreBlocked
<1>7. Len(ssts) = Len(c)
  BY <1>3, <1>5 DEF Parts
<1>8. max_tranc_id \in Nat
  BY ScanAssumption
<1> QED
  BY <1>3, <1>4, <1>5, <1>6, <1>7, <1>8, LeveledFromParts

\* The SST of a search is that of a level as well.
LEMMA SearchedIsLeveled ==
  ASSUME ssts \in {<<s>> : s \in UNION {Search!SstsFrom(entries) :
                                          entries \in (SUBSET Search!Entry) \ {{}}}},
         max_tranc_id \in Snapshots, keep_all = FALSE
  PROVE  Leveled /\ Len(ssts) = 1
<1>1. PICK s \in UNION {Search!SstsFrom(entries) : entries \in (SUBSET Search!Entry) \ {{}}} :
        ssts = <<s>>
  OBVIOUS
<1>2. PICK E \in (SUBSET Search!Entry) \ {{}} : s \in Search!SstsFrom(E)
  BY <1>1
<1>3. IsFiniteSet(E) /\ Placed(E) /\ E # {}
  BY SomeEntries
<1>4. Blocked(s, E)
  BY <1>2, <1>3, SstsAreBlocked
<1> DEFINE c == <<E>>
<1>5. /\ c \in Seq(SUBSET E) /\ Len(c) = 1 /\ DOMAIN c = 1..1 /\ c[1] = E
      /\ Len(ssts) = 1 /\ DOMAIN ssts = 1..1 /\ ssts[1] = s
  BY <1>1
<1>6. \A i, j \in 1..1 : i = 1 /\ ~ (i < j)
  OBVIOUS
<1> HIDE DEF c
<1>7. Parts(c, E)
  BY <1>3, <1>5, <1>6 DEF Parts
<1>8. \A i \in DOMAIN c : Blocked(ssts[i], c[i])
  BY <1>4, <1>5, <1>6
<1>9. max_tranc_id \in Nat /\ keep_all \in BOOLEAN
  BY ScanAssumption
<1> QED
  BY <1>3, <1>5, <1>7, <1>8, <1>9, LeveledFromParts

\* The scan delivered only what is wanted, in order and from before where it stands.
ScanInv ==
  /\ Leveled
  /\ output \in Seq(Sst!Wanted)
  /\ \A i, j \in DOMAIN output : i < j => Precedes(output[i], output[j])
  /\ Sst!IsValid => Standing /\ \A i \in DOMAIN output : Precedes(output[i], Cur)

\* Without a transaction what is in S is delivered or at or behind place (t, c, x), if
\* that is good.
Kept(S, out, t, c, x, good) ==
  max_tranc_id = 0 => \A e \in S : e \in Els(out) \/ (good /\ ~ Precedes(e, ssts[t][c][x]))

\* Entries are equal or in order.
LEMMA EntriesOrdered ==
  ASSUME Leveled, NEW d \in Sst!Entries, NEW e \in Sst!Entries
  PROVE  d = e \/ Precedes(d, e) \/ Precedes(e, d)
<1>1. PICK s, b, i : InTable(s, b, i) /\ d = ssts[s][b][i]
  BY EntryHasPlace
<1>2. PICK r, c, j : InTable(r, c, j) /\ e = ssts[r][c][j]
  BY EntryHasPlace
<1>3. s \in Int /\ b \in Int /\ i \in Int /\ r \in Int /\ c \in Int /\ j \in Int
  BY <1>1, <1>2, PlaceIs
<1>4. \/ Earlier(s, b, i, r, c, j) \/ Earlier(r, c, j, s, b, i)
      \/ (s = r /\ b = c /\ i = j)
  BY <1>3 DEF Earlier
<1> QED
  BY <1>1, <1>2, <1>4, EarlierPrecedes

\* operator++ of ConcactIterator goes where the next wanted entry is.
LEMMA ScanMoves ==
  ASSUME ScanInv, Sst!Next
  PROVE  /\ Sst!IsValid /\ output' = Append(output, Cur) /\ UNCHANGED Sst!input
         /\ Follows(cur_idx', block_idx', current_index', Sst!IsValid')
<1>1. Sst!IsValid /\ output' = Append(output, Cur) /\ UNCHANGED Sst!input
  BY DEF Sst!Next, Sst!NextInBlock, Sst!NextBlock, Sst!NextSst, Sst!AtBlockEnd, Sst!Deliver,
         Sst!Block, Cur
<1>2. Leveled /\ Standing /\ ssts' = ssts
  BY <1>1 DEF ScanInv, Sst!input
<1>3. /\ Sst!Block = ssts[cur_idx][block_idx]
      /\ InTable(cur_idx, block_idx, current_index) /\ Ascending(Sst!Block)
      /\ cur_idx \in 1..Len(ssts) /\ block_idx \in 1..Len(ssts[cur_idx])
      /\ current_index \in 1..Len(Sst!Block)
      /\ Len(ssts) \in Nat /\ Len(ssts[cur_idx]) \in Nat /\ DOMAIN ssts = 1..Len(ssts)
      /\ DOMAIN ssts[cur_idx] = 1..Len(ssts[cur_idx])
  BY <1>2, PlaceIs DEF Standing, Sst!Block, InTable, Leveled
<1> DEFINE good == /\ cur_idx' <= Len(ssts) /\ current_index' # NullIt
                   /\ block_idx' <= Len(ssts[cur_idx'])
                   /\ current_index' <= Len(ssts[cur_idx'][block_idx'])
<1>4. Sst!IsValid' = good
  BY <1>2 DEF Sst!IsValid, Sst!Block
<1>5. CASE Sst!NextInBlock
  <2>1. /\ cur_idx' = cur_idx /\ block_idx' = block_idx
        /\ current_index' = Sst!NextEntry(Sst!Block, current_index)
        /\ current_index' <= Len(Sst!Block)
    BY <1>5 DEF Sst!NextInBlock
  <2>2. current_index' \in (current_index + 1)..(Len(Sst!Block) + 1)
    BY <1>2, <1>3, <2>1, NextFinds
  <2>3. current_index' \in Nat
    BY <1>3, <2>2
  <2>4. good = TRUE
    BY <1>3, <2>1, <2>3, NullAssumption
  <2>5. Follows(cur_idx, block_idx, current_index', TRUE)
    BY <1>2, <2>1, FollowsInBlock
  <2> HIDE DEF good
  <2> QED
    BY <1>1, <1>4, <2>1, <2>4, <2>5
<1>6. CASE Sst!NextBlock
  <2>1. /\ cur_idx' = cur_idx /\ block_idx' = block_idx + 1 /\ Sst!AtBlockEnd
        /\ Sst!HasNextBlock /\ current_index' = Sst!FirstOfNextBlock
        /\ current_index' <= Len(ssts[cur_idx][block_idx + 1])
    BY <1>6 DEF Sst!NextBlock
  <2>2. cur_idx \in DOMAIN ssts /\ block_idx + 1 \in DOMAIN ssts[cur_idx]
    BY <1>3, <2>1 DEF Sst!HasNextBlock
  <2>3. current_index' \in 1..(Len(ssts[cur_idx][block_idx + 1]) + 1)
    BY <1>2, <2>1, <2>2, FirstOfBlockIsWanted DEF Sst!FirstOfNextBlock
  <2>4. current_index' \in Nat
    BY <2>3
  <2>5. good = TRUE
    BY <1>3, <2>1, <2>2, <2>4, NullAssumption
  <2>6. Follows(cur_idx, block_idx + 1, current_index', TRUE)
    BY <1>2, <2>1, FollowsInNextBlock
  <2> HIDE DEF good
  <2> QED
    BY <1>1, <1>4, <2>1, <2>5, <2>6
<1>7. CASE Sst!NextSst
  <2>1. /\ cur_idx' = cur_idx + 1 /\ block_idx' = 1 /\ Sst!AtBlockEnd
        /\ Sst!HasNextBlock => Sst!FirstOfNextBlock > Len(ssts[cur_idx][block_idx + 1])
        /\ cur_idx + 1 <= Len(ssts) =>
             current_index' = Sst!skip_by_tranc_id(ssts[cur_idx + 1][1], 1)
    BY <1>7 DEF Sst!NextSst, Sst!BeginSst
  <2> DEFINE fine == cur_idx + 1 <= Len(ssts) /\ current_index' <= Len(ssts[cur_idx + 1][1])
  <2>2. good = fine
    <3>1. CASE ~ (cur_idx + 1 <= Len(ssts))
      BY <2>1, <3>1
    <3>2. CASE cur_idx + 1 <= Len(ssts)
      <4>1. cur_idx + 1 \in DOMAIN ssts
        BY <1>3, <3>2
      <4>2. 1 \in DOMAIN ssts[cur_idx + 1] /\ 1 <= Len(ssts[cur_idx + 1])
        BY <1>2, <4>1 DEF Leveled
      <4>3. current_index' \in 1..(Len(ssts[cur_idx + 1][1]) + 1)
        BY <1>2, <2>1, <3>2, <4>1, <4>2, FirstOfBlockIsWanted
      <4>4. current_index' # NullIt
        BY <4>3, NullAssumption
      <4> QED
        BY <2>1, <3>2, <4>2, <4>4
    <3> QED
      BY <3>1, <3>2
  <2>3. Follows(cur_idx + 1, 1, current_index', fine)
    BY <1>2, <2>1, FollowsInNextSst
  <2> HIDE DEF good, fine
  <2> QED
    BY <1>1, <1>4, <2>1, <2>2, <2>3
<1> QED
  BY <1>5, <1>6, <1>7 DEF Sst!Next

\* A step keeps the invariant, and what it kept it keeps.
LEMMA ScanStep ==
  ASSUME ScanInv, Sst!Next
  PROVE  /\ ScanInv'
         /\ \A S \in SUBSET Sst!Wanted :
              Kept(S, output, cur_idx, block_idx, current_index, Sst!IsValid) =>
                Kept(S, output', cur_idx', block_idx', current_index', Sst!IsValid')
<1> DEFINE m == Len(output)
<1>1. /\ Sst!IsValid /\ output' = Append(output, Cur) /\ UNCHANGED <<ssts, max_tranc_id, keep_all>>
      /\ Follows(cur_idx', block_idx', current_index', Sst!IsValid')
  BY ScanMoves DEF Sst!input
<1>2. Leveled /\ Standing /\ Cur \in Sst!Wanted
  BY <1>1 DEF ScanInv, Standing
<1>3. /\ output \in Seq(Sst!Wanted) /\ m \in Nat /\ DOMAIN output = 1..m
      /\ output' \in Seq(Sst!Wanted) /\ DOMAIN output' = 1..(m + 1)
      /\ \A i \in 1..m : output'[i] = output[i]
      /\ output'[m + 1] = Cur
  BY <1>1, <1>2 DEF ScanInv
<1> HIDE DEF m
<1>4. Sst!Wanted' = Sst!Wanted
  BY <1>1 DEF Sst!Wanted, Sst!Entries, Sst!Visible
<1>5. Leveled' /\ \A s, b, i : InTable(s, b, i)' = InTable(s, b, i)
  BY <1>1, <1>2 DEF Leveled, InTable, Ascending, Precedes
<1>6. ASSUME NEW i \in 1..(m + 1), NEW j \in 1..(m + 1), i < j
      PROVE  Precedes(output'[i], output'[j])
  <2>1. i \in 1..m /\ (j \in 1..m \/ j = m + 1)
    BY <1>3, <1>6
  <2> QED
    BY <1>1, <1>3, <1>6, <2>1 DEF ScanInv
<1> DEFINE new == ssts[cur_idx'][block_idx'][current_index']
<1>7. ASSUME Sst!IsValid'
      PROVE  /\ InTable(cur_idx', block_idx', current_index') /\ new \in Sst!Wanted
             /\ \A i \in 1..(m + 1) : Precedes(output'[i], new)
  <2>1. /\ InTable(cur_idx', block_idx', current_index') /\ new \in Sst!Wanted
        /\ Precedes(Cur, new)
    BY <1>1, <1>7 DEF Follows
  <2>2. \A e \in Sst!Wanted : e.key \in Nat /\ e.id \in Nat
    <3>1. \A e \in Sst!Wanted : e \in Sst!Entries
      BY DEF Sst!Wanted
    <3> QED
      BY <1>2, <3>1, EntryHasPlace, PlaceIs
  <2>3. ASSUME NEW i \in 1..m
        PROVE  Precedes(output[i], new)
    <3>1. output[i] \in Sst!Wanted /\ Precedes(output[i], Cur)
      BY <1>1, <1>3 DEF ScanInv
    <3> HIDE DEF new
    <3> QED
      BY <1>2, <2>1, <2>2, <3>1 DEF Precedes
  <2>4. \A i \in 1..(m + 1) : i \in 1..m \/ i = m + 1
    BY <1>3
  <2> QED
    BY <1>3, <2>1, <2>3, <2>4
<1>8. Cur' = new
  BY <1>1 DEF Cur
<1>9. (Sst!IsValid => Standing /\ \A i \in DOMAIN output : Precedes(output[i], Cur))'
  <2>1. Sst!IsValid' => Standing'
    BY <1>4, <1>5, <1>7, <1>8 DEF Standing, InTable
  <2>2. Sst!IsValid' => \A i \in DOMAIN output' : Precedes(output'[i], Cur')
    BY <1>3, <1>7, <1>8
  <2> QED
    BY <2>1, <2>2 DEF Precedes
<1>10. (\A i, j \in DOMAIN output : i < j => Precedes(output[i], output[j]))'
  BY <1>3, <1>6 DEF Precedes
<1>11. ScanInv'
  BY <1>3, <1>4, <1>5, <1>9, <1>10 DEF ScanInv
<1>12. ASSUME NEW S \in SUBSET Sst!Wanted,
              Kept(S, output, cur_idx, block_idx, current_index, Sst!IsValid)
       PROVE  Kept(S, output', cur_idx', block_idx', current_index', Sst!IsValid')
  <2> SUFFICES ASSUME max_tranc_id = 0, NEW e \in S
               PROVE  e \in Els(output') \/ (Sst!IsValid' /\ ~ Precedes(e, new))
    BY DEF Kept
  <2>1. CASE e \in Els(output)
    <3>1. PICK i \in 1..m : e = output[i]
      BY <1>3, <2>1 DEF Els
    <3>2. i \in 1..(m + 1)
      BY <1>3
    <3> QED
      BY <1>3, <3>1, <3>2 DEF Els
  <2>2. CASE ~ Precedes(e, Cur)
    <3>1. e = Cur \/ Precedes(Cur, e)
      <4>1. e \in Sst!Entries /\ Cur \in Sst!Entries
        BY <1>2 DEF Sst!Wanted
      <4> QED
        BY <1>2, <2>2, <4>1, EntriesOrdered
    <3>2. CASE e = Cur
      <4>1. m + 1 \in DOMAIN output'
        BY <1>3
      <4> QED
        BY <1>3, <3>2, <4>1 DEF Els
    <3>3. CASE Precedes(Cur, e)
      BY <1>1, <3>3 DEF Follows
    <3> QED
      BY <3>1, <3>2, <3>3
  <2> QED
    BY <1>12, <2>1, <2>2 DEF Kept, Cur
<1> QED
  BY <1>11, <1>12

\* The scan begins with the first wanted entry.
LEMMA ScanStart ==
  ASSUME Sst!Init
  PROVE  /\ ScanInv
         /\ Kept(Sst!Wanted, output, cur_idx, block_idx, current_index, Sst!IsValid)
<1>1. /\ ssts \in Sst!Inputs /\ max_tranc_id \in Snapshots /\ keep_all \in BOOLEAN
      /\ cur_idx = 1 /\ block_idx = 1 /\ output = << >>
      /\ current_index = Sst!skip_by_tranc_id(ssts[1][1], 1)
  BY DEF Sst!Init
<1>2. Leveled
  BY <1>1, InputsAreLeveled
<1>3. /\ 1 \in DOMAIN ssts /\ 1 \in DOMAIN ssts[1] /\ 1 <= Len(ssts) /\ 1 <= Len(ssts[1])
      /\ Ascending(ssts[1][1])
  BY <1>2 DEF Leveled
<1>4. /\ current_index \in 1..(Len(ssts[1][1]) + 1)
      /\ max_tranc_id = 0 => current_index = 1
      /\ current_index <= Len(ssts[1][1]) =>
           InTable(1, 1, current_index) /\ ssts[1][1][current_index] \in Sst!Wanted
  BY <1>1, <1>2, <1>3, FirstOfBlockIsWanted
<1>5. Sst!IsValid => Standing
  BY <1>1, <1>4 DEF Sst!IsValid, Sst!Block, Standing, Cur
<1>6. ScanInv
  BY <1>1, <1>2, <1>5 DEF ScanInv
<1>7. ASSUME max_tranc_id = 0, NEW e \in Sst!Wanted
      PROVE  Sst!IsValid /\ ~ Precedes(e, Cur)
  <2>1. 1 <= Len(ssts[1][1]) /\ current_index = 1 /\ current_index # NullIt
    BY <1>3, <1>4, <1>7, NullAssumption DEF Ascending
  <2>2. Sst!IsValid
    BY <1>1, <1>3, <2>1 DEF Sst!IsValid, Sst!Block
  <2>3. e \in Sst!Entries
    BY DEF Sst!Wanted
  <2>4. PICK r, c, j : InTable(r, c, j) /\ e = ssts[r][c][j]
    BY <2>3, EntryHasPlace
  <2>5. r \in 1..Len(ssts) /\ c \in 1..Len(ssts[r]) /\ j \in 1..Len(ssts[r][c])
    BY <1>2, <2>4, PlaceIs
  <2>6. ~ Earlier(r, c, j, 1, 1, 1)
    BY <2>5 DEF Earlier
  <2>7. InTable(1, 1, 1) /\ Cur = ssts[1][1][1]
    BY <1>1, <1>4, <2>1 DEF Cur
  <2> QED
    BY <1>2, <2>2, <2>4, <2>6, <2>7, PrecedingIsEarlier
<1> QED
  BY <1>6, <1>7 DEF Kept, Cur

\* A search iterates as a scan does.
LEMMA SearchIsScan ==
  /\ Search!Next <=> Sst!Next
  /\ Search!IsValid <=> Sst!IsValid
  /\ Search!Wanted = Sst!Wanted
  /\ \A S : Search!LeastOf(S) = Sst!LeastOf(S)
  /\ \A block, i : Search!skip_by_tranc_id(block, i) = Sst!skip_by_tranc_id(block, i)
<1>1. /\ \A S : Search!LeastOf(S) = Sst!LeastOf(S)
      /\ \A e : Search!Visible(e) <=> Sst!Visible(e)
  BY DEF Search!LeastOf, Sst!LeastOf, Search!Visible, Sst!Visible
<1>2. \A block, i : Search!skip_by_tranc_id(block, i) = Sst!skip_by_tranc_id(block, i)
  BY DEF Search!skip_by_tranc_id, Sst!skip_by_tranc_id, Search!Visible, Sst!Visible,
         Search!LeastOf, Sst!LeastOf
<1>3. \A block, i : Search!NextEntry(block, i) = Sst!NextEntry(block, i)
  BY <1>1, <1>2 DEF Search!NextEntry, Sst!NextEntry
<1>4. Search!IsValid <=> Sst!IsValid
  BY DEF Search!IsValid, Sst!IsValid, Search!Block, Sst!Block
<1>5. Search!Wanted = Sst!Wanted
  BY DEF Search!Wanted, Sst!Wanted, Search!Entries, Sst!Entries, Search!ToSet, Sst!ToSet,
         Search!Visible, Sst!Visible
<1>6. Search!NextInBlock <=> Sst!NextInBlock
  BY <1>3, <1>4 DEF Search!NextInBlock, Sst!NextInBlock, Search!Deliver, Sst!Deliver,
         Search!Block, Sst!Block, Search!input, Sst!input
<1>7. Search!NextBlock <=> Sst!NextBlock
  BY <1>2, <1>3, <1>4 DEF Search!NextBlock, Sst!NextBlock, Search!Deliver, Sst!Deliver,
         Search!Block, Sst!Block, Search!input, Sst!input, Search!AtBlockEnd, Sst!AtBlockEnd,
         Search!HasNextBlock, Sst!HasNextBlock, Search!FirstOfNextBlock, Sst!FirstOfNextBlock
<1>8. Search!NextSst <=> Sst!NextSst
  BY <1>2, <1>3, <1>4 DEF Search!NextSst, Sst!NextSst, Search!Deliver, Sst!Deliver,
         Search!Block, Sst!Block, Search!input, Sst!input, Search!AtBlockEnd, Sst!AtBlockEnd,
         Search!HasNextBlock, Sst!HasNextBlock, Search!FirstOfNextBlock, Sst!FirstOfNextBlock,
         Search!BeginSst, Sst!BeginSst
<1> QED
  BY <1>1, <1>2, <1>4, <1>5, <1>6, <1>7, <1>8 DEF Search!Next, Sst!Next

\* The range of the predicate.
Ranged == range.lo \in Nat /\ range.hi \in Nat

InRange(e) == range.lo <= e.key /\ e.key <= range.hi

\* What the predicate says.
LEMMA PredicateIs ==
  ASSUME Ranged, NEW k \in Nat
  PROVE  /\ Search!predicate(k) = 0 <=> range.lo <= k /\ k <= range.hi
         /\ k <= range.hi => Search!predicate(k) >= 0
         /\ range.lo <= k => Search!predicate(k) <= 0
<1>1. range.lo \in Nat /\ range.hi \in Nat
  BY DEF Ranged
<1>2. CASE k < range.lo
  BY <1>1, <1>2 DEF Search!predicate
<1>3. CASE ~ (k < range.lo) /\ k > range.hi
  BY <1>1, <1>3 DEF Search!predicate
<1>4. CASE ~ (k < range.lo) /\ ~ (k > range.hi)
  BY <1>1, <1>4 DEF Search!predicate
<1> QED
  BY <1>2, <1>3, <1>4

\* What a search is to find.
LEMMA FoundIs ==
  ASSUME Leveled, Ranged
  PROVE  \A e : e \in Search!Found <=> e \in Sst!Wanted /\ InRange(e)
<1>1. \A e \in Sst!Wanted : e.key \in Nat
  <2>1. \A e \in Sst!Wanted : e \in Sst!Entries
    BY DEF Sst!Wanted
  <2> QED
    BY <2>1, EntryHasPlace, PlaceIs
<1> QED
  BY <1>1, SearchIsScan, PredicateIs DEF Search!Found, InRange

\* The loop over the blocks misses no block with a match.
LEMMA MatchIsSearched ==
  ASSUME Leveled, Ranged, NEW b, NEW i, InTable(1, b, i), InRange(ssts[1][b][i])
  PROVE  b \in Search!Searched(ssts[1]) /\ i \in Search!Matching(ssts[1][b])
<1> DEFINE e == ssts[1][b][i]
           n == Len(ssts[1][b])
<1>1. /\ b \in 1..Len(ssts[1]) /\ i \in 1..n /\ Ascending(ssts[1][b])
      /\ e.key \in Nat /\ range.lo <= e.key /\ e.key <= range.hi
      /\ 1 \in DOMAIN ssts /\ b \in DOMAIN ssts[1] /\ i \in DOMAIN ssts[1][b]
      /\ DOMAIN ssts[1] = 1..Len(ssts[1]) /\ range.lo \in Nat /\ range.hi \in Nat
  BY PlaceIs DEF InRange, InTable, Leveled, Ranged
<1>2. i \in Search!Matching(ssts[1][b])
  BY <1>1, PredicateIs DEF Search!Matching
<1>3. ASSUME NEW c \in 1..b
      PROVE  Search!predicate(ssts[1][c][1].key) >= 0
  <2>1. c \in DOMAIN ssts[1] /\ (c < b \/ c = b)
    BY <1>1
  <2>2. Ascending(ssts[1][c])
    BY <1>1, <2>1 DEF Leveled
  <2>3. InTable(1, c, 1)
    BY <1>1, <2>1, <2>2 DEF InTable, Ascending
  <2>4. ssts[1][c][1].key \in Nat /\ ssts[1][c][1].id \in Nat
    BY <2>3, PlaceIs
  <2>5. ssts[1][c][1] = e \/ Precedes(ssts[1][c][1], e)
    <3>1. (c = b /\ i = 1) \/ Earlier(1, c, 1, 1, b, i)
      BY <1>1, <2>1 DEF Earlier
    <3> QED
      BY <2>3, <3>1, EarlierPrecedes
  <2>6. ssts[1][c][1].key <= range.hi
    BY <1>1, <2>4, <2>5 DEF Precedes
  <2> QED
    BY <2>4, <2>6, PredicateIs
<1>4. Search!predicate(ssts[1][b][n].key) <= 0
  <2>1. InTable(1, b, n)
    BY <1>1 DEF InTable, Ascending
  <2>2. ssts[1][b][n].key \in Nat /\ n \in Nat
    BY <1>1, <2>1, PlaceIs
  <2>3. ssts[1][b][n] = e \/ Precedes(e, ssts[1][b][n])
    <3>1. i = n \/ Earlier(1, b, i, 1, b, n)
      BY <1>1, <2>2 DEF Earlier
    <3> QED
      BY <2>1, <3>1, EarlierPrecedes
  <2>4. range.lo <= ssts[1][b][n].key
    BY <1>1, <2>2, <2>3 DEF Precedes
  <2> QED
    BY <2>2, <2>4, PredicateIs
<1> QED
  BY <1>1, <1>2, <1>3, <1>4 DEF Search!Searched

\* GreatestOf takes the greatest one.
LEMMA GreatestIsGreatest ==
  ASSUME NEW n \in Nat, NEW S \in SUBSET (1..n), S # {}
  PROVE  Search!GreatestOf(S) \in S /\ \A y \in S : y <= Search!GreatestOf(S)
<1>1. IsFiniteSet(S) /\ S \in SUBSET Nat
  <2>1. IsFiniteSet(1..n)
    BY FS_Interval
  <2>2. IsFiniteSet(S)
    BY <2>1, FS_Subset
  <2>3. S \in SUBSET Nat
    OBVIOUS
  <2> QED
    BY <2>2, <2>3
<1>2. \E x \in S : \A y \in S : y <= x
  BY <1>1, GreatestExists
<1> QED
  BY <1>2, Zenon DEF Search!GreatestOf

\* A search has its SST and its range, nothing before the range is delivered, what it
\* is to find is not passed by, and the second iterator is behind all of it.
SearchInv ==
  /\ Len(ssts) = 1 /\ Ranged
  /\ \A i \in DOMAIN output : range.lo <= output[i].key
  /\ Sst!IsValid => range.lo <= Cur.key
  /\ Kept(Search!Found, output, cur_idx, block_idx, current_index, Sst!IsValid)
  /\ max_tranc_id = 0 => \/ Search!Found = {}
                         \/ \E l, x :
                              /\ final_end = <<l, x>>
                              /\ x <= Len(ssts[1][l]) =>
                                   \A e \in Search!Found : Precedes(e, ssts[1][l][x])

\* What is found has a place in a block that is searched.
LEMMA FoundHasPlace ==
  ASSUME Leveled, Ranged, Len(ssts) = 1, NEW e \in Search!Found
  PROVE  \E b, i : /\ InTable(1, b, i) /\ e = ssts[1][b][i] /\ b \in Nat /\ i \in Nat
                   /\ b \in Search!Searched(ssts[1]) /\ i \in Search!Matching(ssts[1][b])
<1>1. e \in Sst!Wanted /\ InRange(e) /\ e \in Sst!Entries
  BY FoundIs DEF Sst!Wanted
<1>2. PICK s, b, i : InTable(s, b, i) /\ e = ssts[s][b][i]
  BY <1>1, EntryHasPlace
<1>3. s = 1 /\ b \in Nat /\ i \in Nat
  BY <1>2, PlaceIs
<1> QED
  BY <1>1, <1>2, <1>3, MatchIsSearched

\* The first iterator stands at a wanted entry, if it is valid, that is not before the
\* range, and without a transaction nothing that is to be found comes before it.
LEMMA SearchBegins ==
  ASSUME Leveled, Ranged, Len(ssts) = 1,
         NEW b, b = Sst!LeastOf(Search!Searched(ssts[1])), Search!Searched(ssts[1]) # {},
         NEW x, x = Search!BeginIn(ssts[1][b])
  PROVE  /\ b \in 1..Len(ssts[1]) /\ x \in 1..(Len(ssts[1][b]) + 1)
         /\ x <= Len(ssts[1][b]) => /\ InTable(1, b, x) /\ ssts[1][b][x] \in Sst!Wanted
                                    /\ range.lo <= ssts[1][b][x].key
         /\ max_tranc_id = 0 => /\ x <= Len(ssts[1][b])
                                /\ \A e \in Search!Found : ~ Precedes(e, ssts[1][b][x])
<1> DEFINE found == Search!Searched(ssts[1])
           block == ssts[1][b]
           M == Search!Matching(block)
           n == Len(block)
           m == Sst!LeastOf(M)
<1>1. 1 \in DOMAIN ssts /\ DOMAIN ssts[1] = 1..Len(ssts[1]) /\ Len(ssts[1]) \in Nat
  BY DEF Leveled
<1>2. found \in SUBSET (1..Len(ssts[1])) /\ found # {}
  BY <1>1 DEF Search!Searched
<1>3. b \in found /\ \A y \in found : b <= y
  BY <1>2, LeastIsLeast
<1>4. b \in 1..Len(ssts[1]) /\ b \in DOMAIN ssts[1] /\ M # {}
  BY <1>1, <1>3 DEF Search!Searched
<1>5. Ascending(block)
  BY <1>1, <1>4 DEF Leveled
<1>6. /\ n \in Nat \ {0} /\ DOMAIN block = 1..n
      /\ \A i \in 1..n : block[i].key \in Nat /\ block[i].id \in Nat
      /\ \A i, j \in 1..n : i < j => Precedes(block[i], block[j])
  BY <1>5 DEF Ascending
<1>7. M \in SUBSET (1..n) /\ \A i \in 1..n : i \in M <=> InRange(block[i])
  BY <1>6, PredicateIs DEF Search!Matching, InRange
<1>8. m \in M /\ \A y \in M : m <= y
  BY <1>4, <1>7, LeastIsLeast
<1>9. x = Sst!skip_by_tranc_id(block, m)
  BY SearchIsScan DEF Search!BeginIn
<1> HIDE DEF found, M, m
<1>10. m \in 1..n /\ m \in 1..(n + 1) /\ InRange(block[m])
  BY <1>6, <1>7, <1>8
<1>11. /\ x \in m..(n + 1)
       /\ x <= n => Sst!Visible(block[x])
       /\ \A j \in m..(x - 1) : ~ Sst!Visible(block[j])
       /\ max_tranc_id = 0 => x = m
  BY <1>5, <1>9, <1>10, SkipFinds
<1>12. ASSUME x <= n
       PROVE  InTable(1, b, x) /\ block[x] \in Sst!Wanted /\ range.lo <= block[x].key
  <2>1. x \in 1..n /\ (m = x \/ m < x)
    <3> HIDE DEF n
    <3> QED
      BY <1>6, <1>10, <1>11, <1>12
  <2>2. InTable(1, b, x)
    BY <1>1, <1>4, <1>6, <2>1 DEF InTable
  <2>3. block[m].key <= block[x].key
    BY <1>6, <1>10, <2>1 DEF Precedes
  <2>4. ASSUME NEW j \in 1..(x - 1), block[j].key = block[x].key
        PROVE  ~ Sst!Visible(block[j])
    <3>1. j \in 1..n /\ (j < m \/ j \in m..(x - 1))
      <4> HIDE DEF n
      <4> QED
        BY <1>6, <1>10, <1>11, <2>1
    <3>2. ~ (j < m)
      <4> SUFFICES ASSUME j < m
                   PROVE  FALSE
        OBVIOUS
      <4>1. Precedes(block[j], block[m])
        BY <1>6, <1>10, <3>1
      <4>2. block[j].key = block[m].key
        <5>1. block[j].key \in Nat /\ block[m].key \in Nat
          BY <1>6, <1>10, <3>1
        <5>2. block[j].key <= block[m].key
          BY <4>1, <5>1 DEF Precedes
        <5>3. block[m].key <= block[j].key
          BY <2>3, <2>4
        <5> QED
          BY <5>1, <5>2, <5>3
      <4>3. j \in M
        BY <1>7, <1>10, <3>1, <4>2 DEF InRange
      <4> QED
        BY <1>8, <1>10, <3>1, <4>3
    <3> QED
      BY <1>11, <3>1, <3>2
  <2>5. block[x] \in Sst!Wanted
    BY <1>11, <1>12, <2>2, <2>4, NewestIsWanted
  <2>6. range.lo <= block[x].key
    BY <1>6, <1>10, <2>1, <2>3 DEF InRange, Ranged
  <2> QED
    BY <2>2, <2>5, <2>6
<1>13. ASSUME max_tranc_id = 0
       PROVE  x <= n /\ \A e \in Search!Found : ~ Precedes(e, block[x])
  <2>1. x = m /\ x <= n
    BY <1>10, <1>11, <1>13
  <2>2. InTable(1, b, x)
    BY <1>12, <2>1
  <2>3. ASSUME NEW e \in Search!Found
        PROVE  ~ Precedes(e, block[x])
    <3>1. PICK c, j : /\ InTable(1, c, j) /\ e = ssts[1][c][j] /\ c \in Nat /\ j \in Nat
                      /\ c \in found /\ j \in Search!Matching(ssts[1][c])
      BY FoundHasPlace DEF found
    <3>2. b <= c /\ (b = c => m <= j)
      BY <1>3, <1>8, <3>1 DEF M
    <3>3. ~ Earlier(1, c, j, 1, b, x)
      BY <1>4, <1>10, <2>1, <3>1, <3>2 DEF Earlier
    <3> QED
      BY <2>2, <3>1, <3>3, PrecedingIsEarlier
  <2> QED
    BY <2>1, <2>3
<1>14. x \in 1..(n + 1)
  <2> HIDE DEF n
  <2> QED
    BY <1>6, <1>10, <1>11
<1> QED
  BY <1>4, <1>12, <1>13, <1>14

\* Without a transaction the second iterator is behind all that is to be found.
LEMMA SearchEnds ==
  ASSUME Leveled, Ranged, Len(ssts) = 1, max_tranc_id = 0,
         NEW l, l = Search!GreatestOf(Search!Searched(ssts[1])), Search!Searched(ssts[1]) # {},
         NEW x, x = Search!EndIn(ssts[1][l]), x <= Len(ssts[1][l]),
         NEW e \in Search!Found
  PROVE  Precedes(e, ssts[1][l][x])
<1> DEFINE found == Search!Searched(ssts[1])
           block == ssts[1][l]
           M == Search!Matching(block)
           n == Len(block)
           g == Search!GreatestOf(M)
<1>1. 1 \in DOMAIN ssts /\ DOMAIN ssts[1] = 1..Len(ssts[1]) /\ Len(ssts[1]) \in Nat
  BY DEF Leveled
<1>2. found \in SUBSET (1..Len(ssts[1])) /\ found # {}
  BY <1>1 DEF Search!Searched
<1>3. l \in found /\ \A y \in found : y <= l
  BY <1>1, <1>2, GreatestIsGreatest
<1>4. l \in 1..Len(ssts[1]) /\ l \in DOMAIN ssts[1] /\ M # {}
  BY <1>1, <1>3 DEF Search!Searched
<1>5. Ascending(block)
  BY <1>1, <1>4 DEF Leveled
<1>6. n \in Nat \ {0} /\ DOMAIN block = 1..n
  BY <1>5 DEF Ascending
<1>7. M \in SUBSET (1..n)
  BY <1>6 DEF Search!Matching
<1>8. g \in M /\ \A y \in M : y <= g
  BY <1>4, <1>6, <1>7, GreatestIsGreatest
<1>9. x = Sst!skip_by_tranc_id(block, g + 1)
  BY SearchIsScan DEF Search!EndIn
<1> HIDE DEF found, M, g
<1>10. g \in 1..n /\ g + 1 \in 1..(n + 1)
  <2>1. g \in 1..n
    BY <1>7, <1>8
  <2> HIDE DEF n
  <2> QED
    BY <1>6, <2>1
<1>11. x = g + 1
  BY <1>5, <1>9, <1>10, SkipFinds
<1>12. InTable(1, l, x)
  <2>1. x \in 1..n
    BY <1>6, <1>10, <1>11
  <2> QED
    BY <1>1, <1>4, <1>6, <2>1 DEF InTable
<1>13. PICK c, j : /\ InTable(1, c, j) /\ e = ssts[1][c][j] /\ c \in Nat /\ j \in Nat
                   /\ c \in found /\ j \in Search!Matching(ssts[1][c])
  BY FoundHasPlace DEF found
<1>14. c <= l /\ (c = l => j <= g)
  BY <1>3, <1>8, <1>13 DEF M
<1>15. Earlier(1, c, j, 1, l, x)
  BY <1>4, <1>10, <1>11, <1>13, <1>14 DEF Earlier
<1> QED
  BY <1>12, <1>13, <1>15, EarlierPrecedes

\* sst_iters_monotony_predicate establishes the invariant.
LEMMA SearchStart ==
  ASSUME Search!SearchInit
  PROVE  ScanInv /\ SearchInv
<1> DEFINE found == Search!Searched(ssts[1])
           first == Search!LeastOf(found)
           last == Search!GreatestOf(found)
<1>1. /\ ssts \in {<<s>> : s \in UNION {Search!SstsFrom(entries) :
                                          entries \in (SUBSET Search!Entry) \ {{}}}}
      /\ range \in {r \in [lo : FewKeys, hi : FewKeys] : r.lo <= r.hi}
      /\ max_tranc_id \in Snapshots /\ keep_all = FALSE /\ cur_idx = 1 /\ output = << >>
      /\ Search!sst_iters_monotony_predicate(ssts[1])
  BY DEF Search!SearchInit
<1>2. Leveled /\ Len(ssts) = 1
  BY <1>1, SearchedIsLeveled
<1>3. Ranged
  <2>1. range.lo \in FewKeys /\ range.hi \in FewKeys
    BY <1>1
  <2> QED
    BY <2>1, ScanAssumption DEF Ranged
<1>4. output \in Seq(Sst!Wanted) /\ DOMAIN output = {} /\ Els(output) = {}
  BY <1>1 DEF Els
<1>5. CASE found = {}
  <2>1. current_index = NullIt
    BY <1>1, <1>5 DEF Search!sst_iters_monotony_predicate
  <2>2. ~ Sst!IsValid
    BY <2>1 DEF Sst!IsValid
  <2>3. Search!Found = {}
    BY <1>2, <1>3, <1>5, FoundHasPlace
  <2> QED
    BY <1>2, <1>3, <1>4, <2>2, <2>3 DEF ScanInv, SearchInv, Kept
<1>6. CASE found # {}
  <2>1. /\ block_idx = first /\ current_index = Search!BeginIn(ssts[1][first])
        /\ final_end = <<last, Search!EndIn(ssts[1][last])>>
    BY <1>1, <1>6 DEF Search!sst_iters_monotony_predicate
  <2>2. first = Sst!LeastOf(found)
    BY SearchIsScan
  <2> DEFINE b == block_idx
             x == current_index
  <2>3. /\ b \in 1..Len(ssts[1]) /\ x \in 1..(Len(ssts[1][b]) + 1)
        /\ x <= Len(ssts[1][b]) => /\ InTable(1, b, x) /\ ssts[1][b][x] \in Sst!Wanted
                                   /\ range.lo <= ssts[1][b][x].key
        /\ max_tranc_id = 0 => /\ x <= Len(ssts[1][b])
                               /\ \A e \in Search!Found : ~ Precedes(e, ssts[1][b][x])
    BY <1>2, <1>3, <1>6, <2>1, <2>2, SearchBegins
  <2>4. Sst!IsValid <=> x <= Len(ssts[1][b])
    <3>1. x # NullIt /\ b <= Len(ssts[1]) /\ 1 <= Len(ssts)
      BY <1>2, <2>3, NullAssumption DEF Leveled
    <3> QED
      BY <1>1, <3>1 DEF Sst!IsValid, Sst!Block
  <2>5. Cur = ssts[1][b][x]
    BY <1>1 DEF Cur
  <2>6. Sst!IsValid => Standing /\ range.lo <= Cur.key
    BY <1>1, <2>3, <2>4, <2>5 DEF Standing
  <2>7. Kept(Search!Found, output, cur_idx, block_idx, current_index, Sst!IsValid)
    BY <1>1, <2>3, <2>4 DEF Kept
  <2>8. max_tranc_id = 0 =>
          \E l, y :
            /\ final_end = <<l, y>>
            /\ y <= Len(ssts[1][l]) => \A e \in Search!Found : Precedes(e, ssts[1][l][y])
    <3> SUFFICES ASSUME max_tranc_id = 0, Search!EndIn(ssts[1][last]) <= Len(ssts[1][last]),
                        NEW e \in Search!Found
                 PROVE  Precedes(e, ssts[1][last][Search!EndIn(ssts[1][last])])
      BY <2>1
    <3> HIDE DEF last
    <3> QED
      BY <1>2, <1>3, <1>6, SearchEnds DEF last
  <2> QED
    BY <1>2, <1>3, <1>4, <2>6, <2>7, <2>8 DEF ScanInv, SearchInv
<1> QED
  BY <1>5, <1>6

\* A step of the search keeps the invariant.
LEMMA SearchStep ==
  ASSUME ScanInv, SearchInv, Search!SearchNext
  PROVE  ScanInv' /\ SearchInv'
<1> DEFINE m == Len(output)
           S == Search!Found
<1>1. Sst!Next /\ UNCHANGED <<range, final_end>>
  BY SearchIsScan DEF Search!SearchNext
<1>2. /\ Sst!IsValid /\ output' = Append(output, Cur) /\ UNCHANGED <<ssts, max_tranc_id, keep_all>>
      /\ Follows(cur_idx', block_idx', current_index', Sst!IsValid')
  BY <1>1, ScanMoves DEF Sst!input
<1>3. Leveled /\ Standing /\ Ranged /\ Len(ssts) = 1
  BY <1>2 DEF ScanInv, SearchInv
<1>4. S \in SUBSET Sst!Wanted
  BY <1>3, FoundIs
<1>5. Kept(S, output', cur_idx', block_idx', current_index', Sst!IsValid')
  BY <1>1, <1>4, ScanStep DEF SearchInv
<1>6. S' = S
  BY <1>1, <1>2 DEF Search!Found, Search!predicate, Search!Wanted, Search!Entries, Search!Visible
<1> HIDE DEF S
<1>7. Kept(S', output', cur_idx', block_idx', current_index', Sst!IsValid')
  BY <1>5, <1>6
<1>8. Kept(S, output, cur_idx, block_idx, current_index, Sst!IsValid)'
  BY <1>2, <1>7 DEF Kept, Els, Precedes
<1>9. (\A i \in DOMAIN output : range.lo <= output[i].key)'
  <2>1. /\ m \in Nat /\ DOMAIN output = 1..m /\ DOMAIN output' = 1..(m + 1)
        /\ \A i \in 1..m : output'[i] = output[i]
        /\ output'[m + 1] = Cur
    BY <1>2 DEF ScanInv
  <2> HIDE DEF m
  <2>2. \A i \in 1..(m + 1) : i \in 1..m \/ i = m + 1
    BY <2>1
  <2> QED
    BY <1>1, <1>2, <2>1, <2>2 DEF SearchInv
<1>10. (Sst!IsValid => range.lo <= Cur.key)'
  <2> SUFFICES ASSUME Sst!IsValid'
               PROVE  range.lo <= (Cur.key)'
    BY <1>1
  <2> DEFINE new == ssts[cur_idx'][block_idx'][current_index']
  <2>1. InTable(cur_idx', block_idx', current_index') /\ Precedes(Cur, new)
    BY <1>2 DEF Follows
  <2>2. Cur.key \in Nat /\ new.key \in Nat
    BY <1>3, <2>1, PlaceIs DEF Standing, Cur
  <2>3. range.lo <= Cur.key /\ range.lo \in Nat
    BY <1>2, <1>3 DEF SearchInv, Ranged
  <2>4. range.lo <= new.key
    <3> HIDE DEF new
    <3> QED
      BY <2>1, <2>2, <2>3 DEF Precedes
  <2> QED
    BY <1>2, <2>4 DEF Cur
<1>11. (max_tranc_id = 0 => \/ Search!Found = {}
                            \/ \E l, x :
                                 /\ final_end = <<l, x>>
                                 /\ x <= Len(ssts[1][l]) =>
                                      \A e \in Search!Found : Precedes(e, ssts[1][l][x]))'
  BY <1>1, <1>2, <1>6 DEF SearchInv, Precedes, S
<1>12. (Len(ssts) = 1 /\ Ranged)'
  BY <1>1, <1>2, <1>3 DEF Ranged
<1>13. ScanInv'
  BY <1>1, ScanStep
<1> QED
  BY <1>8, <1>9, <1>10, <1>11, <1>12, <1>13 DEF SearchInv, S

\* While nothing moves the invariants stay.
LEMMA ScanStays ==
  ASSUME UNCHANGED <<max_tranc_id, output, sst, bounds>>
  PROVE  /\ ScanInv => ScanInv'
         /\ SearchInv => SearchInv'
         /\ Kept(Sst!Wanted, output, cur_idx, block_idx, current_index, Sst!IsValid) =>
              Kept(Sst!Wanted, output, cur_idx, block_idx, current_index, Sst!IsValid)'
<1>1. UNCHANGED <<max_tranc_id, output, ssts, keep_all, cur_idx, block_idx, current_index, range,
                  final_end>>
  BY DEF sst, bounds
<1>2. Sst!Wanted' = Sst!Wanted /\ Sst!IsValid' = Sst!IsValid /\ Cur' = Cur
  BY <1>1 DEF Sst!Wanted, Sst!Entries, Sst!Visible, Sst!IsValid, Sst!Block, Cur
<1>3. Search!Found' = Search!Found
  BY <1>1 DEF Search!Found, Search!predicate, Search!Wanted, Search!Entries, Search!Visible
<1>4. Leveled' = Leveled /\ Standing' = Standing
  BY <1>1, <1>2 DEF Leveled, Standing, InTable, Ascending, Precedes
<1>5. ScanInv => ScanInv'
  BY <1>1, <1>2, <1>4 DEF ScanInv, Precedes
<1>6. /\ Kept(Sst!Wanted, output, cur_idx, block_idx, current_index, Sst!IsValid) =>
           Kept(Sst!Wanted, output, cur_idx, block_idx, current_index, Sst!IsValid)'
      /\ Kept(Search!Found, output, cur_idx, block_idx, current_index, Sst!IsValid) =>
           Kept(Search!Found, output, cur_idx, block_idx, current_index, Sst!IsValid)'
  BY <1>1, <1>2, <1>3 DEF Kept, Els, Precedes
<1>7. SearchInv => SearchInv'
  BY <1>1, <1>2, <1>3, <1>6 DEF SearchInv, Ranged, Precedes
<1> QED
  BY <1>5, <1>6, <1>7

\* A scan and a search never lose what they are to deliver.
LEMMA ScanInvariant ==
  ReadSpec =>
    []/\ kind \in {"sst", "search"} => ScanInv
      /\ kind = "sst" =>
           Kept(Sst!Wanted, output, cur_idx, block_idx, current_index, Sst!IsValid)
      /\ kind = "search" => SearchInv
<1> DEFINE Inv ==
             /\ kind \in {"sst", "search"} => ScanInv
             /\ kind = "sst" =>
                  Kept(Sst!Wanted, output, cur_idx, block_idx, current_index, Sst!IsValid)
             /\ kind = "search" => SearchInv
<1>1. ReadInit => Inv
  <2> SUFFICES ASSUME ReadInit
               PROVE  Inv
    OBVIOUS
  <2>1. /\ kind = "sst" => Sst!Init
        /\ kind = "search" => Search!SearchInit
    BY DEF ReadInit
  <2> QED
    BY <2>1, ScanStart, SearchStart
<1>2. Inv /\ [ReadNext]_read_vars => Inv'
  <2> SUFFICES ASSUME Inv, [ReadNext]_read_vars
               PROVE  Inv'
    OBVIOUS
  <2>1. kind' = kind
    BY DEF ReadNext, read_vars, scan_vars
  <2>2. CASE UNCHANGED <<max_tranc_id, output, sst, bounds>>
    BY <2>1, <2>2, ScanStays
  <2>3. CASE kind = "sst" /\ Sst!Next
    <3>1. ScanInv /\ Kept(Sst!Wanted, output, cur_idx, block_idx, current_index, Sst!IsValid)
      BY <2>3
    <3>2. /\ ScanInv'
          /\ Kept(Sst!Wanted, output', cur_idx', block_idx', current_index', Sst!IsValid')
      BY <2>3, <3>1, ScanStep
    <3>3. UNCHANGED <<ssts, max_tranc_id, keep_all>>
      BY <2>3, <3>1, ScanMoves DEF Sst!input
    <3>4. Sst!Wanted' = Sst!Wanted
      BY <3>3 DEF Sst!Wanted, Sst!Entries, Sst!Visible
    <3>5. Kept(Sst!Wanted, output, cur_idx, block_idx, current_index, Sst!IsValid)'
      BY <3>2, <3>3, <3>4 DEF Kept, Els, Precedes
    <3> QED
      BY <2>1, <2>3, <3>2, <3>5
  <2>4. CASE kind = "search" /\ Search!SearchNext
    BY <2>1, <2>4, SearchStep
  <2>5. CASE kind \notin {"sst", "search"}
    BY <2>1, <2>5
  <2> QED
    BY <2>2, <2>3, <2>4, <2>5 DEF ReadNext, read_vars, scan_vars
<1> QED
  BY <1>1, <1>2, PTL DEF ReadSpec

\* No iterator of the read path delivers anything wrong: the scan of SSTs, the search,
\* the merge of versions and the merge of two iterators, for every finite database,
\* every cut into SSTs and blocks and every snapshot.
THEOREM ScansWanted == ReadSpec => []ScansDeliverOnlyWanted
<1>1. ScanInv => Sst!DeliversOnlyWanted
  <2> SUFFICES ASSUME ScanInv
               PROVE  Sst!DeliversOnlyWanted
    OBVIOUS
  <2>1. Sst!ToSet(output) \subseteq Sst!Wanted
    BY DEF ScanInv, Sst!ToSet
  <2> QED
    BY <2>1 DEF ScanInv, Sst!DeliversOnlyWanted, Sst!Before, Precedes
<1>2. /\ kind \in {"sst", "search"} => ScanInv
      /\ kind = "merge" => Merge!MergeDeliversOnlyWanted /\ Merge!MergeComplete
      /\ kind = "heap" => Heap!HeapDeliversOnlyWanted /\ Heap!HeapComplete
      => ScansDeliverOnlyWanted
  BY <1>1 DEF ScansDeliverOnlyWanted
<1> QED
  BY <1>2, ScanInvariant, MergeDeliversWanted, HeapDeliversWanted, PTL

\* An iterator at its end has delivered everything wanted: the scan of the SSTs without
\* a transaction, and the merges.
THEOREM ScansAllDelivered == ReadSpec => []ScansComplete
<1>1. Kept(Sst!Wanted, output, cur_idx, block_idx, current_index, Sst!IsValid) =>
        Sst!PlainScanComplete
  BY DEF Kept, Sst!PlainScanComplete, Els, Sst!ToSet
<1>2. /\ kind = "sst" =>
           Kept(Sst!Wanted, output, cur_idx, block_idx, current_index, Sst!IsValid)
      /\ kind = "merge" => Merge!MergeDeliversOnlyWanted /\ Merge!MergeComplete
      /\ kind = "heap" => Heap!HeapDeliversOnlyWanted /\ Heap!HeapComplete
      => ScansComplete
  BY <1>1 DEF ScansComplete
<1> QED
  BY <1>2, ScanInvariant, MergeDeliversWanted, HeapDeliversWanted, PTL

\* The search of an SST without a transaction delivers the matches of all blocks,
\* before anything else, until it reaches the second iterator or its end.
THEOREM SearchComplete == ReadSpec => []SearchFindsAll
<1>1. ScanInv /\ SearchInv => Search!SearchFindsAll
  <2> SUFFICES ASSUME ScanInv, SearchInv, max_tranc_id = 0,
                      Search!AtFinalEnd \/ ~ Sst!IsValid, NEW e \in Search!Found
               PROVE  \E i \in DOMAIN output :
                        output[i] = e /\ \A j \in 1..i : output[j] \in Search!Found
    BY SearchIsScan DEF Search!SearchFindsAll
  <2>1. /\ Leveled /\ Ranged /\ Len(ssts) = 1 /\ range.lo \in Nat /\ range.hi \in Nat
        /\ output \in Seq(Sst!Wanted) /\ Len(output) \in Nat /\ DOMAIN output = 1..Len(output)
    BY DEF ScanInv, SearchInv, Ranged
  <2>2. e \in Els(output) \/ (Sst!IsValid /\ ~ Precedes(e, Cur))
    BY DEF SearchInv, Kept, Cur
  <2>3. Sst!IsValid => Precedes(e, Cur)
    <3> SUFFICES ASSUME Sst!IsValid
                 PROVE  Precedes(e, Cur)
      OBVIOUS
    <3>1. InTable(cur_idx, block_idx, current_index)
      BY DEF ScanInv, Standing
    <3>2. cur_idx = 1 /\ current_index <= Len(ssts[1][block_idx])
      BY <2>1, <3>1, PlaceIs
    <3>3. final_end = <<block_idx, current_index>>
      BY DEF Search!AtFinalEnd
    <3>4. PICK l, x : /\ final_end = <<l, x>>
                      /\ x <= Len(ssts[1][l]) =>
                           \A d \in Search!Found : Precedes(d, ssts[1][l][x])
      BY DEF SearchInv
    <3>5. l = block_idx /\ x = current_index
      BY <3>3, <3>4
    <3> QED
      BY <3>2, <3>4, <3>5 DEF Cur
  <2>4. PICK i \in DOMAIN output : output[i] = e
    BY <2>2, <2>3 DEF Els
  <2>5. ASSUME NEW j \in 1..i
        PROVE  output[j] \in Search!Found
    <3>1. j \in DOMAIN output /\ (j = i \/ j < i)
      BY <2>1, <2>4
    <3>2. output[j] = e \/ Precedes(output[j], e)
      BY <2>4, <3>1 DEF ScanInv
    <3>3. output[j] \in Sst!Wanted /\ range.lo <= output[j].key
      BY <2>1, <3>1 DEF SearchInv
    <3>4. e.key <= range.hi /\ e \in Sst!Wanted
      BY <2>1, FoundIs DEF InRange
    <3>5. output[j].key \in Nat /\ e.key \in Nat
      <4>1. output[j] \in Sst!Entries /\ e \in Sst!Entries
        BY <3>3, <3>4 DEF Sst!Wanted
      <4>2. \A d \in Sst!Entries : d.key \in Nat
        BY <2>1, EntryHasPlace, PlaceIs
      <4> QED
        BY <4>1, <4>2
    <3>6. output[j].key <= range.hi
      BY <2>1, <3>2, <3>4, <3>5 DEF Precedes
    <3> QED
      BY <2>1, <3>3, <3>6, FoundIs DEF InRange
  <2> QED
    BY <2>4, <2>5
<1>2. /\ kind \in {"sst", "search"} => ScanInv
      /\ kind = "search" => SearchInv
      => SearchFindsAll
  BY <1>1 DEF SearchFindsAll
<1> QED
  BY <1>2, ScanInvariant, PTL

=============================================================================
