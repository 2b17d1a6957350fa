------------------------ MODULE UpdateCheckerProofs ------------------------
(***************************************************************************)
(* A Google component is asked for alone, nothing is asked for twice and a *)
(* success is complete, for any set of components and any list of them.    *)
(***************************************************************************)
EXTENDS UpdateChecker, SequenceTheorems, FiniteSetTheorems, TLAPS

Distinct(s) == \A i, j \in DOMAIN s : s[i] = s[j] => i = j

\* Every one of Brave's ids comes before every other one.
Partitioned(s) ==
    \A i, j \in DOMAIN s :
        i < j /\ IsBraveComponent(s[j]) => IsBraveComponent(s[i])

\* The places up to n are as many as n.
LEMMA UpToCard ==
    ASSUME NEW n \in Nat
    PROVE  IsFiniteSet(1 .. n) /\ Cardinality(1 .. n) = n
<1>1. IsFiniteSet(1 .. n) /\ Cardinality(1 .. n) = IF 1 > n THEN 0 ELSE n - 1 + 1
  BY FS_Interval
<1> QED
  BY <1>1

-----------------------------------------------------------------------------
(* The partition.                                                          *)

\* Before is a strict total order on the places of a list.
LEMMA BeforeIsOrder ==
    ASSUME NEW s, NEW i \in Nat, NEW j \in Nat, NEW k \in Nat
    PROVE  /\ ~Before(s, i, i)
           /\ Before(s, i, j) /\ Before(s, j, k) => Before(s, i, k)
           /\ Before(s, i, j) => ~Before(s, j, i)
           /\ i # j => Before(s, i, j) \/ Before(s, j, i)
  BY DEF Before

\* A place counts the places before it and itself.
LEMMA PlaceInRange ==
    ASSUME NEW s \in Seq(Id), NEW i \in DOMAIN s
    PROVE  Place(s, i) \in DOMAIN s
<1> DEFINE P == {j \in DOMAIN s : j = i \/ Before(s, j, i)}
<1>1. DOMAIN s = 1 .. Len(s) /\ Len(s) \in Nat
  BY LenProperties
<1>2. IsFiniteSet(1 .. Len(s)) /\ Cardinality(1 .. Len(s)) = Len(s)
  BY <1>1, UpToCard
<1>3. P \in SUBSET (1 .. Len(s)) /\ i \in P
  BY <1>1
<1> HIDE DEF P
<1>4. IsFiniteSet(P) /\ Cardinality(P) <= Len(s)
  BY <1>2, <1>3, FS_Subset
<1>5. Cardinality(P) \in Nat /\ Cardinality(P) # 0
  BY <1>3, <1>4, FS_CardinalityType, FS_EmptySet
<1>6. Place(s, i) = Cardinality(P)
  BY DEF Place, P
<1> QED
  BY <1>1, <1>4, <1>5, <1>6

\* What comes before has the smaller place.
LEMMA PlaceIsMonotone ==
    ASSUME NEW s \in Seq(Id), NEW a \in DOMAIN s, NEW b \in DOMAIN s,
           Before(s, a, b)
    PROVE  Place(s, a) < Place(s, b)
<1> DEFINE A == {j \in DOMAIN s : j = a \/ Before(s, j, a)}
           B == {j \in DOMAIN s : j = b \/ Before(s, j, b)}
<1>1. DOMAIN s = 1 .. Len(s) /\ Len(s) \in Nat
  BY LenProperties
<1>2. IsFiniteSet(1 .. Len(s))
  BY <1>1, FS_Interval
<1>3. B \in SUBSET (1 .. Len(s)) /\ b \in B
  BY <1>1
<1>4. ASSUME NEW j \in DOMAIN s, j = a \/ Before(s, j, a)
      PROVE  Before(s, j, b) /\ j # b
  <2>1. j \in Nat /\ a \in Nat /\ b \in Nat
    BY <1>1
  <2>2. Before(s, j, b)
    BY <1>4, <2>1, BeforeIsOrder
  <2> QED
    BY <2>1, <2>2, BeforeIsOrder
<1>5. A \in SUBSET (B \ {b})
  BY <1>4
<1>6. Place(s, a) = Cardinality(A) /\ Place(s, b) = Cardinality(B)
  BY DEF Place
<1> HIDE DEF A, B
<1>7. IsFiniteSet(B)
  BY <1>2, <1>3, FS_Subset
<1>8. IsFiniteSet(B \ {b}) /\ Cardinality(B \ {b}) = Cardinality(B) - 1
  BY <1>3, <1>7, FS_RemoveElement
<1>9. IsFiniteSet(A) /\ Cardinality(A) <= Cardinality(B \ {b})
  BY <1>5, <1>8, FS_Subset
<1>10. Cardinality(A) \in Nat /\ Cardinality(B) \in Nat
  BY <1>7, <1>9, FS_CardinalityType
<1> QED
  BY <1>6, <1>8, <1>9, <1>10

\* Two ids have different places, and every place is taken.
LEMMA PlacesAreAll ==
    ASSUME NEW s \in Seq(Id)
    PROVE  /\ \A i, j \in DOMAIN s : Place(s, i) = Place(s, j) => i = j
           /\ \A k \in DOMAIN s : \E i \in DOMAIN s : Place(s, i) = k
<1> DEFINE D == DOMAIN s
           f == [i \in D |-> Place(s, i)]
<1>1. D = 1 .. Len(s) /\ Len(s) \in Nat
  BY LenProperties
<1>2. \A i \in D : Place(s, i) \in D
  BY PlaceInRange
<1>3. ASSUME NEW i \in D, NEW j \in D, Place(s, i) = Place(s, j)
      PROVE  i = j
  <2>1. i \in Nat /\ j \in Nat /\ Place(s, i) \in Nat /\ Place(s, j) \in Nat
    BY <1>1, <1>2
  <2>2. ~Before(s, i, j)
    BY <1>3, <2>1, PlaceIsMonotone
  <2>3. ~Before(s, j, i)
    BY <1>3, <2>1, PlaceIsMonotone
  <2> QED
    BY <2>1, <2>2, <2>3, BeforeIsOrder
<1>4. f \in Injection(D, D)
  BY <1>2, <1>3 DEF Injection, IsInjective
<1>5. IsFiniteSet(D)
  BY <1>1, FS_Interval
<1> HIDE DEF f, D
<1>6. f \in Surjection(D, D)
  BY <1>4, <1>5, FS_Injection
<1>7. \A k \in D : \E i \in D : Place(s, i) = k
  BY <1>6 DEF Surjection, f
<1> QED
  BY <1>3, <1>7 DEF D

\* What stands at a place of the partition.
LEMMA BraveFirstAtPlace ==
    ASSUME NEW s \in Seq(Id)
    PROVE  /\ DOMAIN BraveFirst(s) = DOMAIN s
           /\ \A i \in DOMAIN s : BraveFirst(s)[Place(s, i)] = s[i]
<1>1. DOMAIN BraveFirst(s) = DOMAIN s
  BY DEF BraveFirst
<1>2. ASSUME NEW i \in DOMAIN s
      PROVE  BraveFirst(s)[Place(s, i)] = s[i]
  <2>1. Place(s, i) \in DOMAIN s
    BY <1>2, PlaceInRange
  <2>2. (CHOOSE j \in DOMAIN s : Place(s, j) = Place(s, i)) = i
    BY <1>2, PlacesAreAll
  <2> QED
    BY <2>1, <2>2 DEF BraveFirst
<1> QED
  BY <1>1, <1>2

\* The partition puts Brave's ids first, keeps the ids of the list and their
\* number, and keeps the order of two ids of the same vendor: what the code
\* asks of std::ranges::stable_partition.
THEOREM BraveFirstIsStablePartition ==
    ASSUME NEW s \in Seq(Id)
    PROVE  /\ BraveFirst(s) \in Seq(Id)
           /\ Len(BraveFirst(s)) = Len(s)
           /\ ToSet(BraveFirst(s)) = ToSet(s)
           /\ Distinct(s) => Distinct(BraveFirst(s))
           /\ Partitioned(BraveFirst(s))
           /\ \A i, j \in DOMAIN s :
                i < j /\ (IsBraveComponent(s[i]) <=> IsBraveComponent(s[j]))
                    => Place(s, i) < Place(s, j)
<1> DEFINE p == BraveFirst(s)
           D == DOMAIN s
<1>1. D = 1 .. Len(s) /\ Len(s) \in Nat /\ \A i \in D : s[i] \in Id
  BY LenProperties
<1>2. \A k \in D : \E i \in D : Place(s, i) = k /\ p[k] = s[i]
  BY PlacesAreAll, BraveFirstAtPlace
<1>3. p = [k \in D |-> p[k]]
  BY DEF BraveFirst
<1>4. p \in [1 .. Len(s) -> Id]
  BY <1>1, <1>2, <1>3
<1>5. p \in Seq(Id) /\ Len(p) = Len(s) /\ DOMAIN p = D
  BY <1>1, <1>4
<1>6. ToSet(p) = ToSet(s)
  <2>1. \A i \in D : Place(s, i) \in D /\ p[Place(s, i)] = s[i]
    BY PlaceInRange, BraveFirstAtPlace
  <2> HIDE DEF p, D
  <2>2. {p[k] : k \in D} = {s[i] : i \in D}
    BY <1>2, <2>1
  <2> QED
    BY <1>5, <2>2 DEF ToSet, D
<1>7. ASSUME Distinct(s)
      PROVE  Distinct(p)
  <2>1. SUFFICES ASSUME NEW k \in D, NEW l \in D, p[k] = p[l]
                 PROVE  k = l
    BY <1>5 DEF Distinct
  <2>2. PICK i \in D : Place(s, i) = k /\ p[k] = s[i]
    BY <1>2
  <2>3. PICK j \in D : Place(s, j) = l /\ p[l] = s[j]
    BY <1>2
  <2> HIDE DEF p
  <2> QED
    BY <1>7, <2>1, <2>2, <2>3 DEF Distinct
<1>8. Partitioned(p)
  <2>1. SUFFICES ASSUME NEW k \in D, NEW l \in D, k < l,
                        IsBraveComponent(p[l]), ~IsBraveComponent(p[k])
                 PROVE  FALSE
    BY <1>5 DEF Partitioned
  <2>2. PICK i \in D : Place(s, i) = k /\ p[k] = s[i]
    BY <1>2
  <2>3. PICK j \in D : Place(s, j) = l /\ p[l] = s[j]
    BY <1>2
  <2> HIDE DEF p
  <2>4. Before(s, j, i)
    BY <2>1, <2>2, <2>3 DEF Before
  <2>5. l < k
    BY <2>2, <2>3, <2>4, PlaceIsMonotone
  <2> QED
    BY <1>1, <2>1, <2>5
<1>9. ASSUME NEW i \in D, NEW j \in D, i < j,
             IsBraveComponent(s[i]) <=> IsBraveComponent(s[j])
      PROVE  Place(s, i) < Place(s, j)
  <2>1. Before(s, i, j)
    BY <1>9 DEF Before
  <2> QED
    BY <2>1, PlaceIsMonotone
<1> HIDE DEF p
<1>10. /\ p \in Seq(Id) /\ Len(p) = Len(s) /\ ToSet(p) = ToSet(s)
       /\ Distinct(s) => Distinct(p)
       /\ Partitioned(p)
  BY <1>5, <1>6, <1>7, <1>8
<1> QED
  BY <1>9, <1>10 DEF p

-----------------------------------------------------------------------------
(* One request.                                                            *)

\* A request takes the first id and those after it that are Brave's, as many
\* as there are: it is never empty, and the queue gets shorter.
THEOREM BatchSizeIsRightful ==
    ASSUME NEW q \in Seq(Id), q # <<>>
    PROVE  /\ BatchSize(q) \in 1 .. Len(q)
           /\ \A i \in 2 .. BatchSize(q) : IsBraveComponent(q[i])
           /\ BatchSize(q) < Len(q) => ~IsBraveComponent(q[BatchSize(q) + 1])
<1> DEFINE N == {n \in 1 .. Len(q) : \A i \in 2 .. n : IsBraveComponent(q[i])}
           c == Cardinality(N)
<1>1. Len(q) \in Nat /\ Len(q) # 0
  BY EmptySeq
<1>2. N \in SUBSET (1 .. Len(q)) /\ 1 \in N
  BY <1>1
<1>3. \A n \in N : 1 .. n \subseteq N
  BY <1>1
<1>4. \A n \in N : \A i \in 2 .. n : IsBraveComponent(q[i])
  OBVIOUS
<1>5. \A n \in N : n + 1 \in 1 .. Len(q) /\ n + 1 \notin N => ~IsBraveComponent(q[n + 1])
  BY <1>1
<1>6. BatchSize(q) = c
  BY DEF BatchSize
<1> HIDE DEF N
<1>7. IsFiniteSet(N) /\ c <= Len(q)
  <2>1. IsFiniteSet(1 .. Len(q)) /\ Cardinality(1 .. Len(q)) = Len(q)
    BY <1>1, UpToCard
  <2> QED
    BY <1>2, <2>1, FS_Subset
<1>8. c \in Nat /\ c # 0
  BY <1>2, <1>7, FS_CardinalityType, FS_EmptySet
<1> HIDE DEF c
<1>9. c \in N
  <2>1. SUFFICES ASSUME c \notin N
                 PROVE  FALSE
    OBVIOUS
  <2>2. \A n \in N : n \in 1 .. (c - 1)
    BY <1>1, <1>2, <1>3, <1>8, <2>1
  <2>3. N \in SUBSET (1 .. (c - 1)) /\ c - 1 \in Nat
    BY <1>8, <2>2
  <2>4. IsFiniteSet(1 .. (c - 1)) /\ Cardinality(1 .. (c - 1)) = c - 1
    BY <2>3, UpToCard
  <2>5. Cardinality(N) <= c - 1
    BY <2>3, <2>4, FS_Subset
  <2> QED
    BY <1>8, <2>5 DEF c
<1>10. c + 1 \notin N
  <2>1. SUFFICES ASSUME c + 1 \in N
                 PROVE  FALSE
    OBVIOUS
  <2>2. (1 .. (c + 1)) \in SUBSET N
    BY <1>3, <2>1
  <2>3. Cardinality(1 .. (c + 1)) <= Cardinality(N)
    BY <1>7, <2>2, FS_Subset
  <2>4. Cardinality(1 .. (c + 1)) = c + 1
    BY <1>8, UpToCard
  <2> QED
    BY <1>8, <2>3, <2>4 DEF c
<1>11. c < Len(q) => c + 1 \in 1 .. Len(q)
  BY <1>1, <1>8
<1> QED
  BY <1>2, <1>4, <1>5, <1>6, <1>9, <1>10, <1>11

\* The ids asked for so far.
Asked == UNION {ToSet(requests[r]) : r \in DOMAIN requests}

\* CheckNext moves the first ids of the queue q into a request of their own.
LEMMA CheckNextMovesBatch ==
    ASSUME NEW q \in Seq(Id), q # <<>>, requests \in Seq(Seq(Id) \ {<<>>}),
           CheckNext(q)
    PROVE  LET b == BatchSize(q)
               n == Len(requests)
           IN  /\ b \in 1 .. Len(q)
               /\ in_flight' \in Seq(Id) \ {<<>>}
               /\ Len(in_flight') = b
               /\ \A i \in 1 .. b : in_flight'[i] = q[i]
               /\ remaining' \in Seq(Id)
               /\ Len(remaining') = Len(q) - b
               /\ \A i \in 1 .. (Len(q) - b) : remaining'[i] = q[b + i]
               /\ requests' \in Seq(Seq(Id) \ {<<>>})
               /\ Len(requests') = n + 1
               /\ \A r \in 1 .. n : requests'[r] = requests[r]
               /\ requests'[n + 1] = in_flight'
<1> DEFINE b == BatchSize(q)
           n == Len(requests)
<1>1. b \in 1 .. Len(q) /\ Len(q) \in Nat
  BY BatchSizeIsRightful, LenProperties
<1>2. in_flight' = SubSeq(q, 1, b) /\ remaining' = SubSeq(q, b + 1, Len(q))
      /\ requests' = Append(requests, in_flight')
  BY DEF CheckNext, Rest
<1> HIDE DEF b, n
<1>3. \A i \in 1 .. Len(q) : q[i] \in Id
  BY ElementOfSeq
<1>4. /\ SubSeq(q, 1, b) \in Seq(Id)
      /\ Len(SubSeq(q, 1, b)) = b
      /\ \A i \in 1 .. b : SubSeq(q, 1, b)[i] = q[i]
  BY <1>1, <1>3
<1>5. in_flight' # <<>>
  <2>1. Len(in_flight') = b /\ b # 0
    BY <1>1, <1>2, <1>4
  <2>2. Len(<<>>) = 0
    BY EmptySeq
  <2> QED
    BY <2>1, <2>2
<1>6. /\ SubSeq(q, b + 1, Len(q)) \in Seq(Id)
      /\ Len(SubSeq(q, b + 1, Len(q))) = Len(q) - b
      /\ \A i \in 1 .. (Len(q) - b) : SubSeq(q, b + 1, Len(q))[i] = q[b + i]
  BY <1>1, <1>3
<1>7. in_flight' \in Seq(Id) \ {<<>>}
  BY <1>2, <1>4, <1>5
<1>8. /\ requests' \in Seq(Seq(Id) \ {<<>>})
      /\ Len(requests') = n + 1
      /\ \A r \in 1 .. n : requests'[r] = requests[r]
      /\ requests'[n + 1] = in_flight'
  BY <1>2, <1>7, AppendProperties DEF n
<1> QED
  BY <1>1, <1>2, <1>4, <1>6, <1>7, <1>8 DEF b, n

\* A request more, disjoint from the earlier ones, keeps every request apart.
LEMMA CheckNextKeepsRequests ==
    ASSUME NEW q \in Seq(Id), q # <<>>, requests \in Seq(Seq(Id) \ {<<>>}),
           CheckNext(q),
           GoogleAskedAlone, AskedAtMostOnce,
           Distinct(q), Partitioned(q), ToSet(q) \cap Asked = {}
    PROVE  /\ GoogleAskedAlone'
           /\ AskedAtMostOnce'
           /\ Distinct(remaining)'
           /\ Partitioned(remaining)'
           /\ (ToSet(remaining) \cap Asked = {})'
           /\ (Asked \cup ToSet(remaining))' = Asked \cup ToSet(q)
<1> DEFINE b == BatchSize(q)
           n == Len(requests)
           old == 1 .. n
           new == n + 1
<1>1. /\ b \in 1 .. Len(q) /\ Len(q) \in Nat /\ DOMAIN q = 1 .. Len(q)
      /\ n \in Nat /\ DOMAIN requests = old
  BY BatchSizeIsRightful, LenProperties
<1>2. /\ Len(in_flight') = b
      /\ DOMAIN in_flight' = 1 .. b
      /\ \A i \in 1 .. b : in_flight'[i] = q[i]
  BY CheckNextMovesBatch, LenProperties
<1>3. /\ DOMAIN remaining' = 1 .. (Len(q) - b)
      /\ \A i \in 1 .. (Len(q) - b) : remaining'[i] = q[b + i]
  BY CheckNextMovesBatch, LenProperties
<1>4. /\ DOMAIN requests' = old \cup {new}
      /\ \A r \in old : requests'[r] = requests[r] /\ r # new
      /\ requests'[new] = in_flight'
  <2>1. /\ requests' \in Seq(Seq(Id) \ {<<>>}) /\ Len(requests') = new
        /\ \A r \in old : requests'[r] = requests[r]
        /\ requests'[new] = in_flight'
    BY CheckNextMovesBatch
  <2>2. DOMAIN requests' = 1 .. new
    BY <2>1, LenProperties
  <2> QED
    BY <1>1, <2>1, <2>2
<1>5. \A i \in 2 .. b : IsBraveComponent(q[i])
  BY BatchSizeIsRightful
<1> HIDE DEF b, n
<1>6. \A r \in old : \A i \in DOMAIN requests[r] :
          requests[r][i] \in Asked
  BY <1>1 DEF Asked, ToSet
<1>7. \A i \in DOMAIN q : q[i] \notin Asked
  BY DEF ToSet
<1> HIDE DEF old, new
<1>8. GoogleAskedAlone'
  <2>1. SUFFICES ASSUME NEW r \in DOMAIN requests', Len(requests'[r]) > 1
                 PROVE  ToSet(requests'[r]) \subseteq BraveId
    BY DEF GoogleAskedAlone, ToSet
  <2>2. CASE r \in old
    BY <1>1, <1>4, <2>1, <2>2 DEF GoogleAskedAlone
  <2>3. CASE r = new
    <3>1. requests'[r] = in_flight' /\ b > 1
      BY <1>2, <1>4, <2>1, <2>3
    <3>2. \A i \in 1 .. b : IsBraveComponent(q[i])
      BY <1>1, <1>5, <3>1 DEF Partitioned
    <3> QED
      BY <1>2, <3>1, <3>2 DEF ToSet, IsBraveComponent
  <2> QED
    BY <1>4, <2>2, <2>3
<1>9. AskedAtMostOnce'
  <2>1. SUFFICES ASSUME NEW r \in DOMAIN requests', NEW s \in DOMAIN requests',
                        NEW i \in DOMAIN requests'[r],
                        NEW j \in DOMAIN requests'[s],
                        requests'[r][i] = requests'[s][j]
                 PROVE  r = s /\ i = j
    BY DEF AskedAtMostOnce
  <2>2. CASE r \in old /\ s \in old
    BY <1>1, <1>4, <2>1, <2>2 DEF AskedAtMostOnce
  <2>3. CASE r = new /\ s = new
    BY <1>1, <1>2, <1>4, <2>1, <2>3 DEF Distinct
  <2>4. CASE r \in old /\ s = new
    BY <1>1, <1>2, <1>4, <1>6, <1>7, <2>1, <2>4
  <2>5. CASE r = new /\ s \in old
    BY <1>1, <1>2, <1>4, <1>6, <1>7, <2>1, <2>5
  <2> QED
    BY <1>4, <2>2, <2>3, <2>4, <2>5
<1>10. Distinct(remaining)'
  <2>1. SUFFICES ASSUME NEW i \in DOMAIN remaining', NEW j \in DOMAIN remaining',
                        remaining'[i] = remaining'[j]
                 PROVE  i = j
    BY DEF Distinct
  <2>2. /\ b + i \in DOMAIN q /\ b + j \in DOMAIN q
        /\ q[b + i] = q[b + j]
    BY <1>1, <1>3, <2>1
  <2>3. b + i = b + j
    BY <2>2 DEF Distinct
  <2> QED
    BY <1>1, <1>3, <2>3
<1>11. Partitioned(remaining)'
  <2>1. SUFFICES ASSUME NEW i \in DOMAIN remaining', NEW j \in DOMAIN remaining',
                        i < j, IsBraveComponent(remaining'[j])
                 PROVE  IsBraveComponent(remaining'[i])
    BY DEF Partitioned, IsBraveComponent
  <2>2. /\ b + i \in DOMAIN q /\ b + j \in DOMAIN q /\ b + i < b + j
        /\ IsBraveComponent(q[b + j])
    BY <1>1, <1>3, <2>1
  <2>3. IsBraveComponent(q[b + i])
    BY <2>2 DEF Partitioned
  <2> QED
    BY <1>3, <2>3
<1>12. Asked' = Asked \cup ToSet(in_flight')
  BY <1>1, <1>4 DEF Asked
<1>13. ToSet(in_flight') = {q[i] : i \in 1 .. b}
  BY <1>2 DEF ToSet
<1>14. ToSet(remaining') = {q[i] : i \in (b + 1) .. Len(q)}
  <2>1. \A i \in (b + 1) .. Len(q) : i - b \in 1 .. (Len(q) - b) /\ q[i] = remaining'[i - b]
    BY <1>1, <1>3
  <2>2. \A i \in 1 .. (Len(q) - b) : b + i \in (b + 1) .. Len(q)
    BY <1>1
  <2> QED
    BY <1>3, <2>1, <2>2 DEF ToSet
<1>15. (Asked \cup ToSet(remaining))' = Asked \cup ToSet(q)
  <2>1. 1 .. Len(q) = (1 .. b) \cup ((b + 1) .. Len(q))
    BY <1>1
  <2>2. ToSet(q) = ToSet(in_flight') \cup ToSet(remaining')
    BY <1>1, <1>13, <1>14, <2>1 DEF ToSet
  <2>3. (Asked \cup ToSet(remaining))' = Asked' \cup ToSet(remaining')
    BY DEF ToSet
  <2> QED
    BY <1>12, <2>2, <2>3
<1>16. (ToSet(remaining) \cap Asked = {})'
  <2>1. \A x \in ToSet(remaining') : x \notin Asked /\ x \notin ToSet(in_flight')
    BY <1>1, <1>7, <1>13, <1>14 DEF Distinct
  <2>2. ToSet(remaining') \cap Asked' = {}
    BY <1>12, <2>1
  <2> QED
    BY <2>2 DEF ToSet
<1> QED
  BY <1>8, <1>9, <1>10, <1>11, <1>15, <1>16

-----------------------------------------------------------------------------
(* The invariant.                                                          *)

\* The queue holds ids not asked for yet, Brave's first.
QueueInv ==
    /\ Distinct(remaining)
    /\ Partitioned(remaining)
    /\ ToSet(remaining) \cap Asked = {}

\* While the check runs every id of the list is asked for or in the queue;
\* when it has succeeded, every one was asked for.
ProgressInv ==
    /\ callback = "none" =>
        /\ to_check \in IdLists
        /\ remaining = <<>> /\ requests = <<>>
    /\ callback = "held" => Asked \cup ToSet(remaining) = ToSet(to_check)
    /\ callback \in Succeeded => Asked = ToSet(to_check)
    /\ in_flight # <<>> => callback = "held"
    /\ results = answered

IInv ==
    /\ TypeOK
    /\ GoogleAskedAlone
    /\ AskedAtMostOnce
    /\ QueueInv
    /\ ProgressInv

\* The invariant holds when the caller's list is handed over.
THEOREM InitIInv == Init => IInv
<1> SUFFICES ASSUME Init
             PROVE  IInv
  OBVIOUS
<1>1. to_check \in Seq(Id)
  BY IdAssumption, FS_CardinalityType DEF Init, IdLists
<1>2. /\ remaining = <<>> /\ in_flight = <<>> /\ requests = <<>>
      /\ results = {} /\ answered = {} /\ callback = "none"
      /\ to_check \in IdLists
  BY DEF Init
<1>3. TypeOK
  BY <1>1, <1>2 DEF TypeOK
<1>4. GoogleAskedAlone /\ AskedAtMostOnce
  BY <1>2 DEF GoogleAskedAlone, AskedAtMostOnce
<1>5. QueueInv
  BY <1>2 DEF QueueInv, Distinct, Partitioned, ToSet
<1>6. ProgressInv
  BY <1>2 DEF ProgressInv, Succeeded
<1> QED
  BY <1>3, <1>4, <1>5, <1>6 DEF IInv

\* CheckForUpdates: the partition of the list, and the first request.
LEMMA CheckForUpdatesKeepsIInv ==
    ASSUME IInv, CheckForUpdates
    PROVE  IInv'
<1> DEFINE p == BraveFirst(to_check)
<1>1. /\ to_check \in IdLists /\ to_check \in Seq(Id)
      /\ remaining = <<>> /\ requests = <<>>
  BY DEF IInv, ProgressInv, TypeOK, CheckForUpdates
<1>2. Distinct(to_check) /\ to_check # <<>>
  BY <1>1 DEF IdLists, Distinct
<1>3. /\ p \in Seq(Id) /\ Len(p) = Len(to_check)
      /\ ToSet(p) = ToSet(to_check)
      /\ Distinct(p) /\ Partitioned(p)
  BY <1>1, <1>2, BraveFirstIsStablePartition
<1>4. to_check' = p /\ CheckNext(remaining \o p)
  BY DEF CheckForUpdates
<1>5. callback' = "held" /\ results' = results /\ answered' = answered
  BY DEF CheckForUpdates
<1> HIDE DEF p
<1>6. p # <<>>
  BY <1>1, <1>2, <1>3, EmptySeq
<1>7. CheckNext(p)
  BY <1>1, <1>3, <1>4, ConcatEmptySeq
<1>8. ToSet(p) \cap Asked = {} /\ Asked = {}
  BY <1>1 DEF Asked
<1>9. requests \in Seq(Seq(Id) \ {<<>>}) /\ GoogleAskedAlone /\ AskedAtMostOnce
  BY DEF IInv, TypeOK
<1>10. /\ GoogleAskedAlone'
       /\ AskedAtMostOnce'
       /\ Distinct(remaining)'
       /\ Partitioned(remaining)'
       /\ (ToSet(remaining) \cap Asked = {})'
       /\ (Asked \cup ToSet(remaining))' = Asked \cup ToSet(p)
  BY <1>3, <1>6, <1>7, <1>8, <1>9, CheckNextKeepsRequests
<1>11. /\ in_flight' \in Seq(Id) /\ remaining' \in Seq(Id)
       /\ requests' \in Seq(Seq(Id) \ {<<>>})
  BY <1>3, <1>6, <1>7, <1>9, CheckNextMovesBatch
<1>12. TypeOK'
  BY <1>3, <1>4, <1>5, <1>11 DEF IInv, TypeOK
<1>13. ToSet(to_check)' = ToSet(to_check)
  BY <1>3, <1>4 DEF ToSet
<1>14. ProgressInv'
  <2>1. (Asked \cup ToSet(remaining) = ToSet(to_check))'
    BY <1>3, <1>8, <1>10, <1>13
  <2>2. (results = answered)'
    BY <1>5 DEF IInv, ProgressInv
  <2> QED
    BY <1>5, <2>1, <2>2 DEF ProgressInv, Succeeded
<1> QED
  BY <1>10, <1>12, <1>14 DEF IInv, QueueInv

\* UpdateResultAvailable: the end of the check, or the next request.
LEMMA AnswerKeepsIInv ==
    ASSUME IInv, Answer
    PROVE  IInv'
<1>1. PICK error \in BOOLEAN, apps \in SUBSET ToSet(in_flight) :
          UpdateResultAvailable(error, apps)
  BY DEF Answer
<1>2. in_flight \in Seq(Id) /\ remaining \in Seq(Id)
      /\ requests \in Seq(Seq(Id) \ {<<>>})
      /\ callback = "held" /\ to_check' = to_check
  BY <1>1 DEF IInv, TypeOK, ProgressInv, UpdateResultAvailable
<1>3. apps \subseteq Id
  BY <1>2, LenProperties DEF ToSet
<1>4. /\ results' \subseteq Id /\ answered' \subseteq Id
      /\ results' = answered'
  BY <1>1, <1>3 DEF UpdateResultAvailable, NewResults, IInv, TypeOK, ProgressInv
<1>5. Asked \cup ToSet(remaining) = ToSet(to_check)
  BY <1>2 DEF IInv, ProgressInv
<1>6. ToSet(to_check)' = ToSet(to_check)
  BY <1>2 DEF ToSet
<1>7. CASE Done(error)
  <2>1. /\ remaining' = <<>> /\ in_flight' = <<>> /\ requests' = requests
        /\ callback' = IF error THEN "posted_error" ELSE "posted_ok"
    BY <1>1, <1>7 DEF UpdateResultAvailable, Cleared
  <2>2. TypeOK'
    BY <1>2, <1>4, <2>1 DEF IInv, TypeOK
  <2>3. GoogleAskedAlone' /\ AskedAtMostOnce' /\ Asked' = Asked
    BY <2>1 DEF IInv, GoogleAskedAlone, AskedAtMostOnce, Asked, ToSet
  <2>4. QueueInv'
    BY <2>1 DEF QueueInv, Distinct, Partitioned, ToSet
  <2>5. callback' \in Succeeded => Asked = ToSet(to_check)
    BY <1>5, <1>7, <2>1 DEF Succeeded, Done, ToSet
  <2>6. ProgressInv'
    BY <1>4, <1>6, <2>1, <2>3, <2>5 DEF ProgressInv, Succeeded
  <2> QED
    BY <2>2, <2>3, <2>4, <2>6 DEF IInv
<1>8. CASE ~Done(error)
  <2>1. remaining # <<>> /\ CheckNext(remaining) /\ callback' = "held"
    BY <1>1, <1>2, <1>8 DEF UpdateResultAvailable, Done
  <2>2. /\ GoogleAskedAlone /\ AskedAtMostOnce
        /\ Distinct(remaining) /\ Partitioned(remaining)
        /\ ToSet(remaining) \cap Asked = {}
    BY DEF IInv, QueueInv
  <2>3. /\ GoogleAskedAlone'
        /\ AskedAtMostOnce'
        /\ QueueInv'
        /\ (Asked \cup ToSet(remaining))' = Asked \cup ToSet(remaining)
    BY <1>2, <2>1, <2>2, CheckNextKeepsRequests DEF QueueInv
  <2>4. /\ in_flight' \in Seq(Id) /\ remaining' \in Seq(Id)
        /\ requests' \in Seq(Seq(Id) \ {<<>>})
    BY <1>2, <2>1, CheckNextMovesBatch
  <2>5. TypeOK'
    BY <1>2, <1>4, <2>1, <2>4 DEF IInv, TypeOK
  <2>6. ProgressInv'
    BY <1>4, <1>5, <1>6, <2>1, <2>3 DEF ProgressInv, Succeeded
  <2> QED
    BY <2>3, <2>5, <2>6 DEF IInv
<1> QED
  BY <1>7, <1>8

\* The posted callback changes nothing the invariant is about.
LEMMA RunCallbackKeepsIInv ==
    ASSUME IInv, RunCallback
    PROVE  IInv'
<1>1. /\ callback \in {"posted_ok", "posted_error"}
      /\ callback' = IF callback = "posted_ok" THEN "ran_ok" ELSE "ran_error"
  BY DEF RunCallback
<1>2. UNCHANGED <<to_check, remaining, in_flight, requests, results, answered>>
  BY DEF RunCallback
<1>3. TypeOK'
  BY <1>1, <1>2 DEF IInv, TypeOK
<1>4. /\ GoogleAskedAlone' /\ AskedAtMostOnce' /\ QueueInv'
  BY <1>2 DEF IInv, GoogleAskedAlone, AskedAtMostOnce, QueueInv, Distinct,
              Partitioned, Asked, ToSet
<1>5. ProgressInv'
  BY <1>1, <1>2 DEF IInv, ProgressInv, Succeeded, Asked, ToSet
<1> QED
  BY <1>3, <1>4, <1>5 DEF IInv

\* Every operation of the checker keeps the invariant.
THEOREM NextIInv == IInv /\ [Next]_vars => IInv'
<1>1. CASE UNCHANGED vars
  <2>1. SUFFICES ASSUME IInv
                 PROVE  IInv'
    OBVIOUS
  <2>2. UNCHANGED <<to_check, remaining, in_flight, requests, results, answered, callback>>
    BY <1>1 DEF vars
  <2>3. TypeOK'
    BY <2>1, <2>2 DEF IInv, TypeOK
  <2>4. /\ GoogleAskedAlone' /\ AskedAtMostOnce' /\ QueueInv'
    BY <2>1, <2>2 DEF IInv, GoogleAskedAlone, AskedAtMostOnce, QueueInv, Distinct,
                      Partitioned, Asked, ToSet
  <2>5. Asked' = Asked /\ ToSet(remaining)' = ToSet(remaining)
        /\ ToSet(to_check)' = ToSet(to_check)
    BY <2>2 DEF Asked, ToSet
  <2>6. ProgressInv'
    BY <2>1, <2>2, <2>5 DEF IInv, ProgressInv, Succeeded
  <2> QED
    BY <2>3, <2>4, <2>6 DEF IInv
<1> QED
  BY <1>1, CheckForUpdatesKeepsIInv, AnswerKeepsIInv, RunCallbackKeepsIInv
     DEF Next

\* The invariant holds in every check, whatever the list and the answers.
THEOREM InvariantHolds == Spec => []IInv
  BY InitIInv, NextIInv, PTL DEF Spec

-----------------------------------------------------------------------------
(* The theorems.                                                           *)

\* The check keeps its types: no request is ever empty (CheckNext).
THEOREM TypeCorrect == Spec => []TypeOK
<1>1. IInv => TypeOK
  BY DEF IInv
<1> QED
  BY <1>1, InvariantHolds, PTL

\* Whatever the components and the order of the list, a request that names a
\* Google component names nothing else: the partition of CheckForUpdates and
\* the scan of CheckNext together, kept over every answer.
THEOREM GoogleIsAlone == Spec => []GoogleAskedAlone
<1>1. IInv => GoogleAskedAlone
  BY DEF IInv
<1> QED
  BY <1>1, InvariantHolds, PTL

\* No component is asked for twice, in one request or in two (the erase in
\* CheckNext).
THEOREM NothingAskedTwice == Spec => []AskedAtMostOnce
<1>1. IInv => AskedAtMostOnce
  BY DEF IInv
<1> QED
  BY <1>1, InvariantHolds, PTL

\* A check that reports success asked for every component of its list, no
\* other, and holds every result it was given (UpdateResultAvailable).
THEOREM SuccessMeansComplete == Spec => []SuccessIsComplete
<1>1. IInv => SuccessIsComplete
  BY DEF IInv, ProgressInv, SuccessIsComplete, Asked
<1> QED
  BY <1>1, InvariantHolds, PTL

=============================================================================
