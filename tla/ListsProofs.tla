---------------------------- MODULE ListsProofs ----------------------------
(* What the proofs about lists need.  First of any lists: places, how many     *)
(* elements of a kind a list has, what becomes of that when one is put in or   *)
(* taken out, and loops.  Then the order of notes, and what the loops of       *)
(* phrase.c and util.c make of lists of any notes: what goes in comes out,     *)
(* once, and in order.                                                         *)
EXTENDS NoteLists, FiniteSetTheorems, SequenceTheorems, TLAPS

(* Counting the numbers of S up to i numbers S from 1 to its size. *)
LEMMA NthPlace ==
  ASSUME NEW S, IsFiniteSet(S), S \subseteq Nat, NEW k \in 1 .. Cardinality(S)
  PROVE  Nth(S, k) \in S /\ Cardinality({j \in S : j <= Nth(S, k)}) = k
<1> DEFINE upTo(i) == {j \in S : j <= i}
           place == [i \in S |-> Cardinality(upTo(i))]
<1>1. ASSUME NEW i \in S
      PROVE  /\ IsFiniteSet(upTo(i)) /\ Cardinality(upTo(i)) \in Nat
             /\ Cardinality(upTo(i)) <= Cardinality(S)
  BY FS_Subset, FS_CardinalityType
<1>2. ASSUME NEW i \in S PROVE Cardinality(upTo(i)) # 0
  <2>1. i \in upTo(i)
    OBVIOUS
  <2> QED BY <1>1, <2>1, FS_EmptySet
<1>3. Cardinality(S) \in Nat
  BY FS_CardinalityType
<1>4. place \in [S -> 1 .. Cardinality(S)]
  BY <1>1, <1>2, <1>3
<1>5. ASSUME NEW i \in S, NEW j \in S, i < j PROVE place[i] # place[j]
  <2>0. i \in Nat /\ j \in Nat /\ i < j /\ \A m \in S : m \in Nat
    BY <1>5
  <2>1. upTo(i) \subseteq upTo(j) /\ j \in upTo(j) /\ j \notin upTo(i)
    <3>1. j <= j /\ ~(j <= i) /\ \A m \in S : m <= i => m <= j
      BY <2>0
    <3> QED BY <3>1
  <2>2. Cardinality(upTo(i)) # Cardinality(upTo(j))
    BY <1>1, <2>1, FS_Subset
  <2> QED BY <2>2
<1>6. \A i, j \in S : place[i] = place[j] => i = j
  <2> SUFFICES ASSUME NEW i \in S, NEW j \in S, place[i] = place[j] PROVE i = j
    OBVIOUS
  <2>1. i \in Nat /\ j \in Nat
    OBVIOUS
  <2> HIDE DEF place
  <2> QED BY <1>5, <2>1
<1>7. place \in Injection(S, 1 .. Cardinality(S))
  BY <1>4, <1>6 DEF Injection, IsInjective
<1>8. IsFiniteSet(1 .. Cardinality(S)) /\ Cardinality(1 .. Cardinality(S)) = Cardinality(S)
  BY <1>3, FS_Interval
<1>9. place \in Surjection(S, 1 .. Cardinality(S))
  BY <1>7, <1>8, FS_Injection
<1>10. \E i \in S : Cardinality(upTo(i)) = k
  BY <1>9 DEF Surjection
<1> QED BY <1>10 DEF Nth

(* The number of S up to which there are k *)
LEMMA NthIs ==
  ASSUME NEW S, IsFiniteSet(S), S \subseteq Nat, NEW i \in S,
         NEW k, Cardinality({j \in S : j <= i}) = k
  PROVE  Nth(S, k) = i
<1> DEFINE upTo(j) == {m \in S : m <= j}
<1>1. ASSUME NEW j \in S
      PROVE  /\ IsFiniteSet(upTo(j)) /\ Cardinality(upTo(j)) \in Nat
             /\ Cardinality(upTo(j)) <= Cardinality(S)
  BY FS_Subset, FS_CardinalityType
<1>2. i \in upTo(i)
  OBVIOUS
<1>3. k \in 1 .. Cardinality(S)
  BY <1>1, <1>2, FS_EmptySet, FS_CardinalityType
<1>4. Nth(S, k) \in S /\ Cardinality(upTo(Nth(S, k))) = k
  BY <1>3, NthPlace
<1>5. ASSUME NEW j \in S, Cardinality(upTo(j)) = k PROVE j = i
  <2>0. i \in Nat /\ j \in Nat /\ \A m \in S : m \in Nat
    OBVIOUS
  <2>1. upTo(i) \subseteq upTo(j) \/ upTo(j) \subseteq upTo(i)
    <3>1. (\A m \in S : m <= i => m <= j) \/ (\A m \in S : m <= j => m <= i)
      BY <2>0
    <3> QED BY <3>1
  <2>2. upTo(i) = upTo(j)
    BY <1>1, <1>5, <2>1, FS_Subset
  <2>3. j <= i /\ i <= j
    BY <1>2, <2>0, <2>2
  <2> QED BY <2>0, <2>3
<1> QED BY <1>4, <1>5

(* Every number of S has a place. *)
LEMMA PlaceOf ==
  ASSUME NEW S, IsFiniteSet(S), S \subseteq Nat, NEW i \in S
  PROVE  \E k \in 1 .. Cardinality(S) : Nth(S, k) = i
<1> DEFINE upTo == {m \in S : m <= i}
           k == Cardinality(upTo)
<1>1. /\ IsFiniteSet(upTo) /\ Cardinality(upTo) \in Nat /\ Cardinality(upTo) <= Cardinality(S)
      /\ Cardinality(S) \in Nat
  BY FS_Subset, FS_CardinalityType
<1>2. i \in upTo
  OBVIOUS
<1>3. k \in 1 .. Cardinality(S)
  BY <1>1, <1>2, FS_EmptySet
<1>4. Nth(S, k) = i
  BY NthIs
<1> QED BY <1>3, <1>4

(* Places come in order. *)
LEMMA NthInOrder ==
  ASSUME NEW S, IsFiniteSet(S), S \subseteq Nat,
         NEW j \in 1 .. Cardinality(S), NEW k \in 1 .. Cardinality(S), j < k
  PROVE  Nth(S, j) < Nth(S, k)
<1> DEFINE upTo(i) == {m \in S : m <= i}
           a == Nth(S, j)
           b == Nth(S, k)
<1>1. a \in S /\ Cardinality(upTo(a)) = j /\ b \in S /\ Cardinality(upTo(b)) = k
  BY NthPlace
<1> HIDE DEF a, b
<1>2. SUFFICES ASSUME ~(a < b) PROVE FALSE
  BY DEF a, b
<1>3. a \in Nat /\ b \in Nat /\ b <= a /\ \A m \in S : m \in Nat
  BY <1>1, <1>2
<1>4. upTo(b) \subseteq upTo(a)
  <2>1. \A m \in S : m <= b => m <= a
    BY <1>3
  <2> QED BY <2>1
<1>5. IsFiniteSet(upTo(a))
  BY FS_Subset
<1>6. Cardinality(upTo(b)) <= Cardinality(upTo(a))
  BY <1>4, <1>5, FS_Subset
<1> HIDE DEF upTo
<1> QED BY <1>1, <1>6

(* A finite set of numbers has a smallest one. *)
LEMMA Least ==
  ASSUME NEW S, IsFiniteSet(S), S \subseteq Nat, S # {}
  PROVE  \E m \in S : \A j \in S : m <= j
<1>1. Cardinality(S) \in Nat /\ Cardinality(S) # 0
  BY FS_CardinalityType, FS_EmptySet
<1>2. 1 \in 1 .. Cardinality(S)
  BY <1>1
<1>3. Nth(S, 1) \in S
  BY <1>2, NthPlace
<1>4. ASSUME NEW j \in S PROVE Nth(S, 1) <= j
  <2>1. PICK k \in 1 .. Cardinality(S) : Nth(S, k) = j
    BY PlaceOf
  <2>2. CASE k = 1
    BY <1>3, <2>1, <2>2
  <2>3. CASE 1 < k
    <3>1. Nth(S, 1) < Nth(S, k)
      BY <1>2, <2>3, NthInOrder
    <3>2. Nth(S, 1) \in Nat /\ j \in Nat
      BY <1>3
    <3> QED BY <2>1, <3>1, <3>2
  <2> QED BY <1>1, <2>2, <2>3
<1> QED BY <1>3, <1>4

(* ... and a largest one. *)
LEMMA Greatest ==
  ASSUME NEW S, IsFiniteSet(S), S \subseteq Nat, S # {}
  PROVE  \E m \in S : \A j \in S : j <= m
<1> DEFINE c == Cardinality(S)
<1>1. c \in Nat /\ c # 0
  BY FS_CardinalityType, FS_EmptySet
<1>2. c \in 1 .. c
  BY <1>1
<1>3. Nth(S, c) \in S
  BY <1>2, NthPlace
<1>4. ASSUME NEW j \in S PROVE j <= Nth(S, c)
  <2>1. PICK k \in 1 .. c : Nth(S, k) = j
    BY PlaceOf
  <2>2. CASE k = c
    BY <1>3, <2>1, <2>2
  <2>3. CASE k < c
    <3>1. Nth(S, k) < Nth(S, c)
      BY <1>2, <2>3, NthInOrder
    <3>2. Nth(S, c) \in Nat /\ j \in Nat
      BY <1>3
    <3> QED BY <2>1, <3>1, <3>2
  <2> QED BY <1>1, <2>2, <2>3
<1> QED BY <1>3, <1>4

-----------------------------------------------------------------------------
(* The list r is q with e put in at place k. *)
IsPut(q, k, e, r) ==
  /\ Len(r) = Len(q) + 1 /\ k \in 1 .. Len(r) /\ r[k] = e
  /\ \A i \in 1 .. Len(q) : i < k => r[i] = q[i]
  /\ \A i \in 1 .. Len(q) : i >= k => r[i + 1] = q[i]

LEMMA CountType ==
  ASSUME NEW E, NEW q \in Seq(E), NEW S
  PROVE  IsFiniteSet({i \in DOMAIN q : q[i] \in S}) /\ Count(q, S) \in Nat
<1>1. IsFiniteSet(DOMAIN q)
  <2>1. DOMAIN q = 1 .. Len(q) /\ Len(q) \in Nat
    OBVIOUS
  <2> QED BY <2>1, FS_Interval
<1>2. IsFiniteSet({i \in DOMAIN q : q[i] \in S})
  BY <1>1, FS_Subset
<1> QED BY <1>2, FS_CardinalityType DEF Count

LEMMA CountSubset ==
  ASSUME NEW E, NEW q \in Seq(E), NEW S, NEW R \in SUBSET S
  PROVE  Count(q, R) <= Count(q, S)
<1> DEFINE A == {i \in DOMAIN q : q[i] \in R}
           B == {i \in DOMAIN q : q[i] \in S}
<1>1. A \in SUBSET B
  OBVIOUS
<1>2. IsFiniteSet(B)
  BY CountType
<1>3. Cardinality(A) <= Cardinality(B)
  <2> HIDE DEF A, B
  <2> QED BY <1>1, <1>2, FS_Subset
<1> QED BY <1>3 DEF Count

LEMMA CountEmpty == ASSUME NEW S PROVE Count(<<>>, S) = 0
<1>1. {i \in DOMAIN <<>> : <<>>[i] \in S} = {}
  OBVIOUS
<1> QED BY <1>1, FS_EmptySet DEF Count

(* An element put in is counted, and the others are counted as before. *)
LEMMA PutCounts ==
  ASSUME NEW E, NEW q \in Seq(E), NEW r \in Seq(E), NEW k, NEW e, IsPut(q, k, e, r), NEW S
  PROVE  Count(r, S) = Count(q, S) + (IF e \in S THEN 1 ELSE 0)
<1> DEFINE A == {i \in DOMAIN q : q[i] \in S}
           B == {i \in DOMAIN r : r[i] \in S}
           shift == [i \in A |-> IF i < k THEN i ELSE i + 1]
<1>1. /\ DOMAIN q = 1 .. Len(q) /\ DOMAIN r = 1 .. Len(r) /\ Len(q) \in Nat
      /\ Len(r) = Len(q) + 1 /\ k \in 1 .. Len(r) /\ r[k] = e
      /\ \A i \in 1 .. Len(q) : i < k => r[i] = q[i]
      /\ \A i \in 1 .. Len(q) : i >= k => r[i + 1] = q[i]
  BY DEF IsPut
<1>2. IsFiniteSet(A) /\ IsFiniteSet(B) /\ Cardinality(A) \in Nat /\ Cardinality(B) \in Nat
  BY CountType DEF Count
<1>3. \A i \in A : shift[i] \in B \ {k}
  <2> SUFFICES ASSUME NEW i \in A PROVE shift[i] \in B \ {k}
    OBVIOUS
  <2>1. i \in 1 .. Len(q) /\ q[i] \in S
    BY <1>1
  <2>2. CASE i < k
    BY <1>1, <2>1, <2>2
  <2>3. CASE ~(i < k)
    BY <1>1, <2>1, <2>3
  <2> QED BY <2>2, <2>3
<1>4. \A i, j \in A : shift[i] = shift[j] => i = j
  <2>1. \A i \in A : i \in Nat
    BY <1>1
  <2> QED BY <1>1, <2>1
<1>5. \A j \in B \ {k} : \E i \in A : shift[i] = j
  <2> SUFFICES ASSUME NEW j \in B, j # k PROVE \E i \in A : shift[i] = j
    OBVIOUS
  <2>0. j \in 1 .. Len(r) /\ r[j] \in S
    BY <1>1
  <2>1. CASE j < k
    <3>1. j \in 1 .. Len(q) /\ q[j] \in S
      BY <1>1, <2>0, <2>1
    <3> QED BY <1>1, <2>1, <3>1
  <2>2. CASE j > k
    <3>1. j - 1 \in 1 .. Len(q) /\ ~(j - 1 < k) /\ (j - 1) + 1 = j
      BY <1>1, <2>0, <2>2
    <3>2. q[j - 1] \in S
      BY <1>1, <2>0, <3>1
    <3> QED BY <1>1, <3>1, <3>2
  <2>3. j < k \/ j > k
    BY <1>1, <2>0
  <2> QED BY <2>1, <2>2, <2>3
<1>6. shift \in Bijection(A, B \ {k})
  <2> HIDE DEF A, B
  <2>1. shift \in [A -> B \ {k}]
    BY <1>3
  <2> HIDE DEF shift
  <2> QED BY <1>4, <1>5, <2>1 DEF Bijection, Injection, Surjection, IsInjective
<1>7. Cardinality(B \ {k}) = Cardinality(A)
  <2>1. ExistsBijection(A, B \ {k})
    BY <1>6 DEF ExistsBijection
  <2> HIDE DEF A, B
  <2> QED BY <1>2, <2>1, FS_Bijection
<1>8. Cardinality(B \ {k}) = IF k \in B THEN Cardinality(B) - 1 ELSE Cardinality(B)
  <2> HIDE DEF A, B
  <2> QED BY <1>2, FS_RemoveElement
<1>9. k \in B <=> e \in S
  BY <1>1
<1>10. Count(r, S) = Cardinality(B) /\ Count(q, S) = Cardinality(A)
  BY DEF Count
<1> HIDE DEF A, B
<1> QED BY <1>2, <1>7, <1>8, <1>9, <1>10

LEMMA InsertedIsPut ==
  ASSUME NEW E, NEW q \in Seq(E), NEW e \in E, NEW k \in 1 .. Len(q) + 1
  PROVE  LET r == SubSeq(q, 1, k - 1) \o <<e>> \o SubSeq(q, k, Len(q))
         IN  r \in Seq(E) /\ IsPut(q, k, e, r)
<1> DEFINE a == SubSeq(q, 1, k - 1)
           b == SubSeq(q, k, Len(q))
<1>0. Len(q) \in Nat /\ k \in Int /\ 1 <= k /\ k <= Len(q) + 1 /\ \A i \in 1 .. Len(q) : q[i] \in E
  OBVIOUS
<1>1. a \in Seq(E) /\ Len(a) = k - 1 /\ \A i \in 1 .. k - 1 : a[i] = q[i]
  <2>1. \A i \in 1 .. k - 1 : q[i] \in E
    BY <1>0
  <2>2. /\ a \in Seq(E) /\ Len(a) = IF 1 <= k - 1 THEN (k - 1) - 1 + 1 ELSE 0
        /\ \A i \in 1 .. (k - 1) - 1 + 1 : a[i] = q[1 + i - 1]
    BY <1>0, <2>1, SubSeqProperties
  <2>3. \A i \in 1 .. k - 1 : i \in 1 .. (k - 1) - 1 + 1 /\ 1 + i - 1 = i
    BY <1>0
  <2> HIDE DEF a
  <2> QED BY <1>0, <2>2, <2>3
<1>2. b \in Seq(E) /\ Len(b) = Len(q) - k + 1 /\ \A i \in 1 .. Len(q) - k + 1 : b[i] = q[k + i - 1]
  <2>1. \A i \in k .. Len(q) : q[i] \in E
    BY <1>0
  <2>2. /\ b \in Seq(E) /\ Len(b) = IF k <= Len(q) THEN Len(q) - k + 1 ELSE 0
        /\ \A i \in 1 .. Len(q) - k + 1 : b[i] = q[k + i - 1]
    BY <1>0, <2>1, SubSeqProperties
  <2> HIDE DEF b
  <2> QED BY <1>0, <2>2
<1> HIDE DEF a, b
<1>3. /\ a \o <<e>> \in Seq(E) /\ Len(a \o <<e>>) = k
      /\ \A i \in 1 .. k : (a \o <<e>>)[i] = IF i < k THEN q[i] ELSE e
  <2>1. <<e>> \in Seq(E) /\ Len(<<e>>) = 1 /\ <<e>>[1] = e
    OBVIOUS
  <2>2. /\ a \o <<e>> \in Seq(E) /\ Len(a \o <<e>>) = Len(a) + Len(<<e>>)
        /\ \A i \in 1 .. Len(a) + Len(<<e>>) :
             (a \o <<e>>)[i] = IF i <= Len(a) THEN a[i] ELSE <<e>>[i - Len(a)]
    BY <1>1, <2>1, ConcatProperties
  <2>3. ASSUME NEW i \in 1 .. k PROVE (a \o <<e>>)[i] = IF i < k THEN q[i] ELSE e
    <3>1. (a \o <<e>>)[i] = IF i <= Len(a) THEN a[i] ELSE <<e>>[i - Len(a)]
      BY <1>0, <1>1, <2>1, <2>2
    <3>2. CASE i < k
      <4>1. i <= Len(a) /\ i \in 1 .. k - 1
        BY <1>0, <1>1, <3>2
      <4> QED BY <1>1, <3>1, <3>2, <4>1
    <3>3. CASE i = k
      <4>1. ~(i <= Len(a)) /\ i - Len(a) = 1
        BY <1>0, <1>1, <3>3
      <4> QED BY <2>1, <3>1, <3>3, <4>1, <1>0
    <3>4. i < k \/ i = k
      BY <1>0
    <3> QED BY <3>2, <3>3, <3>4
  <2> QED BY <1>0, <1>1, <2>1, <2>2, <2>3, SMTT(30)
<1> DEFINE c == a \o <<e>>
           r == c \o b
<1>4. c \in Seq(E) /\ Len(c) = k /\ \A i \in 1 .. k : c[i] = IF i < k THEN q[i] ELSE e
  BY <1>3
<1> HIDE DEF c
<1>5. /\ r \in Seq(E) /\ Len(r) = Len(c) + Len(b)
      /\ \A i \in 1 .. Len(c) + Len(b) : r[i] = IF i <= Len(c) THEN c[i] ELSE b[i - Len(c)]
  BY <1>2, <1>4, ConcatProperties
<1> HIDE DEF r
<1>6. Len(r) = Len(q) + 1
  BY <1>0, <1>2, <1>4, <1>5
<1>7. r[k] = e
  <2>1. k \in 1 .. Len(c) + Len(b) /\ k <= Len(c) /\ ~(k < k) /\ k \in 1 .. k
    BY <1>0, <1>2, <1>4
  <2> QED BY <1>4, <1>5, <2>1
<1>8. ASSUME NEW i \in 1 .. Len(q), i < k PROVE r[i] = q[i]
  <2>1. i \in 1 .. Len(c) + Len(b) /\ i <= Len(c) /\ i \in 1 .. k
    BY <1>0, <1>2, <1>4, <1>8
  <2> QED BY <1>4, <1>5, <1>8, <2>1
<1>9. ASSUME NEW i \in 1 .. Len(q), i >= k PROVE r[i + 1] = q[i]
  <2>1. /\ i + 1 \in 1 .. Len(c) + Len(b) /\ ~(i + 1 <= Len(c))
        /\ (i + 1) - Len(c) \in 1 .. Len(q) - k + 1 /\ k + ((i + 1) - Len(c)) - 1 = i
    BY <1>0, <1>2, <1>4, <1>9
  <2> QED BY <1>2, <1>5, <2>1
<1>10. r \in Seq(E) /\ IsPut(q, k, e, r)
  BY <1>0, <1>5, <1>6, <1>7, <1>8, <1>9 DEF IsPut
<1> QED BY <1>10 DEF r, c, a, b

(* Taking out what is at place k. *)
LEMMA RemovedIsPut ==
  ASSUME NEW E, NEW r \in Seq(E), NEW k \in 1 .. Len(r)
  PROVE  LET q == SubSeq(r, 1, k - 1) \o SubSeq(r, k + 1, Len(r))
         IN  q \in Seq(E) /\ IsPut(q, k, r[k], r)
<1> DEFINE a == SubSeq(r, 1, k - 1)
           b == SubSeq(r, k + 1, Len(r))
           q == a \o b
<1>0. Len(r) \in Nat /\ k \in Int /\ 1 <= k /\ k <= Len(r) /\ \A i \in 1 .. Len(r) : r[i] \in E
  OBVIOUS
<1>1. a \in Seq(E) /\ Len(a) = k - 1 /\ \A i \in 1 .. k - 1 : a[i] = r[i]
  <2>1. \A i \in 1 .. k - 1 : r[i] \in E
    BY <1>0
  <2>2. /\ a \in Seq(E) /\ Len(a) = IF 1 <= k - 1 THEN (k - 1) - 1 + 1 ELSE 0
        /\ \A i \in 1 .. (k - 1) - 1 + 1 : a[i] = r[1 + i - 1]
    BY <1>0, <2>1, SubSeqProperties
  <2>3. \A i \in 1 .. k - 1 : i \in 1 .. (k - 1) - 1 + 1 /\ 1 + i - 1 = i
    BY <1>0
  <2> HIDE DEF a
  <2> QED BY <1>0, <2>2, <2>3
<1>2. b \in Seq(E) /\ Len(b) = Len(r) - k /\ \A i \in 1 .. Len(r) - k : b[i] = r[k + i]
  <2>1. \A i \in k + 1 .. Len(r) : r[i] \in E
    BY <1>0
  <2>2. /\ b \in Seq(E) /\ Len(b) = IF k + 1 <= Len(r) THEN Len(r) - (k + 1) + 1 ELSE 0
        /\ \A i \in 1 .. Len(r) - (k + 1) + 1 : b[i] = r[(k + 1) + i - 1]
    BY <1>0, <2>1, SubSeqProperties
  <2>3. \A i \in 1 .. Len(r) - k : i \in 1 .. Len(r) - (k + 1) + 1 /\ (k + 1) + i - 1 = k + i
    BY <1>0
  <2> HIDE DEF b
  <2> QED BY <1>0, <2>2, <2>3
<1> HIDE DEF a, b
<1>3. /\ q \in Seq(E) /\ Len(q) = Len(a) + Len(b)
      /\ \A i \in 1 .. Len(a) + Len(b) : q[i] = IF i <= Len(a) THEN a[i] ELSE b[i - Len(a)]
  BY <1>1, <1>2, ConcatProperties
<1> HIDE DEF q
<1>4. Len(r) = Len(q) + 1
  BY <1>0, <1>1, <1>2, <1>3
<1>5. ASSUME NEW i \in 1 .. Len(q), i < k PROVE r[i] = q[i]
  <2>1. i \in 1 .. Len(a) + Len(b) /\ i <= Len(a) /\ i \in 1 .. k - 1
    BY <1>0, <1>1, <1>3, <1>5
  <2> QED BY <1>1, <1>3, <2>1
<1>6. ASSUME NEW i \in 1 .. Len(q), i >= k PROVE r[i + 1] = q[i]
  <2>1. /\ i \in 1 .. Len(a) + Len(b) /\ ~(i <= Len(a))
        /\ i - Len(a) \in 1 .. Len(r) - k /\ k + (i - Len(a)) = i + 1
    BY <1>0, <1>1, <1>2, <1>3, <1>6
  <2> QED BY <1>2, <1>3, <2>1
<1>7. q \in Seq(E) /\ IsPut(q, k, r[k], r)
  BY <1>0, <1>3, <1>4, <1>5, <1>6 DEF IsPut
<1> QED BY <1>7 DEF q, a, b

(* What Kept() leaves of a list. *)
LEMMA KeptList ==
  ASSUME NEW E, NEW q \in Seq(E), NEW I \in SUBSET DOMAIN q
  PROVE  /\ Kept(q, I) \in Seq(E) /\ IsFiniteSet(I) /\ I \subseteq Nat
         /\ DOMAIN Kept(q, I) = 1 .. Cardinality(I)
         /\ \A k \in 1 .. Cardinality(I) : Nth(I, k) \in I /\ Kept(q, I)[k] = q[Nth(I, k)]
<1>1. DOMAIN q = 1 .. Len(q) /\ Len(q) \in Nat
  OBVIOUS
<1>2. IsFiniteSet(I) /\ I \subseteq Nat
  <2>1. IsFiniteSet(DOMAIN q) /\ DOMAIN q \subseteq Nat
    BY <1>1, FS_Interval
  <2> QED BY <2>1, FS_Subset
<1>3. Cardinality(I) \in Nat
  BY <1>2, FS_CardinalityType
<1>4. \A k \in 1 .. Cardinality(I) : Nth(I, k) \in I
  BY <1>2, NthPlace
<1>5. \A k \in 1 .. Cardinality(I) : q[Nth(I, k)] \in E
  BY <1>1, <1>4
<1> QED BY <1>2, <1>3, <1>4, <1>5 DEF Kept

LEMMA KeptCounts ==
  ASSUME NEW E, NEW q \in Seq(E), NEW I \in SUBSET DOMAIN q, NEW S
  PROVE  Count(Kept(q, I), S) = Cardinality({i \in I : q[i] \in S})
<1> DEFINE A == {k \in DOMAIN Kept(q, I) : Kept(q, I)[k] \in S}
           B == {i \in I : q[i] \in S}
           place == [k \in A |-> Nth(I, k)]
<1>1. /\ Kept(q, I) \in Seq(E) /\ IsFiniteSet(I) /\ I \subseteq Nat
      /\ DOMAIN Kept(q, I) = 1 .. Cardinality(I)
      /\ \A k \in 1 .. Cardinality(I) : Nth(I, k) \in I /\ Kept(q, I)[k] = q[Nth(I, k)]
  BY KeptList
<1>2. \A k \in A : place[k] \in B
  BY <1>1
<1>3. \A j, k \in A : place[j] = place[k] => j = k
  <2> SUFFICES ASSUME NEW j \in A, NEW k \in A, Nth(I, j) = Nth(I, k) PROVE j = k
    OBVIOUS
  <2>1. j \in 1 .. Cardinality(I) /\ k \in 1 .. Cardinality(I)
    BY <1>1
  <2>2. /\ Cardinality({m \in I : m <= Nth(I, j)}) = j
        /\ Cardinality({m \in I : m <= Nth(I, k)}) = k
    BY <1>1, <2>1, NthPlace
  <2> QED BY <2>2
<1>4. \A i \in B : \E k \in A : place[k] = i
  <2> SUFFICES ASSUME NEW i \in B PROVE \E k \in A : Nth(I, k) = i
    OBVIOUS
  <2>1. PICK k \in 1 .. Cardinality(I) : Nth(I, k) = i
    BY <1>1, PlaceOf
  <2> QED BY <1>1, <2>1
<1>5. IsFiniteSet(A)
  BY <1>1, CountType
<1>6. place \in Bijection(A, B)
  <2> HIDE DEF A, B
  <2>1. place \in [A -> B]
    BY <1>2
  <2> HIDE DEF place
  <2> QED BY <1>3, <1>4, <2>1 DEF Bijection, Injection, Surjection, IsInjective
<1>7. Cardinality(A) = Cardinality(B)
  <2>1. ExistsBijection(A, B)
    BY <1>6 DEF ExistsBijection
  <2> HIDE DEF A, B
  <2> QED BY <1>5, <2>1, FS_Bijection
<1> QED BY <1>7 DEF Count

(* Kept() looks only at the places that are kept. *)
LEMMA KeptAgrees ==
  ASSUME NEW E, NEW q \in Seq(E), NEW r, NEW I \in SUBSET DOMAIN q, \A i \in I : r[i] = q[i]
  PROVE  Kept(r, I) = Kept(q, I)
<1>1. \A k \in 1 .. Cardinality(I) : Nth(I, k) \in I
  BY KeptList
<1>2. \A k \in 1 .. Cardinality(I) : r[Nth(I, k)] = q[Nth(I, k)]
  BY <1>1
<1> QED BY <1>2 DEF Kept

(* A place behind the others that is kept as well *)
LEMMA KeptMore ==
  ASSUME NEW E, NEW q \in Seq(E), NEW I \in SUBSET DOMAIN q, NEW m \in DOMAIN q,
         \A i \in I : i < m
  PROVE  Kept(q, I \cup {m}) = Append(Kept(q, I), q[m])
<1> DEFINE J == I \cup {m}
           c == Cardinality(I)
<1>1. /\ Kept(q, I) \in Seq(E) /\ IsFiniteSet(I) /\ I \subseteq Nat
      /\ DOMAIN Kept(q, I) = 1 .. c
      /\ \A k \in 1 .. c : Nth(I, k) \in I /\ Kept(q, I)[k] = q[Nth(I, k)]
  BY KeptList
<1>2. J \in SUBSET DOMAIN q
  OBVIOUS
<1>3. IsFiniteSet(J) /\ J \subseteq Nat
  BY <1>2, KeptList
<1>4. c \in Nat /\ Cardinality(J) = c + 1
  <2>1. m \notin I
    <3>1. m \in Nat
      OBVIOUS
    <3> QED BY <3>1
  <2> QED BY <1>1, <2>1, FS_AddElement, FS_CardinalityType
<1>5. ASSUME NEW k \in 1 .. c PROVE Nth(J, k) = Nth(I, k)
  <2>1. Nth(I, k) \in I /\ Cardinality({j \in I : j <= Nth(I, k)}) = k
    BY <1>1, NthPlace
  <2>2. {j \in J : j <= Nth(I, k)} = {j \in I : j <= Nth(I, k)}
    <3>1. Nth(I, k) < m /\ Nth(I, k) \in Nat /\ m \in Nat
      BY <1>1, <1>3, <2>1
    <3> QED BY <3>1
  <2> QED BY <1>3, <2>1, <2>2, NthIs
<1>6. Nth(J, c + 1) = m
  <2>1. {j \in J : j <= m} = J
    BY <1>3
  <2> QED BY <1>3, <1>4, <2>1, NthIs
<1> HIDE DEF J
<1>7. Kept(q, J) = [k \in 1 .. c + 1 |-> q[Nth(J, k)]]
  BY <1>4 DEF Kept
<1>8. Len(Kept(q, I)) = c
  BY <1>1, <1>4
<1>9. \A k \in 1 .. c + 1 : q[Nth(J, k)] = IF k = c + 1 THEN q[m] ELSE Kept(q, I)[k]
  <2> SUFFICES ASSUME NEW k \in 1 .. c + 1
               PROVE  q[Nth(J, k)] = IF k = c + 1 THEN q[m] ELSE Kept(q, I)[k]
    OBVIOUS
  <2>1. CASE k = c + 1
    BY <1>6, <2>1
  <2>2. CASE k # c + 1
    <3>1. k \in 1 .. c
      BY <1>4, <2>2
    <3> QED BY <1>1, <1>5, <2>2, <3>1
  <2> QED BY <2>1, <2>2
<1> DEFINE r == Append(Kept(q, I), q[m])
<1>10. r \in Seq(E) /\ Len(r) = c + 1 /\ \A k \in 1 .. c + 1 : r[k] = IF k = c + 1 THEN q[m] ELSE Kept(q, I)[k]
  <2>1. q[m] \in E
    OBVIOUS
  <2> QED BY <1>1, <1>4, <1>8, <2>1, AppendProperties, SMTT(30)
<1>11. Kept(q, J) \in Seq(E) /\ Len(Kept(q, J)) = c + 1
  BY <1>2, <1>4, <1>7, KeptList DEF J
<1> HIDE DEF r
<1>12. \A k \in 1 .. c + 1 : Kept(q, J)[k] = r[k]
  BY <1>7, <1>9, <1>10
<1>13. Kept(q, J) = r
  BY <1>10, <1>11, <1>12, SeqEqual
<1> QED BY <1>13 DEF J, r

LEMMA KeptNone == ASSUME NEW q PROVE Kept(q, {}) = <<>>
<1>1. Cardinality({}) = 0
  BY FS_EmptySet
<1> QED BY <1>1 DEF Kept
-----------------------------------------------------------------------------
(* Loops: what is true of 0, and of i if it is true of i - 1. *)
LEMMA Upwards ==
  ASSUME NEW n \in Nat, NEW T, 0 \in T, \A i \in 1 .. n : i - 1 \in T => i \in T
  PROVE  \A i \in 0 .. n : i \in T
<1> DEFINE S == {i \in 0 .. n : i \notin T}
<1> SUFFICES ASSUME S # {} PROVE FALSE
  OBVIOUS
<1>1. IsFiniteSet(S) /\ S \subseteq Nat
  <2>1. IsFiniteSet(0 .. n)
    BY FS_Interval
  <2> QED BY <2>1, FS_Subset
<1>2. PICK m \in S : \A j \in S : m <= j
  <2> HIDE DEF S
  <2> QED BY <1>1, Least
<1>3. m \in 1 .. n
  BY <1>2
<1>4. m - 1 \in 0 .. n /\ m - 1 \notin S
  BY <1>2, <1>3
<1> QED BY <1>2, <1>3, <1>4

(* A function that is defined by what it is at 0, and at i by what it is at
   i - 1, exists.                                                           *)
IsStep(h, n, S) == h \in [(1 .. n) \X S -> S]

IsIterated(f, n, S, base, h) ==
  /\ f \in [0 .. n -> S]
  /\ f[0] = base /\ \A i \in 1 .. n : f[i] = h[<<i, f[i - 1]>>]

LEMMA Recursion ==
  ASSUME NEW n \in Nat, NEW S, NEW base \in S, NEW h, IsStep(h, n, S)
  PROVE  \E f : IsIterated(f, n, S, base, h)
<1> USE DEF IsStep
<1> DEFINE Starts(f, m) == f[0] = base /\ \A i \in 1 .. m : f[i] = h[<<i, f[i - 1]>>]
           T == {m \in 0 .. n : \E f \in [0 .. m -> S] : Starts(f, m)}
<1>1. 0 \in T
  <2> DEFINE g == [i \in 0 .. 0 |-> base]
  <2>1. Starts(g, 0)
    OBVIOUS
  <2>2. g \in [0 .. 0 -> S]
    OBVIOUS
  <2> HIDE DEF g, Starts
  <2>3. 0 \in 0 .. n
    OBVIOUS
  <2> QED BY <2>1, <2>2, <2>3
<1>2. ASSUME NEW m \in 1 .. n, m - 1 \in T PROVE m \in T
  <2>1. PICK f \in [0 .. m - 1 -> S] : Starts(f, m - 1)
    BY <1>2
  <2> DEFINE g == [i \in 0 .. m |-> IF i = m THEN h[<<m, f[m - 1]>>] ELSE f[i]]
  <2>2. f[m - 1] \in S /\ <<m, f[m - 1]>> \in (1 .. n) \X S
    BY <2>1
  <2>3. g \in [0 .. m -> S]
    BY <2>1, <2>2
  <2>4. g[0] = base
    BY <2>1
  <2>5. ASSUME NEW i \in 1 .. m PROVE g[i] = h[<<i, g[i - 1]>>]
    <3>1. g[i - 1] = f[i - 1]
      OBVIOUS
    <3>2. CASE i = m
      <4>1. g[m] = h[<<m, f[m - 1]>>]
        OBVIOUS
      <4> HIDE DEF g
      <4> QED BY <3>1, <3>2, <4>1
    <3>3. CASE i # m
      <4>1. i \in 1 .. m - 1 /\ g[i] = f[i]
        BY <3>3
      <4> QED BY <2>1, <3>1, <4>1
    <3> QED BY <3>2, <3>3
  <2> HIDE DEF g
  <2> QED BY <2>3, <2>4, <2>5
<1> HIDE DEF T
<1>3. n \in T
  BY <1>1, <1>2, Upwards
<1> QED BY <1>3 DEF T, IsIterated

-----------------------------------------------------------------------------
(* ntcmporder() orders the notes: those that are not before each other are,  *)
(* to it, the same.                                                          *)

IsNotes(E) ==
  \A n \in E : /\ n.time \in Int /\ n.type \in Int /\ n.pitch \in Int /\ n.dur \in Int
               /\ {"time", "type", "pitch", "dur"} \subseteq DOMAIN n

(* Before, without sequences. *)
Earlier(a, b) ==
  \/ a.time < b.time
  \/ /\ a.time = b.time
     /\ \/ a.type < b.type
        \/ /\ a.type = b.type /\ ~IsBytes(a)
           /\ a.pitch < b.pitch \/ (a.pitch = b.pitch /\ a.dur < b.dur)

LEMMA BeforeIs ==
  ASSUME NEW E, IsNotes(E), NEW a \in E, NEW b \in E
  PROVE  Before(a, b) <=> Earlier(a, b)
<1> DEFINE ka == OrderKey(a)
           kb == OrderKey(b)
           D == DOMAIN ka \cap DOMAIN kb
<1>0. /\ a.time \in Int /\ a.type \in Int /\ a.pitch \in Int /\ a.dur \in Int
      /\ b.time \in Int /\ b.type \in Int /\ b.pitch \in Int /\ b.dur \in Int
  BY DEF IsNotes
<1>1. /\ ka[1] = a.time /\ ka[2] = a.type /\ kb[1] = b.time /\ kb[2] = b.type
      /\ ~IsBytes(a) => ka[3] = a.pitch /\ ka[4] = a.dur
      /\ ~IsBytes(b) => kb[3] = b.pitch /\ kb[4] = b.dur
  BY DEF OrderKey
<1>2. /\ DOMAIN ka = IF IsBytes(a) THEN 1 .. 2 ELSE 1 .. 4
      /\ DOMAIN kb = IF IsBytes(b) THEN 1 .. 2 ELSE 1 .. 4
  BY DEF OrderKey
<1> HIDE DEF ka, kb
<1>3. Before(a, b) <=> \E i \in D : ka[i] < kb[i] /\ \A j \in 1 .. i - 1 : ka[j] = kb[j]
  BY Zenon DEF Before, Lexicographic, ka, kb
<1>4. CASE IsBytes(a) \/ IsBytes(b)
  <2>1. D = 1 .. 2
    BY <1>2, <1>4
  <2>2. Before(a, b) <=> ka[1] < kb[1] \/ (ka[2] < kb[2] /\ ka[1] = kb[1])
    BY <1>3, <2>1
  <2>3. a.type = b.type => IsBytes(a)
    BY <1>4 DEF IsBytes
  <2> QED BY <1>0, <1>1, <2>2, <2>3 DEF Earlier
<1>5. CASE ~IsBytes(a) /\ ~IsBytes(b)
  <2>1. D = 1 .. 4
    BY <1>2, <1>5
  <2>2. Before(a, b) <=> \/ ka[1] < kb[1]
                         \/ ka[2] < kb[2] /\ ka[1] = kb[1]
                         \/ ka[3] < kb[3] /\ ka[1] = kb[1] /\ ka[2] = kb[2]
                         \/ ka[4] < kb[4] /\ ka[1] = kb[1] /\ ka[2] = kb[2] /\ ka[3] = kb[3]
    BY <1>3, <2>1
  <2> QED BY <1>0, <1>1, <1>5, <2>2 DEF Earlier
<1> QED BY <1>4, <1>5

LEMMA BeforeOrders ==
  ASSUME NEW E, IsNotes(E), NEW a \in E, NEW b \in E, NEW c \in E
  PROVE  /\ ~Before(a, a)
         /\ Before(a, b) => ~Before(b, a)
         /\ ~Before(b, a) /\ ~Before(c, b) => ~Before(c, a)
<1>0. /\ a.time \in Int /\ a.type \in Int /\ a.pitch \in Int /\ a.dur \in Int
      /\ b.time \in Int /\ b.type \in Int /\ b.pitch \in Int /\ b.dur \in Int
      /\ c.time \in Int /\ c.type \in Int /\ c.pitch \in Int /\ c.dur \in Int
  BY DEF IsNotes
<1>1. /\ Before(a, a) <=> Earlier(a, a)
      /\ Before(a, b) <=> Earlier(a, b)
      /\ Before(b, a) <=> Earlier(b, a)
      /\ Before(c, b) <=> Earlier(c, b)
      /\ Before(c, a) <=> Earlier(c, a)
  BY BeforeIs
<1> QED BY <1>0, <1>1 DEF Earlier, IsBytes

(* In order: no note is before one that it comes after. *)
LEMMA OrderIs ==
  ASSUME NEW E, IsNotes(E), NEW q \in Seq(E)
  PROVE  InOrder(q) <=> \A i, j \in 1 .. Len(q) : i < j => ~Before(q[j], q[i])
<1>0. Len(q) \in Nat /\ \A i \in 1 .. Len(q) : q[i] \in E
  OBVIOUS
<1>1. ASSUME \A i, j \in 1 .. Len(q) : i < j => ~Before(q[j], q[i]) PROVE InOrder(q)
  <2> SUFFICES ASSUME NEW i \in 1 .. Len(q) - 1 PROVE ~Before(q[i + 1], q[i])
    BY DEF InOrder
  <2>1. i \in 1 .. Len(q) /\ i + 1 \in 1 .. Len(q) /\ i < i + 1
    BY <1>0
  <2> QED BY <1>1, <2>1
<1>2. ASSUME InOrder(q), NEW i \in 1 .. Len(q)
      PROVE  \A j \in 1 .. Len(q) : i < j => ~Before(q[j], q[i])
  <2> DEFINE T == {j \in 0 .. Len(q) : i < j => ~Before(q[j], q[i])}
  <2>1. 0 \in T
    BY <1>0
  <2>2. ASSUME NEW j \in 1 .. Len(q), j - 1 \in T PROVE j \in T
    <3>1. CASE j <= i
      BY <3>1
    <3>2. CASE j = i + 1
      <4>1. i \in 1 .. Len(q) - 1
        BY <1>0, <3>2
      <4> QED BY <1>2, <3>2, <4>1 DEF InOrder
    <3>3. CASE j > i + 1
      <4>1. j - 1 \in 1 .. Len(q) - 1 /\ j - 1 \in 1 .. Len(q) /\ (j - 1) + 1 = j /\ i < j - 1
        BY <1>0, <3>3
      <4>2. ~Before(q[j - 1], q[i])
        BY <2>2, <4>1
      <4>3. ~Before(q[j], q[j - 1])
        BY <1>2, <4>1 DEF InOrder
      <4>4. q[i] \in E /\ q[j - 1] \in E /\ q[j] \in E
        BY <1>0, <4>1
      <4>5. ~Before(q[j], q[i])
        BY <4>2, <4>3, <4>4, BeforeOrders
      <4> QED BY <4>5
    <3> QED BY <1>0, <3>1, <3>2, <3>3
  <2> HIDE DEF T
  <2>3. \A j \in 0 .. Len(q) : j \in T
    BY <1>0, <2>1, <2>2, Upwards
  <2> QED BY <2>3 DEF T
<1> QED BY <1>1, <1>2

LEMMA MinIs ==
  ASSUME NEW S \in SUBSET Nat, S # {}, IsFiniteSet(S)
  PROVE  Min(S) \in S /\ \A i \in S : Min(S) <= i
<1>1. \E x \in S : \A y \in S : x <= y
  BY Least
<1> QED BY <1>1, Zenon DEF Min

LEMMA MaxIs ==
  ASSUME NEW S \in SUBSET Nat, S # {}, IsFiniteSet(S)
  PROVE  Max(S) \in S /\ \A i \in S : i <= Max(S)
<1>1. \E x \in S : \A y \in S : y <= x
  BY Greatest
<1>2. \A x, y \in S : (x >= y) <=> (y <= x)
  OBVIOUS
<1>3. \E x \in S : \A y \in S : x >= y
  BY <1>1, <1>2
<1>4. Max(S) \in S /\ \A y \in S : Max(S) >= y
  BY <1>3, Zenon DEF Max
<1> QED BY <1>2, <1>4

-----------------------------------------------------------------------------
(* Notes are put in. *)
Put(q, n, r) == \E k \in Nat : IsPut(q, k, n, r)

(* A note put in where it belongs leaves the list in order. *)
LEMMA PutInOrder ==
  ASSUME NEW E, IsNotes(E), NEW q \in Seq(E), NEW r \in Seq(E), NEW n \in E, NEW k,
         IsPut(q, k, n, r), InOrder(q),
         \A i \in 1 .. Len(q) : i < k => ~Before(n, q[i]),
         \A i \in 1 .. Len(q) : i >= k => ~Before(q[i], n)
  PROVE  InOrder(r)
<1>0. /\ Len(q) \in Nat /\ Len(r) = Len(q) + 1 /\ k \in 1 .. Len(r) /\ r[k] = n
      /\ \A i \in 1 .. Len(q) : i < k => r[i] = q[i]
      /\ \A i \in 1 .. Len(q) : i >= k => r[i + 1] = q[i]
  BY DEF IsPut
<1>1. \A i, j \in 1 .. Len(q) : i < j => ~Before(q[j], q[i])
  BY OrderIs
<1>2. ASSUME NEW i \in 1 .. Len(r), NEW j \in 1 .. Len(r), i < j PROVE ~Before(r[j], r[i])
  <2>1. CASE j < k
    BY <1>0, <1>1, <1>2, <2>1
  <2>2. CASE j = k
    <3>1. i \in 1 .. Len(q) /\ i < k
      BY <1>0, <1>2, <2>2
    <3> QED BY <1>0, <2>2, <3>1
  <2>3. CASE j > k
    <3>1. j - 1 \in 1 .. Len(q) /\ j - 1 >= k /\ (j - 1) + 1 = j
      BY <1>0, <1>2, <2>3
    <3>2. r[j] = q[j - 1]
      BY <1>0, <3>1
    <3>3. CASE i < k
      <4>1. i \in 1 .. Len(q) /\ i < j - 1 /\ r[i] = q[i]
        BY <1>0, <3>1, <3>3
      <4> QED BY <1>1, <3>1, <3>2, <4>1
    <3>4. CASE i = k
      BY <1>0, <3>1, <3>2, <3>4
    <3>5. CASE i > k
      <4>1. i - 1 \in 1 .. Len(q) /\ i - 1 >= k /\ (i - 1) + 1 = i /\ i - 1 < j - 1
        BY <1>0, <1>2, <3>5
      <4>2. r[i] = q[i - 1]
        BY <1>0, <4>1
      <4> QED BY <1>1, <3>1, <3>2, <4>1, <4>2
    <3> QED BY <1>0, <3>3, <3>4, <3>5
  <2> QED BY <1>0, <2>1, <2>2, <2>3
<1> QED BY <1>2, OrderIs

LEMMA FromStart ==
  ASSUME NEW E, IsNotes(E), NEW q \in Seq(E), NEW n \in E
  PROVE  /\ InsertFromStart(q, n) \in Seq(E) /\ Put(q, n, InsertFromStart(q, n))
         /\ InOrder(q) => InOrder(InsertFromStart(q, n))
<1> DEFINE later == {i \in DOMAIN q : Before(n, q[i])}
           k == IF later = {} THEN Len(q) + 1 ELSE Min(later)
           r == InsertFromStart(q, n)
<1>1. DOMAIN q = 1 .. Len(q) /\ Len(q) \in Nat /\ \A i \in 1 .. Len(q) : q[i] \in E
  OBVIOUS
<1>2. later # {} => Min(later) \in later /\ \A i \in later : Min(later) <= i
  <2>1. IsFiniteSet(later) /\ later \in SUBSET Nat
    <3>1. IsFiniteSet(1 .. Len(q))
      BY <1>1, FS_Interval
    <3> QED BY <1>1, <3>1, FS_Subset
  <2> HIDE DEF later
  <2> QED BY <2>1, MinIs
<1>3. /\ k \in 1 .. Len(q) + 1
      /\ \A i \in 1 .. Len(q) : i < k => ~Before(n, q[i])
      /\ k \in 1 .. Len(q) => Before(n, q[k])
  <2>1. CASE later = {}
    <3>1. k = Len(q) + 1 /\ k \notin 1 .. Len(q)
      BY <1>1, <2>1
    <3> QED BY <1>1, <2>1, <3>1
  <2>2. CASE later # {}
    <3>1. k \in later /\ \A i \in later : k <= i
      BY <1>2, <2>2
    <3> HIDE DEF k
    <3> QED BY <1>1, <3>1
  <2> QED BY <2>1, <2>2
<1>4. r = SubSeq(q, 1, k - 1) \o <<n>> \o SubSeq(q, k, Len(q))
  BY Zenon DEF InsertFromStart, InsertAt
<1> HIDE DEF k, r
<1>5. r \in Seq(E) /\ IsPut(q, k, n, r)
  BY <1>3, <1>4, InsertedIsPut
<1>6. ASSUME InOrder(q), NEW i \in 1 .. Len(q), i >= k PROVE ~Before(q[i], n)
  <2>1. k \in 1 .. Len(q) /\ Before(n, q[k]) /\ q[k] \in E /\ q[i] \in E
    BY <1>1, <1>3, <1>6
  <2>2. ~Before(q[k], n)
    BY <2>1, BeforeOrders
  <2>3. i = k \/ ~Before(q[i], q[k])
    <3>1. \A x, y \in 1 .. Len(q) : x < y => ~Before(q[y], q[x])
      BY <1>6, OrderIs
    <3> QED BY <1>1, <1>6, <2>1, <3>1
  <2> QED BY <2>1, <2>2, <2>3, BeforeOrders
<1>7. InOrder(q) => InOrder(r)
  BY <1>3, <1>5, <1>6, PutInOrder
<1>8. k \in Nat
  BY <1>1, <1>3
<1> QED BY <1>5, <1>7, <1>8, Zenon DEF Put, r

LEMMA AtEnd ==
  ASSUME NEW E, NEW q \in Seq(E), NEW n \in E
  PROVE  Append(q, n) \in Seq(E) /\ IsPut(q, Len(q) + 1, n, Append(q, n))
<1>1. /\ Append(q, n) \in Seq(E) /\ Len(Append(q, n)) = Len(q) + 1 /\ Len(q) \in Nat
      /\ \A i \in 1 .. Len(q) : Append(q, n)[i] = q[i]
      /\ Append(q, n)[Len(q) + 1] = n
  BY AppendProperties
<1> QED BY <1>1 DEF IsPut

LEMMA NtInsertPuts ==
  ASSUME NEW E, IsNotes(E), NEW q \in Seq(E), NEW n \in E
  PROVE  /\ NtInsert(q, n) \in Seq(E) /\ Put(q, n, NtInsert(q, n))
         /\ InOrder(q) => InOrder(NtInsert(q, n))
<1>1. CASE q # <<>> /\ ~Before(n, Last(q))
  <2> DEFINE r == Append(q, n)
             m == Len(q)
  <2>1. NtInsert(q, n) = r /\ m \in Nat \ {0} /\ Last(q) = q[m] /\ \A i \in 1 .. m : q[i] \in E
    BY <1>1 DEF NtInsert, Last
  <2>2. r \in Seq(E) /\ IsPut(q, m + 1, n, r)
    BY AtEnd
  <2>3. ASSUME InOrder(q), NEW i \in 1 .. m PROVE ~Before(n, q[i])
    <3>1. q[i] \in E /\ q[m] \in E /\ (i = m \/ ~Before(q[m], q[i]))
      <4>1. \A x, y \in 1 .. Len(q) : x < y => ~Before(q[y], q[x])
        BY <2>3, OrderIs
      <4> QED BY <2>1, <4>1
    <3> QED BY <1>1, <2>1, <3>1, BeforeOrders
  <2>4. InOrder(q) => InOrder(r)
    <3> SUFFICES ASSUME InOrder(q) PROVE InOrder(r)
      OBVIOUS
    <3>1. \A i \in 1 .. Len(q) : i < m + 1 => ~Before(n, q[i])
      BY <2>3
    <3>2. \A i \in 1 .. Len(q) : i >= m + 1 => ~Before(q[i], n)
      BY <2>1
    <3> HIDE DEF r, m
    <3> QED BY <2>2, <3>1, <3>2, PutInOrder
  <2>5. m + 1 \in Nat
    BY <2>1
  <2> HIDE DEF r, m
  <2> QED BY <2>1, <2>2, <2>4, <2>5 DEF Put
<1>2. CASE ~(q # <<>> /\ ~Before(n, Last(q)))
  <2>1. NtInsert(q, n) = InsertFromStart(q, n)
    BY <1>2, Zenon DEF NtInsert
  <2> QED BY <2>1, FromStart
<1> QED BY <1>1, <1>2

-----------------------------------------------------------------------------
(* The same notes, each as often. *)
SameNotes(q, r) == \A S : Count(r, S) = Count(q, S)

Elements(q) == {q[i] : i \in DOMAIN q}

LEMMA ElementsIs ==
  ASSUME NEW E, NEW q \in Seq(E)
  PROVE  /\ Elements(q) = {e \in E : Count(q, {e}) # 0}
         /\ Len(q) = Count(q, E)
<1>1. DOMAIN q = 1 .. Len(q) /\ Len(q) \in Nat /\ \A i \in DOMAIN q : q[i] \in E
  OBVIOUS
<1>2. ASSUME NEW e \in E PROVE e \in Elements(q) <=> Count(q, {e}) # 0
  <2> DEFINE A == {i \in DOMAIN q : q[i] \in {e}}
  <2>1. IsFiniteSet(A) /\ Count(q, {e}) = Cardinality(A)
    BY CountType DEF Count
  <2>2. Cardinality(A) = 0 <=> A = {}
    <3> HIDE DEF A
    <3> QED BY <2>1, FS_EmptySet
  <2> QED BY <2>1, <2>2 DEF Elements
<1>3. Count(q, E) = Len(q)
  <2>1. {i \in DOMAIN q : q[i] \in E} = 1 .. Len(q)
    BY <1>1
  <2>2. Cardinality(1 .. Len(q)) = Len(q)
    <3>1. \A n \in Nat : Cardinality(1 .. n) = IF 1 > n THEN 0 ELSE n - 1 + 1
      BY FS_Interval
    <3> QED BY <1>1, <3>1
  <2> QED BY <2>1, <2>2 DEF Count
<1>4. Elements(q) \subseteq E
  BY <1>1 DEF Elements
<1> QED BY <1>2, <1>3, <1>4

LEMMA SameHolds ==
  ASSUME NEW E, NEW q \in Seq(E), NEW r \in Seq(E), SameNotes(q, r)
  PROVE  Elements(r) = Elements(q) /\ Len(r) = Len(q)
<1>1. Count(r, E) = Count(q, E) /\ \A e \in E : Count(r, {e}) = Count(q, {e})
  BY DEF SameNotes
<1>2. /\ Elements(q) = {e \in E : Count(q, {e}) # 0} /\ Len(q) = Count(q, E)
      /\ Elements(r) = {e \in E : Count(r, {e}) # 0} /\ Len(r) = Count(r, E)
  BY ElementsIs
<1> QED BY <1>1, <1>2

(* How many of the first notes are in S. *)
CountTo(q, i, S) == Cardinality({j \in 1 .. i : q[j] \in S})

LEMMA CountToNext ==
  ASSUME NEW E, NEW q \in Seq(E), NEW S
  PROVE  /\ CountTo(q, 0, S) = 0
         /\ \A i \in Nat :
              /\ CountTo(q, i, S) \in Nat
              /\ CountTo(q, i + 1, S) = CountTo(q, i, S) + (IF q[i + 1] \in S THEN 1 ELSE 0)
<1> DEFINE A(m) == {j \in 1 .. m : q[j] \in S}
<1>1. \A m \in Nat : IsFiniteSet(A(m)) /\ Cardinality(A(m)) \in Nat
  <2> SUFFICES ASSUME NEW m \in Nat PROVE IsFiniteSet(A(m)) /\ Cardinality(A(m)) \in Nat
    OBVIOUS
  <2>1. IsFiniteSet(1 .. m) /\ A(m) \subseteq 1 .. m
    BY FS_Interval
  <2> HIDE DEF A
  <2>2. IsFiniteSet(A(m))
    BY <2>1, FS_Subset
  <2> QED BY <2>2, FS_CardinalityType
<1>2. ASSUME NEW i \in Nat, q[i + 1] \in S
      PROVE  CountTo(q, i + 1, S) = CountTo(q, i, S) + 1
  <2>1. A(i + 1) = A(i) \cup {i + 1} /\ i + 1 \notin A(i)
    BY <1>2
  <2>2. CountTo(q, i + 1, S) = Cardinality(A(i + 1)) /\ CountTo(q, i, S) = Cardinality(A(i))
    BY DEF CountTo
  <2> HIDE DEF A
  <2> QED BY <1>1, <2>1, <2>2, FS_AddElement
<1>3. ASSUME NEW i \in Nat, q[i + 1] \notin S
      PROVE  CountTo(q, i + 1, S) = CountTo(q, i, S)
  <2>1. A(i + 1) = A(i)
    BY <1>3
  <2> QED BY <2>1 DEF CountTo
<1>4. CountTo(q, 0, S) = 0
  <2>1. A(0) = {}
    OBVIOUS
  <2> QED BY <2>1, FS_EmptySet DEF CountTo
<1>5. \A i \in Nat : CountTo(q, i, S) \in Nat
  BY <1>1 DEF CountTo
<1> QED BY <1>2, <1>3, <1>4, <1>5, SMTT(30)

LEMMA CountToAll ==
  ASSUME NEW E, NEW q \in Seq(E), NEW S
  PROVE  CountTo(q, Len(q), S) = Count(q, S)
<1>1. DOMAIN q = 1 .. Len(q)
  OBVIOUS
<1> QED BY <1>1 DEF CountTo, Count

LEMMA PutAdds ==
  ASSUME NEW E, NEW q \in Seq(E), NEW r \in Seq(E), NEW n, Put(q, n, r), NEW S
  PROVE  Count(r, S) = Count(q, S) + (IF n \in S THEN 1 ELSE 0)
BY PutCounts DEF Put

(* A list made by putting in the notes of q, one after the other. *)
Builds(E, q, f) ==
  /\ f[0] = <<>>
  /\ \A i \in 1 .. Len(q) : f[i - 1] \in Seq(E) =>
       /\ f[i] \in Seq(E) /\ Put(f[i - 1], q[i], f[i])
       /\ InOrder(f[i - 1]) => InOrder(f[i])

LEMMA Built ==
  ASSUME NEW E, IsNotes(E), NEW q \in Seq(E), NEW f, Builds(E, q, f)
  PROVE  /\ f[Len(q)] \in Seq(E) /\ InOrder(f[Len(q)])
         /\ SameNotes(q, f[Len(q)])
<1> DEFINE n == Len(q)
           T == {i \in 0 .. n : f[i] \in Seq(E) /\ InOrder(f[i])}
<1>0. n \in Nat /\ f[0] = <<>>
  BY DEF Builds
<1>1. ASSUME NEW i \in 1 .. n, f[i - 1] \in Seq(E)
      PROVE  /\ f[i] \in Seq(E) /\ Put(f[i - 1], q[i], f[i])
             /\ InOrder(f[i - 1]) => InOrder(f[i])
  BY <1>1 DEF Builds
<1>2. \A i \in 0 .. n : i \in T
  <2>1. 0 \in T
    <3>1. <<>> \in Seq(E) /\ InOrder(<<>>)
      BY DEF InOrder
    <3>2. f[0] \in Seq(E) /\ InOrder(f[0])
      BY <1>0, <3>1, Zenon
    <3>3. 0 \in 0 .. n
      BY <1>0
    <3> QED BY <3>2, <3>3
  <2>2. ASSUME NEW i \in 1 .. n, i - 1 \in T PROVE i \in T
    BY <1>1, <2>2
  <2> HIDE DEF T, n
  <2> QED BY <1>0, <2>1, <2>2, Upwards
<1>3. ASSUME NEW S PROVE Count(f[n], S) = Count(q, S)
  <2> DEFINE U == {i \in 0 .. n : Count(f[i], S) = CountTo(q, i, S)}
  <2>1. 0 \in U
    <3>1. Count(<<>>, S) = 0 /\ CountTo(q, 0, S) = 0
      BY CountEmpty, CountToNext
    <3> QED BY <1>0, <3>1
  <2>2. ASSUME NEW i \in 1 .. n, i - 1 \in U PROVE i \in U
    <3>1. i - 1 \in T /\ i \in T /\ i - 1 \in Nat /\ (i - 1) + 1 = i
      BY <1>2
    <3>2. f[i - 1] \in Seq(E) /\ f[i] \in Seq(E) /\ Put(f[i - 1], q[i], f[i])
      BY <1>1, <3>1
    <3>3. Count(f[i], S) = Count(f[i - 1], S) + (IF q[i] \in S THEN 1 ELSE 0)
      BY <3>2, PutAdds
    <3>4. \A j \in Nat :
            /\ CountTo(q, j, S) \in Nat
            /\ CountTo(q, j + 1, S) = CountTo(q, j, S) + (IF q[j + 1] \in S THEN 1 ELSE 0)
      BY CountToNext, ZenonT(30)
    <3> QED BY <2>2, <3>1, <3>3, <3>4
  <2> HIDE DEF U, n
  <2>3. n \in U
    BY <1>0, <2>1, <2>2, Upwards, SMTT(30)
  <2>4. CountTo(q, n, S) = Count(q, S)
    BY CountToAll DEF n
  <2> QED BY <2>3, <2>4 DEF U
<1>4. n \in T
  BY <1>0, <1>2
<1> QED BY <1>3, <1>4 DEF SameNotes

(* phreorder() *)
LEMMA Reorders ==
  ASSUME NEW E, IsNotes(E), NEW q \in Seq(E)
  PROVE  /\ Phreorder(q) \in Seq(E) /\ InOrder(Phreorder(q))
         /\ SameNotes(q, Phreorder(q))
<1> DEFINE n == Len(q)
           Step(list, i) == IF i = 0 THEN <<>> ELSE InsertFromStart(list[i - 1], q[i])
           Is(list) == list = [i \in 0 .. n |-> Step(list, i)]
           f == CHOOSE list : Is(list)
           h == [x \in (1 .. n) \X Seq(E) |-> InsertFromStart(x[2], q[x[1]])]
<1>0. n \in Nat /\ \A i \in 1 .. n : q[i] \in E
  OBVIOUS
<1>1. \E list : Is(list)
  <2>1. IsStep(h, n, Seq(E))
    <3>1. \A x \in (1 .. n) \X Seq(E) : InsertFromStart(x[2], q[x[1]]) \in Seq(E)
      BY <1>0, FromStart
    <3> QED BY <3>1 DEF IsStep
  <2>2. PICK g : IsIterated(g, n, Seq(E), <<>>, h)
    <3>1. <<>> \in Seq(E)
      OBVIOUS
    <3> HIDE DEF h, n
    <3> QED BY <1>0, <2>1, <3>1, Recursion, Zenon
  <2>3. /\ g \in [0 .. n -> Seq(E)]
        /\ g[0] = <<>> /\ \A i \in 1 .. n : g[i] = h[<<i, g[i - 1]>>]
    <3> HIDE DEF h, n
    <3> QED BY <2>2, Zenon DEF IsIterated
  <2>4. ASSUME NEW i \in 0 .. n PROVE g[i] = Step(g, i)
    <3>1. CASE i = 0
      BY <2>3, <3>1
    <3>2. CASE i # 0
      <4>1. i \in 1 .. n /\ i - 1 \in 0 .. n
        BY <1>0, <3>2
      <4>2. g[i - 1] \in Seq(E) /\ <<i, g[i - 1]>> \in (1 .. n) \X Seq(E)
        BY <2>3, <4>1
      <4>3. h[<<i, g[i - 1]>>] = InsertFromStart(g[i - 1], q[i])
        BY <4>2
      <4> QED BY <2>3, <3>2, <4>1, <4>3
    <3> QED BY <3>1, <3>2
  <2>5. Is(g)
    BY <2>3, <2>4
  <2> QED BY <2>5
<1>2. Is(f)
  <2> HIDE DEF Is
  <2> QED BY <1>1, Zenon
<1>3. Phreorder(q) = f[n]
  BY Zenon DEF Phreorder
<1>4. Builds(E, q, f)
  <2> HIDE DEF f
  <2>1. f[0] = <<>>
    BY <1>0, <1>2
  <2>2. ASSUME NEW i \in 1 .. n, f[i - 1] \in Seq(E)
        PROVE  /\ f[i] \in Seq(E) /\ Put(f[i - 1], q[i], f[i])
               /\ InOrder(f[i - 1]) => InOrder(f[i])
    <3>1. f[i] = InsertFromStart(f[i - 1], q[i])
      BY <1>0, <1>2
    <3>2. q[i] \in E
      BY <1>0
    <3> QED BY <2>2, <3>1, <3>2, FromStart
  <2> QED BY <2>1, <2>2 DEF Builds
<1> HIDE DEF f, n
<1> QED BY <1>3, <1>4, Built DEF n

(* Notes put into a new phrase. *)
LEMMA Inserts ==
  ASSUME NEW E, IsNotes(E), NEW q \in Seq(E)
  PROVE  /\ Inserted(q) \in Seq(E) /\ InOrder(Inserted(q))
         /\ SameNotes(q, Inserted(q))
<1> DEFINE n == Len(q)
           Step(list, i) == IF i = 0 THEN <<>> ELSE NtInsert(list[i - 1], q[i])
           Is(list) == list = [i \in 0 .. n |-> Step(list, i)]
           f == CHOOSE list : Is(list)
           h == [x \in (1 .. n) \X Seq(E) |-> NtInsert(x[2], q[x[1]])]
<1>0. n \in Nat /\ \A i \in 1 .. n : q[i] \in E
  OBVIOUS
<1>1. \E list : Is(list)
  <2>1. IsStep(h, n, Seq(E))
    <3>1. \A x \in (1 .. n) \X Seq(E) : NtInsert(x[2], q[x[1]]) \in Seq(E)
      BY <1>0, NtInsertPuts
    <3> QED BY <3>1 DEF IsStep
  <2>2. PICK g : IsIterated(g, n, Seq(E), <<>>, h)
    <3>1. <<>> \in Seq(E)
      OBVIOUS
    <3> HIDE DEF h, n
    <3> QED BY <1>0, <2>1, <3>1, Recursion, Zenon
  <2>3. /\ g \in [0 .. n -> Seq(E)]
        /\ g[0] = <<>> /\ \A i \in 1 .. n : g[i] = h[<<i, g[i - 1]>>]
    <3> HIDE DEF h, n
    <3> QED BY <2>2, Zenon DEF IsIterated
  <2>4. ASSUME NEW i \in 0 .. n PROVE g[i] = Step(g, i)
    <3>1. CASE i = 0
      BY <2>3, <3>1
    <3>2. CASE i # 0
      <4>1. i \in 1 .. n /\ i - 1 \in 0 .. n
        BY <1>0, <3>2
      <4>2. g[i - 1] \in Seq(E) /\ <<i, g[i - 1]>> \in (1 .. n) \X Seq(E)
        BY <2>3, <4>1
      <4>3. h[<<i, g[i - 1]>>] = NtInsert(g[i - 1], q[i])
        BY <4>2
      <4> QED BY <2>3, <3>2, <4>1, <4>3
    <3> QED BY <3>1, <3>2
  <2>5. Is(g)
    BY <2>3, <2>4
  <2> QED BY <2>5
<1>2. Is(f)
  <2> HIDE DEF Is
  <2> QED BY <1>1, Zenon
<1>3. Inserted(q) = f[n]
  BY Zenon DEF Inserted
<1>4. Builds(E, q, f)
  <2> HIDE DEF f
  <2>1. f[0] = <<>>
    BY <1>0, <1>2
  <2>2. ASSUME NEW i \in 1 .. n, f[i - 1] \in Seq(E)
        PROVE  /\ f[i] \in Seq(E) /\ Put(f[i - 1], q[i], f[i])
               /\ InOrder(f[i - 1]) => InOrder(f[i])
    <3>1. f[i] = NtInsert(f[i - 1], q[i])
      BY <1>0, <1>2
    <3>2. q[i] \in E
      BY <1>0
    <3> QED BY <2>2, <3>1, <3>2, NtInsertPuts
  <2> QED BY <2>1, <2>2 DEF Builds
<1> HIDE DEF f, n
<1> QED BY <1>3, <1>4, Built DEF n

-----------------------------------------------------------------------------
(* phrmerge() *)

(* A delay does not change the order. *)
LEMMA ShiftKeeps ==
  ASSUME NEW E, IsNotes(E), NEW p \in Seq(E), NEW offset \in Int,
         Shifted(p, offset) \in Seq(E)
  PROVE  /\ Len(Shifted(p, offset)) = Len(p)
         /\ InOrder(p) => InOrder(Shifted(p, offset))
         /\ \A i \in 1 .. Len(p) : offset >= 0 => ~Before(Shifted(p, offset)[i], p[i])
<1> DEFINE late == Shifted(p, offset)
<1>1. /\ Len(p) \in Nat /\ DOMAIN p = 1 .. Len(p) /\ DOMAIN late = DOMAIN p
      /\ DOMAIN late = 1 .. Len(late) /\ Len(late) \in Nat
      /\ \A i \in 1 .. Len(p) : p[i] \in E /\ late[i] = [p[i] EXCEPT !.time = @ + offset]
  BY DEF Shifted
<1>2. Len(late) = Len(p)
  BY <1>1
<1> HIDE DEF late
<1>3. ASSUME NEW i \in 1 .. Len(p)
      PROVE  /\ late[i] \in E /\ p[i] \in E /\ late[i].time = p[i].time + offset
             /\ late[i].type = p[i].type /\ late[i].pitch = p[i].pitch /\ late[i].dur = p[i].dur
  <2> DEFINE n == p[i]
             m == late[i]
  <2>1. late[i] \in E
    BY <1>2 DEF late
  <2>2. n \in E /\ m = [n EXCEPT !.time = @ + offset]
    BY <1>1
  <2> HIDE DEF n, m
  <2>3. {"time", "type", "pitch", "dur"} \subseteq DOMAIN n
    BY <2>2 DEF IsNotes
  <2>4. m.time = n.time + offset /\ m.type = n.type /\ m.pitch = n.pitch /\ m.dur = n.dur
    BY <2>2, <2>3
  <2> QED BY <2>1, <2>2, <2>4 DEF n, m
<1>4. ASSUME NEW i \in 1 .. Len(p), NEW j \in 1 .. Len(p), ~Before(p[j], p[i])
      PROVE  ~Before(late[j], late[i])
  <2>1. /\ p[j] \in E /\ p[i] \in E /\ late[j] \in E /\ late[i] \in E
    BY <1>3
  <2>2. ~Earlier(p[j], p[i]) /\ (Before(late[j], late[i]) <=> Earlier(late[j], late[i]))
    BY <1>4, <2>1, BeforeIs
  <2>3. /\ p[i].time \in Int /\ p[i].type \in Int /\ p[i].pitch \in Int /\ p[i].dur \in Int
        /\ p[j].time \in Int /\ p[j].type \in Int /\ p[j].pitch \in Int /\ p[j].dur \in Int
    BY <2>1 DEF IsNotes
  <2>4. /\ late[i].time = p[i].time + offset
        /\ late[i].type = p[i].type /\ late[i].pitch = p[i].pitch /\ late[i].dur = p[i].dur
        /\ late[j].time = p[j].time + offset
        /\ late[j].type = p[j].type /\ late[j].pitch = p[j].pitch /\ late[j].dur = p[j].dur
    BY <1>3
  <2>5. ~Earlier(late[j], late[i])
    BY <2>2, <2>3, <2>4, SMTT(30) DEF Earlier, IsBytes
  <2> QED BY <2>2, <2>5
<1>5. ASSUME InOrder(p) PROVE InOrder(late)
  <2>1. \A i, j \in 1 .. Len(p) : i < j => ~Before(p[j], p[i])
    BY <1>5, OrderIs
  <2>2. \A i, j \in 1 .. Len(late) : i < j => ~Before(late[j], late[i])
    BY <1>2, <1>4, <2>1
  <2>3. late \in Seq(E)
    BY DEF late
  <2> QED BY <2>2, <2>3, OrderIs
<1>6. ASSUME NEW i \in 1 .. Len(p), offset >= 0 PROVE ~Before(late[i], p[i])
  <2>1. Before(late[i], p[i]) <=> Earlier(late[i], p[i])
    BY <1>3, BeforeIs
  <2>2. p[i].time \in Int /\ p[i].type \in Int /\ p[i].pitch \in Int /\ p[i].dur \in Int
    BY <1>3 DEF IsNotes
  <2>3. late[i].time = p[i].time + offset
        /\ late[i].type = p[i].type /\ late[i].pitch = p[i].pitch /\ late[i].dur = p[i].dur
    BY <1>3
  <2>4. ~Earlier(late[i], p[i])
    BY <1>6, <2>2, <2>3, SMTT(30) DEF Earlier, IsBytes
  <2> QED BY <2>1, <2>4
<1> QED BY <1>2, <1>5, <1>6 DEF late

LEMMA BothCounted ==
  ASSUME NEW E, NEW a \in Seq(E), NEW b \in Seq(E), NEW S
  PROVE  Count(a \o b, S) = Count(a, S) + Count(b, S)
<1> DEFINE c == a \o b
           m == Len(a)
           n == Len(b)
           T == {j \in 0 .. n : CountTo(c, m + j, S) = Count(a, S) + CountTo(b, j, S)}
<1>1. /\ c \in Seq(E) /\ Len(c) = m + n /\ m \in Nat /\ n \in Nat
      /\ \A i \in 1 .. m + n : c[i] = IF i <= m THEN a[i] ELSE b[i - m]
  BY ConcatProperties
<1>2. /\ \A j \in Nat :
           /\ CountTo(c, j, S) \in Nat
           /\ CountTo(c, j + 1, S) = CountTo(c, j, S) + (IF c[j + 1] \in S THEN 1 ELSE 0)
  <2> HIDE DEF c
  <2> QED BY <1>1, CountToNext, Zenon
<1>3. /\ CountTo(b, 0, S) = 0
      /\ \A j \in Nat :
           /\ CountTo(b, j, S) \in Nat
           /\ CountTo(b, j + 1, S) = CountTo(b, j, S) + (IF b[j + 1] \in S THEN 1 ELSE 0)
  BY CountToNext, ZenonT(30)
<1>4. CountTo(a, m, S) = Count(a, S) /\ CountTo(b, n, S) = Count(b, S)
      /\ CountTo(c, m + n, S) = Count(c, S)
  <2> HIDE DEF c
  <2> QED BY <1>1, CountToAll
<1>5. CountTo(c, m, S) = CountTo(a, m, S)
  <2>1. {j \in 1 .. m : c[j] \in S} = {j \in 1 .. m : a[j] \in S}
    BY <1>1
  <2> QED BY <2>1 DEF CountTo
<1>6. 0 \in T
  <2>1. m + 0 = m /\ 0 \in 0 .. n
    BY <1>1
  <2>2. Count(a, S) \in Nat
    BY CountType
  <2>3. CountTo(c, m + 0, S) = Count(a, S) + CountTo(b, 0, S)
    BY <1>3, <1>4, <1>5, <2>1, <2>2
  <2> QED BY <2>1, <2>3
<1>7. ASSUME NEW j \in 1 .. n, j - 1 \in T PROVE j \in T
  <2>1. j - 1 \in Nat /\ (j - 1) + 1 = j /\ m + (j - 1) \in Nat /\ (m + (j - 1)) + 1 = m + j
    BY <1>1
  <2>2. c[m + j] = b[j]
    BY <1>1
  <2>3. CountTo(c, m + j, S) = CountTo(c, m + (j - 1), S) + (IF b[j] \in S THEN 1 ELSE 0)
    BY <1>2, <2>1, <2>2
  <2>4. /\ CountTo(b, j, S) = CountTo(b, j - 1, S) + (IF b[j] \in S THEN 1 ELSE 0)
        /\ CountTo(b, j - 1, S) \in Nat
    BY <1>3, <2>1
  <2>5. CountTo(c, m + (j - 1), S) = Count(a, S) + CountTo(b, j - 1, S)
    BY <1>7
  <2>6. Count(a, S) \in Nat
    BY CountType
  <2> QED BY <2>3, <2>4, <2>5, <2>6
<1>8. n \in T
  <2> HIDE DEF T, n, c, m
  <2>1. \A i \in 0 .. n : i \in T
    BY <1>1, <1>6, <1>7, Upwards
  <2> QED BY <1>1, <2>1
<1> QED BY <1>4, <1>8

LEMMA AppendInOrder ==
  ASSUME NEW E, IsNotes(E), NEW q \in Seq(E), NEW n \in E, InOrder(q),
         \A i \in 1 .. Len(q) : ~Before(n, q[i])
  PROVE  InOrder(Append(q, n))
<1> DEFINE r == Append(q, n)
           k == Len(q) + 1
<1>1. r \in Seq(E) /\ IsPut(q, k, n, r)
  BY AtEnd
<1>2. \A i \in 1 .. Len(q) : ~(i >= k)
  OBVIOUS
<1> HIDE DEF r, k
<1>3. InOrder(r)
  BY <1>1, <1>2, PutInOrder
<1> QED BY <1>3 DEF r

(* The loop, and one turn of it. *)
UseOut(out, late, m) ==
  m.i <= Len(out) /\ (m.j > Len(late) \/ Before(out[m.i], late[m.j]))

Link(out, late, m) ==
  IF UseOut(out, late, m)
  THEN [i |-> m.i + 1, j |-> m.j, list |-> Append(m.list, out[m.i])]
  ELSE [i |-> m.i, j |-> m.j + 1, list |-> Append(m.list, late[m.j])]

Start == [i |-> 1, j |-> 1, list |-> <<>>]

(* What holds after k turns. *)
Linked(E, out, late, m, k) ==
  /\ m.i \in 1 .. Len(out) + 1 /\ m.j \in 1 .. Len(late) + 1 /\ m.i + m.j = k + 2
  /\ m.list \in Seq(E)
  /\ InOrder(out) /\ InOrder(late) =>
       /\ InOrder(m.list)
       /\ \A x \in 1 .. Len(m.list) :
            /\ m.i <= Len(out) => ~Before(out[m.i], m.list[x])
            /\ m.j <= Len(late) => ~Before(late[m.j], m.list[x])

IsCounted(out, late, m, S) ==
  Count(m.list, S) = CountTo(out, m.i - 1, S) + CountTo(late, m.j - 1, S)

LEMMA LinkKeeps ==
  ASSUME NEW E, IsNotes(E), NEW out \in Seq(E), NEW late \in Seq(E),
         NEW k \in 1 .. Len(out) + Len(late), NEW m, Linked(E, out, late, m, k - 1)
  PROVE  /\ Linked(E, out, late, Link(out, late, m), k)
         /\ \A S : IsCounted(out, late, m, S) => IsCounted(out, late, Link(out, late, m), S)
<1> DEFINE i == m.i
           j == m.j
           q == m.list
           l == Link(out, late, m)
           given(a, b, r) == /\ InOrder(r)
                             /\ \A x \in 1 .. Len(r) :
                                  /\ a <= Len(out) => ~Before(out[a], r[x])
                                  /\ b <= Len(late) => ~Before(late[b], r[x])
<1>0. q \in Seq(E)
  BY DEF Linked
<1>1. /\ i \in 1 .. Len(out) + 1 /\ j \in 1 .. Len(late) + 1 /\ i + j = k + 1
      /\ q \in Seq(E) /\ Len(out) \in Nat /\ Len(late) \in Nat /\ k \in Nat
      /\ InOrder(out) /\ InOrder(late) => given(i, j, q)
      /\ \A x \in 1 .. Len(out) : out[x] \in E
      /\ \A x \in 1 .. Len(late) : late[x] \in E
      /\ \A x \in 1 .. Len(q) : q[x] \in E
  <2>1. Len(out) \in Nat /\ Len(late) \in Nat /\ k \in Nat
    OBVIOUS
  <2>2. i \in 1 .. Len(out) + 1 /\ j \in 1 .. Len(late) + 1 /\ i + j = (k - 1) + 2
    BY DEF Linked
  <2>3. InOrder(out) /\ InOrder(late) => given(i, j, q)
    BY Zenon DEF Linked
  <2>4. \A s \in Seq(E) : \A x \in 1 .. Len(s) : s[x] \in E
    OBVIOUS
  <2> HIDE DEF i, j, q, given
  <2>5. i + j = k + 1
    BY <2>1, <2>2
  <2> QED BY <1>0, <2>1, <2>2, <2>3, <2>4, <2>5
<1>2. ASSUME InOrder(out) PROVE \A x, y \in 1 .. Len(out) : x < y => ~Before(out[y], out[x])
  BY <1>2, OrderIs
<1>3. ASSUME InOrder(late) PROVE \A x, y \in 1 .. Len(late) : x < y => ~Before(late[y], late[x])
  BY <1>3, OrderIs
<1> HIDE DEF i, j, q
<1>4. ASSUME NEW n \in E
      PROVE  /\ Append(q, n) \in Seq(E) /\ Len(Append(q, n)) = Len(q) + 1 /\ Len(q) \in Nat
             /\ \A x \in 1 .. Len(q) + 1 :
                  Append(q, n)[x] = IF x = Len(q) + 1 THEN n ELSE q[x]
             /\ \A S : Count(Append(q, n), S) = Count(q, S) + (IF n \in S THEN 1 ELSE 0)
  <2>1. /\ Append(q, n) \in Seq(E) /\ Len(Append(q, n)) = Len(q) + 1 /\ Len(q) \in Nat
        /\ \A x \in 1 .. Len(q) + 1 : Append(q, n)[x] = IF x = Len(q) + 1 THEN n ELSE q[x]
    BY <1>1, AppendProperties
  <2>2. IsPut(q, Len(q) + 1, n, Append(q, n))
    BY <1>1, AtEnd
  <2>3. \A S : Count(Append(q, n), S) = Count(q, S) + (IF n \in S THEN 1 ELSE 0)
    <3> DEFINE r == Append(q, n)
               p == Len(q) + 1
    <3> SUFFICES ASSUME NEW S PROVE Count(r, S) = Count(q, S) + (IF n \in S THEN 1 ELSE 0)
      OBVIOUS
    <3>1. r \in Seq(E) /\ q \in Seq(E) /\ IsPut(q, p, n, r)
      BY <1>1, <2>1, <2>2
    <3> HIDE DEF r, p
    <3> QED BY <3>1, PutCounts
  <2> QED BY <2>1, <2>3
<1>5. CASE UseOut(out, late, m)
  <2> DEFINE n == out[i]
             r == Append(q, n)
  <2>1. i \in 1 .. Len(out) /\ (j > Len(late) \/ Before(n, late[j])) /\ n \in E
    BY <1>1, <1>5 DEF UseOut, i, j
  <2>2. l.i = i + 1 /\ l.j = j /\ l.list = r
    BY <1>5 DEF Link, i, j, q
  <2>3. /\ r \in Seq(E) /\ Len(r) = Len(q) + 1 /\ Len(q) \in Nat
        /\ \A x \in 1 .. Len(q) + 1 : r[x] = IF x = Len(q) + 1 THEN n ELSE q[x]
        /\ \A S : Count(r, S) = Count(q, S) + (IF n \in S THEN 1 ELSE 0)
    BY <1>4, <2>1
  <2>4. ASSUME InOrder(out), InOrder(late) PROVE given(i + 1, j, r)
    <3>1. \A x \in 1 .. Len(q) : ~Before(n, q[x])
      BY <1>1, <2>1, <2>4
    <3>2. InOrder(r)
      BY <1>1, <2>1, <2>4, <3>1, AppendInOrder
    <3>3. ASSUME i + 1 <= Len(out), NEW x \in 1 .. Len(r) PROVE ~Before(out[i + 1], r[x])
      <4>1. i + 1 \in 1 .. Len(out) /\ out[i + 1] \in E /\ ~Before(out[i + 1], n)
        BY <1>1, <1>2, <2>1, <2>4, <3>3
      <4>2. CASE x = Len(q) + 1
        BY <2>3, <4>1, <4>2
      <4>3. CASE x # Len(q) + 1
        <5>1. x \in 1 .. Len(q) /\ r[x] = q[x] /\ q[x] \in E /\ ~Before(n, q[x])
          BY <1>1, <2>3, <3>1, <4>3
        <5> QED BY <2>1, <4>1, <5>1, BeforeOrders
      <4> QED BY <4>2, <4>3
    <3>4. ASSUME j <= Len(late), NEW x \in 1 .. Len(r) PROVE ~Before(late[j], r[x])
      <4>1. late[j] \in E /\ Before(n, late[j])
        BY <1>1, <2>1, <3>4
      <4>2. CASE x = Len(q) + 1
        BY <2>1, <2>3, <4>1, <4>2, BeforeOrders
      <4>3. CASE x # Len(q) + 1
        BY <1>1, <2>3, <2>4, <3>4, <4>3, SMTT(30)
      <4> QED BY <4>2, <4>3
    <3> QED BY <3>2, <3>3, <3>4
  <2>5. ASSUME NEW S, Count(q, S) = CountTo(out, i - 1, S) + CountTo(late, j - 1, S)
        PROVE  Count(r, S) = CountTo(out, (i + 1) - 1, S) + CountTo(late, j - 1, S)
    <3>1. \A x \in Nat :
            /\ CountTo(out, x, S) \in Nat
            /\ CountTo(out, x + 1, S) = CountTo(out, x, S) + (IF out[x + 1] \in S THEN 1 ELSE 0)
      BY CountToNext, ZenonT(30)
    <3>2. i - 1 \in Nat /\ (i - 1) + 1 = i /\ (i + 1) - 1 = i
      BY <2>1
    <3>3. /\ CountTo(out, i - 1, S) \in Nat
          /\ CountTo(out, i, S) = CountTo(out, i - 1, S) + (IF n \in S THEN 1 ELSE 0)
      BY <3>1, <3>2
    <3>4. CountTo(late, j - 1, S) \in Nat
      <4>1. \A x \in Nat :
              /\ CountTo(late, x, S) \in Nat
              /\ CountTo(late, x + 1, S)
                   = CountTo(late, x, S) + (IF late[x + 1] \in S THEN 1 ELSE 0)
        BY CountToNext, ZenonT(30)
      <4>2. j - 1 \in Nat
        BY <1>1
      <4> QED BY <4>1, <4>2
    <3>5. Count(r, S) = Count(q, S) + (IF n \in S THEN 1 ELSE 0)
      BY <2>3
    <3>6. CountTo(out, (i + 1) - 1, S) = CountTo(out, i, S)
      BY <3>2
    <3> DEFINE a == CountTo(out, i - 1, S)
               b == CountTo(late, j - 1, S)
               c == CountTo(out, i, S)
               x == IF n \in S THEN 1 ELSE 0
               m1 == Count(q, S)
               m2 == Count(r, S)
    <3>7. m1 = a + b /\ m2 = m1 + x /\ c = a + x /\ a \in Nat /\ b \in Nat /\ x \in Nat
      BY <2>5, <3>3, <3>4, <3>5
    <3> HIDE DEF a, b, c, x, m1, m2
    <3>8. m2 = c + b
      BY <3>7
    <3> QED BY <3>6, <3>8 DEF b, c, m2
  <2> HIDE DEF r, n, l
  <2>6. /\ l.i \in 1 .. Len(out) + 1 /\ l.j \in 1 .. Len(late) + 1 /\ l.i + l.j = k + 2
        /\ l.list \in Seq(E)
    BY <1>1, <2>1, <2>2, <2>3
  <2>7. InOrder(out) /\ InOrder(late) => given(l.i, l.j, l.list)
    BY <2>2, <2>4
  <2>8. Linked(E, out, late, l, k)
    BY <2>6, <2>7 DEF Linked
  <2>9. ASSUME NEW S, IsCounted(out, late, m, S) PROVE IsCounted(out, late, l, S)
    BY <2>2, <2>5, <2>9 DEF IsCounted, i, j, q
  <2> QED BY <2>8, <2>9 DEF l
<1>6. CASE ~UseOut(out, late, m)
  <2> DEFINE n == late[j]
             r == Append(q, n)
  <2>1. j \in 1 .. Len(late) /\ (i > Len(out) \/ ~Before(out[i], n)) /\ n \in E
    BY <1>1, <1>6, SMTT(30) DEF UseOut, i, j
  <2>2. l.i = i /\ l.j = j + 1 /\ l.list = r
    BY <1>6 DEF Link, i, j, q
  <2>3. /\ r \in Seq(E) /\ Len(r) = Len(q) + 1 /\ Len(q) \in Nat
        /\ \A x \in 1 .. Len(q) + 1 : r[x] = IF x = Len(q) + 1 THEN n ELSE q[x]
        /\ \A S : Count(r, S) = Count(q, S) + (IF n \in S THEN 1 ELSE 0)
    BY <1>4, <2>1
  <2>4. ASSUME InOrder(out), InOrder(late) PROVE given(i, j + 1, r)
    <3>1. \A x \in 1 .. Len(q) : ~Before(n, q[x])
      BY <1>1, <2>1, <2>4
    <3>2. InOrder(r)
      BY <1>1, <2>1, <2>4, <3>1, AppendInOrder
    <3>3. ASSUME j + 1 <= Len(late), NEW x \in 1 .. Len(r) PROVE ~Before(late[j + 1], r[x])
      <4>1. j + 1 \in 1 .. Len(late) /\ late[j + 1] \in E /\ ~Before(late[j + 1], n)
        BY <1>1, <1>3, <2>1, <2>4, <3>3
      <4>2. CASE x = Len(q) + 1
        BY <2>3, <4>1, <4>2
      <4>3. CASE x # Len(q) + 1
        <5>1. x \in 1 .. Len(q) /\ r[x] = q[x] /\ q[x] \in E /\ ~Before(n, q[x])
          BY <1>1, <2>3, <3>1, <4>3
        <5> QED BY <2>1, <4>1, <5>1, BeforeOrders
      <4> QED BY <4>2, <4>3
    <3>4. ASSUME i <= Len(out), NEW x \in 1 .. Len(r) PROVE ~Before(out[i], r[x])
      <4>1. out[i] \in E /\ ~Before(out[i], n)
        BY <1>1, <2>1, <3>4
      <4>2. CASE x = Len(q) + 1
        BY <2>3, <4>1, <4>2
      <4>3. CASE x # Len(q) + 1
        BY <1>1, <2>3, <2>4, <3>4, <4>3, SMTT(30)
      <4> QED BY <4>2, <4>3
    <3> QED BY <3>2, <3>3, <3>4
  <2>5. ASSUME NEW S, Count(q, S) = CountTo(out, i - 1, S) + CountTo(late, j - 1, S)
        PROVE  Count(r, S) = CountTo(out, i - 1, S) + CountTo(late, (j + 1) - 1, S)
    <3>1. \A x \in Nat :
            /\ CountTo(late, x, S) \in Nat
            /\ CountTo(late, x + 1, S)
                 = CountTo(late, x, S) + (IF late[x + 1] \in S THEN 1 ELSE 0)
      BY CountToNext, ZenonT(30)
    <3>2. j - 1 \in Nat /\ (j - 1) + 1 = j /\ (j + 1) - 1 = j
      BY <2>1
    <3>3. /\ CountTo(late, j - 1, S) \in Nat
          /\ CountTo(late, j, S) = CountTo(late, j - 1, S) + (IF n \in S THEN 1 ELSE 0)
      BY <3>1, <3>2
    <3>4. CountTo(out, i - 1, S) \in Nat
      <4>1. \A x \in Nat :
              /\ CountTo(out, x, S) \in Nat
              /\ CountTo(out, x + 1, S) = CountTo(out, x, S) + (IF out[x + 1] \in S THEN 1 ELSE 0)
        BY CountToNext, ZenonT(30)
      <4>2. i - 1 \in Nat
        BY <1>1
      <4> QED BY <4>1, <4>2
    <3>5. Count(r, S) = Count(q, S) + (IF n \in S THEN 1 ELSE 0)
      BY <2>3
    <3> QED BY <2>5, <3>2, <3>3, <3>4, <3>5
  <2> HIDE DEF r, n, l
  <2>6. /\ l.i \in 1 .. Len(out) + 1 /\ l.j \in 1 .. Len(late) + 1 /\ l.i + l.j = k + 2
        /\ l.list \in Seq(E)
    BY <1>1, <2>1, <2>2, <2>3
  <2>7. InOrder(out) /\ InOrder(late) => given(l.i, l.j, l.list)
    BY <2>2, <2>4
  <2>8. Linked(E, out, late, l, k)
    BY <2>6, <2>7 DEF Linked
  <2>9. ASSUME NEW S, IsCounted(out, late, m, S) PROVE IsCounted(out, late, l, S)
    BY <2>2, <2>5, <2>9 DEF IsCounted, i, j, q
  <2> QED BY <2>8, <2>9 DEF l
<1> QED BY <1>5, <1>6

IsLoop(f, out, late) ==
  f = [k \in 0 .. Len(out) + Len(late) |->
         IF k = 0 THEN Start ELSE Link(out, late, f[k - 1])]

Result(f, out, late) == f[Len(out) + Len(late)].list

IsMerged(E, out, late, r) ==
  /\ r \in Seq(E)
  /\ InOrder(out) /\ InOrder(late) => InOrder(r)
  /\ \A S : Count(r, S) = Count(out, S) + Count(late, S)

(* What is linked when both lists have come to their ends. *)
LEMMA LoopMerges ==
  ASSUME NEW E, IsNotes(E), NEW out \in Seq(E), NEW late \in Seq(E), NEW f,
         IsLoop(f, out, late)
  PROVE  IsMerged(E, out, late, Result(f, out, late))
<1> DEFINE n == Len(out) + Len(late)
           T == {k \in 0 .. n : Linked(E, out, late, f[k], k)}
<1>0. n \in Nat /\ Len(out) \in Nat /\ Len(late) \in Nat
  OBVIOUS
<1>1. f[0] = Start /\ \A k \in 1 .. n : f[k] = Link(out, late, f[k - 1])
  BY <1>0, SMTT(30) DEF IsLoop
<1>2. Linked(E, out, late, Start, 0)
  <2>1. <<>> \in Seq(E) /\ InOrder(<<>>) /\ Len(<<>>) = 0
    BY DEF InOrder
  <2>2. Start.i = 1 /\ Start.j = 1 /\ Start.list = <<>>
    BY DEF Start
  <2> QED BY <1>0, <2>1, <2>2 DEF Linked
<1>3. 0 \in T
  BY <1>0, <1>1, <1>2
<1>4. ASSUME NEW k \in 1 .. n, k - 1 \in T PROVE k \in T
  <2>1. Linked(E, out, late, f[k - 1], k - 1)
    BY <1>4
  <2>2. Linked(E, out, late, Link(out, late, f[k - 1]), k)
    BY <2>1, LinkKeeps
  <2>3. k \in 0 .. n
    BY <1>0
  <2> QED BY <1>1, <2>2, <2>3
<1>5. \A k \in 0 .. n : k \in T
  <2> HIDE DEF n, T
  <2> QED BY <1>0, <1>3, <1>4, Upwards
<1>6. ASSUME NEW S
      PROVE  IsCounted(out, late, f[n], S)
  <2> DEFINE U == {k \in 0 .. n : IsCounted(out, late, f[k], S)}
  <2>1. 0 \in U
    <3>1. Count(<<>>, S) = 0 /\ CountTo(out, 0, S) = 0 /\ CountTo(late, 0, S) = 0
      BY CountEmpty, CountToNext
    <3>2. Start.i - 1 = 0 /\ Start.j - 1 = 0 /\ Start.list = <<>>
      BY DEF Start
    <3>3. IsCounted(out, late, Start, S)
      BY <3>1, <3>2 DEF IsCounted
    <3> QED BY <1>0, <1>1, <3>3
  <2>2. ASSUME NEW k \in 1 .. n, k - 1 \in U PROVE k \in U
    <3>1. Linked(E, out, late, f[k - 1], k - 1) /\ IsCounted(out, late, f[k - 1], S)
      BY <1>0, <1>5, <2>2
    <3>2. IsCounted(out, late, Link(out, late, f[k - 1]), S)
      BY <3>1, LinkKeeps
    <3>3. k \in 0 .. n
      BY <1>0
    <3> QED BY <1>1, <3>2, <3>3
  <2> HIDE DEF n, U
  <2>3. \A k \in 0 .. n : k \in U
    BY <1>0, <2>1, <2>2, Upwards
  <2>4. n \in 0 .. n
    BY <1>0
  <2>5. n \in U
    BY <2>3, <2>4
  <2> QED BY <2>5 DEF U
<1>7. Linked(E, out, late, f[n], n)
  BY <1>0, <1>5
<1>8. f[n].i - 1 = Len(out) /\ f[n].j - 1 = Len(late)
  <2> DEFINE i == f[n].i
             j == f[n].j
             a == Len(out)
             b == Len(late)
  <2>1. i \in 1 .. a + 1 /\ j \in 1 .. b + 1 /\ i + j = (a + b) + 2
    BY <1>7 DEF Linked
  <2> HIDE DEF i, j, a, b
  <2>2. i - 1 = a /\ j - 1 = b
    BY <1>0, <2>1 DEF a, b
  <2> QED BY <2>2 DEF i, j, a, b
<1>9. \A S : CountTo(out, Len(out), S) = Count(out, S) /\ CountTo(late, Len(late), S) = Count(late, S)
  BY CountToAll
<1> HIDE DEF n
<1>10. ASSUME NEW S PROVE Count(f[n].list, S) = Count(out, S) + Count(late, S)
  BY <1>6, <1>8, <1>9 DEF IsCounted
<1>11. /\ f[n].list \in Seq(E)
       /\ InOrder(out) /\ InOrder(late) => InOrder(f[n].list)
  BY <1>7 DEF Linked
<1> QED BY <1>10, <1>11 DEF n, Result, IsMerged

(* The loop has such states. *)
LEMMA LoopExists ==
  ASSUME NEW E, NEW out \in Seq(E), NEW late \in Seq(E)
  PROVE  \E f : IsLoop(f, out, late)
<1> DEFINE n == Len(out) + Len(late)
           U == {out[k] : k \in Nat} \cup {late[k] : k \in Nat}
           M == [i : Nat, j : Nat, list : Seq(U)]
           h == [x \in (1 .. n) \X M |-> Link(out, late, x[2])]
<1>0. n \in Nat
  OBVIOUS
<1>1. ASSUME NEW m \in M PROVE Link(out, late, m) \in M
  <2>1. out[m.i] \in U /\ late[m.j] \in U /\ m.list \in Seq(U) /\ m.i \in Nat /\ m.j \in Nat
    OBVIOUS
  <2> HIDE DEF U
  <2>2. Append(m.list, out[m.i]) \in Seq(U) /\ Append(m.list, late[m.j]) \in Seq(U)
    BY <2>1, AppendProperties
  <2> QED BY <2>1, <2>2 DEF Link
<1>2. IsStep(h, n, M)
  <2> HIDE DEF M, n
  <2>1. \A x \in (1 .. n) \X M : Link(out, late, x[2]) \in M
    BY <1>1
  <2> QED BY <2>1 DEF IsStep
<1>3. Start \in M
  <2>1. <<>> \in Seq(U)
    OBVIOUS
  <2> HIDE DEF U
  <2> QED BY <2>1 DEF Start
<1>4. PICK f : IsIterated(f, n, M, Start, h)
  <2> HIDE DEF h, n, M
  <2> QED BY <1>0, <1>2, <1>3, Recursion, Zenon
<1>5. /\ f \in [0 .. n -> M]
      /\ f[0] = Start /\ \A k \in 1 .. n : f[k] = h[<<k, f[k - 1]>>]
  <2> HIDE DEF h, n, M
  <2> QED BY <1>4, Zenon DEF IsIterated
<1>6. ASSUME NEW k \in 0 .. n
      PROVE  f[k] = IF k = 0 THEN Start ELSE Link(out, late, f[k - 1])
  <2> HIDE DEF M, n
  <2>1. CASE k = 0
    BY <1>5, <2>1
  <2>2. CASE k # 0
    <3>1. k \in 1 .. n /\ k - 1 \in 0 .. n
      BY <1>0, <2>2
    <3>2. f[k - 1] \in M /\ <<k, f[k - 1]>> \in (1 .. n) \X M
      BY <1>5, <3>1
    <3>3. h[<<k, f[k - 1]>>] = Link(out, late, f[k - 1])
      BY <3>2
    <3> QED BY <1>5, <2>2, <3>1, <3>3
  <2> QED BY <2>1, <2>2
<1>7. f = [k \in 0 .. n |-> IF k = 0 THEN Start ELSE Link(out, late, f[k - 1])]
  <2> HIDE DEF M, n, h
  <2> QED BY <1>5, <1>6
<1> QED BY <1>7 DEF IsLoop

(* phrmerge(): both phrases come out, and in order if they came in so and the
   delay is no advance.                                                      *)
LEMMA Merges ==
  ASSUME NEW E, IsNotes(E), NEW p \in Seq(E), NEW out \in Seq(E), NEW offset \in Int,
         Shifted(p, offset) \in Seq(E)
  PROVE  LET r == Phrmerge(p, out, offset)
         IN  /\ r \in Seq(E)
             /\ InOrder(p) /\ InOrder(out) /\ offset >= 0 => InOrder(r)
             /\ \A S : Count(r, S) = Count(out, S) + Count(Shifted(p, offset), S)
<1> DEFINE late == Shifted(p, offset)
           r == Phrmerge(p, out, offset)
           short == p # <<>> /\ out # <<>> /\ Before(Last(out), p[1])
<1>0. /\ late \in Seq(E) /\ Len(late) = Len(p) /\ Len(p) \in Nat /\ Len(out) \in Nat
      /\ InOrder(p) => InOrder(late)
      /\ \A i \in 1 .. Len(p) : offset >= 0 => ~Before(late[i], p[i])
  BY ShiftKeeps
<1>1. CASE short
  <2>1. r = out \o late
    BY <1>1, Zenon DEF Phrmerge
  <2>2. r \in Seq(E) /\ \A S : Count(r, S) = Count(out, S) + Count(late, S)
    <3> HIDE DEF late, r
    <3>1. out \o late \in Seq(E)
      BY <1>0, ConcatProperties
    <3>2. \A S : Count(out \o late, S) = Count(out, S) + Count(late, S)
      BY <1>0, BothCounted
    <3> QED BY <2>1, <3>1, <3>2
  <2>3. ASSUME InOrder(p), InOrder(out), offset >= 0 PROVE InOrder(r)
    <3> DEFINE m == Len(out)
    <3> HIDE DEF late, r
    <3>1. /\ r \in Seq(E) /\ Len(r) = m + Len(late)
          /\ \A i \in 1 .. m + Len(late) : r[i] = IF i <= m THEN out[i] ELSE late[i - m]
      <4>1. LET c == out \o late
            IN  /\ c \in Seq(E) /\ Len(c) = Len(out) + Len(late)
                /\ \A i \in 1 .. Len(out) + Len(late) :
                     c[i] = IF i <= Len(out) THEN out[i] ELSE late[i - Len(out)]
        BY <1>0, ConcatProperties, Zenon
      <4> QED BY <2>1, <4>1, Zenon DEF m
    <3>2. \A i, j \in 1 .. m : i < j => ~Before(out[j], out[i])
      BY <2>3, OrderIs
    <3>3. \A i, j \in 1 .. Len(late) : i < j => ~Before(late[j], late[i])
      BY <1>0, <2>3, OrderIs
    <3>4. /\ m \in 1 .. m /\ 1 \in 1 .. Len(p) /\ Before(out[m], p[1])
          /\ out[m] \in E /\ p[1] \in E
          /\ \A i \in 1 .. m : out[i] \in E
          /\ \A i \in 1 .. Len(late) : late[i] \in E
      <4>1. m # 0 /\ Len(p) # 0
        BY <1>1
      <4>2. Before(out[m], p[1])
        BY <1>1 DEF Last
      <4>3. \A s \in Seq(E) : \A x \in 1 .. Len(s) : s[x] \in E
        OBVIOUS
      <4> QED BY <1>0, <4>1, <4>2, <4>3
    <3>5. ASSUME NEW i \in 1 .. m, NEW j \in 1 .. Len(late) PROVE ~Before(late[j], out[i])
      <4>1. 1 \in 1 .. Len(late) /\ late[1] \in E /\ late[j] \in E /\ out[i] \in E
        BY <1>0, <3>4
      <4>2. i = m \/ ~Before(out[m], out[i])
        BY <1>0, <3>2, <3>4
      <4>3. ~Before(p[1], out[m])
        BY <3>4, BeforeOrders
      <4>4. ~Before(p[1], out[i])
        BY <3>4, <4>1, <4>2, <4>3, BeforeOrders
      <4>5. ~Before(late[1], p[1])
        BY <1>0, <2>3, <3>4
      <4>6. ~Before(late[1], out[i])
        BY <3>4, <4>1, <4>4, <4>5, BeforeOrders
      <4>7. j = 1 \/ ~Before(late[j], late[1])
        BY <1>0, <3>3, <4>1
      <4> QED BY <4>1, <4>6, <4>7, BeforeOrders
    <3>6. ASSUME NEW i \in 1 .. Len(r), NEW j \in 1 .. Len(r), i < j PROVE ~Before(r[j], r[i])
      <4>1. CASE j <= m
        <5>1. i \in 1 .. m /\ j \in 1 .. m /\ r[i] = out[i] /\ r[j] = out[j]
          BY <1>0, <3>1, <3>6, <4>1
        <5> QED BY <3>2, <3>6, <5>1
      <4>2. CASE i <= m /\ j > m
        <5>1. i \in 1 .. m /\ j - m \in 1 .. Len(late) /\ r[i] = out[i] /\ r[j] = late[j - m]
          BY <1>0, <3>1, <4>2
        <5> QED BY <3>5, <5>1
      <4>3. CASE i > m
        <5>1. /\ i - m \in 1 .. Len(late) /\ j - m \in 1 .. Len(late) /\ i - m < j - m
              /\ r[i] = late[i - m] /\ r[j] = late[j - m]
          BY <1>0, <3>1, <3>6, <4>3
        <5> QED BY <3>3, <5>1
      <4> QED BY <1>0, <3>6, <4>1, <4>2, <4>3
    <3> QED BY <3>1, <3>6, OrderIs
  <2> HIDE DEF late, r
  <2> QED BY <2>2, <2>3 DEF late, r
<1>2. CASE ~short
  <2> DEFINE f == CHOOSE g : IsLoop(g, out, late)
  <2>1. IsLoop(f, out, late)
    <3> HIDE DEF late
    <3>1. \E g : IsLoop(g, out, late)
      BY <1>0, LoopExists
    <3> QED BY <3>1, Zenon
  <2>2. r = Result(f, out, late)
    BY <1>2, Zenon DEF Phrmerge, IsLoop, Link, UseOut, Start, Result
  <2> HIDE DEF f, late, r
  <2>3. IsMerged(E, out, late, Result(f, out, late))
    BY <1>0, <2>1, LoopMerges, Zenon
  <2> QED BY <1>0, <2>2, <2>3 DEF late, r, IsMerged
<1> QED BY <1>1, <1>2

-----------------------------------------------------------------------------
(* phrop(): which notes of a phrase are also in another one. *)

(* The notes differ in what is compared. *)
IsExact(E) ==
  \A a, b \in E :
    a.time = b.time /\ a.type = b.type /\ a.pitch = b.pitch /\ a.dur = b.dur => a = b

LEMMA SameIs ==
  ASSUME NEW E, IsExact(E), NEW a \in E, NEW b \in E
  PROVE  Same(a, b) <=> a = b
<1>1. Same(a, b) <=> a.time = b.time /\ a.type = b.type /\ a.pitch = b.pitch /\ a.dur = b.dur
  BY DEF Same, XactKey
<1>2. (a.time = b.time /\ a.type = b.type /\ a.pitch = b.pitch /\ a.dur = b.dur) => a = b
  BY DEF IsExact
<1> QED BY <1>1, <1>2

(* XactBefore, without sequences. *)
XactEarlier(a, b) ==
  \/ a.time < b.time
  \/ /\ a.time = b.time
     /\ \/ a.type < b.type
        \/ /\ a.type = b.type
           /\ a.pitch < b.pitch \/ (a.pitch = b.pitch /\ a.dur < b.dur)

LEMMA XactBeforeIs ==
  ASSUME NEW E, IsNotes(E), NEW a \in E, NEW b \in E
  PROVE  XactBefore(a, b) <=> XactEarlier(a, b)
<1> DEFINE ka == XactKey(a)
           kb == XactKey(b)
           D == DOMAIN ka \cap DOMAIN kb
<1>1. /\ ka[1] = a.time /\ ka[2] = a.type /\ ka[3] = a.pitch /\ ka[4] = a.dur
      /\ kb[1] = b.time /\ kb[2] = b.type /\ kb[3] = b.pitch /\ kb[4] = b.dur
      /\ DOMAIN ka = 1 .. 4 /\ DOMAIN kb = 1 .. 4
  BY DEF XactKey
<1> HIDE DEF ka, kb
<1>2. XactBefore(a, b) <=> \E i \in D : ka[i] < kb[i] /\ \A j \in 1 .. i - 1 : ka[j] = kb[j]
  BY Zenon DEF XactBefore, Lexicographic, ka, kb
<1>3. D = 1 .. 4
  BY <1>1
<1>4. XactBefore(a, b) <=> \/ ka[1] < kb[1]
                           \/ ka[2] < kb[2] /\ ka[1] = kb[1]
                           \/ ka[3] < kb[3] /\ ka[1] = kb[1] /\ ka[2] = kb[2]
                           \/ ka[4] < kb[4] /\ ka[1] = kb[1] /\ ka[2] = kb[2] /\ ka[3] = kb[3]
  BY <1>2, <1>3
<1> QED BY <1>1, <1>4 DEF XactEarlier

(* Messages of one time: their order does not count. *)
AtOneTime(a, b) == IsBytes(a) /\ IsBytes(b) /\ a.time = b.time

LEMMA XactOrders ==
  ASSUME NEW E, IsNotes(E), NEW a \in E, NEW b \in E, ~AtOneTime(a, b)
  PROVE  /\ XactBefore(a, b) => Before(a, b)
         /\ ~XactBefore(a, b) /\ ~XactBefore(b, a) => Same(a, b)
<1>1. /\ a.time \in Int /\ a.type \in Int /\ a.pitch \in Int /\ a.dur \in Int
      /\ b.time \in Int /\ b.type \in Int /\ b.pitch \in Int /\ b.dur \in Int
  BY DEF IsNotes
<1>2. /\ XactBefore(a, b) <=> XactEarlier(a, b)
      /\ XactBefore(b, a) <=> XactEarlier(b, a)
      /\ Before(a, b) <=> Earlier(a, b)
  BY XactBeforeIs, BeforeIs
<1>3. XactEarlier(a, b) => Earlier(a, b)
  BY <1>1 DEF XactEarlier, Earlier, AtOneTime, IsBytes
<1>4. ~XactEarlier(a, b) /\ ~XactEarlier(b, a)
        => a.time = b.time /\ a.type = b.type /\ a.pitch = b.pitch /\ a.dur = b.dur
  BY <1>1 DEF XactEarlier
<1> QED BY <1>2, <1>3, <1>4 DEF Same, XactKey

(* At how many of the places in I the list q has n. *)
Of(q, I, n) == Cardinality({k \in I : q[k] = n})

LEMMA OfMore ==
  ASSUME NEW q, NEW n, NEW I, IsFiniteSet(I)
  PROVE  /\ Of(q, I, n) \in Nat
         /\ Of(q, I, n) = 0 <=> \A k \in I : q[k] # n
         /\ \A x : x \notin I => Of(q, I \cup {x}, n) = Of(q, I, n) + (IF q[x] = n THEN 1 ELSE 0)
<1> DEFINE A == {k \in I : q[k] = n}
<1>1. IsFiniteSet(A) /\ Cardinality(A) \in Nat
  <2>1. A \in SUBSET I
    OBVIOUS
  <2> HIDE DEF A
  <2> QED BY <2>1, FS_Subset, FS_CardinalityType
<1>2. Cardinality(A) = 0 <=> A = {}
  <2> HIDE DEF A
  <2> QED BY <1>1, FS_EmptySet
<1>3. ASSUME NEW x, x \notin I
      PROVE  Of(q, I \cup {x}, n) = Of(q, I, n) + (IF q[x] = n THEN 1 ELSE 0)
  <2> DEFINE B == {k \in I \cup {x} : q[k] = n}
  <2>1. B = (IF q[x] = n THEN A \cup {x} ELSE A) /\ x \notin A
    BY <1>3
  <2>2. Of(q, I \cup {x}, n) = Cardinality(B) /\ Of(q, I, n) = Cardinality(A)
    BY Zenon DEF Of
  <2> HIDE DEF A, B
  <2>3. Cardinality(A \cup {x}) = Cardinality(A) + 1
    BY <1>1, <2>1, FS_AddElement
  <2> QED BY <1>1, <2>1, <2>2, <2>3
<1>4. Of(q, I, n) = Cardinality(A)
  BY Zenon DEF Of
<1> QED BY <1>1, <1>2, <1>3, <1>4

LEMMA OfBoth ==
  ASSUME NEW q, NEW n, NEW I, NEW J, IsFiniteSet(I), IsFiniteSet(J), I \cap J = {}
  PROVE  IsFiniteSet(I \cup J) /\ Of(q, I \cup J, n) = Of(q, I, n) + Of(q, J, n)
<1> DEFINE A == {k \in I : q[k] = n}
           B == {k \in J : q[k] = n}
           C == {k \in I \cup J : q[k] = n}
<1>1. IsFiniteSet(A) /\ IsFiniteSet(B)
  <2>1. A \in SUBSET I /\ B \in SUBSET J
    OBVIOUS
  <2> HIDE DEF A, B
  <2> QED BY <2>1, FS_Subset
<1>2. C = A \cup B /\ A \cap B = {}
  OBVIOUS
<1>3. Of(q, I \cup J, n) = Cardinality(C) /\ Of(q, I, n) = Cardinality(A)
      /\ Of(q, J, n) = Cardinality(B)
  BY Zenon DEF Of
<1>4. IsFiniteSet(I \cup J)
  BY FS_Union
<1> HIDE DEF A, B, C
<1>5. Cardinality(A \cup B) = Cardinality(A) + Cardinality(B) - 0
  BY <1>1, <1>2, FS_Union, FS_EmptySet
<1>6. Cardinality(A) \in Nat /\ Cardinality(B) \in Nat
  BY <1>1, FS_CardinalityType
<1> QED BY <1>2, <1>3, <1>4, <1>5, <1>6

(* The places from i to m, those to e and those behind it. *)
Splits(q, n, i, e, m) ==
  /\ Of(q, i .. m, n) = Of(q, i .. e, n) + Of(q, e + 1 .. m, n)
  /\ IsFiniteSet(i .. m) /\ IsFiniteSet(i .. e) /\ IsFiniteSet(e + 1 .. m)
  /\ Of(q, i .. m, n) \in Nat /\ Of(q, i .. e, n) \in Nat /\ Of(q, e + 1 .. m, n) \in Nat

LEMMA OfSplit ==
  ASSUME NEW q, NEW n, NEW i \in Int, NEW e \in Int, NEW m \in Int, i <= e + 1, e <= m
  PROVE  Splits(q, n, i, e, m)
<1>1. IsFiniteSet(i .. m) /\ IsFiniteSet(i .. e) /\ IsFiniteSet(e + 1 .. m)
  BY FS_Interval
<1>2. (i .. e) \cup (e + 1 .. m) = i .. m /\ (i .. e) \cap (e + 1 .. m) = {}
  OBVIOUS
<1>3. Of(q, i .. m, n) = Of(q, i .. e, n) + Of(q, e + 1 .. m, n)
  <2> DEFINE I == i .. e
             J == e + 1 .. m
  <2>1. IsFiniteSet(I) /\ IsFiniteSet(J) /\ I \cap J = {} /\ I \cup J = i .. m
    BY <1>1, <1>2
  <2> HIDE DEF I, J
  <2>2. Of(q, I \cup J, n) = Of(q, I, n) + Of(q, J, n)
    BY <2>1, OfBoth
  <2> QED BY <2>1, <2>2 DEF I, J
<1>4. \A I : IsFiniteSet(I) => Of(q, I, n) \in Nat
  BY OfMore
<1> QED BY <1>1, <1>3, <1>4 DEF Splits

(* A run of messages of one time, which has all of them that come. *)
LEMMA RunIs ==
  ASSUME NEW E, IsNotes(E), NEW q \in Seq(E), InOrder(q), NEW i \in 1 .. Len(q), IsBytes(q[i])
  PROVE  /\ RunEnd(q, i) \in i .. Len(q)
         /\ \A k \in i .. RunEnd(q, i) : AtOneTime(q[i], q[k])
         /\ \A k \in RunEnd(q, i) + 1 .. Len(q) : ~AtOneTime(q[i], q[k])
<1> DEFINE other == {k \in i .. Len(q) : ~IsBytes(q[k]) \/ q[k].time # q[i].time}
           e == RunEnd(q, i)
<1>1. Len(q) \in Nat /\ i \in Nat /\ i <= Len(q) /\ \A k \in 1 .. Len(q) : q[k] \in E
  OBVIOUS
<1>2. e = IF other = {} THEN Len(q) ELSE Min(other) - 1
  BY Zenon DEF RunEnd
<1>3. CASE other = {}
  <2>1. e = Len(q)
    BY <1>2, <1>3
  <2>2. \A k \in i .. Len(q) : AtOneTime(q[i], q[k])
    BY <1>3 DEF AtOneTime
  <2>3. RunEnd(q, i) + 1 .. Len(q) = {}
    BY <1>1, <2>1
  <2> QED BY <1>1, <2>1, <2>2, <2>3
<1>4. CASE other # {}
  <2> DEFINE m == Min(other)
  <2>1. m \in other /\ \A k \in other : m <= k
    <3>1. other \in SUBSET Nat /\ IsFiniteSet(other)
      <4>1. IsFiniteSet(i .. Len(q)) /\ other \in SUBSET (i .. Len(q))
        BY <1>1, FS_Interval
      <4>2. IsFiniteSet(other)
        BY <4>1, FS_Subset
      <4> QED BY <1>1, <4>2
    <3> HIDE DEF other
    <3> QED BY <1>4, <3>1, MinIs
  <2> HIDE DEF m
  <2>2. m \in i + 1 .. Len(q) /\ ~AtOneTime(q[i], q[m])
    <3>1. i \notin other
      OBVIOUS
    <3> QED BY <1>1, <2>1, <3>1 DEF AtOneTime
  <2>3. e = m - 1
    BY <1>2, <1>4 DEF m
  <2>4. \A k \in i .. m - 1 : AtOneTime(q[i], q[k])
    <3>1. \A k \in i .. m - 1 : k \in i .. Len(q) /\ k \notin other
      BY <1>1, <2>1, <2>2
    <3> QED BY <3>1 DEF AtOneTime
  <2>5. ASSUME NEW k \in m .. Len(q) PROVE ~AtOneTime(q[i], q[k])
    <3>1. q[i] \in E /\ q[m] \in E /\ q[k] \in E /\ k \in 1 .. Len(q) /\ m \in 1 .. Len(q)
      BY <1>1, <2>2
    <3>2. \A x, y \in 1 .. Len(q) : x < y => ~Before(q[y], q[x])
      BY OrderIs
    <3>3. ~Before(q[m], q[i]) /\ (k = m \/ ~Before(q[k], q[m]))
      BY <1>1, <2>2, <3>1, <3>2
    <3>4. ~Earlier(q[m], q[i]) /\ (k = m \/ ~Earlier(q[k], q[m]))
      BY <3>1, <3>3, BeforeIs
    <3> DEFINE a == q[i]
               b == q[m]
               c == q[k]
    <3>5. /\ a.time \in Int /\ a.type \in Int /\ b.time \in Int /\ b.type \in Int
          /\ c.time \in Int /\ c.type \in Int
      BY <3>1 DEF IsNotes
    <3>6. ~Earlier(b, a) /\ ~AtOneTime(a, b) /\ IsBytes(a) /\ (c = b \/ ~Earlier(c, b))
      BY <2>2, <3>4
    <3> HIDE DEF a, b, c
    <3>7. ~AtOneTime(a, c)
      BY <3>5, <3>6 DEF AtOneTime, Earlier, IsBytes
    <3> QED BY <3>7 DEF a, c
  <2> QED BY <1>1, <2>2, <2>3, <2>4, <2>5
<1> QED BY <1>3, <1>4

Lesser(a, b) == IF a <= b THEN a ELSE b

LEMMA LesserMore ==
  ASSUME NEW c \in Nat, NEW u \in Nat, NEW r \in Nat, u = Lesser(c, u + r)
  PROVE  /\ r = 0 => u = Lesser(c + 1, u + r)
         /\ r # 0 => u + 1 = Lesser(c + 1, u + r)
BY DEF Lesser

(* Matched(): one turn for the place k of p1, and its states. *)
Free(p1, p2, j, to, k, used) == {m \in (j .. to) \ used : Same(p1[k], p2[m])}

Look(p1, i, p2, j, to, m, k) ==
  IF k < i \/ Free(p1, p2, j, to, k, m.used) = {} THEN m
  ELSE [found |-> m.found \cup {k},
        used |-> m.used \cup {Min(Free(p1, p2, j, to, k, m.used))}]

NonePaired == [found |-> {}, used |-> {}]

IsMatch(f, p1, i, from, p2, j, to) ==
  f = [k \in 0 .. from |->
        IF k = 0 THEN NonePaired ELSE Look(p1, i, p2, j, to, f[k - 1], k)]

Found(f, from) == f[from].found

(* What holds when the places up to k are done. *)
Paired(p1, i, p2, j, to, m, k) ==
  /\ m.found \subseteq i .. k /\ m.used \subseteq j .. to
  /\ \A n : /\ Of(p1, m.found, n) = Of(p2, m.used, n)
            /\ Of(p1, m.found, n) = Lesser(Of(p1, i .. k, n), Of(p2, j .. to, n))

LEMMA LookKeeps ==
  ASSUME NEW E, IsExact(E), NEW p1 \in Seq(E), NEW p2 \in Seq(E), NEW i \in 1 .. Len(p1),
         NEW j \in 1 .. Len(p2), NEW to \in 0 .. Len(p2), NEW k \in 1 .. Len(p1), NEW m,
         Paired(p1, i, p2, j, to, m, k - 1)
  PROVE  Paired(p1, i, p2, j, to, Look(p1, i, p2, j, to, m, k), k)
<1> DEFINE F == Free(p1, p2, j, to, k, m.used)
           J == j .. to
           R == J \ m.used
           a == p1[k]
<1>0. i \in Nat /\ j \in Nat /\ to \in Nat /\ k \in Nat /\ i >= 1 /\ j >= 1 /\ k >= 1
  OBVIOUS
<1>1. /\ m.found \subseteq i .. k - 1 /\ m.used \subseteq J
      /\ \A n : /\ Of(p1, m.found, n) = Of(p2, m.used, n)
                /\ Of(p1, m.found, n) = Lesser(Of(p1, i .. k - 1, n), Of(p2, J, n))
  BY DEF Paired
<1>2. /\ IsFiniteSet(J) /\ IsFiniteSet(i .. k - 1) /\ IsFiniteSet(m.found)
      /\ IsFiniteSet(m.used) /\ IsFiniteSet(R)
  <2>1. IsFiniteSet(J) /\ IsFiniteSet(i .. k - 1)
    BY <1>0, FS_Interval
  <2> HIDE DEF J
  <2> QED BY <1>1, <2>1, FS_Subset
<1>3. CASE k < i
  <2>1. Look(p1, i, p2, j, to, m, k) = m
    BY <1>3 DEF Look
  <2>2. i .. k = {} /\ i .. k - 1 = {}
    BY <1>0, <1>3
  <2> QED BY <2>1, <2>2 DEF Paired
<1>4. CASE ~(k < i)
  <2>1. /\ i .. k = (i .. k - 1) \cup {k} /\ k \notin i .. k - 1 /\ k \notin m.found
    BY <1>0, <1>1, <1>4
  <2>2. a \in E /\ \A x \in J : p2[x] \in E
    BY <1>0
  <2>3. F = {x \in R : p2[x] = a}
    <3>1. \A x \in J : Same(a, p2[x]) <=> a = p2[x]
      BY <2>2, SameIs
    <3>2. F = {x \in R : Same(a, p2[x])}
      BY Zenon DEF Free
    <3> HIDE DEF F, J, a
    <3> QED BY <3>1, <3>2
  <2>4. ASSUME NEW n
        PROVE  /\ Of(p1, i .. k, n) = Of(p1, i .. k - 1, n) + (IF a = n THEN 1 ELSE 0)
               /\ Of(p1, m.found \cup {k}, n) = Of(p1, m.found, n) + (IF a = n THEN 1 ELSE 0)
               /\ Of(p2, J, n) = Of(p2, m.used, n) + Of(p2, R, n)
               /\ Of(p1, i .. k - 1, n) \in Nat /\ Of(p1, m.found, n) \in Nat
               /\ Of(p2, m.used, n) \in Nat /\ Of(p2, R, n) \in Nat
               /\ (a = n) => (Of(p2, R, n) = 0 <=> F = {})
    <3>1. /\ Of(p1, (i .. k - 1) \cup {k}, n) = Of(p1, i .. k - 1, n) + (IF a = n THEN 1 ELSE 0)
          /\ Of(p1, i .. k - 1, n) \in Nat
      <4> DEFINE I == i .. k - 1
      <4>1. IsFiniteSet(I) /\ k \notin I
        BY <1>2, <2>1
      <4> HIDE DEF I, a
      <4>2. /\ Of(p1, I \cup {k}, n) = Of(p1, I, n) + (IF p1[k] = n THEN 1 ELSE 0)
            /\ Of(p1, I, n) \in Nat
        BY <4>1, OfMore
      <4> QED BY <4>2 DEF I, a
    <3>2. /\ Of(p1, m.found \cup {k}, n) = Of(p1, m.found, n) + (IF a = n THEN 1 ELSE 0)
          /\ Of(p1, m.found, n) \in Nat /\ Of(p2, m.used, n) \in Nat
      BY <1>2, <2>1, OfMore
    <3>3. Of(p2, R, n) \in Nat /\ (Of(p2, R, n) = 0 <=> \A x \in R : p2[x] # n)
      BY <1>2, OfMore
    <3>4. Of(p2, J, n) = Of(p2, m.used, n) + Of(p2, R, n)
      <4>1. m.used \cup R = J /\ m.used \cap R = {}
        BY <1>1
      <4>2. Of(p2, m.used \cup R, n) = Of(p2, m.used, n) + Of(p2, R, n)
        <5> HIDE DEF R
        <5> QED BY <1>2, <4>1, OfBoth
      <4> QED BY <4>1, <4>2
    <3>5. (a = n) => (Of(p2, R, n) = 0 <=> F = {})
      <4> HIDE DEF F, R, a
      <4> QED BY <2>3, <3>3
    <3> QED BY <2>1, <3>1, <3>2, <3>3, <3>4, <3>5
  <2>5. CASE F = {}
    <3>1. Look(p1, i, p2, j, to, m, k) = m
      BY <2>5 DEF Look
    <3>2. ASSUME NEW n
          PROVE  Of(p1, m.found, n) = Lesser(Of(p1, i .. k, n), Of(p2, J, n))
      <4> DEFINE c == Of(p1, i .. k - 1, n)
                 d == Of(p1, i .. k, n)
                 u == Of(p1, m.found, n)
                 r == Of(p2, R, n)
                 s == Of(p2, J, n)
      <4> HIDE DEF F, J, R, a
      <4>1. /\ c \in Nat /\ u \in Nat /\ r \in Nat /\ s = u + r /\ u = Lesser(c, s)
            /\ d = c + (IF a = n THEN 1 ELSE 0) /\ (a = n => r = 0)
        BY <1>1, <2>4, <2>5
      <4> HIDE DEF c, d, u, r, s
      <4>2. u = Lesser(d, s)
        <5>1. CASE a = n
          BY <4>1, <5>1, LesserMore
        <5>2. CASE a # n
          BY <4>1, <5>2
        <5> QED BY <5>1, <5>2
      <4> QED BY <4>2 DEF d, u, s
    <3>3. m.found \subseteq i .. k
      BY <1>1, <2>1
    <3> QED BY <1>1, <3>1, <3>2, <3>3 DEF Paired
  <2>6. CASE F # {}
    <3> DEFINE b == Min(F)
               l == Look(p1, i, p2, j, to, m, k)
    <3>1. b \in R /\ p2[b] = a
      <4>1. F \in SUBSET Nat /\ IsFiniteSet(F) /\ F \in SUBSET R
        <5>1. R \in SUBSET Nat
          BY <1>0
        <5> HIDE DEF R, a, F
        <5>2. F \in SUBSET R
          BY <2>3
        <5> QED BY <1>2, <5>1, <5>2, FS_Subset
      <4>2. b \in F
        <5> HIDE DEF F
        <5> QED BY <2>6, <4>1, MinIs
      <4> HIDE DEF b, F, R
      <4> QED BY <2>3, <4>2
    <3>2. l.found = m.found \cup {k} /\ l.used = m.used \cup {b}
      BY <1>4, <2>6 DEF Look
    <3>3. ASSUME NEW n
          PROVE  /\ Of(p1, l.found, n) = Of(p2, l.used, n)
                 /\ Of(p1, l.found, n) = Lesser(Of(p1, i .. k, n), Of(p2, J, n))
      <4>1. Of(p2, m.used \cup {b}, n) = Of(p2, m.used, n) + (IF a = n THEN 1 ELSE 0)
        <5>1. b \notin m.used
          BY <3>1
        <5> HIDE DEF b, R, a
        <5> QED BY <1>2, <3>1, <5>1, OfMore
      <4> HIDE DEF F, J, R, a, b, l
      <4>2. Of(p1, l.found, n) = Of(p2, l.used, n)
        BY <1>1, <2>4, <3>2, <4>1
      <4>3. Of(p1, l.found, n) = Lesser(Of(p1, i .. k, n), Of(p2, J, n))
        <5> DEFINE c == Of(p1, i .. k - 1, n)
                   d == Of(p1, i .. k, n)
                   u == Of(p1, m.found, n)
                   v == Of(p1, l.found, n)
                   r == Of(p2, R, n)
                   s == Of(p2, J, n)
        <5>1. /\ c \in Nat /\ u \in Nat /\ r \in Nat /\ s = u + r /\ u = Lesser(c, s)
              /\ d = c + (IF a = n THEN 1 ELSE 0) /\ (a = n => r # 0)
              /\ v = u + (IF a = n THEN 1 ELSE 0)
          BY <1>1, <2>4, <2>6, <3>2
        <5> HIDE DEF c, d, u, v, r, s
        <5>2. v = Lesser(d, s)
          <6>1. CASE a = n
            BY <5>1, <6>1, LesserMore
          <6>2. CASE a # n
            BY <5>1, <6>2
          <6> QED BY <6>1, <6>2
        <5> QED BY <5>2 DEF d, v, s
      <4> QED BY <4>2, <4>3
    <3>4. l.found \subseteq i .. k /\ l.used \subseteq J
      <4>1. b \in J /\ k \in i .. k
        BY <1>0, <1>4, <3>1
      <4> HIDE DEF J, b, l
      <4> QED BY <1>1, <2>1, <3>2, <4>1
    <3> HIDE DEF l
    <3>5. Paired(p1, i, p2, j, to, l, k)
      BY <3>3, <3>4 DEF Paired
    <3> QED BY <3>5 DEF l
  <2> QED BY <2>5, <2>6
<1> QED BY <1>3, <1>4

LEMMA MatchPairs ==
  ASSUME NEW E, IsExact(E), NEW p1 \in Seq(E), NEW p2 \in Seq(E), NEW i \in 1 .. Len(p1),
         NEW j \in 1 .. Len(p2), NEW to \in 0 .. Len(p2), NEW from \in 0 .. Len(p1), NEW f,
         IsMatch(f, p1, i, from, p2, j, to)
  PROVE  Paired(p1, i, p2, j, to, f[from], from)
<1> DEFINE T == {k \in 0 .. from : Paired(p1, i, p2, j, to, f[k], k)}
<1>0. from \in Nat /\ i \in Nat /\ i >= 1 /\ from <= Len(p1) /\ j \in Nat /\ to \in Nat
  OBVIOUS
<1>1. /\ f[0] = NonePaired
      /\ \A k \in 1 .. from : f[k] = Look(p1, i, p2, j, to, f[k - 1], k)
  BY <1>0, SMTT(30) DEF IsMatch
<1>2. Paired(p1, i, p2, j, to, NonePaired, 0)
  <2>1. i .. 0 = {} /\ IsFiniteSet({}) /\ IsFiniteSet(j .. to)
    BY <1>0, FS_Interval, FS_EmptySet
  <2>2. ASSUME NEW n
        PROVE  /\ Of(p1, {}, n) = 0 /\ Of(p2, {}, n) = 0
               /\ Of(p2, j .. to, n) \in Nat
    BY <2>1, OfMore
  <2>3. \A n : 0 = Lesser(0, Of(p2, j .. to, n))
    BY <2>2 DEF Lesser
  <2>4. NonePaired.found = {} /\ NonePaired.used = {}
    BY DEF NonePaired
  <2> QED BY <2>1, <2>2, <2>3, <2>4 DEF Paired
<1>3. 0 \in T
  BY <1>0, <1>1, <1>2
<1>4. ASSUME NEW k \in 1 .. from, k - 1 \in T PROVE k \in T
  <2>1. Paired(p1, i, p2, j, to, f[k - 1], k - 1) /\ k \in 1 .. Len(p1)
    BY <1>0, <1>4
  <2>2. Paired(p1, i, p2, j, to, Look(p1, i, p2, j, to, f[k - 1], k), k)
    BY <2>1, LookKeeps
  <2>3. k \in 0 .. from
    BY <1>0
  <2> QED BY <1>1, <2>2, <2>3
<1> HIDE DEF T
<1>5. \A k \in 0 .. from : k \in T
  BY <1>0, <1>3, <1>4, Upwards
<1>6. from \in 0 .. from
  BY <1>0
<1>7. from \in T
  BY <1>5, <1>6
<1> QED BY <1>7 DEF T

LEMMA MatchExists ==
  ASSUME NEW p1, NEW i, NEW from \in Nat, NEW p2, NEW j \in Nat, NEW to \in Nat
  PROVE  \E f : IsMatch(f, p1, i, from, p2, j, to)
<1> DEFINE M == [found : SUBSET Nat, used : SUBSET Nat]
           h == [x \in (1 .. from) \X M |-> Look(p1, i, p2, j, to, x[2], x[1])]
<1>1. ASSUME NEW m \in M, NEW k \in 1 .. from PROVE Look(p1, i, p2, j, to, m, k) \in M
  <2> DEFINE F == Free(p1, p2, j, to, k, m.used)
  <2>1. CASE k < i \/ F = {}
    BY <2>1 DEF Look
  <2>2. CASE ~(k < i \/ F = {})
    <3>1. F \in SUBSET (j .. to) /\ IsFiniteSet(F) /\ F \in SUBSET Nat
      <4>1. F \in SUBSET (j .. to)
        BY DEF Free
      <4>2. IsFiniteSet(j .. to) /\ j .. to \in SUBSET Nat
        BY FS_Interval
      <4> HIDE DEF F
      <4> QED BY <4>1, <4>2, FS_Subset
    <3>2. Min(F) \in Nat
      <4> HIDE DEF F
      <4> QED BY <2>2, <3>1, MinIs
    <3>3. Look(p1, i, p2, j, to, m, k) = [found |-> m.found \cup {k}, used |-> m.used \cup {Min(F)}]
      BY <2>2 DEF Look
    <3> HIDE DEF F
    <3> QED BY <3>2, <3>3
  <2> QED BY <2>1, <2>2
<1>2. IsStep(h, from, M)
  <2> HIDE DEF M
  <2>1. \A x \in (1 .. from) \X M : Look(p1, i, p2, j, to, x[2], x[1]) \in M
    BY <1>1
  <2> QED BY <2>1 DEF IsStep
<1>3. NonePaired \in M
  BY DEF NonePaired
<1>4. PICK f : IsIterated(f, from, M, NonePaired, h)
  <2> HIDE DEF h, M
  <2> QED BY <1>2, <1>3, Recursion, Zenon
<1>5. /\ f \in [0 .. from -> M]
      /\ f[0] = NonePaired /\ \A k \in 1 .. from : f[k] = h[<<k, f[k - 1]>>]
  <2> HIDE DEF h, M
  <2> QED BY <1>4, Zenon DEF IsIterated
<1>6. ASSUME NEW k \in 0 .. from
      PROVE  f[k] = IF k = 0 THEN NonePaired ELSE Look(p1, i, p2, j, to, f[k - 1], k)
  <2> HIDE DEF M
  <2>1. CASE k = 0
    BY <1>5, <2>1
  <2>2. CASE k # 0
    <3>1. k \in 1 .. from /\ k - 1 \in 0 .. from
      BY <2>2
    <3>2. f[k - 1] \in M /\ <<k, f[k - 1]>> \in (1 .. from) \X M
      BY <1>5, <3>1
    <3>3. h[<<k, f[k - 1]>>] = Look(p1, i, p2, j, to, f[k - 1], k)
      BY <3>2
    <3> QED BY <1>5, <2>2, <3>1, <3>3
  <2> QED BY <2>1, <2>2
<1>7. f = [k \in 0 .. from |-> IF k = 0 THEN NonePaired ELSE Look(p1, i, p2, j, to, f[k - 1], k)]
  <2> HIDE DEF M, h
  <2> QED BY <1>5, <1>6
<1> QED BY <1>7 DEF IsMatch

(* Of the messages of a time each is found as often as both runs have it. *)
LEMMA MatchedIs ==
  ASSUME NEW E, IsNotes(E), IsExact(E), NEW p1 \in Seq(E), NEW p2 \in Seq(E),
         InOrder(p1), InOrder(p2), NEW i \in 1 .. Len(p1), NEW j \in 1 .. Len(p2),
         AtOneTime(p1[i], p2[j])
  PROVE  /\ Matched(p1, i, p2, j) \subseteq i .. RunEnd(p1, i)
         /\ \A n : Of(p1, Matched(p1, i, p2, j), n) =
                     Lesser(Of(p1, i .. RunEnd(p1, i), n), Of(p2, j .. RunEnd(p2, j), n))
<1> DEFINE from == RunEnd(p1, i)
           to == RunEnd(p2, j)
           f == CHOOSE g : IsMatch(g, p1, i, from, p2, j, to)
<1>1. from \in i .. Len(p1) /\ to \in j .. Len(p2)
  BY RunIs DEF AtOneTime
<1>2. from \in 0 .. Len(p1) /\ to \in 0 .. Len(p2) /\ from \in Nat /\ j \in Nat /\ to \in Nat
  <2> HIDE DEF from, to
  <2> QED BY <1>1
<1>3. IsMatch(f, p1, i, from, p2, j, to)
  <2> HIDE DEF from, to
  <2>1. \E g : IsMatch(g, p1, i, from, p2, j, to)
    BY <1>2, MatchExists
  <2> QED BY <2>1, Zenon
<1>4. Matched(p1, i, p2, j) = Found(f, from)
  BY Zenon DEF Matched, IsMatch, Look, Free, NonePaired, Found
<1> HIDE DEF f, from, to
<1>5. Paired(p1, i, p2, j, to, f[from], from)
  BY <1>2, <1>3, MatchPairs
<1> QED BY <1>4, <1>5 DEF Paired, Found, from, to

LEMMA LesserSums ==
  ASSUME NEW a \in Nat, NEW b \in Nat
  PROVE  /\ Lesser(a, b) \in Nat /\ Lesser(0, b) = 0 /\ Lesser(a, 0) = 0
         /\ Lesser(a + 1, b + 1) = 1 + Lesser(a, b)
BY DEF Lesser

(* The place i, and those behind it. *)
OfFirstIs(q, n, i, m) ==
  /\ Of(q, i .. m, n) = (IF q[i] = n THEN 1 ELSE 0) + Of(q, i + 1 .. m, n)
  /\ Of(q, i + 1 .. m, n) \in Nat /\ Of(q, i .. m, n) \in Nat
  /\ Of(q, {i}, n) = IF q[i] = n THEN 1 ELSE 0

LEMMA OfFirst ==
  ASSUME NEW q, NEW n, NEW i \in Int, NEW m \in Int, i <= m
  PROVE  OfFirstIs(q, n, i, m)
<1>1. /\ Of(q, i .. m, n) = Of(q, i .. i, n) + Of(q, i + 1 .. m, n)
      /\ Of(q, i + 1 .. m, n) \in Nat /\ Of(q, i .. m, n) \in Nat
  <2>1. Splits(q, n, i, i, m)
    BY OfSplit
  <2> QED BY <2>1 DEF Splits
<1>2. i .. i = {} \cup {i} /\ i .. i = {i}
  OBVIOUS
<1>3. Of(q, {} \cup {i}, n) = Of(q, {}, n) + (IF q[i] = n THEN 1 ELSE 0) /\ Of(q, {}, n) = 0
  <2> DEFINE I == {}
  <2>1. IsFiniteSet(I) /\ i \notin I /\ \A k \in I : q[k] # n
    BY FS_EmptySet
  <2> HIDE DEF I
  <2>2. Of(q, I \cup {i}, n) = Of(q, I, n) + (IF q[i] = n THEN 1 ELSE 0) /\ Of(q, I, n) = 0
    BY <2>1, OfMore
  <2> QED BY <2>2 DEF I
<1> QED BY <1>1, <1>2, <1>3 DEF OfFirstIs

(* What belongs before a place is not there, nor behind it. *)
LEMMA NotBehind ==
  ASSUME NEW E, IsNotes(E), NEW q \in Seq(E), InOrder(q), NEW j \in 1 .. Len(q), NEW x \in E,
         Before(x, q[j])
  PROVE  Of(q, j .. Len(q), x) = 0
<1>0. j \in Nat /\ Len(q) \in Nat /\ \A k \in 1 .. Len(q) : q[k] \in E
  OBVIOUS
<1>1. ASSUME NEW k \in j .. Len(q) PROVE q[k] # x
  <2>1. k \in 1 .. Len(q) /\ (k = j \/ j < k)
    BY <1>0
  <2>2. ~Before(q[j], q[j])
    BY <1>0, BeforeOrders
  <2>3. j < k => ~Before(q[k], q[j])
    BY <2>1, OrderIs
  <2> QED BY <2>1, <2>2, <2>3
<1>2. IsFiniteSet(j .. Len(q))
  BY <1>0, FS_Interval
<1> QED BY <1>1, <1>2, OfMore

(* phrop(): one turn of the loop, and its states. *)
AtAnEnd(p1, p2, m) == m.i > Len(p1) \/ m.j > Len(p2)

Advance(p1, p2, m) ==
  IF m.i > Len(p1) \/ m.j > Len(p2) THEN m
  ELSE IF IsBytes(p1[m.i]) /\ IsBytes(p2[m.j]) /\ p1[m.i].time = p2[m.j].time
       THEN [i |-> RunEnd(p1, m.i) + 1, j |-> RunEnd(p2, m.j) + 1,
             found |-> m.found \cup Matched(p1, m.i, p2, m.j)]
  ELSE IF XactBefore(p1[m.i], p2[m.j]) THEN [m EXCEPT !.i = @ + 1]
  ELSE IF XactBefore(p2[m.j], p1[m.i]) THEN [m EXCEPT !.j = @ + 1]
  ELSE [i |-> m.i + 1, j |-> m.j + 1, found |-> m.found \cup {m.i}]

PassStart == [i |-> 1, j |-> 1, found |-> {}]

IsPass(f, p1, p2) ==
  f = [k \in 0 .. Len(p1) + Len(p2) |->
        IF k = 0 THEN PassStart ELSE Advance(p1, p2, f[k - 1])]

PassedAll(f, p1, p2) == f[Len(p1) + Len(p2)].found

Passes(p1, p2) == [i : 1 .. Len(p1) + 1, j : 1 .. Len(p2) + 1, found : SUBSET Nat]

(* How often n is still to be found. *)
ToFind(p1, p2, i, j, n) == Lesser(Of(p1, i .. Len(p1), n), Of(p2, j .. Len(p2), n))

(* A turn from i, j to k, l that finds D. *)
Turns(p1, p2, i, j, k, l, D) ==
  /\ k \in i .. Len(p1) + 1 /\ l \in j .. Len(p2) + 1 /\ k + l > i + j
  /\ D \subseteq i .. k - 1
  /\ \A n : Of(p1, D, n) + ToFind(p1, p2, k, l, n) = ToFind(p1, p2, i, j, n)

LEMMA RunTurns ==
  ASSUME NEW E, IsNotes(E), IsExact(E), NEW p1 \in Seq(E), NEW p2 \in Seq(E),
         InOrder(p1), InOrder(p2), NEW i \in 1 .. Len(p1), NEW j \in 1 .. Len(p2),
         AtOneTime(p1[i], p2[j])
  PROVE  Turns(p1, p2, i, j, RunEnd(p1, i) + 1, RunEnd(p2, j) + 1, Matched(p1, i, p2, j))
<1> DEFINE from == RunEnd(p1, i)
           to == RunEnd(p2, j)
           D == Matched(p1, i, p2, j)
<1>1. /\ from \in i .. Len(p1)
      /\ \A k \in i .. from : AtOneTime(p1[i], p1[k])
      /\ \A k \in from + 1 .. Len(p1) : ~AtOneTime(p1[i], p1[k])
  BY RunIs DEF AtOneTime
<1>2. /\ to \in j .. Len(p2)
      /\ \A k \in j .. to : AtOneTime(p2[j], p2[k])
      /\ \A k \in to + 1 .. Len(p2) : ~AtOneTime(p2[j], p2[k])
  BY RunIs DEF AtOneTime
<1>3. /\ D \subseteq i .. from
      /\ \A n : Of(p1, D, n) = Lesser(Of(p1, i .. from, n), Of(p2, j .. to, n))
  BY MatchedIs
<1> HIDE DEF from, to, D
<1>0. /\ i \in Nat /\ j \in Nat /\ from \in Nat /\ to \in Nat /\ Len(p1) \in Nat /\ Len(p2) \in Nat
      /\ from >= i /\ to >= j /\ from <= Len(p1) /\ to <= Len(p2)
  BY <1>1, <1>2
<1>4. ASSUME NEW n
      PROVE  Of(p1, D, n) + ToFind(p1, p2, from + 1, to + 1, n) = ToFind(p1, p2, i, j, n)
  <2> DEFINE A == i .. from
             B == j .. to
             C == from + 1 .. Len(p1)
             G == to + 1 .. Len(p2)
             a == Of(p1, A, n)
             b == Of(p2, B, n)
             c == Of(p1, C, n)
             d == Of(p2, G, n)
  <2>1. /\ Of(p1, i .. Len(p1), n) = a + c /\ a \in Nat /\ c \in Nat
        /\ IsFiniteSet(A) /\ IsFiniteSet(C)
    <3>1. Splits(p1, n, i, from, Len(p1))
      BY <1>0, OfSplit
    <3> QED BY <3>1 DEF Splits
  <2>2. /\ Of(p2, j .. Len(p2), n) = b + d /\ b \in Nat /\ d \in Nat
        /\ IsFiniteSet(B) /\ IsFiniteSet(G)
    <3>1. Splits(p2, n, j, to, Len(p2))
      BY <1>0, OfSplit
    <3> QED BY <3>1 DEF Splits
  <2>3. \/ (\A k \in A : p1[k] # n) /\ (\A k \in B : p2[k] # n)
        \/ (\A k \in C : p1[k] # n) /\ (\A k \in G : p2[k] # n)
    <3>1. AtOneTime(p1[i], n) <=> AtOneTime(p2[j], n)
      BY DEF AtOneTime
    <3> HIDE DEF A, B, C, G
    <3> QED BY <1>1, <1>2, <3>1 DEF A, B, C, G
  <2>4. Of(p1, D, n) = Lesser(a, b)
    BY <1>3
  <2>5. (a = 0 /\ b = 0) \/ (c = 0 /\ d = 0)
    <3> HIDE DEF A, B, C, G
    <3> QED BY <2>1, <2>2, <2>3, OfMore
  <2> HIDE DEF a, b, c, d
  <2>6. Lesser(a, b) + Lesser(c, d) = Lesser(a + c, b + d)
    <3>1. a \in Nat /\ b \in Nat /\ c \in Nat /\ d \in Nat
      BY <2>1, <2>2
    <3> QED BY <2>5, <3>1 DEF Lesser
  <2>7. ToFind(p1, p2, from + 1, to + 1, n) = Lesser(c, d)
    BY Zenon DEF ToFind, c, d
  <2> QED BY <2>1, <2>2, <2>4, <2>6, <2>7 DEF ToFind
<1>5. /\ from + 1 \in i .. Len(p1) + 1 /\ to + 1 \in j .. Len(p2) + 1
      /\ (from + 1) + (to + 1) > i + j /\ D \subseteq i .. (from + 1) - 1
  BY <1>0, <1>3
<1>6. Turns(p1, p2, i, j, from + 1, to + 1, D)
  BY <1>4, <1>5 DEF Turns
<1> QED BY <1>6 DEF from, to, D

(* A note that is not in the other phrase is passed, in either of them. *)
LEMMA PassTurns ==
  ASSUME NEW E, IsNotes(E), NEW p1 \in Seq(E), NEW p2 \in Seq(E),
         InOrder(p1), InOrder(p2), NEW i \in 1 .. Len(p1), NEW j \in 1 .. Len(p2)
  PROVE  /\ Before(p1[i], p2[j]) => Turns(p1, p2, i, j, i + 1, j, {})
         /\ Before(p2[j], p1[i]) => Turns(p1, p2, i, j, i, j + 1, {})
<1> DEFINE a == p1[i]
           b == p2[j]
<1>0. /\ i \in Nat /\ j \in Nat /\ Len(p1) \in Nat /\ Len(p2) \in Nat
      /\ i <= Len(p1) /\ j <= Len(p2) /\ a \in E /\ b \in E
  OBVIOUS
<1>1. ASSUME NEW n
      PROVE  /\ Of(p1, {}, n) = 0
             /\ Of(p1, i .. Len(p1), n) = (IF a = n THEN 1 ELSE 0) + Of(p1, i + 1 .. Len(p1), n)
             /\ Of(p2, j .. Len(p2), n) = (IF b = n THEN 1 ELSE 0) + Of(p2, j + 1 .. Len(p2), n)
             /\ Of(p1, i + 1 .. Len(p1), n) \in Nat /\ Of(p2, j + 1 .. Len(p2), n) \in Nat
             /\ Of(p1, i .. Len(p1), n) \in Nat /\ Of(p2, j .. Len(p2), n) \in Nat
  <2>1. Of(p1, {}, n) = 0
    <3> DEFINE I == {}
    <3>1. IsFiniteSet(I) /\ \A k \in I : p1[k] # n
      BY FS_EmptySet
    <3> HIDE DEF I
    <3>2. Of(p1, I, n) = 0
      BY <3>1, OfMore
    <3> QED BY <3>2 DEF I
  <2>2. OfFirstIs(p1, n, i, Len(p1)) /\ OfFirstIs(p2, n, j, Len(p2))
    BY <1>0, OfFirst
  <2> QED BY <2>1, <2>2 DEF OfFirstIs
<1>2. ASSUME Before(a, b) PROVE Turns(p1, p2, i, j, i + 1, j, {})
  <2>1. Of(p2, j .. Len(p2), a) = 0
    BY <1>0, <1>2, NotBehind
  <2>2. ASSUME NEW n
        PROVE  Of(p1, {}, n) + ToFind(p1, p2, i + 1, j, n) = ToFind(p1, p2, i, j, n)
    <3> DEFINE c == Of(p1, i + 1 .. Len(p1), n)
               d == Of(p2, j .. Len(p2), n)
               e == Of(p1, i .. Len(p1), n)
               z == Of(p1, {}, n)
    <3>1. /\ z = 0 /\ c \in Nat /\ d \in Nat /\ e = (IF a = n THEN 1 ELSE 0) + c
          /\ (a = n => d = 0)
      BY <1>1, <2>1
    <3>2. ToFind(p1, p2, i + 1, j, n) = Lesser(c, d) /\ ToFind(p1, p2, i, j, n) = Lesser(e, d)
      BY Zenon DEF ToFind
    <3> HIDE DEF a, b, c, d, e, z
    <3>3. z + Lesser(c, d) = Lesser(e, d)
      BY <3>1 DEF Lesser
    <3> QED BY <3>2, <3>3 DEF z
  <2>3. i + 1 \in i .. Len(p1) + 1 /\ j \in j .. Len(p2) + 1 /\ (i + 1) + j > i + j
    BY <1>0
  <2> QED BY <2>2, <2>3 DEF Turns
<1>3. ASSUME Before(b, a) PROVE Turns(p1, p2, i, j, i, j + 1, {})
  <2>1. Of(p1, i .. Len(p1), b) = 0
    BY <1>0, <1>3, NotBehind
  <2>2. ASSUME NEW n
        PROVE  Of(p1, {}, n) + ToFind(p1, p2, i, j + 1, n) = ToFind(p1, p2, i, j, n)
    <3> DEFINE c == Of(p2, j + 1 .. Len(p2), n)
               d == Of(p1, i .. Len(p1), n)
               e == Of(p2, j .. Len(p2), n)
               z == Of(p1, {}, n)
    <3>1. /\ z = 0 /\ c \in Nat /\ d \in Nat /\ e = (IF b = n THEN 1 ELSE 0) + c
          /\ (b = n => d = 0)
      BY <1>1, <2>1
    <3>2. ToFind(p1, p2, i, j + 1, n) = Lesser(d, c) /\ ToFind(p1, p2, i, j, n) = Lesser(d, e)
      BY Zenon DEF ToFind
    <3> HIDE DEF a, b, c, d, e, z
    <3>3. z + Lesser(d, c) = Lesser(d, e)
      BY <3>1 DEF Lesser
    <3> QED BY <3>2, <3>3 DEF z
  <2>3. i \in i .. Len(p1) + 1 /\ j + 1 \in j .. Len(p2) + 1 /\ i + (j + 1) > i + j
    BY <1>0
  <2> QED BY <2>2, <2>3 DEF Turns
<1> QED BY <1>2, <1>3

(* A note of both is found. *)
LEMMA SameTurns ==
  ASSUME NEW E, NEW p1 \in Seq(E), NEW p2 \in Seq(E), NEW i \in 1 .. Len(p1), NEW j \in 1 .. Len(p2),
         p1[i] = p2[j]
  PROVE  Turns(p1, p2, i, j, i + 1, j + 1, {i})
<1>0. /\ i \in Nat /\ j \in Nat /\ Len(p1) \in Nat /\ Len(p2) \in Nat
      /\ i <= Len(p1) /\ j <= Len(p2)
  OBVIOUS
<1>1. ASSUME NEW n
      PROVE  Of(p1, {i}, n) + ToFind(p1, p2, i + 1, j + 1, n) = ToFind(p1, p2, i, j, n)
  <2> DEFINE c == Of(p1, i + 1 .. Len(p1), n)
             d == Of(p2, j + 1 .. Len(p2), n)
             e == Of(p1, i .. Len(p1), n)
             g == Of(p2, j .. Len(p2), n)
             x == IF p1[i] = n THEN 1 ELSE 0
             z == Of(p1, {i}, n)
  <2>1. OfFirstIs(p1, n, i, Len(p1)) /\ OfFirstIs(p2, n, j, Len(p2))
    BY <1>0, OfFirst
  <2>2. c \in Nat /\ d \in Nat /\ e = x + c /\ g = x + d /\ z = x /\ x \in {0, 1}
    BY <2>1 DEF OfFirstIs
  <2>3. ToFind(p1, p2, i + 1, j + 1, n) = Lesser(c, d) /\ ToFind(p1, p2, i, j, n) = Lesser(e, g)
    BY Zenon DEF ToFind
  <2> HIDE DEF c, d, e, g, x, z
  <2>4. z + Lesser(c, d) = Lesser(e, g)
    BY <2>2 DEF Lesser
  <2> QED BY <2>3, <2>4 DEF z
<1>2. /\ i + 1 \in i .. Len(p1) + 1 /\ j + 1 \in j .. Len(p2) + 1
      /\ (i + 1) + (j + 1) > i + j /\ {i} \subseteq i .. (i + 1) - 1
  BY <1>0
<1> QED BY <1>1, <1>2 DEF Turns

LEMMA AdvanceIs ==
  ASSUME NEW E, IsNotes(E), IsExact(E), NEW p1 \in Seq(E), NEW p2 \in Seq(E),
         InOrder(p1), InOrder(p2), NEW m \in Passes(p1, p2), ~AtAnEnd(p1, p2, m)
  PROVE  \E k, l, D : /\ Turns(p1, p2, m.i, m.j, k, l, D)
                      /\ Advance(p1, p2, m) = [i |-> k, j |-> l, found |-> m.found \cup D]
<1> DEFINE i == m.i
           j == m.j
           a == p1[i]
           b == p2[j]
           new == Advance(p1, p2, m)
<1>1. i \in 1 .. Len(p1) /\ j \in 1 .. Len(p2)
  <2>1. i \in 1 .. Len(p1) + 1 /\ j \in 1 .. Len(p2) + 1
    BY DEF Passes
  <2>2. ~(i > Len(p1)) /\ ~(j > Len(p2))
    BY DEF AtAnEnd
  <2> QED BY <2>1, <2>2
<1>2. a \in E /\ b \in E /\ m = [i |-> i, j |-> j, found |-> m.found]
  BY <1>1 DEF Passes
<1>3. CASE AtOneTime(a, b)
  <2>1. new = [i |-> RunEnd(p1, i) + 1, j |-> RunEnd(p2, j) + 1,
               found |-> m.found \cup Matched(p1, i, p2, j)]
    BY <1>3, Zenon DEF Advance, AtAnEnd, AtOneTime
  <2>2. Turns(p1, p2, i, j, RunEnd(p1, i) + 1, RunEnd(p2, j) + 1, Matched(p1, i, p2, j))
    BY <1>1, <1>3, RunTurns
  <2> QED BY <2>1, <2>2
<1>4. CASE ~AtOneTime(a, b)
  <2>1. /\ XactBefore(a, b) => Before(a, b)
        /\ XactBefore(b, a) => Before(b, a)
        /\ ~XactBefore(a, b) /\ ~XactBefore(b, a) => a = b
    <3>1. ~AtOneTime(b, a)
      BY <1>4 DEF AtOneTime
    <3> QED BY <1>2, <1>4, <3>1, XactOrders, SameIs
  <2>2. new = IF XactBefore(a, b) THEN [m EXCEPT !.i = @ + 1]
              ELSE IF XactBefore(b, a) THEN [m EXCEPT !.j = @ + 1]
              ELSE [i |-> i + 1, j |-> j + 1, found |-> m.found \cup {i}]
    BY <1>4, Zenon DEF Advance, AtAnEnd, AtOneTime
  <2>3. CASE XactBefore(a, b)
    <3>1. new = [i |-> i + 1, j |-> j, found |-> m.found \cup {}]
      BY <1>2, <2>2, <2>3
    <3>2. Turns(p1, p2, i, j, i + 1, j, {})
      BY <1>1, <2>1, <2>3, PassTurns
    <3> QED BY <3>1, <3>2
  <2>4. CASE ~XactBefore(a, b) /\ XactBefore(b, a)
    <3>1. new = [i |-> i, j |-> j + 1, found |-> m.found \cup {}]
      BY <1>2, <2>2, <2>4
    <3>2. Turns(p1, p2, i, j, i, j + 1, {})
      BY <1>1, <2>1, <2>4, PassTurns
    <3> QED BY <3>1, <3>2
  <2>5. CASE ~XactBefore(a, b) /\ ~XactBefore(b, a)
    <3>1. new = [i |-> i + 1, j |-> j + 1, found |-> m.found \cup {i}]
      BY <2>2, <2>5
    <3>2. Turns(p1, p2, i, j, i + 1, j + 1, {i})
      BY <1>1, <2>1, <2>5, SameTurns
    <3> QED BY <3>1, <3>2
  <2> QED BY <2>3, <2>4, <2>5
<1> QED BY <1>3, <1>4

(* What holds after k turns. *)
Passed(p1, p2, m, k) ==
  /\ m \in Passes(p1, p2)
  /\ AtAnEnd(p1, p2, m) \/ m.i + m.j >= k + 2
  /\ m.found \subseteq 1 .. m.i - 1
  /\ \A n : Of(p1, m.found, n) + ToFind(p1, p2, m.i, m.j, n) = ToFind(p1, p2, 1, 1, n)

LEMMA AdvanceKeeps ==
  ASSUME NEW E, IsNotes(E), IsExact(E), NEW p1 \in Seq(E), NEW p2 \in Seq(E),
         InOrder(p1), InOrder(p2), NEW k \in Nat, NEW m, Passed(p1, p2, m, k)
  PROVE  Passed(p1, p2, Advance(p1, p2, m), k + 1)
<1>0. Len(p1) \in Nat /\ Len(p2) \in Nat
  OBVIOUS
<1>1. /\ m \in Passes(p1, p2) /\ m.found \subseteq 1 .. m.i - 1
      /\ \A n : Of(p1, m.found, n) + ToFind(p1, p2, m.i, m.j, n) = ToFind(p1, p2, 1, 1, n)
  BY DEF Passed
<1>2. CASE AtAnEnd(p1, p2, m)
  <2>1. Advance(p1, p2, m) = m
    BY <1>2 DEF Advance, AtAnEnd
  <2> QED BY <1>1, <1>2, <2>1 DEF Passed
<1>3. CASE ~AtAnEnd(p1, p2, m)
  <2> DEFINE i == m.i
             j == m.j
             new == Advance(p1, p2, m)
  <2>1. i \in 1 .. Len(p1) + 1 /\ j \in 1 .. Len(p2) + 1 /\ i + j >= k + 2
    BY <1>1, <1>3 DEF Passed, Passes
  <2>2. PICK x, y, D : /\ Turns(p1, p2, i, j, x, y, D)
                       /\ new = [i |-> x, j |-> y, found |-> m.found \cup D]
    BY <1>1, <1>3, AdvanceIs
  <2>3. /\ x \in i .. Len(p1) + 1 /\ y \in j .. Len(p2) + 1 /\ x + y > i + j
        /\ D \subseteq i .. x - 1
        /\ \A n : Of(p1, D, n) + ToFind(p1, p2, x, y, n) = ToFind(p1, p2, i, j, n)
    BY <2>2 DEF Turns
  <2>4. new.i = x /\ new.j = y /\ new.found = m.found \cup D
    BY <2>2
  <2>5. m.found \cup D \subseteq 1 .. x - 1 /\ m.found \cap D = {}
    <3> DEFINE I == m.found
    <3>1. I \subseteq 1 .. i - 1 /\ D \subseteq i .. x - 1
      BY <1>1, <2>3
    <3>2. i \in Nat /\ x \in Nat /\ 1 <= i /\ i <= x
      <4> HIDE DEF i
      <4> QED BY <1>0, <2>1, <2>3
    <3> HIDE DEF I, i
    <3>3. I \cup D \subseteq 1 .. x - 1 /\ I \cap D = {}
      BY <3>1, <3>2
    <3> QED BY <3>3 DEF I
  <2>6. IsFiniteSet(m.found) /\ IsFiniteSet(D)
    <3>1. IsFiniteSet(1 .. x - 1)
      BY <1>0, <2>3, FS_Interval
    <3> QED BY <2>5, <3>1, FS_Subset
  <2>7. new \in Passes(p1, p2) /\ x + y >= (k + 1) + 2
    <3>1. x \in 1 .. Len(p1) + 1 /\ y \in 1 .. Len(p2) + 1 /\ x + y >= (k + 1) + 2
      BY <1>0, <2>1, <2>3
    <3>2. m.found \cup D \in SUBSET Nat
      BY <1>0, <2>3, <2>5
    <3> QED BY <2>2, <3>1, <3>2 DEF Passes
  <2> HIDE DEF new, i, j
  <2>8. ASSUME NEW n
        PROVE  Of(p1, new.found, n) + ToFind(p1, p2, x, y, n) = ToFind(p1, p2, 1, 1, n)
    <3> DEFINE I == m.found
               a == Of(p1, I, n)
               b == Of(p1, D, n)
               c == ToFind(p1, p2, x, y, n)
               d == ToFind(p1, p2, i, j, n)
               e == ToFind(p1, p2, 1, 1, n)
    <3>1. Of(p1, I \cup D, n) = a + b /\ a \in Nat /\ b \in Nat
      <4>1. IsFiniteSet(I) /\ IsFiniteSet(D) /\ I \cap D = {}
        BY <2>5, <2>6
      <4> HIDE DEF I
      <4> QED BY <4>1, OfBoth, OfMore
    <3>2. c \in Nat
      <4> DEFINE A == x .. Len(p1)
                 B == y .. Len(p2)
      <4>1. IsFiniteSet(A) /\ IsFiniteSet(B)
        BY <1>0, <2>3, FS_Interval
      <4> HIDE DEF A, B, c
      <4>2. Of(p1, A, n) \in Nat /\ Of(p2, B, n) \in Nat
        BY <4>1, OfMore
      <4>3. c = Lesser(Of(p1, A, n), Of(p2, B, n))
        BY Zenon DEF c, ToFind, A, B
      <4> QED BY <4>2, <4>3, LesserSums
    <3>3. b + c = d /\ a + d = e
      BY <1>1, <2>3 DEF i, j
    <3> HIDE DEF a, b, c, d, e
    <3>4. (a + b) + c = e
      BY <3>1, <3>2, <3>3
    <3> QED BY <2>4, <3>1, <3>4 DEF c, e
  <2>9. Passed(p1, p2, new, k + 1)
    BY <2>4, <2>5, <2>7, <2>8 DEF Passed
  <2> QED BY <2>9 DEF new
<1> QED BY <1>2, <1>3

LEMMA PassExists ==
  ASSUME NEW E, IsNotes(E), IsExact(E), NEW p1 \in Seq(E), NEW p2 \in Seq(E),
         InOrder(p1), InOrder(p2)
  PROVE  \E f : IsPass(f, p1, p2)
<1> DEFINE n == Len(p1) + Len(p2)
           M == Passes(p1, p2)
           h == [x \in (1 .. n) \X M |-> Advance(p1, p2, x[2])]
<1>0. n \in Nat /\ Len(p1) \in Nat /\ Len(p2) \in Nat
  OBVIOUS
<1>1. ASSUME NEW m \in M PROVE Advance(p1, p2, m) \in M
  <2>1. CASE AtAnEnd(p1, p2, m)
    <3>1. Advance(p1, p2, m) = m
      BY <2>1 DEF Advance, AtAnEnd
    <3> QED BY <3>1
  <2>2. CASE ~AtAnEnd(p1, p2, m)
    <3>1. PICK k, l, D : /\ Turns(p1, p2, m.i, m.j, k, l, D)
                         /\ Advance(p1, p2, m) = [i |-> k, j |-> l, found |-> m.found \cup D]
      BY <2>2, AdvanceIs
    <3>2. m.i \in 1 .. Len(p1) + 1 /\ m.j \in 1 .. Len(p2) + 1 /\ m.found \in SUBSET Nat
      BY DEF Passes
    <3>3. k \in m.i .. Len(p1) + 1 /\ l \in m.j .. Len(p2) + 1 /\ D \subseteq m.i .. k - 1
      BY <3>1 DEF Turns
    <3>4. k \in 1 .. Len(p1) + 1 /\ l \in 1 .. Len(p2) + 1 /\ m.found \cup D \in SUBSET Nat
      <4> DEFINE i == m.i
                 j == m.j
                 I == m.found
      <4>1. /\ i \in 1 .. Len(p1) + 1 /\ j \in 1 .. Len(p2) + 1 /\ I \in SUBSET Nat
            /\ k \in i .. Len(p1) + 1 /\ l \in j .. Len(p2) + 1 /\ D \subseteq i .. k - 1
        BY <3>2, <3>3
      <4> HIDE DEF i, j, I
      <4>2. k \in 1 .. Len(p1) + 1 /\ l \in 1 .. Len(p2) + 1 /\ i \in Nat
        BY <1>0, <4>1
      <4>3. i .. k - 1 \subseteq Nat
        BY <4>2
      <4>4. I \cup D \in SUBSET Nat
        BY <4>1, <4>3
      <4> QED BY <4>2, <4>4 DEF I
    <3> QED BY <3>1, <3>4 DEF Passes
  <2> QED BY <2>1, <2>2
<1>2. IsStep(h, n, M)
  <2> HIDE DEF M, n
  <2>1. \A x \in (1 .. n) \X M : Advance(p1, p2, x[2]) \in M
    BY <1>1
  <2> QED BY <2>1 DEF IsStep
<1>3. PassStart \in M
  BY <1>0 DEF PassStart, Passes
<1>4. PICK f : IsIterated(f, n, M, PassStart, h)
  <2> HIDE DEF h, M, n
  <2> QED BY <1>0, <1>2, <1>3, Recursion, Zenon
<1>5. /\ f \in [0 .. n -> M]
      /\ f[0] = PassStart /\ \A k \in 1 .. n : f[k] = h[<<k, f[k - 1]>>]
  <2> HIDE DEF h, M, n
  <2> QED BY <1>4, Zenon DEF IsIterated
<1>6. ASSUME NEW k \in 0 .. n
      PROVE  f[k] = IF k = 0 THEN PassStart ELSE Advance(p1, p2, f[k - 1])
  <2> HIDE DEF M, n
  <2>1. CASE k = 0
    BY <1>5, <2>1
  <2>2. CASE k # 0
    <3>1. k \in 1 .. n /\ k - 1 \in 0 .. n
      BY <1>0, <2>2
    <3>2. f[k - 1] \in M /\ <<k, f[k - 1]>> \in (1 .. n) \X M
      BY <1>5, <3>1
    <3>3. h[<<k, f[k - 1]>>] = Advance(p1, p2, f[k - 1])
      BY <3>2
    <3> QED BY <1>5, <2>2, <3>1, <3>3
  <2> QED BY <2>1, <2>2
<1>7. f = [k \in 0 .. n |-> IF k = 0 THEN PassStart ELSE Advance(p1, p2, f[k - 1])]
  <2> HIDE DEF M, n, h
  <2> QED BY <1>5, <1>6
<1> QED BY <1>7 DEF IsPass

(* The loop finds each note as often as both phrases have it. *)
LEMMA InBothIs ==
  ASSUME NEW E, IsNotes(E), IsExact(E), NEW p1 \in Seq(E), NEW p2 \in Seq(E),
         InOrder(p1), InOrder(p2)
  PROVE  /\ InBoth(p1, p2) \subseteq 1 .. Len(p1)
         /\ \A n : Of(p1, InBoth(p1, p2), n) = ToFind(p1, p2, 1, 1, n)
<1> DEFINE n == Len(p1) + Len(p2)
           f == CHOOSE g : IsPass(g, p1, p2)
           T == {k \in 0 .. n : Passed(p1, p2, f[k], k)}
<1>0. n \in Nat /\ Len(p1) \in Nat /\ Len(p2) \in Nat
  OBVIOUS
<1>1. IsPass(f, p1, p2)
  <2>1. \E g : IsPass(g, p1, p2)
    BY PassExists
  <2> QED BY <2>1, Zenon
<1>2. InBoth(p1, p2) = PassedAll(f, p1, p2)
  BY Zenon DEF InBoth, IsPass, Advance, PassStart, PassedAll
<1> HIDE DEF f
<1>3. f[0] = PassStart /\ \A k \in 1 .. n : f[k] = Advance(p1, p2, f[k - 1])
  BY <1>0, <1>1, SMTT(30) DEF IsPass
<1>4. Passed(p1, p2, PassStart, 0)
  <2>1. /\ PassStart.i = 1 /\ PassStart.j = 1 /\ PassStart.found = {}
        /\ PassStart \in Passes(p1, p2)
    BY <1>0 DEF PassStart, Passes
  <2>2. ASSUME NEW x
        PROVE  Of(p1, {}, x) + ToFind(p1, p2, 1, 1, x) = ToFind(p1, p2, 1, 1, x)
    <3> DEFINE A == 1 .. Len(p1)
               B == 1 .. Len(p2)
               I == {}
               c == ToFind(p1, p2, 1, 1, x)
    <3>1. IsFiniteSet(A) /\ IsFiniteSet(B) /\ IsFiniteSet(I) /\ \A k \in I : p1[k] # x
      BY <1>0, FS_Interval, FS_EmptySet
    <3>2. c = Lesser(Of(p1, A, x), Of(p2, B, x))
      BY Zenon DEF ToFind
    <3> HIDE DEF A, B, I, c
    <3>3. Of(p1, A, x) \in Nat /\ Of(p2, B, x) \in Nat /\ Of(p1, I, x) = 0
      BY <3>1, OfMore
    <3>4. c \in Nat
      BY <3>2, <3>3, LesserSums
    <3> QED BY <3>3, <3>4 DEF I, c
  <2> QED BY <2>1, <2>2 DEF Passed
<1>5. 0 \in T
  BY <1>0, <1>3, <1>4
<1>6. ASSUME NEW k \in 1 .. n, k - 1 \in T PROVE k \in T
  <2>1. Passed(p1, p2, f[k - 1], k - 1) /\ k - 1 \in Nat /\ (k - 1) + 1 = k /\ k \in 0 .. n
    BY <1>0, <1>6
  <2>2. Passed(p1, p2, Advance(p1, p2, f[k - 1]), (k - 1) + 1)
    BY <2>1, AdvanceKeeps
  <2> QED BY <1>3, <2>1, <2>2
<1>7. Passed(p1, p2, f[n], n)
  <2>1. \A k \in 0 .. n : k \in T
    <3> HIDE DEF n, T
    <3> QED BY <1>0, <1>5, <1>6, Upwards
  <2>2. n \in 0 .. n
    BY <1>0
  <2> HIDE DEF n
  <2> QED BY <2>1, <2>2
<1> DEFINE m == f[n]
<1>8. /\ m.i \in 1 .. Len(p1) + 1 /\ m.j \in 1 .. Len(p2) + 1 /\ m.found \subseteq 1 .. m.i - 1
      /\ \A x : Of(p1, m.found, x) + ToFind(p1, p2, m.i, m.j, x) = ToFind(p1, p2, 1, 1, x)
  BY <1>7 DEF Passed, Passes
<1>9. m.i > Len(p1) \/ m.j > Len(p2)
  <2> DEFINE i == m.i
             j == m.j
             a == Len(p1)
             b == Len(p2)
  <2>1. i > a \/ j > b \/ i + j >= (a + b) + 2
    BY <1>7 DEF Passed, AtAnEnd
  <2>2. i \in 1 .. a + 1 /\ j \in 1 .. b + 1
    BY <1>8
  <2> HIDE DEF i, j, a, b
  <2>3. i > a \/ j > b
    BY <1>0, <2>1, <2>2 DEF a, b
  <2> QED BY <2>3 DEF i, j, a, b
<1>10. InBoth(p1, p2) = m.found
  BY <1>2 DEF PassedAll
<1> HIDE DEF m, n
<1>11. ASSUME NEW x PROVE ToFind(p1, p2, m.i, m.j, x) = 0 /\ Of(p1, m.found, x) \in Nat
  <2> DEFINE A == m.i .. Len(p1)
             B == m.j .. Len(p2)
  <2>1. IsFiniteSet(A) /\ IsFiniteSet(B) /\ (A = {} \/ B = {})
    BY <1>0, <1>8, <1>9, FS_Interval
  <2>2. ToFind(p1, p2, m.i, m.j, x) = Lesser(Of(p1, A, x), Of(p2, B, x))
    BY Zenon DEF ToFind
  <2> HIDE DEF A, B
  <2>3. /\ Of(p1, A, x) \in Nat /\ Of(p2, B, x) \in Nat
        /\ Of(p1, A, x) = 0 \/ Of(p2, B, x) = 0
    BY <2>1, OfMore
  <2>4. IsFiniteSet(1 .. m.i - 1)
    <3>1. 1 \in Int /\ m.i - 1 \in Int
      BY <1>0, <1>8
    <3> QED BY <3>1, FS_Interval
  <2>5. IsFiniteSet(m.found)
    BY <1>8, <2>4, FS_Subset
  <2>6. Of(p1, m.found, x) \in Nat
    BY <2>5, OfMore
  <2> QED BY <2>2, <2>3, <2>6, LesserSums
<1>12. m.found \subseteq 1 .. Len(p1)
  BY <1>0, <1>8
<1>13. ASSUME NEW x PROVE Of(p1, m.found, x) = ToFind(p1, p2, 1, 1, x)
  BY <1>8, <1>11
<1> QED BY <1>10, <1>12, <1>13

(* phrop(): the difference and the intersection, as bags of notes. *)
LEMMA PhropIs ==
  ASSUME NEW E, IsNotes(E), IsExact(E), NEW p1 \in Seq(E), NEW p2 \in Seq(E),
         InOrder(p1), InOrder(p2)
  PROVE  LET both == Phrop(p1, p2, TRUE)
             less == Phrop(p1, p2, FALSE)
         IN  /\ InOrder(both) /\ InOrder(less)
             /\ \A n : /\ Count(both, {n}) = Lesser(Count(p1, {n}), Count(p2, {n}))
                       /\ Count(less, {n}) = Count(p1, {n}) - Count(both, {n})
<1> DEFINE B == InBoth(p1, p2)
           L == {i \in DOMAIN p1 : i \notin B}
           both == Phrop(p1, p2, TRUE)
           less == Phrop(p1, p2, FALSE)
<1>1. /\ B \subseteq 1 .. Len(p1)
      /\ \A n : Of(p1, B, n) = ToFind(p1, p2, 1, 1, n)
  BY InBothIs
<1>2. /\ DOMAIN p1 = 1 .. Len(p1) /\ DOMAIN p2 = 1 .. Len(p2)
      /\ Len(p1) \in Nat /\ Len(p2) \in Nat
  OBVIOUS
<1>3. both = Inserted(Kept(p1, B)) /\ less = Inserted(Kept(p1, L))
  <2> HIDE DEF B
  <2>1. {i \in DOMAIN p1 : i \in B <=> TRUE} = B
    BY <1>1, <1>2
  <2>2. {i \in DOMAIN p1 : i \in B <=> FALSE} = L
    BY <1>1, <1>2
  <2> QED BY <2>1, <2>2, Zenon DEF Phrop, B
<1>4. B \in SUBSET DOMAIN p1 /\ L \in SUBSET DOMAIN p1
  BY <1>1, <1>2
<1> HIDE DEF B, both, less
<1>5. Kept(p1, B) \in Seq(E) /\ Kept(p1, L) \in Seq(E)
  <2> HIDE DEF L
  <2> QED BY <1>4, KeptList
<1>6. InOrder(both) /\ InOrder(less)
  BY <1>3, <1>5, Inserts
<1>7. ASSUME NEW n
      PROVE  /\ Count(both, {n}) = Of(p1, B, n) /\ Count(less, {n}) = Of(p1, L, n)
             /\ Count(p1, {n}) = Of(p1, 1 .. Len(p1), n) /\ Count(p2, {n}) = Of(p2, 1 .. Len(p2), n)
  <2>1. \A I \in SUBSET DOMAIN p1 : Kept(p1, I) \in Seq(E) =>
          Count(Inserted(Kept(p1, I)), {n}) = Of(p1, I, n)
    <3> SUFFICES ASSUME NEW I \in SUBSET DOMAIN p1, Kept(p1, I) \in Seq(E)
                 PROVE  Count(Inserted(Kept(p1, I)), {n}) = Of(p1, I, n)
      OBVIOUS
    <3>1. SameNotes(Kept(p1, I), Inserted(Kept(p1, I)))
      BY Inserts
    <3>2. Count(Kept(p1, I), {n}) = Cardinality({i \in I : p1[i] \in {n}})
      BY KeptCounts
    <3>3. {i \in I : p1[i] \in {n}} = {i \in I : p1[i] = n}
      OBVIOUS
    <3> QED BY <3>1, <3>2, <3>3 DEF Of, SameNotes
  <2>2. Count(both, {n}) = Of(p1, B, n) /\ Count(less, {n}) = Of(p1, L, n)
    <3> HIDE DEF L
    <3> QED BY <1>3, <1>4, <1>5, <2>1
  <2>3. \A q : {i \in DOMAIN q : q[i] \in {n}} = {k \in DOMAIN q : q[k] = n}
    OBVIOUS
  <2>4. \A q : Count(q, {n}) = Of(q, DOMAIN q, n)
    BY <2>3 DEF Count, Of
  <2> QED BY <1>2, <2>2, <2>4
<1>8. ASSUME NEW n
      PROVE  /\ Count(both, {n}) = Lesser(Count(p1, {n}), Count(p2, {n}))
             /\ Count(less, {n}) = Count(p1, {n}) - Count(both, {n})
  <2>1. Count(both, {n}) = Lesser(Count(p1, {n}), Count(p2, {n}))
    BY <1>1, <1>7 DEF ToFind
  <2>2. /\ Of(p1, B \cup L, n) = Of(p1, B, n) + Of(p1, L, n)
        /\ Of(p1, B, n) \in Nat /\ Of(p1, L, n) \in Nat
    <3>1. IsFiniteSet(B) /\ IsFiniteSet(L) /\ B \cap L = {}
      <4>1. IsFiniteSet(DOMAIN p1)
        BY <1>2, FS_Interval
      <4> QED BY <1>4, <4>1, FS_Subset
    <3> HIDE DEF L
    <3> QED BY <3>1, OfBoth, OfMore
  <2>3. B \cup L = 1 .. Len(p1)
    BY <1>1, <1>2
  <2>4. Of(p1, 1 .. Len(p1), n) = Of(p1, B, n) + Of(p1, L, n)
    BY <2>2, <2>3
  <2>5. Count(less, {n}) = Count(p1, {n}) - Count(both, {n})
    <3> DEFINE a == Count(p1, {n})
               b == Count(both, {n})
               c == Count(less, {n})
    <3>1. a = b + c /\ b \in Nat /\ c \in Nat
      BY <1>7, <2>2, <2>4
    <3> HIDE DEF a, b, c
    <3>2. c = a - b
      BY <3>1
    <3> QED BY <3>2 DEF a, b, c
  <2> QED BY <2>1, <2>5
<1> QED BY <1>6, <1>8 DEF both, less
=============================================================================
