---------------------------- MODULE SchedProofs ----------------------------
(* The schedule, for any phrases, any number of tasks, pitches and messages  *)
(* in a buffer: the list is in order, schedcnt counts its entries, and notes *)
(* that are on have their end in it or in a buffer.                          *)
EXTENDS Sched, ListsProofs

-----------------------------------------------------------------------------
(* The inductive invariant.                                                *)

ByTime(q) == \A i, j \in DOMAIN q : i < j => q[i].due <= q[j].due

EntriesFor(t) == {e \in Entries : e.task = t}
OffsFor(p) == {e \in Entries : e.type = "noteoff" /\ e.phr[1].pitch = p}

(* What the walk will not come to any more *)
LaterOffs(p) == {e \in OffsFor(p) : e.due > 0}

(* Between two walks nothing is left to be sent; a chord is played in one go; and
   the end of a note that is to be turned on comes after it: in the buffer that is
   sent later, or in the schedule behind everything that is due.                 *)
WalkInv ==
  /\ Idle => Onmsg = <<>> /\ Offmsg = <<>> /\ Offmsg2 = <<>>
  /\ s # 0 /\ sametime => s \in DOMAIN Topsched /\ Topsched[s].type = "phrase"
  /\ \A p \in Pitch : CountOf(Onmsg, p) <= CountOf(Offmsg2, p) + Count(Topsched, LaterOffs(p))

(* CountsExact and NotesEnd, in terms of Count *)
CountsInv == \A t \in Task : schedcnt[t] = Count(Topsched, EntriesFor(t))

NotesInv ==
  ~cut => \A p \in Pitch :
    sounding[p] + CountOf(Onmsg, p) =
      Count(Topsched, OffsFor(p)) + CountOf(Offmsg, p) + CountOf(Offmsg2, p)

Inv == TypeOK /\ WalkInv /\ Sorted /\ CountsInv /\ NotesInv

-----------------------------------------------------------------------------
(* Entries.                                                                *)

LEMMA EntryType ==
  ASSUME NEW e \in Entries
  PROVE  /\ e.due \in Int /\ e.type \in {"phrase", "noteoff", "wake"}
         /\ e.type = "phrase" =>
              /\ e.task \in Task /\ e.phr \in Phrase /\ e.note \in DOMAIN e.phr
              /\ e.repeat \in Repeat /\ e \in PhraseEntries
         /\ e.type = "noteoff" =>
              /\ e.task \in Task /\ e.note = 1 /\ e.repeat = 0
              /\ \E p \in Pitch : e.phr = <<OffNote(p)>>
         /\ e.type = "wake" => e.task \in Sleeper
<1>1. CASE e \in PhraseEntries
  BY <1>1 DEF PhraseEntries
<1>2. CASE e \in OffEntries
  BY <1>2 DEF OffEntries
<1>3. CASE e \in WakeEntries
  BY <1>3 DEF WakeEntries
<1> QED BY <1>1, <1>2, <1>3 DEF Entries

LEMMA DueType ==
  ASSUME NEW q \in Seq(Entries)
  PROVE  /\ Len(q) \in Nat /\ DOMAIN q = 1 .. Len(q)
         /\ \A i \in 1 .. Len(q) : q[i] \in Entries /\ q[i].due \in Int
<1>1. Len(q) \in Nat /\ DOMAIN q = 1 .. Len(q) /\ \A i \in 1 .. Len(q) : q[i] \in Entries
  OBVIOUS
<1> QED BY <1>1, EntryType

-----------------------------------------------------------------------------
(* Order.                                                                  *)

(* immsched(): where an entry is put in. *)
LEMMA PlaceFound ==
  ASSUME NEW q \in Seq(Entries), ByTime(q), NEW due \in Int
  PROVE  /\ Place(q, due) \in 1 .. Len(q) + 1
         /\ \A i \in 1 .. Len(q) : i < Place(q, due) => q[i].due <= due
         /\ \A i \in 1 .. Len(q) : i >= Place(q, due) => due < q[i].due
<1> DEFINE I == {i \in 1 .. Len(q) : due < q[i].due}
<1>1. /\ Len(q) \in Nat /\ DOMAIN q = 1 .. Len(q)
      /\ \A i \in 1 .. Len(q) : q[i].due \in Int
  BY DueType
<1>2. Place(q, due) = IF I # {} THEN IF Min(I) = 0 THEN Len(q) + 1 ELSE Min(I)
                                ELSE Len(q) + 1
  BY DEF Place, SelectInSeq
<1>3. CASE I = {}
  BY <1>1, <1>2, <1>3, SMTT(30)
<1>4. CASE I # {}
  <2>1. IsFiniteSet(I) /\ I \subseteq Nat
    <3>1. IsFiniteSet(1 .. Len(q)) /\ I \subseteq 1 .. Len(q)
      BY <1>1, FS_Interval
    <3> QED BY <1>1, <3>1, FS_Subset
  <2>2. \E m \in I : \A j \in I : m <= j
    <3> HIDE DEF I
    <3> QED BY <1>4, <2>1, Least
  <2>3. Min(I) \in I /\ \A j \in I : Min(I) <= j
    <3> HIDE DEF I
    <3> QED BY <2>2 DEF Min
  <2> DEFINE k == Min(I)
  <2>4. k \in 1 .. Len(q) /\ due < q[k].due /\ \A j \in 1 .. Len(q) : due < q[j].due => k <= j
    BY <2>3
  <2>5. Place(q, due) = k
    BY <1>2, <1>4, <2>4
  <2> HIDE DEF k
  <2>6. \A i \in 1 .. Len(q) : i >= k => q[k].due <= q[i].due
    <3>1. \A i \in 1 .. Len(q) : i = k \/ k < i \/ i < k
      BY <2>4
    <3> QED BY <1>1, <2>4, <3>1 DEF ByTime
  <2> QED BY <1>1, <2>4, <2>5, <2>6
<1> QED BY <1>3, <1>4

(* A list stays in order when an entry is put in at its place ... *)
LEMMA PutByTime ==
  ASSUME NEW q \in Seq(Entries), NEW r \in Seq(Entries), NEW k, NEW e \in Entries,
         IsPut(q, k, e, r), ByTime(q),
         \A i \in 1 .. Len(q) : i < k => q[i].due <= e.due,
         \A i \in 1 .. Len(q) : i >= k => e.due <= q[i].due
  PROVE  ByTime(r)
<1>1. /\ Len(q) \in Nat /\ DOMAIN q = 1 .. Len(q) /\ DOMAIN r = 1 .. Len(r)
      /\ \A i \in 1 .. Len(q) : q[i].due \in Int
      /\ e.due \in Int
  BY DueType, EntryType
<1>2. /\ Len(r) = Len(q) + 1 /\ k \in 1 .. Len(r) /\ r[k] = e
      /\ \A i \in 1 .. Len(q) : i < k => r[i] = q[i]
      /\ \A i \in 1 .. Len(q) : i >= k => r[i + 1] = q[i]
  BY DEF IsPut
<1> SUFFICES ASSUME NEW i \in 1 .. Len(r), NEW j \in 1 .. Len(r), i < j
             PROVE  r[i].due <= r[j].due
  BY <1>1 DEF ByTime
<1>3. CASE j < k
  <2>1. i \in 1 .. Len(q) /\ j \in 1 .. Len(q) /\ i < k
    BY <1>1, <1>2, <1>3
  <2> QED BY <1>1, <1>2, <1>3, <2>1 DEF ByTime
<1>4. CASE j = k
  <2>1. i \in 1 .. Len(q) /\ i < k
    BY <1>1, <1>2, <1>4
  <2> QED BY <1>2, <1>4, <2>1
<1>5. CASE k < j
  <2>1. j - 1 \in 1 .. Len(q) /\ j - 1 >= k /\ (j - 1) + 1 = j
    BY <1>1, <1>2, <1>5
  <2>2. r[j] = q[j - 1]
    BY <1>2, <2>1
  <2>3. CASE i < k
    <3>1. i \in 1 .. Len(q) /\ i < j - 1
      BY <1>1, <1>2, <1>5, <2>1, <2>3
    <3> QED BY <1>1, <1>2, <2>1, <2>2, <2>3, <3>1 DEF ByTime
  <2>4. CASE i = k
    BY <1>2, <2>1, <2>2, <2>4
  <2>5. CASE k < i
    <3>1. i - 1 \in 1 .. Len(q) /\ i - 1 >= k /\ (i - 1) + 1 = i /\ i - 1 < j - 1
      BY <1>1, <1>2, <2>1, <2>5
    <3>2. r[i] = q[i - 1]
      BY <1>2, <3>1
    <3> QED BY <1>1, <2>1, <2>2, <3>1, <3>2 DEF ByTime
  <2>6. i < k \/ i = k \/ k < i
    BY <1>2
  <2> QED BY <2>3, <2>4, <2>5, <2>6
<1>6. j < k \/ j = k \/ k < j
  BY <1>2
<1> QED BY <1>3, <1>4, <1>5, <1>6

(* ... and when one is taken out. *)
LEMMA TakenInOrder ==
  ASSUME NEW q \in Seq(Entries), NEW r \in Seq(Entries), NEW k, NEW e,
         IsPut(q, k, e, r), ByTime(r)
  PROVE  ByTime(q)
<1>1. /\ Len(q) \in Nat /\ DOMAIN q = 1 .. Len(q) /\ DOMAIN r = 1 .. Len(r)
  BY DueType
<1>2. /\ Len(r) = Len(q) + 1 /\ k \in 1 .. Len(r)
      /\ \A i \in 1 .. Len(q) : i < k => r[i] = q[i]
      /\ \A i \in 1 .. Len(q) : i >= k => r[i + 1] = q[i]
  BY DEF IsPut
<1> SUFFICES ASSUME NEW i \in 1 .. Len(q), NEW j \in 1 .. Len(q), i < j
             PROVE  q[i].due <= q[j].due
  BY <1>1 DEF ByTime
<1>3. /\ i \in DOMAIN r /\ i + 1 \in DOMAIN r /\ j \in DOMAIN r /\ j + 1 \in DOMAIN r
      /\ i < j + 1 /\ i + 1 < j + 1
  BY <1>1, <1>2
<1>4. CASE j < k
  <2>1. i < k
    BY <1>2, <1>4
  <2> QED BY <1>2, <1>3, <1>4, <2>1 DEF ByTime
<1>5. CASE j >= k /\ i < k
  BY <1>2, <1>3, <1>5 DEF ByTime
<1>6. CASE j >= k /\ i >= k
  BY <1>2, <1>3, <1>6 DEF ByTime
<1>7. j < k \/ (j >= k /\ i < k) \/ (j >= k /\ i >= k)
  BY <1>2
<1> QED BY <1>4, <1>5, <1>6, <1>7

(* Insert() *)
LEMMA InsertedByTime ==
  ASSUME NEW q \in Seq(Entries), ByTime(q), NEW e \in Entries
  PROVE  /\ Insert(q, e) \in Seq(Entries) /\ ByTime(Insert(q, e))
         /\ IsPut(q, Place(q, e.due), e, Insert(q, e))
         /\ \A i \in 1 .. Len(q) : q[i].due <= e.due =>
              i \in 1 .. Len(Insert(q, e)) /\ Insert(q, e)[i] = q[i]
<1> DEFINE k == Place(q, e.due)
           r == Insert(q, e)
<1>1. e.due \in Int
  BY EntryType
<1>2. /\ k \in 1 .. Len(q) + 1
      /\ \A i \in 1 .. Len(q) : i < k => q[i].due <= e.due
      /\ \A i \in 1 .. Len(q) : i >= k => e.due < q[i].due
  BY <1>1, PlaceFound
<1>3. r \in Seq(Entries) /\ IsPut(q, k, e, r)
  BY <1>2, InsertedIsPut DEF Insert
<1> HIDE DEF k, r
<1>4. \A i \in 1 .. Len(q) : q[i].due \in Int
  BY DueType
<1>5. \A i \in 1 .. Len(q) : i >= k => e.due <= q[i].due
  BY <1>1, <1>2, <1>4
<1>6. ByTime(r)
  BY <1>2, <1>3, <1>5, PutByTime
<1>7. ASSUME NEW i \in 1 .. Len(q), q[i].due <= e.due
      PROVE  i \in 1 .. Len(r) /\ r[i] = q[i]
  <2>1. i < k
    BY <1>1, <1>2, <1>4, <1>7
  <2> QED BY <1>3, <2>1, DueType DEF IsPut
<1>8. /\ r \in Seq(Entries) /\ ByTime(r) /\ IsPut(q, k, e, r)
      /\ \A i \in 1 .. Len(q) : q[i].due <= e.due => i \in 1 .. Len(r) /\ r[i] = q[i]
  BY <1>3, <1>6, <1>7
<1> QED BY <1>8 DEF k, r

(* Without(): entries are taken out, the others stay in order. *)
LEMMA KeptInOrder ==
  ASSUME NEW q \in Seq(Entries), ByTime(q), NEW dead
  PROVE  /\ Without(q, dead) \in Seq(Entries) /\ ByTime(Without(q, dead))
         /\ \A S : Count(Without(q, dead), S)
                     = Cardinality({i \in DOMAIN q : q[i].task \notin dead /\ q[i] \in S})
<1> DEFINE I == {i \in DOMAIN q : q[i].task \notin dead}
           r == Kept(q, I)
<1>1. I \in SUBSET DOMAIN q /\ Without(q, dead) = r
  BY DEF Without
<1>2. /\ r \in Seq(Entries) /\ IsFiniteSet(I) /\ I \subseteq Nat
      /\ DOMAIN r = 1 .. Cardinality(I)
      /\ \A k \in 1 .. Cardinality(I) : Nth(I, k) \in I /\ r[k] = q[Nth(I, k)]
  <2> HIDE DEF I
  <2> QED BY <1>1, KeptList
<1>3. ByTime(r)
  <2> HIDE DEF I, r
  <2> SUFFICES ASSUME NEW i \in DOMAIN r, NEW j \in DOMAIN r, i < j
               PROVE  r[i].due <= r[j].due
    BY DEF ByTime
  <2>1. i \in 1 .. Cardinality(I) /\ j \in 1 .. Cardinality(I)
    BY <1>2
  <2>2. Nth(I, i) < Nth(I, j)
    BY <1>2, <2>1, NthInOrder
  <2>3. Nth(I, i) \in DOMAIN q /\ Nth(I, j) \in DOMAIN q
    BY <1>1, <1>2, <2>1
  <2> QED BY <1>2, <2>1, <2>2, <2>3 DEF ByTime
<1>4. ASSUME NEW S
      PROVE  Count(r, S) = Cardinality({i \in DOMAIN q : q[i].task \notin dead /\ q[i] \in S})
  <2>1. Count(r, S) = Cardinality({i \in I : q[i] \in S})
    <3> HIDE DEF I
    <3> QED BY <1>1, KeptCounts
  <2>2. {i \in I : q[i] \in S} = {i \in DOMAIN q : q[i].task \notin dead /\ q[i] \in S}
    OBVIOUS
  <2> QED BY <2>1, <2>2
<1> QED BY <1>1, <1>2, <1>3, <1>4

(* Taking out the entry at k *)
LEMMA Removed ==
  ASSUME NEW q \in Seq(Entries), ByTime(q), NEW k \in 1 .. Len(q)
  PROVE  /\ RemoveAt(q, k) \in Seq(Entries) /\ ByTime(RemoveAt(q, k))
         /\ IsPut(RemoveAt(q, k), k, q[k], q) /\ Len(q) = Len(RemoveAt(q, k)) + 1
<1>1. RemoveAt(q, k) \in Seq(Entries) /\ IsPut(RemoveAt(q, k), k, q[k], q)
  BY RemovedIsPut DEF RemoveAt
<1>2. ByTime(RemoveAt(q, k))
  <2> HIDE DEF RemoveAt
  <2> QED BY <1>1, TakenInOrder
<1> QED BY <1>1, <1>2 DEF IsPut

(* The entry at k moves on, to the place of its next note. *)
LEMMA Moved ==
  ASSUME NEW q \in Seq(Entries), ByTime(q), NEW k \in 1 .. Len(q), NEW e \in Entries,
         q[k].due <= e.due
  PROVE  LET tail == SubSeq(q, k + 1, Len(q))
             r == SubSeq(q, 1, k - 1) \o Insert(tail, e)
             m == k - 1 + Place(tail, e.due)
         IN  /\ r \in Seq(Entries) /\ ByTime(r) /\ Len(r) = Len(q)
             /\ IsPut(RemoveAt(q, k), m, e, r)
             /\ k + Place(tail, e.due) \in 1 .. Len(r) + 1
<1> DEFINE head == SubSeq(q, 1, k - 1)
           tail == SubSeq(q, k + 1, Len(q))
           ins == Insert(tail, e)
           pl == Place(tail, e.due)
           u == RemoveAt(q, k)
           r == head \o ins
           m == k - 1 + pl
<1>0. /\ Len(q) \in Nat /\ k \in Int /\ 1 <= k /\ k <= Len(q) /\ DOMAIN q = 1 .. Len(q)
      /\ \A i \in 1 .. Len(q) : q[i] \in Entries /\ q[i].due \in Int
      /\ e.due \in Int
  BY DueType, EntryType
<1>1. head \in Seq(Entries) /\ Len(head) = k - 1 /\ \A i \in 1 .. k - 1 : head[i] = q[i]
  <2>1. \A i \in 1 .. k - 1 : q[i] \in Entries
    BY <1>0
  <2>2. /\ head \in Seq(Entries) /\ Len(head) = IF 1 <= k - 1 THEN (k - 1) - 1 + 1 ELSE 0
        /\ \A i \in 1 .. (k - 1) - 1 + 1 : head[i] = q[1 + i - 1]
    BY <1>0, <2>1, SubSeqProperties
  <2>3. \A i \in 1 .. k - 1 : i \in 1 .. (k - 1) - 1 + 1 /\ 1 + i - 1 = i
    BY <1>0
  <2> HIDE DEF head
  <2> QED BY <1>0, <2>2, <2>3
<1>2. /\ tail \in Seq(Entries) /\ Len(tail) = Len(q) - k
      /\ \A i \in 1 .. Len(q) - k : tail[i] = q[k + i]
  <2>1. \A i \in k + 1 .. Len(q) : q[i] \in Entries
    BY <1>0
  <2>2. /\ tail \in Seq(Entries) /\ Len(tail) = IF k + 1 <= Len(q) THEN Len(q) - (k + 1) + 1 ELSE 0
        /\ \A i \in 1 .. Len(q) - (k + 1) + 1 : tail[i] = q[(k + 1) + i - 1]
    BY <1>0, <2>1, SubSeqProperties
  <2>3. \A i \in 1 .. Len(q) - k : i \in 1 .. Len(q) - (k + 1) + 1 /\ (k + 1) + i - 1 = k + i
    BY <1>0
  <2> HIDE DEF tail
  <2>4. Len(tail) = Len(q) - k
    <3>1. Len(q) \in Nat /\ k \in Int /\ k <= Len(q)
      BY <1>0
    <3>2. Len(tail) = IF k + 1 <= Len(q) THEN Len(q) - (k + 1) + 1 ELSE 0
      BY <2>2
    <3> QED BY <3>1, <3>2
  <2>5. \A i \in 1 .. Len(q) - k : tail[i] = q[k + i]
    BY <2>2, <2>3
  <2> QED BY <2>2, <2>4, <2>5
<1>3. ByTime(tail)
  <2> HIDE DEF tail
  <2> SUFFICES ASSUME NEW i \in 1 .. Len(q) - k, NEW j \in 1 .. Len(q) - k, i < j
               PROVE  tail[i].due <= tail[j].due
    BY <1>2, DueType DEF ByTime
  <2>1. k + i \in 1 .. Len(q) /\ k + j \in 1 .. Len(q) /\ k + i < k + j
    BY <1>0
  <2> QED BY <1>0, <1>2, <2>1 DEF ByTime
<1>4. /\ ins \in Seq(Entries) /\ IsPut(tail, pl, e, ins)
      /\ pl \in 1 .. Len(tail) + 1
      /\ \A i \in 1 .. Len(tail) : i < pl => tail[i].due <= e.due
      /\ \A i \in 1 .. Len(tail) : i >= pl => e.due < tail[i].due
  <2> HIDE DEF tail
  <2> QED BY <1>0, <1>2, <1>3, InsertedByTime, PlaceFound
<1>5. /\ Len(ins) = Len(q) - k + 1 /\ ins[pl] = e
      /\ \A i \in 1 .. Len(q) - k : i < pl => ins[i] = tail[i]
      /\ \A i \in 1 .. Len(q) - k : i >= pl => ins[i + 1] = tail[i]
  <2> HIDE DEF tail, ins, pl
  <2> QED BY <1>2, <1>4 DEF IsPut
<1>6. /\ u \in Seq(Entries) /\ ByTime(u) /\ Len(u) = Len(q) - 1
      /\ \A i \in 1 .. Len(q) - 1 : i < k => u[i] = q[i]
      /\ \A i \in 1 .. Len(q) - 1 : i >= k => u[i] = q[i + 1]
  <2>1. u \in Seq(Entries) /\ ByTime(u) /\ IsPut(u, k, q[k], q) /\ Len(q) = Len(u) + 1
    BY Removed
  <2> HIDE DEF u
  <2>2. Len(u) \in Nat
    BY <2>1
  <2>3. Len(u) = Len(q) - 1
    BY <1>0, <2>1, <2>2
  <2> QED BY <2>1, <2>3 DEF IsPut
<1> HIDE DEF head, tail, ins, pl, u
<1> HIDE DEF m
<1>m. m = k - 1 + pl
  BY DEF m
<1>n. /\ Len(q) \in Nat /\ k \in Int /\ 1 <= k /\ k <= Len(q)
      /\ Len(head) = k - 1 /\ Len(ins) = Len(q) - k + 1 /\ pl \in 1 .. (Len(q) - k) + 1
  BY <1>0, <1>1, <1>2, <1>4, <1>5
<1>7. /\ r \in Seq(Entries) /\ Len(r) = Len(head) + Len(ins)
      /\ \A i \in 1 .. Len(head) + Len(ins) :
           r[i] = IF i <= Len(head) THEN head[i] ELSE ins[i - Len(head)]
  BY <1>1, <1>4, ConcatProperties
<1> HIDE DEF r
<1>8. Len(r) = Len(q) /\ Len(r) = Len(u) + 1 /\ m \in 1 .. Len(r)
  <2>1. Len(r) = Len(q)
    BY <1>0, <1>1, <1>5, <1>7
  <2>2. Len(q) = Len(u) + 1
    BY <1>0, <1>6
  <2>3. m \in 1 .. Len(q)
    BY <1>m, <1>n
  <2> QED BY <2>1, <2>2, <2>3
<1>9. r[m] = e
  <2>1. m \in 1 .. Len(head) + Len(ins) /\ ~(m <= Len(head)) /\ m - Len(head) = pl
    BY <1>m, <1>n
  <2> QED BY <1>5, <1>7, <2>1
<1>10. ASSUME NEW i \in 1 .. Len(u), i < m PROVE r[i] = u[i] /\ u[i].due <= e.due
  <2>1. CASE i < k
    <3>1. i \in 1 .. Len(head) + Len(ins) /\ i <= Len(head) /\ i \in 1 .. k - 1 /\ i \in 1 .. Len(q) - 1
      BY <1>0, <1>1, <1>5, <1>6, <2>1
    <3>2. r[i] = q[i] /\ u[i] = q[i]
      BY <1>1, <1>6, <1>7, <2>1, <3>1
    <3>3. q[i].due <= q[k].due /\ q[i].due \in Int /\ q[k].due \in Int
      BY <1>0, <2>1, <3>1 DEF ByTime
    <3> QED BY <1>0, <3>2, <3>3
  <2>2. CASE i >= k
    <3>1. /\ i \in 1 .. Len(head) + Len(ins) /\ ~(i <= Len(head))
          /\ i - Len(head) \in 1 .. Len(q) - k /\ i - Len(head) < pl
          /\ k + (i - Len(head)) = i + 1 /\ i \in 1 .. Len(q) - 1
      BY <1>6, <1>10, <1>m, <1>n, <2>2
    <3>2. r[i] = tail[i - Len(head)] /\ tail[i - Len(head)] = q[i + 1] /\ u[i] = q[i + 1]
      BY <1>2, <1>5, <1>6, <1>7, <2>2, <3>1
    <3>3. tail[i - Len(head)].due <= e.due
      BY <1>2, <1>4, <3>1
    <3> QED BY <3>2, <3>3
  <2> QED BY <1>0, <2>1, <2>2
<1>11. ASSUME NEW i \in 1 .. Len(u), i >= m PROVE r[i + 1] = u[i] /\ e.due <= u[i].due
  <2>1. /\ i + 1 \in 1 .. Len(head) + Len(ins) /\ ~(i + 1 <= Len(head))
        /\ i - Len(head) \in 1 .. Len(q) - k /\ i - Len(head) >= pl
        /\ (i + 1) - Len(head) = (i - Len(head)) + 1
        /\ k + (i - Len(head)) = i + 1 /\ i \in 1 .. Len(q) - 1 /\ i >= k /\ i + 1 \in 1 .. Len(q)
    BY <1>6, <1>11, <1>m, <1>n
  <2>2. r[i + 1] = ins[(i - Len(head)) + 1]
    <3>1. r[i + 1] = ins[(i + 1) - Len(head)]
      BY <1>7, <2>1
    <3> QED BY <2>1, <3>1
  <2>3. ins[(i - Len(head)) + 1] = tail[i - Len(head)]
    BY <1>5, <2>1
  <2>4. tail[i - Len(head)] = q[i + 1] /\ u[i] = q[i + 1]
    BY <1>2, <1>6, <2>1
  <2>5. e.due < tail[i - Len(head)].due
    BY <1>2, <1>4, <2>1
  <2> QED BY <1>0, <2>1, <2>2, <2>3, <2>4, <2>5, SMTT(30)
<1>12. IsPut(u, m, e, r)
  BY <1>8, <1>9, <1>10, <1>11 DEF IsPut
<1>13. ByTime(r)
  BY <1>6, <1>7, <1>10, <1>11, <1>12, PutByTime
<1>14. k + pl \in 1 .. Len(r) + 1
  BY <1>0, <1>2, <1>4, <1>8
<1> QED BY <1>7, <1>8, <1>12, <1>13, <1>14 DEF m, r, u, ins, pl, head, tail

-----------------------------------------------------------------------------
(* Counts.                                                                 *)

LEMMA OffsCounted ==
  ASSUME NEW q \in Seq(Entries), NEW p
  PROVE  /\ OffsOf(q, p) = {i \in DOMAIN q : q[i] \in OffsFor(p)}
         /\ Cardinality(OffsOf(q, p)) = Count(q, OffsFor(p))
<1>1. \A i \in DOMAIN q : q[i] \in Entries
  OBVIOUS
<1>2. OffsOf(q, p) = {i \in DOMAIN q : q[i] \in OffsFor(p)}
  BY <1>1 DEF OffsOf, OffsFor
<1> QED BY <1>2 DEF Count

LEMMA EntriesCounted ==
  ASSUME NEW q \in Seq(Entries), NEW t
  PROVE  /\ {i \in DOMAIN q : q[i].task = t} = {i \in DOMAIN q : q[i] \in EntriesFor(t)}
         /\ Cardinality({i \in DOMAIN q : q[i].task = t}) = Count(q, EntriesFor(t))
<1>1. \A i \in DOMAIN q : q[i] \in Entries
  OBVIOUS
<1>2. {i \in DOMAIN q : q[i].task = t} = {i \in DOMAIN q : q[i] \in EntriesFor(t)}
  BY <1>1 DEF EntriesFor
<1> QED BY <1>2 DEF Count

LEMMA InvGives == ASSUME Inv PROVE CountsExact /\ NotesEnd
<1>1. Topsched \in Seq(Entries)
  BY DEF Inv, TypeOK
<1>2. \A t : Cardinality(EntriesOf(t)) = Count(Topsched, EntriesFor(t))
  BY <1>1, EntriesCounted DEF EntriesOf
<1>3. \A p : Cardinality(OffsOf(Topsched, p)) = Count(Topsched, OffsFor(p))
  BY <1>1, OffsCounted
<1>4. CountsExact
  BY <1>2 DEF Inv, CountsInv, CountsExact
<1> QED BY <1>3, <1>4 DEF Inv, NotesInv, NotesEnd

Messages == Pitch \cup {"user"}

LEMMA MessagesCounted ==
  ASSUME NEW q \in Seq(Messages), NEW p
  PROVE  /\ CountOf(q, p) = Count(q, {p}) /\ CountOf(q, p) \in Nat
         /\ IsFiniteSet({i \in DOMAIN q : q[i] = p})
<1>1. {i \in DOMAIN q : q[i] = p} = {i \in DOMAIN q : q[i] \in {p}}
  OBVIOUS
<1>2. CountOf(q, p) = Count(q, {p})
  BY <1>1 DEF CountOf, Count
<1> QED BY <1>1, <1>2, CountType

LEMMA NoMessages == ASSUME NEW p PROVE CountOf(<<>>, p) = 0
<1>1. {i \in DOMAIN <<>> : <<>>[i] = p} = {}
  OBVIOUS
<1> QED BY <1>1, FS_EmptySet DEF CountOf

LEMMA AppendCounted ==
  ASSUME NEW q \in Seq(Messages), NEW m \in Messages, NEW p
  PROVE  /\ Append(q, m) \in Seq(Messages)
         /\ CountOf(Append(q, m), p) = CountOf(q, p) + (IF m = p THEN 1 ELSE 0)
<1> DEFINE r == Append(q, m)
<1>1. /\ r \in Seq(Messages) /\ Len(r) = Len(q) + 1 /\ Len(q) \in Nat
      /\ \A i \in 1 .. Len(q) : r[i] = q[i]
      /\ r[Len(q) + 1] = m
  BY AppendProperties
<1> HIDE DEF r
<1>2. IsPut(q, Len(q) + 1, m, r)
  BY <1>1 DEF IsPut
<1>3. Count(r, {p}) = Count(q, {p}) + (IF m \in {p} THEN 1 ELSE 0)
  BY <1>1, <1>2, PutCounts
<1> QED BY <1>1, <1>3, MessagesCounted DEF r

LEMMA AfterOffsIs ==
  ASSUME NEW n, NEW p, n[p] \in Nat, NEW k \in Nat
  PROVE  AfterOffs(n, p, k) \in Nat /\ (k <= n[p] => AfterOffs(n, p, k) = n[p] - k)
BY DEF AfterOffs

(* One entry more *)
LEMMA Sprouted ==
  ASSUME NEW q \in Seq(Entries), ByTime(q), NEW e \in Entries
  PROVE  /\ Insert(q, e) \in Seq(Entries) /\ ByTime(Insert(q, e))
         /\ Len(Insert(q, e)) = Len(q) + 1
         /\ \A S : Count(Insert(q, e), S) = Count(q, S) + (IF e \in S THEN 1 ELSE 0)
         /\ \A i \in 1 .. Len(q) : q[i].due <= e.due =>
              i \in 1 .. Len(Insert(q, e)) /\ Insert(q, e)[i] = q[i]
<1>1. /\ Insert(q, e) \in Seq(Entries) /\ ByTime(Insert(q, e))
      /\ IsPut(q, Place(q, e.due), e, Insert(q, e))
      /\ \A i \in 1 .. Len(q) : q[i].due <= e.due =>
           i \in 1 .. Len(Insert(q, e)) /\ Insert(q, e)[i] = q[i]
  BY InsertedByTime
<1>2. \A S : Count(Insert(q, e), S) = Count(q, S) + (IF e \in S THEN 1 ELSE 0)
  BY <1>1, PutCounts
<1> QED BY <1>1, <1>2 DEF IsPut

(* One entry less *)
LEMMA Shrunk ==
  ASSUME NEW q \in Seq(Entries), ByTime(q), NEW k \in 1 .. Len(q)
  PROVE  /\ RemoveAt(q, k) \in Seq(Entries) /\ ByTime(RemoveAt(q, k))
         /\ Len(RemoveAt(q, k)) = Len(q) - 1
         /\ \A S : Count(RemoveAt(q, k), S) = Count(q, S) - (IF q[k] \in S THEN 1 ELSE 0)
<1>1. /\ RemoveAt(q, k) \in Seq(Entries) /\ ByTime(RemoveAt(q, k))
      /\ IsPut(RemoveAt(q, k), k, q[k], q) /\ Len(q) = Len(RemoveAt(q, k)) + 1
  BY Removed
<1>2. ASSUME NEW S
      PROVE  Count(RemoveAt(q, k), S) = Count(q, S) - (IF q[k] \in S THEN 1 ELSE 0)
  <2>1. Count(q, S) = Count(RemoveAt(q, k), S) + (IF q[k] \in S THEN 1 ELSE 0)
    BY <1>1, PutCounts
  <2>2. Count(q, S) \in Nat /\ Count(RemoveAt(q, k), S) \in Nat
    BY <1>1, CountType
  <2> QED BY <2>1, <2>2
<1>3. Len(q) \in Nat /\ Len(RemoveAt(q, k)) \in Nat
  BY <1>1
<1> QED BY <1>1, <1>2, <1>3

-----------------------------------------------------------------------------
(* Notes and entries of the walk.                                          *)

LEMMA NoteType ==
  ASSUME NEW e \in Entries, e.type # "wake"
  PROVE  /\ e.task \in Task /\ e.due \in Int /\ e.note \in Nat /\ Len(e.phr) \in Nat
         /\ 1 <= e.note /\ e.note <= Len(e.phr) /\ DOMAIN e.phr = 1 .. Len(e.phr)
         /\ \A i \in 1 .. Len(e.phr) : e.phr[i].pitch \in Pitch /\ e.phr[i].time \in Nat
                                        /\ e.phr[i].dur \in Nat
         /\ e.type = "noteoff" =>
              /\ e.note = Len(e.phr) /\ e.note = 1 /\ e.phr[1].type = "off" /\ e.repeat = 0
         /\ e.type = "phrase" =>
              /\ e.phr \in Phrase /\ e.repeat \in Repeat /\ e.repeat \in Nat
              /\ \A i \in 1 .. Len(e.phr) : e.phr[i].type \in {"note", "on", "off"}
              /\ \A i, j \in 1 .. Len(e.phr) : i <= j => e.phr[i].time <= e.phr[j].time
         /\ e.type \in {"phrase", "noteoff"}
<1>1. CASE e.type = "phrase"
  <2>1. e.phr \in Seq(Note) /\ e.phr \in Phrase /\ e.note \in DOMAIN e.phr
        /\ e.repeat \in Repeat /\ e.repeat \in Nat /\ e.task \in Task /\ e.due \in Int
    BY <1>1, EntryType, SchedAssumption
  <2>2. DOMAIN e.phr = 1 .. Len(e.phr) /\ Len(e.phr) \in Nat /\ \A i \in 1 .. Len(e.phr) : e.phr[i] \in Note
    BY <2>1
  <2>3. \A i \in 1 .. Len(e.phr) :
          /\ e.phr[i].pitch \in Pitch /\ e.phr[i].time \in Nat /\ e.phr[i].dur \in Nat
          /\ e.phr[i].type \in {"note", "on", "off"}
    BY <2>2 DEF Note
  <2>4. \A i, j \in 1 .. Len(e.phr) : i <= j => e.phr[i].time <= e.phr[j].time
    BY <2>1, <2>2, SchedAssumption
  <2>5. e.note \in Nat /\ 1 <= e.note /\ e.note <= Len(e.phr)
    BY <2>1, <2>2
  <2>6. e.type # "noteoff"
    BY <1>1
  <2> QED BY <1>1, <2>1, <2>2, <2>3, <2>4, <2>5, <2>6
<1>2. CASE e.type = "noteoff"
  <2>1. PICK p \in Pitch : e.phr = <<OffNote(p)>>
    BY <1>2, EntryType
  <2>2. Len(e.phr) = 1 /\ DOMAIN e.phr = 1 .. 1 /\ e.phr[1] = OffNote(p)
    BY <2>1
  <2>3. \A i \in 1 .. 1 : i = 1
    OBVIOUS
  <2> QED BY <1>2, <2>2, <2>3, EntryType DEF OffNote
<1> QED BY <1>1, <1>2, EntryType

-----------------------------------------------------------------------------
(* The steps between two walks.                                            *)

LEMMA InitInv == Init => Inv
<1> SUFFICES ASSUME Init PROVE Inv
  OBVIOUS
<1>1. TypeOK
  <2>1. /\ Topsched = <<>> /\ schedcnt = [t \in Task |-> 0]
        /\ Onmsg = <<>> /\ Offmsg = <<>> /\ Offmsg2 = <<>>
        /\ s = 0 /\ throttle = 0 /\ sametime = FALSE
        /\ sounding = [p \in Pitch |-> 0] /\ cut = FALSE
    BY DEF Init
  <2>2. Topsched \in Seq(Entries) /\ Len(Topsched) = 0
    BY <2>1
  <2>3. {Onmsg, Offmsg, Offmsg2} \subseteq Seq(Pitch \cup {"user"})
    BY <2>1
  <2>4. s \in 0 .. Len(Topsched) + 1 /\ throttle \in Int
    BY <2>1, <2>2
  <2>5. schedcnt \in [Task -> Int] /\ sounding \in [Pitch -> Nat]
    BY <2>1
  <2> QED BY <2>1, <2>2, <2>3, <2>4, <2>5 DEF TypeOK
<1>2. Sorted
  BY DEF Init, Sorted
<1>3. /\ \A S : Count(Topsched, S) = 0
      /\ \A p : CountOf(Onmsg, p) = 0 /\ CountOf(Offmsg, p) = 0 /\ CountOf(Offmsg2, p) = 0
  BY CountEmpty, NoMessages DEF Init
<1>4. WalkInv
  BY <1>3 DEF Init, WalkInv
<1>5. CountsInv /\ NotesInv
  BY <1>3 DEF Init, CountsInv, NotesInv
<1> QED BY <1>1, <1>2, <1>4, <1>5 DEF Inv

(* The types, in a form that is easily split *)
LEMMA Types ==
  ASSUME TypeOK
  PROVE  /\ Topsched \in Seq(Entries) /\ Len(Topsched) \in Nat
         /\ DOMAIN Topsched = 1 .. Len(Topsched)
         /\ Onmsg \in Seq(Messages) /\ Offmsg \in Seq(Messages) /\ Offmsg2 \in Seq(Messages)
         /\ schedcnt \in [Task -> Int] /\ sounding \in [Pitch -> Nat]
         /\ s \in 0 .. Len(Topsched) + 1 /\ throttle \in Int
         /\ sametime \in BOOLEAN /\ cut \in BOOLEAN
BY DEF TypeOK, Messages

(* Between two walks there are no messages. *)
LEMMA IdleCounts ==
  ASSUME Inv, Idle
  PROVE  /\ \A p : CountOf(Onmsg, p) = 0 /\ CountOf(Offmsg, p) = 0 /\ CountOf(Offmsg2, p) = 0
         /\ ~cut => \A p \in Pitch : sounding[p] = Count(Topsched, OffsFor(p))
<1>1. Topsched \in Seq(Entries) /\ sounding \in [Pitch -> Nat]
  BY Types DEF Inv
<1>2. \A p : CountOf(Onmsg, p) = 0 /\ CountOf(Offmsg, p) = 0 /\ CountOf(Offmsg2, p) = 0
  BY NoMessages DEF Inv, WalkInv
<1>3. \A p : Count(Topsched, OffsFor(p)) \in Nat
  BY <1>1, CountType
<1> QED BY <1>1, <1>2, <1>3 DEF Inv, NotesInv

(* A step between two walks that leaves the buffers alone keeps the invariant if the
   list is in order and its counts agree.                                          *)
LEMMA IdleStep ==
  ASSUME Inv, Idle, UNCHANGED <<buffers, walk>>,
         Topsched' \in Seq(Entries), ByTime(Topsched'), schedcnt' \in [Task -> Int],
         sounding' \in [Pitch -> Nat], cut' \in BOOLEAN,
         \A t \in Task : schedcnt'[t] = Count(Topsched', EntriesFor(t)),
         ~cut' => \A p \in Pitch : sounding'[p] = Count(Topsched', OffsFor(p))
  PROVE  Inv'
<1>0. s = 0 /\ TypeOK
  BY DEF Idle, Inv
<1>1. /\ s' = s /\ throttle' = throttle /\ sametime' = sametime
      /\ Onmsg' = Onmsg /\ Offmsg' = Offmsg /\ Offmsg2' = Offmsg2
  BY DEF buffers, walk
<1>2. TypeOK'
  BY <1>0, <1>1 DEF TypeOK
<1>3. \A p : CountOf(Onmsg', p) = 0 /\ CountOf(Offmsg', p) = 0 /\ CountOf(Offmsg2', p) = 0
  BY <1>1, IdleCounts
<1>4. \A S : Count(Topsched', S) \in Nat
  BY CountType
<1>5. WalkInv'
  BY <1>0, <1>1, <1>3, <1>4 DEF WalkInv, Inv, Idle
<1>6. NotesInv'
  BY <1>3, <1>4 DEF NotesInv
<1> QED BY <1>2, <1>5, <1>6 DEF Inv, Sorted, ByTime, CountsInv

(* realtime() *)
LEMMA RealtimeStep ==
  ASSUME Inv, NEW t \in Task, NEW p \in Phrase, NEW d \in Delay, NEW r \in Repeat,
         Realtime(t, p, d, r)
  PROVE  Inv'
<1> DEFINE e == PhraseEntry(t, p, d + p[1].time, r)
<1>1. e \in Entries /\ e.task = t /\ e.type = "phrase"
  <2>1. p \in Seq(Note) /\ p # <<>> /\ d \in Int
    BY SchedAssumption
  <2>2. 1 \in DOMAIN p /\ p[1] \in Note
    BY <2>1
  <2>3. d + p[1].time \in Int
    BY <2>1, <2>2 DEF Note
  <2>4. e \in PhraseEntries
    BY <2>2, <2>3 DEF PhraseEntry, PhraseEntries
  <2> QED BY <2>4 DEF Entries, PhraseEntry
<1> HIDE DEF e
<1>2. /\ Idle /\ schedcnt[t] = 0 /\ Topsched' = Insert(Topsched, e)
      /\ schedcnt' = [schedcnt EXCEPT ![t] = 1] /\ UNCHANGED <<buffers, walk, sounding, cut>>
  BY DEF Realtime, e
<1>3. Topsched \in Seq(Entries) /\ ByTime(Topsched) /\ schedcnt \in [Task -> Int]
      /\ sounding \in [Pitch -> Nat] /\ cut \in BOOLEAN
  BY Types DEF Inv, Sorted, ByTime
<1>4. /\ Topsched' \in Seq(Entries) /\ ByTime(Topsched')
      /\ \A S : Count(Topsched', S) = Count(Topsched, S) + (IF e \in S THEN 1 ELSE 0)
      /\ \A S : Count(Topsched, S) \in Nat
  <2>1. /\ Insert(Topsched, e) \in Seq(Entries) /\ ByTime(Insert(Topsched, e))
        /\ \A S : Count(Insert(Topsched, e), S) = Count(Topsched, S) + (IF e \in S THEN 1 ELSE 0)
    BY <1>1, <1>3, Sprouted
  <2>2. \A S : Count(Topsched, S) \in Nat
    BY <1>3, CountType
  <2> QED BY <1>2, <2>1, <2>2
<1>5. \A u \in Task : schedcnt'[u] = Count(Topsched', EntriesFor(u))
  <2>1. \A u : e \in EntriesFor(u) <=> u = t
    BY <1>1 DEF EntriesFor
  <2>2. \A u \in Task : schedcnt[u] = Count(Topsched, EntriesFor(u))
    BY DEF Inv, CountsInv
  <2> QED BY <1>2, <1>3, <1>4, <2>1, <2>2
<1>6. ~cut' => \A q \in Pitch : sounding'[q] = Count(Topsched', OffsFor(q))
  <2>1. \A q : e \notin OffsFor(q)
    BY <1>1 DEF OffsFor
  <2> QED BY <1>2, <1>4, <2>1, IdleCounts
<1>7. schedcnt' \in [Task -> Int] /\ sounding' \in [Pitch -> Nat] /\ cut' \in BOOLEAN
  BY <1>2, <1>3
<1> QED BY <1>2, <1>4, <1>5, <1>6, <1>7, IdleStep

(* sleeptill() *)
LEMMA SleepTillStep ==
  ASSUME Inv, NEW t \in Sleeper, NEW d \in Delay, SleepTill(t, d)
  PROVE  Inv'
<1> DEFINE e == WakeEntry(t, d)
<1>1. e \in Entries /\ e.task = t /\ e.type = "wake"
  BY SchedAssumption DEF WakeEntry, WakeEntries, Entries
<1> HIDE DEF e
<1>2. /\ Idle /\ Topsched' = Insert(Topsched, e)
      /\ UNCHANGED <<schedcnt, buffers, walk, sounding, cut>>
  BY DEF SleepTill, e
<1>3. Topsched \in Seq(Entries) /\ ByTime(Topsched) /\ schedcnt \in [Task -> Int]
      /\ sounding \in [Pitch -> Nat] /\ cut \in BOOLEAN
  BY Types DEF Inv, Sorted, ByTime
<1>4. /\ Topsched' \in Seq(Entries) /\ ByTime(Topsched')
      /\ \A S : Count(Topsched', S) = Count(Topsched, S) + (IF e \in S THEN 1 ELSE 0)
      /\ \A S : Count(Topsched, S) \in Nat
  BY <1>1, <1>2, <1>3, Sprouted, CountType
<1>5. \A u \in Task : schedcnt'[u] = Count(Topsched', EntriesFor(u))
  <2>1. \A u \in Task : e \notin EntriesFor(u)
    BY <1>1, SchedAssumption DEF EntriesFor
  <2>2. \A u \in Task : schedcnt[u] = Count(Topsched, EntriesFor(u))
    BY DEF Inv, CountsInv
  <2> QED BY <1>2, <1>4, <2>1, <2>2
<1>6. ~cut' => \A q \in Pitch : sounding'[q] = Count(Topsched', OffsFor(q))
  <2>1. \A q : e \notin OffsFor(q)
    BY <1>1 DEF OffsFor
  <2> QED BY <1>2, <1>4, <2>1, IdleCounts
<1>7. schedcnt' \in [Task -> Int] /\ sounding' \in [Pitch -> Nat] /\ cut' \in BOOLEAN
  BY <1>2, <1>3
<1> QED BY <1>2, <1>4, <1>5, <1>6, <1>7, IdleStep

(* unsched(): nothing is left of the tasks in dead. *)
LEMMA UnscheduledLeaves ==
  ASSUME Inv, NEW dead, Unscheduled(dead)
  PROVE  /\ Topsched' \in Seq(Entries) /\ ByTime(Topsched')
         /\ schedcnt' \in [Task -> Int] /\ sounding' \in [Pitch -> Nat]
         /\ \A t \in Task : schedcnt'[t] = Count(Topsched', EntriesFor(t))
         /\ \A p \in Pitch : sounding[p] = Count(Topsched, OffsFor(p))
                               => sounding'[p] = Count(Topsched', OffsFor(p))
<1>1. Topsched \in Seq(Entries) /\ ByTime(Topsched) /\ schedcnt \in [Task -> Int]
      /\ sounding \in [Pitch -> Nat]
  BY Types DEF Inv, Sorted, ByTime
<1>2. /\ Topsched' = Without(Topsched, dead)
      /\ schedcnt' = [t \in Task |-> IF t \in dead THEN 0 ELSE schedcnt[t]]
      /\ sounding' = [p \in Pitch |->
           AfterOffs(sounding, p,
             Cardinality({i \in OffsOf(Topsched, p) : Topsched[i].task \in dead}))]
  BY DEF Unscheduled
<1>3. /\ Topsched' \in Seq(Entries) /\ ByTime(Topsched')
      /\ \A S : Count(Topsched', S)
                  = Cardinality({i \in DOMAIN Topsched : Topsched[i].task \notin dead /\ Topsched[i] \in S})
  BY <1>1, <1>2, KeptInOrder
<1>4. ASSUME NEW t \in Task
      PROVE  schedcnt'[t] = Count(Topsched', EntriesFor(t))
  <2> DEFINE left == {i \in DOMAIN Topsched : Topsched[i].task \notin dead /\ Topsched[i] \in EntriesFor(t)}
             all == {i \in DOMAIN Topsched : Topsched[i] \in EntriesFor(t)}
  <2>1. schedcnt[t] = Cardinality(all) /\ Count(Topsched', EntriesFor(t)) = Cardinality(left)
    BY <1>3 DEF Inv, CountsInv, Count
  <2>2. \A i \in all : Topsched[i].task = t
    BY DEF EntriesFor
  <2>3. CASE t \in dead
    <3>1. left = {}
      BY <2>2, <2>3
    <3> HIDE DEF left
    <3> QED BY <1>2, <2>1, <2>3, <3>1, FS_EmptySet
  <2>4. CASE t \notin dead
    <3>1. left = all
      BY <2>2, <2>4
    <3> HIDE DEF left, all
    <3> QED BY <1>2, <2>1, <2>4, <3>1
  <2> QED BY <2>3, <2>4
<1>5. ASSUME NEW p \in Pitch
      PROVE  /\ sounding'[p] \in Nat
             /\ sounding[p] = Count(Topsched, OffsFor(p)) => sounding'[p] = Count(Topsched', OffsFor(p))
  <2> DEFINE offs == {i \in DOMAIN Topsched : Topsched[i] \in OffsFor(p)}
             ended == {i \in offs : Topsched[i].task \in dead}
             left == {i \in DOMAIN Topsched : Topsched[i].task \notin dead /\ Topsched[i] \in OffsFor(p)}
  <2>1. OffsOf(Topsched, p) = offs /\ IsFiniteSet(offs) /\ Count(Topsched, OffsFor(p)) = Cardinality(offs)
    <3>1. OffsOf(Topsched, p) = offs
      BY <1>1, OffsCounted
    <3>2. IsFiniteSet(offs)
      BY <1>1, CountType
    <3>3. Count(Topsched, OffsFor(p)) = Cardinality(offs)
      BY DEF Count
    <3> QED BY <3>1, <3>2, <3>3
  <2>2. sounding'[p] = AfterOffs(sounding, p, Cardinality(ended))
    BY <1>2, <2>1
  <2>3. Count(Topsched', OffsFor(p)) = Cardinality(left)
    BY <1>3
  <2>4. left = offs \ ended /\ offs \cap ended = ended /\ ended \in SUBSET offs
    OBVIOUS
  <2> HIDE DEF offs, ended, left
  <2>5. /\ Cardinality(ended) \in Nat /\ Cardinality(offs) \in Nat
        /\ Cardinality(ended) <= Cardinality(offs)
    BY <2>1, <2>4, FS_Subset, FS_CardinalityType
  <2>6. Cardinality(left) = Cardinality(offs) - Cardinality(ended)
    BY <2>1, <2>4, FS_Difference
  <2>7. sounding[p] \in Nat
    BY <1>1
  <2> QED BY <2>1, <2>2, <2>3, <2>5, <2>6, <2>7, AfterOffsIs
<1>6. schedcnt' \in [Task -> Int]
  BY <1>1, <1>2
<1>7. sounding' \in [Pitch -> Nat]
  BY <1>2, <1>5
<1> QED BY <1>3, <1>4, <1>5, <1>6, <1>7

LEMMA KillStep == ASSUME Inv, NEW x \in Owners, Kill(x) PROVE Inv'
<1>1. Idle /\ Unscheduled({x}) /\ UNCHANGED <<buffers, walk, cut>>
  BY DEF Kill
<1>2. cut \in BOOLEAN
  BY Types DEF Inv
<1>3. ~cut => \A p \in Pitch : sounding[p] = Count(Topsched, OffsFor(p))
  BY <1>1, IdleCounts
<1> QED BY <1>1, <1>2, <1>3, UnscheduledLeaves, IdleStep

(* finishoff() turns off what is to be turned off ... *)
LEMMA OffsTurned ==
  ASSUME Inv,
         sounding' = [p \in Pitch |-> AfterOffs(sounding, p, Cardinality(OffsOf(Topsched, p)))]
  PROVE  /\ sounding' \in [Pitch -> Nat]
         /\ \A p \in Pitch : sounding[p] = Count(Topsched, OffsFor(p)) => sounding'[p] = 0
<1>1. Topsched \in Seq(Entries) /\ sounding \in [Pitch -> Nat]
  BY Types DEF Inv
<1>2. ASSUME NEW p \in Pitch
      PROVE  /\ sounding'[p] \in Nat
             /\ sounding[p] = Count(Topsched, OffsFor(p)) => sounding'[p] = 0
  <2> DEFINE k == Count(Topsched, OffsFor(p))
  <2>1. Cardinality(OffsOf(Topsched, p)) = k
    BY <1>1, OffsCounted
  <2>2. k \in Nat
    BY <1>1, CountType
  <2>3. sounding'[p] = AfterOffs(sounding, p, k)
    BY <2>1
  <2> HIDE DEF k
  <2>4. sounding[p] \in Nat
    BY <1>1
  <2>5. sounding'[p] \in Nat /\ (k <= sounding[p] => sounding'[p] = sounding[p] - k)
    BY <2>2, <2>3, <2>4, AfterOffsIs
  <2>6. sounding[p] = k => sounding'[p] = 0
    BY <2>2, <2>4, <2>5
  <2> QED BY <2>5, <2>6 DEF k
<1> QED BY <1>2

LEMMA FinishOffStep == ASSUME Inv, FinishOff PROVE Inv'
<1>1. /\ Idle /\ cut' = TRUE /\ UNCHANGED <<Topsched, schedcnt, buffers, walk>>
      /\ sounding' = [p \in Pitch |-> AfterOffs(sounding, p, Cardinality(OffsOf(Topsched, p)))]
  BY DEF FinishOff
<1>2. sounding' \in [Pitch -> Nat]
  BY <1>1, OffsTurned
<1>3. Topsched \in Seq(Entries) /\ ByTime(Topsched) /\ schedcnt \in [Task -> Int]
  BY Types DEF Inv, Sorted, ByTime
<1>4. \A t \in Task : schedcnt[t] = Count(Topsched, EntriesFor(t))
  BY DEF Inv, CountsInv
<1> QED BY <1>1, <1>2, <1>3, <1>4, IdleStep

(* ... and resetreal() empties the schedule as well. *)
LEMMA ResetStep == ASSUME Inv, Reset PROVE Inv'
<1>1. /\ Idle /\ Topsched' = <<>> /\ schedcnt' = [t \in Task |-> 0]
      /\ UNCHANGED <<buffers, walk, cut>>
      /\ sounding' = [p \in Pitch |-> AfterOffs(sounding, p, Cardinality(OffsOf(Topsched, p)))]
  BY DEF Reset
<1>2. /\ sounding' \in [Pitch -> Nat] /\ cut \in BOOLEAN
      /\ \A p \in Pitch : sounding[p] = Count(Topsched, OffsFor(p)) => sounding'[p] = 0
  BY <1>1, OffsTurned, Types DEF Inv
<1>3. \A S : Count(Topsched', S) = 0
  BY <1>1, CountEmpty
<1>4. Topsched' \in Seq(Entries) /\ ByTime(Topsched') /\ schedcnt' \in [Task -> Int]
  BY <1>1 DEF ByTime
<1>5. ~cut' => \A p \in Pitch : sounding'[p] = Count(Topsched', OffsFor(p))
  BY <1>1, <1>2, <1>3, IdleCounts
<1>6. \A t \in Task : schedcnt'[t] = Count(Topsched', EntriesFor(t))
  BY <1>1, <1>3
<1>7. cut' \in BOOLEAN
  BY <1>1, <1>2
<1> QED BY <1>1, <1>2, <1>4, <1>5, <1>6, <1>7, IdleStep

-----------------------------------------------------------------------------
(* The steps of the walk.                                                  *)

(* Begin() *)
LEMMA BeginStep == ASSUME Inv, NEW d \in 1 .. MaxJump, Begin(d) PROVE Inv'
<1>1. /\ Idle /\ s' = 1 /\ sametime' = FALSE /\ throttle' = Throttle
      /\ Topsched' = [i \in DOMAIN Topsched |-> [Topsched[i] EXCEPT !.due = @ - d]]
      /\ Onmsg' = <<>> /\ Offmsg' = <<>> /\ Offmsg2' = <<>>
      /\ schedcnt' = schedcnt /\ sounding' = sounding /\ cut' = cut
  BY DEF Begin
<1>2. /\ Topsched \in Seq(Entries) /\ ByTime(Topsched) /\ TypeOK
      /\ DOMAIN Topsched = 1 .. Len(Topsched) /\ Len(Topsched) \in Nat
      /\ d \in Int
      /\ Throttle \in Int
  <2>1. d \in Int /\ Throttle \in Int
    BY SchedAssumption DEF Throttle
  <2> QED BY <2>1, Types DEF Inv, Sorted, ByTime
<1> DEFINE earlier(e) == [e EXCEPT !.due = @ - d]
<1>3. ASSUME NEW e \in Entries
      PROVE  /\ earlier(e) \in Entries /\ earlier(e).due = e.due - d
             /\ earlier(e).task = e.task /\ earlier(e).type = e.type /\ earlier(e).phr = e.phr
  <2>1. CASE e \in PhraseEntries
    BY <1>2, <2>1 DEF PhraseEntries, Entries
  <2>2. CASE e \in OffEntries
    BY <1>2, <2>2 DEF OffEntries, Entries
  <2>3. CASE e \in WakeEntries
    BY <1>2, <2>3 DEF WakeEntries, Entries
  <2> QED BY <2>1, <2>2, <2>3 DEF Entries
<1>4. /\ DOMAIN Topsched' = 1 .. Len(Topsched)
      /\ \A i \in 1 .. Len(Topsched) : Topsched[i] \in Entries /\ Topsched'[i] = earlier(Topsched[i])
  BY <1>1, <1>2
<1> HIDE DEF earlier
<1>5. Topsched' \in Seq(Entries) /\ Len(Topsched') = Len(Topsched)
  <2>1. \A i \in 1 .. Len(Topsched) : Topsched'[i] \in Entries
    BY <1>3, <1>4
  <2>2. Topsched' = [i \in 1 .. Len(Topsched) |-> Topsched'[i]]
    BY <1>1, <1>2
  <2> QED BY <1>2, <2>1, <2>2
<1>6. ByTime(Topsched')
  <2> SUFFICES ASSUME NEW i \in 1 .. Len(Topsched), NEW j \in 1 .. Len(Topsched), i < j
               PROVE  Topsched'[i].due <= Topsched'[j].due
    BY <1>4 DEF ByTime
  <2>1. /\ Topsched'[i].due = Topsched[i].due - d /\ Topsched'[j].due = Topsched[j].due - d
        /\ Topsched[i].due \in Int /\ Topsched[j].due \in Int
    BY <1>3, <1>4, EntryType
  <2>2. Topsched[i].due <= Topsched[j].due
    BY <1>2 DEF ByTime
  <2> QED BY <1>2, <2>1, <2>2
<1>7. ASSUME NEW t PROVE Count(Topsched', EntriesFor(t)) = Count(Topsched, EntriesFor(t))
  <2>1. \A i \in 1 .. Len(Topsched) : Topsched'[i] \in EntriesFor(t) <=> Topsched[i] \in EntriesFor(t)
    BY <1>3, <1>4 DEF EntriesFor
  <2>2. {i \in DOMAIN Topsched' : Topsched'[i] \in EntriesFor(t)}
          = {i \in DOMAIN Topsched : Topsched[i] \in EntriesFor(t)}
    BY <1>2, <1>4, <2>1
  <2> QED BY <2>2 DEF Count
<1>8. ASSUME NEW p PROVE Count(Topsched', OffsFor(p)) = Count(Topsched, OffsFor(p))
  <2>1. \A i \in 1 .. Len(Topsched) : Topsched'[i] \in OffsFor(p) <=> Topsched[i] \in OffsFor(p)
    BY <1>3, <1>4 DEF OffsFor
  <2>2. {i \in DOMAIN Topsched' : Topsched'[i] \in OffsFor(p)}
          = {i \in DOMAIN Topsched : Topsched[i] \in OffsFor(p)}
    BY <1>2, <1>4, <2>1
  <2> QED BY <2>2 DEF Count
<1>9. \A p : CountOf(Onmsg', p) = 0 /\ CountOf(Offmsg', p) = 0 /\ CountOf(Offmsg2', p) = 0
  BY <1>1, NoMessages
<1>10. \A S : Count(Topsched', S) \in Nat
  BY <1>5, CountType
<1>11. TypeOK'
  <2>1. {Onmsg', Offmsg', Offmsg2'} \subseteq Seq(Pitch \cup {"user"})
    BY <1>1
  <2>2. s' \in 0 .. Len(Topsched') + 1
    BY <1>1, <1>2, <1>5
  <2> QED BY <1>1, <1>2, <1>5, <2>1, <2>2 DEF TypeOK
<1>12. WalkInv'
  BY <1>1, <1>9, <1>10 DEF WalkInv, Idle
<1>13. CountsInv'
  BY <1>1, <1>7 DEF Inv, CountsInv
<1>14. NotesInv'
  BY <1>1, <1>8, <1>9, <1>10, IdleCounts DEF NotesInv
<1> QED BY <1>6, <1>11, <1>12, <1>13, <1>14 DEF Inv, Sorted, ByTime

(* The entry the walk is at *)
LEMMA HandledEntry ==
  ASSUME Inv, Handles
  PROVE  /\ s \in 1 .. Len(Topsched) /\ s # 0 /\ Topsched[s] \in Entries
         /\ sametime => Topsched[s].type = "phrase"
         /\ \A p : Topsched[s] \notin LaterOffs(p)
<1>1. Topsched \in Seq(Entries) /\ Len(Topsched) \in Nat /\ DOMAIN Topsched = 1 .. Len(Topsched)
      /\ s \in 0 .. Len(Topsched) + 1
  BY Types DEF Inv
<1>2. s # 0 /\ (sametime => s \in DOMAIN Topsched /\ Topsched[s].type = "phrase")
      /\ (sametime \/ (s <= Len(Topsched) /\ Topsched[s].due <= 0))
  BY DEF Handles, Inv, WalkInv
<1>3. s \in 1 .. Len(Topsched)
  BY <1>1, <1>2
<1>4. Topsched[s] \in Entries
  BY <1>1, <1>3
<1>5. ASSUME NEW p, Topsched[s] \in LaterOffs(p) PROVE FALSE
  <2>1. Topsched[s].type = "noteoff" /\ Topsched[s].due > 0 /\ Topsched[s].due \in Int
    BY <1>4, <1>5, EntryType DEF LaterOffs, OffsFor
  <2> QED BY <1>2, <2>1
<1> QED BY <1>2, <1>3, <1>4, <1>5

(* Send(): every end in the buffers finds its note on. *)
LEMMA SendStep == ASSUME Inv, Send PROVE Inv'
<1>1. /\ s # 0 /\ s' = 0 /\ throttle' = 0 /\ Onmsg' = <<>> /\ Offmsg' = <<>> /\ Offmsg2' = <<>>
      /\ Topsched' = Topsched /\ schedcnt' = schedcnt /\ sametime' = sametime /\ cut' = cut
      /\ sounding' = [p \in Pitch |->
           AfterOffs([sounding EXCEPT ![p] =
                        AfterOffs(sounding, p, CountOf(Offmsg, p)) + CountOf(Onmsg, p)],
                     p, CountOf(Offmsg2, p))]
  BY DEF Send
<1>2. TypeOK /\ Topsched \in Seq(Entries) /\ Len(Topsched) \in Nat /\ sounding \in [Pitch -> Nat]
      /\ Onmsg \in Seq(Messages) /\ Offmsg \in Seq(Messages) /\ Offmsg2 \in Seq(Messages)
  BY Types DEF Inv
<1>3. ASSUME NEW p \in Pitch
      PROVE  /\ sounding'[p] \in Nat
             /\ ~cut => sounding'[p] = Count(Topsched, OffsFor(p))
  <2> DEFINE a == CountOf(Offmsg, p)
             b == CountOf(Onmsg, p)
             c == CountOf(Offmsg2, p)
             ends == Count(Topsched, OffsFor(p))
             later == Count(Topsched, LaterOffs(p))
             n == [sounding EXCEPT ![p] = AfterOffs(sounding, p, a) + b]
  <2>1. a \in Nat /\ b \in Nat /\ c \in Nat
    BY <1>2, MessagesCounted
  <2>2. ends \in Nat /\ later \in Nat
    BY <1>2, CountType
  <2>3. later <= ends
    <3>1. LaterOffs(p) \in SUBSET OffsFor(p)
      BY DEF LaterOffs
    <3> QED BY <1>2, <3>1, CountSubset
  <2>4. sounding[p] \in Nat /\ sounding'[p] = AfterOffs(n, p, c)
    BY <1>1, <1>2
  <2>5. b <= c + later /\ (~cut => sounding[p] + b = ends + a + c)
    BY DEF Inv, WalkInv, NotesInv
  <2> HIDE DEF a, b, c, ends, later
  <2>6. AfterOffs(sounding, p, a) \in Nat
        /\ (a <= sounding[p] => AfterOffs(sounding, p, a) = sounding[p] - a)
    BY <2>1, <2>4, AfterOffsIs
  <2>7. n[p] = AfterOffs(sounding, p, a) + b /\ n[p] \in Nat
    BY <1>2, <2>1, <2>6
  <2> HIDE DEF n
  <2>8. AfterOffs(n, p, c) \in Nat /\ (c <= n[p] => AfterOffs(n, p, c) = n[p] - c)
    BY <2>1, <2>7, AfterOffsIs
  <2>9. ~cut => a <= sounding[p]
    BY <2>1, <2>2, <2>3, <2>4, <2>5
  <2>10. ~cut => sounding'[p] = ends
    BY <2>1, <2>2, <2>4, <2>5, <2>6, <2>7, <2>8, <2>9
  <2> QED BY <2>4, <2>8, <2>10 DEF ends
<1>4. \A p : CountOf(Onmsg', p) = 0 /\ CountOf(Offmsg', p) = 0 /\ CountOf(Offmsg2', p) = 0
  BY <1>1, NoMessages
<1>5. \A S : Count(Topsched', S) \in Nat
  BY <1>1, <1>2, CountType
<1>6. TypeOK'
  <2>1. sounding' \in [Pitch -> Nat]
    BY <1>1, <1>3
  <2>2. {Onmsg', Offmsg', Offmsg2'} \subseteq Seq(Pitch \cup {"user"})
    BY <1>1
  <2>3. s' \in 0 .. Len(Topsched') + 1 /\ throttle' \in Int
    BY <1>1, <1>2
  <2> QED BY <1>1, <1>2, <2>1, <2>2, <2>3 DEF TypeOK
<1>7. WalkInv'
  BY <1>1, <1>4, <1>5 DEF WalkInv
<1>8. NotesInv'
  BY <1>1, <1>3, <1>4, <1>5 DEF NotesInv
<1> QED BY <1>1, <1>6, <1>7, <1>8 DEF Inv, Sorted, CountsInv

LEMMA WakeUpStep == ASSUME Inv, WakeUp PROVE Inv'
<1>1. /\ Handles /\ Topsched[s].type = "wake" /\ Topsched' = RemoveAt(Topsched, s)
      /\ throttle' = throttle - 1
      /\ schedcnt' = schedcnt /\ s' = s /\ sametime' = sametime /\ sounding' = sounding /\ cut' = cut
      /\ Onmsg' = Onmsg /\ Offmsg' = Offmsg /\ Offmsg2' = Offmsg2
  BY DEF WakeUp, buffers
<1>2. s \in 1 .. Len(Topsched) /\ s # 0 /\ Topsched[s] \in Entries /\ sametime = FALSE
  <2>1. TypeOK
    BY DEF Inv
  <2> QED BY <1>1, <2>1, HandledEntry, Types
<1>3. /\ Topsched \in Seq(Entries) /\ ByTime(Topsched) /\ TypeOK /\ Len(Topsched) \in Nat
      /\ throttle \in Int
  BY Types DEF Inv, Sorted, ByTime
<1>4. /\ Topsched' \in Seq(Entries) /\ ByTime(Topsched') /\ Len(Topsched') = Len(Topsched) - 1
      /\ \A S : Topsched[s] \notin S => Count(Topsched', S) = Count(Topsched, S)
  <2>1. \A S : Count(Topsched, S) \in Nat
    BY <1>3, CountType
  <2>2. /\ RemoveAt(Topsched, s) \in Seq(Entries) /\ ByTime(RemoveAt(Topsched, s))
        /\ Len(RemoveAt(Topsched, s)) = Len(Topsched) - 1
        /\ \A S : Count(RemoveAt(Topsched, s), S)
                    = Count(Topsched, S) - (IF Topsched[s] \in S THEN 1 ELSE 0)
    BY <1>2, <1>3, Shrunk
  <2> HIDE DEF RemoveAt
  <2> QED BY <1>1, <2>1, <2>2
<1>5. \A t \in Task : Count(Topsched', EntriesFor(t)) = Count(Topsched, EntriesFor(t))
  <2>1. \A t \in Task : Topsched[s] \notin EntriesFor(t)
    BY <1>1, <1>2, EntryType, SchedAssumption DEF EntriesFor
  <2> QED BY <1>4, <2>1
<1>6. \A p : /\ Count(Topsched', OffsFor(p)) = Count(Topsched, OffsFor(p))
             /\ Count(Topsched', LaterOffs(p)) = Count(Topsched, LaterOffs(p))
  <2>1. \A p : Topsched[s] \notin OffsFor(p) /\ Topsched[s] \notin LaterOffs(p)
    BY <1>1 DEF OffsFor, LaterOffs
  <2> QED BY <1>4, <2>1
<1>7. TypeOK'
  <2>1. s' \in 0 .. Len(Topsched') + 1 /\ throttle' \in Int
    BY <1>1, <1>2, <1>3, <1>4
  <2> QED BY <1>1, <1>3, <1>4, <2>1 DEF TypeOK
<1>8. WalkInv'
  BY <1>1, <1>2, <1>6 DEF Inv, WalkInv, Idle
<1>9. CountsInv' /\ NotesInv'
  BY <1>1, <1>5, <1>6 DEF Inv, CountsInv, NotesInv
<1> QED BY <1>4, <1>7, <1>8, <1>9 DEF Inv, Sorted, ByTime

(* "Too many note-ons": the walk is cut short. *)
LEMMA TooManyStep == ASSUME Inv, NEW dead, TooMany(dead) PROVE Inv'
<1>1. /\ Unscheduled(dead) /\ s' = 0 /\ throttle' = 0 /\ sametime' = FALSE /\ cut' = TRUE
      /\ Onmsg' = <<>> /\ Offmsg' = <<>> /\ Offmsg2' = <<>>
  BY DEF TooMany
<1>2. /\ Topsched' \in Seq(Entries) /\ ByTime(Topsched')
      /\ schedcnt' \in [Task -> Int] /\ sounding' \in [Pitch -> Nat]
      /\ \A t \in Task : schedcnt'[t] = Count(Topsched', EntriesFor(t))
  BY <1>1, UnscheduledLeaves
<1>3. \A S : Count(Topsched', S) \in Nat
  BY <1>2, CountType
<1>4. \A p : CountOf(Onmsg', p) = 0 /\ CountOf(Offmsg', p) = 0 /\ CountOf(Offmsg2', p) = 0
  BY <1>1, NoMessages
<1>5. TypeOK'
  <2>1. {Onmsg', Offmsg', Offmsg2'} \subseteq Seq(Pitch \cup {"user"})
    BY <1>1
  <2>2. Len(Topsched') \in Nat
    BY <1>2
  <2>3. s' \in 0 .. Len(Topsched') + 1 /\ throttle' \in Int
    BY <1>1, <2>2
  <2> QED BY <1>1, <1>2, <2>1, <2>3 DEF TypeOK
<1>6. WalkInv'
  BY <1>1, <1>3, <1>4 DEF WalkInv
<1> QED BY <1>1, <1>2, <1>5, <1>6 DEF Inv, Sorted, ByTime, CountsInv, NotesInv

-----------------------------------------------------------------------------
(* execnt()                                                                *)

(* The entry at k is given its next note, at the same time. *)
LEMMA Replaced ==
  ASSUME NEW q \in Seq(Entries), ByTime(q), NEW k \in 1 .. Len(q), NEW e \in Entries,
         e.due = q[k].due
  PROVE  /\ ReplaceAt(q, k, e) \in Seq(Entries) /\ ByTime(ReplaceAt(q, k, e))
         /\ Len(ReplaceAt(q, k, e)) = Len(q) /\ ReplaceAt(q, k, e)[k] = e
         /\ IsPut(RemoveAt(q, k), k, e, ReplaceAt(q, k, e))
<1> DEFINE r == ReplaceAt(q, k, e)
           u == RemoveAt(q, k)
<1>1. /\ Len(q) \in Nat /\ DOMAIN q = 1 .. Len(q) /\ k \in 1 .. Len(q)
      /\ \A i \in 1 .. Len(q) : q[i] \in Entries /\ q[i].due \in Int
  BY DueType
<1>2. /\ r \in Seq(Entries) /\ Len(r) = Len(q) /\ r[k] = e
      /\ \A i \in 1 .. Len(q) : i # k => r[i] = q[i]
  BY <1>1 DEF ReplaceAt
<1>3. u \in Seq(Entries) /\ IsPut(u, k, q[k], q) /\ Len(q) = Len(u) + 1 /\ Len(u) \in Nat
  BY Removed
<1> HIDE DEF r, u
<1>4. ByTime(r)
  <2>1. \A i \in 1 .. Len(q) : r[i].due = q[i].due
    BY <1>2
  <2>2. DOMAIN r = 1 .. Len(q)
    BY <1>2
  <2> QED BY <1>1, <2>1, <2>2 DEF ByTime
<1>5. ASSUME NEW i \in 1 .. Len(u), i < k PROVE r[i] = u[i]
  <2>1. i \in 1 .. Len(q) /\ i # k
    BY <1>1, <1>3, <1>5
  <2> QED BY <1>2, <1>3, <1>5, <2>1 DEF IsPut
<1>6. ASSUME NEW i \in 1 .. Len(u), i >= k PROVE r[i + 1] = u[i]
  <2>1. i + 1 \in 1 .. Len(q) /\ i + 1 # k
    BY <1>1, <1>3, <1>6
  <2> QED BY <1>2, <1>3, <1>6, <2>1 DEF IsPut
<1>7. IsPut(u, k, e, r)
  BY <1>2, <1>3, <1>5, <1>6 DEF IsPut
<1> QED BY <1>2, <1>4, <1>7 DEF r, u

(* An entry that leaves its place in the list and comes back as another *)
LEMMA Exchanged ==
  ASSUME NEW q \in Seq(Entries), ByTime(q), NEW k \in 1 .. Len(q), NEW m, NEW e,
         NEW r \in Seq(Entries), IsPut(RemoveAt(q, k), m, e, r), NEW S, e \in S <=> q[k] \in S
  PROVE  Count(r, S) = Count(q, S)
<1>1. RemoveAt(q, k) \in Seq(Entries) /\ IsPut(RemoveAt(q, k), k, q[k], q)
  BY Removed
<1> HIDE DEF RemoveAt
<1>2. Count(r, S) = Count(RemoveAt(q, k), S) + (IF e \in S THEN 1 ELSE 0)
  BY <1>1, PutCounts
<1>3. Count(q, S) = Count(RemoveAt(q, k), S) + (IF q[k] \in S THEN 1 ELSE 0)
  BY <1>1, PutCounts
<1> QED BY <1>2, <1>3

(* The next note of a phrase is not before this one. *)
LEMMA NextNote ==
  ASSUME NEW e \in Entries, e.type # "wake", e.note # Len(e.phr),
         NEW gap, gap = e.phr[e.note + 1].time - e.phr[e.note].time,
         NEW next, next = [e EXCEPT !.note = @ + 1, !.due = @ + gap]
  PROVE  /\ next \in Entries /\ next.type = "phrase" /\ e.type = "phrase" /\ next.task = e.task
         /\ e.due <= next.due /\ next.due \in Int
         /\ SameTime(e) => next.due = e.due
<1>1. /\ e.type = "phrase" /\ e \in PhraseEntries /\ e.due \in Int /\ e.note \in Nat
      /\ Len(e.phr) \in Nat /\ 1 <= e.note /\ e.note <= Len(e.phr) /\ DOMAIN e.phr = 1 .. Len(e.phr)
      /\ \A i \in 1 .. Len(e.phr) : e.phr[i].time \in Nat
      /\ \A i, j \in 1 .. Len(e.phr) : i <= j => e.phr[i].time <= e.phr[j].time
  BY NoteType, EntryType
<1>2. e.note \in 1 .. Len(e.phr) /\ e.note + 1 \in 1 .. Len(e.phr) /\ e.note <= e.note + 1
  BY <1>1
<1>3. gap \in Int /\ 0 <= gap
  <2>1. e.phr[e.note].time \in Nat /\ e.phr[e.note + 1].time \in Nat
        /\ e.phr[e.note].time <= e.phr[e.note + 1].time
    BY <1>1, <1>2
  <2> QED BY <2>1, SMTT(30)
<1> DEFINE R == [type : {"phrase"}, due : Int, task : Task, phr : Phrase, note : Nat, repeat : Repeat]
<1>4. e \in R
  BY <1>1 DEF PhraseEntries
<1>5. /\ next \in R /\ next.due = e.due + gap /\ next.type = "phrase" /\ next.task = e.task
      /\ next.note = e.note + 1 /\ next.phr = e.phr
  <2>1. e.due + gap \in Int /\ e.note + 1 \in Nat
    BY <1>1, <1>3
  <2> QED BY <1>1, <1>4, <2>1
<1>6. next \in PhraseEntries
  <2>1. next.note \in DOMAIN next.phr
    BY <1>1, <1>2, <1>5
  <2> QED BY <1>5, <2>1 DEF PhraseEntries
<1>7. SameTime(e) => gap = 0
  BY <1>1, <1>2 DEF SameTime
<1> QED BY <1>1, <1>3, <1>5, <1>7, <1>6 DEF Entries

(* The rest of execnt(): the entry goes on to its next note or is freed, and nothing
   else in the schedule q changes.                                               *)
LEMMA GoneOn ==
  ASSUME Inv, Playing, NEW q \in Seq(Entries), ByTime(q),
         s \in 1 .. Len(q), q[s] = Entry, GoOn(q)
  PROVE  /\ Topsched' \in Seq(Entries) /\ ByTime(Topsched')
         /\ s' \in 1 .. Len(Topsched') + 1 /\ throttle' \in Int /\ sametime' \in BOOLEAN
         /\ sametime' => s' \in DOMAIN Topsched' /\ Topsched'[s'].type = "phrase"
         /\ \A t \in Task : Count(Topsched', EntriesFor(t))
              = Count(q, EntriesFor(t)) - (IF Entry.note = Len(Entry.phr) /\ t = Entry.task THEN 1 ELSE 0)
         /\ \A p : Count(Topsched', OffsFor(p))
              = Count(q, OffsFor(p)) - (IF Entry \in OffsFor(p) THEN 1 ELSE 0)
         /\ \A p : Count(Topsched', LaterOffs(p)) = Count(q, LaterOffs(p))
<1> DEFINE e == Entry
           gap == e.phr[e.note + 1].time - TheNote.time
           next == [e EXCEPT !.note = @ + 1, !.due = @ + gap]
<1>1. /\ throttle' = IF sametime THEN throttle ELSE throttle - 1
      /\ sametime' = SameTime(e)
      /\ IF e.note = Len(e.phr) THEN Topsched' = RemoveAt(q, s) /\ s' = s
         ELSE IF SameTime(e) THEN Topsched' = ReplaceAt(q, s, next) /\ s' = s
         ELSE /\ Topsched' = MoveOn(q, next)
              /\ s' = s + Place(SubSeq(q, s + 1, Len(q)), next.due)
  BY DEF GoOn
<1>2. /\ e \in Entries /\ e.type # "wake" /\ \A p : e \notin LaterOffs(p)
  BY HandledEntry DEF Playing, Entry
<1>3. /\ throttle \in Int /\ sametime \in BOOLEAN /\ Len(q) \in Nat /\ DOMAIN q = 1 .. Len(q)
      /\ s \in 1 .. Len(q) /\ s \in Int
  BY Types, DueType DEF Inv
<1>4. /\ e.task \in Task /\ e.type \in {"phrase", "noteoff"} /\ e.note \in Nat /\ Len(e.phr) \in Nat
      /\ e.type = "noteoff" => e.note = Len(e.phr)
  BY <1>2, NoteType
<1>5. TheNote.time = e.phr[e.note].time
  BY DEF TheNote
<1>6. throttle' \in Int /\ sametime' \in BOOLEAN
  <2>1. SameTime(e) \in BOOLEAN
    BY DEF SameTime
  <2> QED BY <1>1, <1>3, <2>1
<1>7. \A S : Count(q, S) \in Nat
  BY CountType
<1>8. \A t : e \in EntriesFor(t) <=> t = e.task
  BY <1>2 DEF EntriesFor
<1> HIDE DEF e
<1>9. CASE e.note = Len(e.phr)
  <2>1. Topsched' = RemoveAt(q, s) /\ s' = s
    BY <1>1, <1>9
  <2>2. /\ RemoveAt(q, s) \in Seq(Entries) /\ ByTime(RemoveAt(q, s))
        /\ Len(RemoveAt(q, s)) = Len(q) - 1
        /\ \A S : Count(RemoveAt(q, s), S) = Count(q, S) - (IF e \in S THEN 1 ELSE 0)
    BY Shrunk DEF e
  <2> HIDE DEF RemoveAt
  <2>3. ~sametime'
    <3>1. ~(e.note < Len(e.phr))
      BY <1>4, <1>9
    <3>2. ~SameTime(e)
      BY <3>1 DEF SameTime
    <3> QED BY <1>1, <3>2
  <2>4. s' \in 1 .. Len(Topsched') + 1
    BY <1>3, <2>1, <2>2
  <2>5. \A p : Count(Topsched', LaterOffs(p)) = Count(q, LaterOffs(p))
    BY <1>2, <1>7, <2>1, <2>2
  <2>6. \A t \in Task : Count(Topsched', EntriesFor(t))
          = Count(q, EntriesFor(t)) - (IF e.note = Len(e.phr) /\ t = e.task THEN 1 ELSE 0)
    BY <1>8, <1>9, <2>1, <2>2
  <2> QED BY <1>6, <2>1, <2>2, <2>3, <2>4, <2>5, <2>6 DEF e
<1>10. CASE e.note # Len(e.phr)
  <2>1. /\ next \in Entries /\ next.type = "phrase" /\ e.type = "phrase" /\ next.task = e.task
        /\ e.due <= next.due /\ next.due \in Int
        /\ SameTime(e) => next.due = e.due
    <3>1. gap = e.phr[e.note + 1].time - e.phr[e.note].time
      BY <1>5
    <3> HIDE DEF gap
    <3> QED BY <1>2, <1>10, <3>1, NextNote
  <2> HIDE DEF next
  <2>2. q[s].due <= next.due /\ q[s].type = "phrase" /\ q[s] \in Entries /\ q[s].task = next.task
    BY <1>2, <2>1 DEF e
  <2>3. /\ Topsched' \in Seq(Entries) /\ ByTime(Topsched')
        /\ s' \in 1 .. Len(Topsched') + 1
        /\ sametime' => s' \in DOMAIN Topsched' /\ Topsched'[s'].type = "phrase"
        /\ \E m : IsPut(RemoveAt(q, s), m, next, Topsched')
    <3>1. CASE SameTime(e)
      <4>1. Topsched' = ReplaceAt(q, s, next) /\ s' = s
        BY <1>1, <1>10, <3>1
      <4>2. next.due = q[s].due
        BY <2>1, <3>1 DEF e
      <4>3. /\ ReplaceAt(q, s, next) \in Seq(Entries) /\ ByTime(ReplaceAt(q, s, next))
            /\ Len(ReplaceAt(q, s, next)) = Len(q) /\ ReplaceAt(q, s, next)[s] = next
            /\ IsPut(RemoveAt(q, s), s, next, ReplaceAt(q, s, next))
        BY <2>1, <4>2, Replaced
      <4> HIDE DEF ReplaceAt, RemoveAt
      <4>4. Len(Topsched') = Len(q) /\ Topsched'[s] = next /\ Topsched' \in Seq(Entries)
        BY <4>1, <4>3
      <4>5. s' \in 1 .. Len(Topsched') /\ s' \in 1 .. Len(Topsched') + 1
        BY <1>3, <4>1, <4>4
      <4>6. s' \in DOMAIN Topsched' /\ Topsched'[s'].type = "phrase"
        BY <2>1, <4>1, <4>4, <4>5
      <4> QED BY <4>1, <4>3, <4>5, <4>6
    <3>2. CASE ~SameTime(e)
      <4> DEFINE tail == SubSeq(q, s + 1, Len(q))
                 r == SubSeq(q, 1, s - 1) \o Insert(tail, next)
      <4>1. /\ Topsched' = r /\ s' = s + Place(tail, next.due) /\ ~sametime'
        BY <1>1, <1>10, <3>2 DEF MoveOn
      <4>2. /\ r \in Seq(Entries) /\ ByTime(r) /\ Len(r) = Len(q)
            /\ IsPut(RemoveAt(q, s), s - 1 + Place(tail, next.due), next, r)
            /\ s + Place(tail, next.due) \in 1 .. Len(r) + 1
        BY <2>1, <2>2, Moved
      <4> HIDE DEF r, tail
      <4> QED BY <4>1, <4>2
    <3> QED BY <3>1, <3>2
  <2>4. PICK m : IsPut(RemoveAt(q, s), m, next, Topsched')
    BY <2>3
  <2>5. ASSUME NEW S, next \in S <=> q[s] \in S
        PROVE  Count(Topsched', S) = Count(q, S)
    BY <2>3, <2>4, <2>5, Exchanged
  <2>6. \A t : next \in EntriesFor(t) <=> q[s] \in EntriesFor(t)
    BY <2>1, <2>2 DEF EntriesFor
  <2>7. \A p : /\ next \notin OffsFor(p) /\ q[s] \notin OffsFor(p) /\ e \notin OffsFor(p)
               /\ next \notin LaterOffs(p) /\ q[s] \notin LaterOffs(p)
    BY <2>1, <2>2 DEF OffsFor, LaterOffs
  <2>8. /\ \A t : Count(Topsched', EntriesFor(t)) = Count(q, EntriesFor(t))
        /\ \A p : Count(Topsched', OffsFor(p)) = Count(q, OffsFor(p))
        /\ \A p : Count(Topsched', LaterOffs(p)) = Count(q, LaterOffs(p))
    BY <2>5, <2>6, <2>7
  <2> QED BY <1>6, <1>7, <1>10, <2>3, <2>7, <2>8 DEF e
<1> QED BY <1>9, <1>10

(* The schedule with the end of the note that is being played ... *)
LEMMA OffAdded ==
  ASSUME Inv, Playing,
         NEW q, q = OffScheduled(Topsched, Entry, TheNote),
         NEW more \in BOOLEAN, more <=> TheNote.type = "note" /\ ~Over(Entry, TheNote)
  PROVE  /\ q \in Seq(Entries) /\ ByTime(q) /\ s \in 1 .. Len(q) /\ q[s] = Entry
         /\ Len(q) = Len(Topsched) + (IF more THEN 1 ELSE 0)
         /\ \A t : Count(q, EntriesFor(t)) = Count(Topsched, EntriesFor(t))
                                              + (IF more /\ t = Entry.task THEN 1 ELSE 0)
         /\ \A p : /\ Count(q, OffsFor(p)) = Count(Topsched, OffsFor(p))
                                              + (IF more /\ TheNote.pitch = p THEN 1 ELSE 0)
                   /\ Count(q, LaterOffs(p)) = Count(Topsched, LaterOffs(p))
                                              + (IF more /\ TheNote.pitch = p THEN 1 ELSE 0)
<1>1. /\ Topsched \in Seq(Entries) /\ ByTime(Topsched) /\ Len(Topsched) \in Nat
  BY Types DEF Inv, Sorted, ByTime
<1>2. s \in 1 .. Len(Topsched) /\ Entry \in Entries /\ Entry.type # "wake" /\ Entry = Topsched[s]
  BY HandledEntry DEF Playing, Entry
<1>3. \A S : Count(Topsched, S) \in Nat
  BY <1>1, CountType
<1>4. CASE ~more
  <2>1. q = Topsched
    BY <1>4 DEF OffScheduled
  <2> QED BY <1>1, <1>2, <1>3, <1>4, <2>1
<1>5. CASE more
  <2> DEFINE o == OffEntry(Entry.task, TheNote.pitch, Entry.due + TheNote.dur)
  <2>1. /\ Entry.task \in Task /\ Entry.due \in Int /\ TheNote.pitch \in Pitch /\ TheNote.dur \in Nat
    <3>1. Entry.note \in 1 .. Len(Entry.phr)
      BY <1>2, NoteType
    <3> QED BY <1>2, <3>1, NoteType DEF TheNote
  <2>2. o \in OffEntries
    BY <2>1 DEF OffEntry, OffEntries
  <2>3. /\ o \in Entries /\ o.due = Entry.due + TheNote.dur /\ o.task = Entry.task
        /\ o.type = "noteoff" /\ o.phr[1].pitch = TheNote.pitch
    BY <2>2 DEF Entries, OffEntry, OffNote
  <2>4. o.due > 0 /\ Entry.due <= o.due
    <3>1. ~(Entry.due + TheNote.dur <= 0)
      BY <1>5 DEF Over
    <3> HIDE DEF o
    <3> QED BY <2>1, <2>3, <3>1
  <2> HIDE DEF o
  <2>5. q = Insert(Topsched, o)
    BY <1>5 DEF OffScheduled, o
  <2>6. /\ q \in Seq(Entries) /\ ByTime(q) /\ Len(q) = Len(Topsched) + 1
        /\ \A S : Count(q, S) = Count(Topsched, S) + (IF o \in S THEN 1 ELSE 0)
        /\ \A i \in 1 .. Len(Topsched) : Topsched[i].due <= o.due => i \in 1 .. Len(q) /\ q[i] = Topsched[i]
    <3>1. /\ Insert(Topsched, o) \in Seq(Entries) /\ ByTime(Insert(Topsched, o))
          /\ Len(Insert(Topsched, o)) = Len(Topsched) + 1
          /\ \A S : Count(Insert(Topsched, o), S) = Count(Topsched, S) + (IF o \in S THEN 1 ELSE 0)
          /\ \A i \in 1 .. Len(Topsched) : Topsched[i].due <= o.due =>
               i \in 1 .. Len(Insert(Topsched, o)) /\ Insert(Topsched, o)[i] = Topsched[i]
      BY <1>1, <2>3, Sprouted
    <3> QED BY <2>5, <3>1
  <2>7. s \in 1 .. Len(q) /\ q[s] = Entry
    BY <1>2, <2>4, <2>6
  <2>8. \A t : o \in EntriesFor(t) <=> t = Entry.task
    BY <2>3 DEF EntriesFor
  <2>9. \A p : (o \in OffsFor(p) <=> TheNote.pitch = p) /\ (o \in LaterOffs(p) <=> TheNote.pitch = p)
    BY <2>3, <2>4 DEF OffsFor, LaterOffs
  <2> QED BY <1>5, <2>6, <2>7, <2>8, <2>9
<1> QED BY <1>4, <1>5

(* ... and with the repetition of its phrase. *)
LEMMA RepeatAdded ==
  ASSUME Inv, Playing, NEW q \in Seq(Entries), ByTime(q), s \in 1 .. Len(q), q[s] = Entry,
         NEW r, r = RepeatScheduled(q, Entry)
  PROVE  /\ r \in Seq(Entries) /\ ByTime(r) /\ s \in 1 .. Len(r) /\ r[s] = Entry
         /\ \A t : Count(r, EntriesFor(t)) = Count(q, EntriesFor(t))
                                              + (IF t = Entry.task THEN Len(r) - Len(q) ELSE 0)
         /\ \A p : /\ Count(r, OffsFor(p)) = Count(q, OffsFor(p))
                   /\ Count(r, LaterOffs(p)) = Count(q, LaterOffs(p))
<1>1. Entry \in Entries /\ Entry.type # "wake"
  BY HandledEntry DEF Playing, Entry
<1>2. (\A S : Count(q, S) \in Nat) /\ Len(q) \in Nat
  <2>1. \A S : Count(q, S) \in Nat
    BY CountType
  <2>2. Len(q) \in Nat
    OBVIOUS
  <2> QED BY <2>1, <2>2
<1>3. CASE ~(Entry.repeat > 0 /\ Entry.note = 1)
  <2>1. r = q
    BY <1>3 DEF RepeatScheduled
  <2> QED BY <1>2, <2>1
<1>4. CASE Entry.repeat > 0 /\ Entry.note = 1
  <2> DEFINE o == PhraseEntry(Entry.task, Entry.phr,
                    Entry.due + Entry.repeat + Entry.phr[1].time, Entry.repeat)
  <2>1. Entry.type = "phrase"
    BY <1>1, <1>4, NoteType
  <2>2. /\ Entry.task \in Task /\ Entry.due \in Int /\ Entry.phr \in Phrase
        /\ Entry.repeat \in Repeat /\ Entry.repeat \in Nat
        /\ 1 \in 1 .. Len(Entry.phr) /\ 1 \in DOMAIN Entry.phr /\ Entry.phr[1].time \in Nat
    BY <1>1, <1>4, <2>1, NoteType
  <2>3. o \in PhraseEntries
    BY <2>2 DEF PhraseEntry, PhraseEntries
  <2>4. /\ o \in Entries /\ o.due = Entry.due + Entry.repeat + Entry.phr[1].time
        /\ o.task = Entry.task /\ o.type = "phrase"
    BY <2>3 DEF Entries, PhraseEntry
  <2>5. Entry.due <= o.due
    BY <2>2, <2>4
  <2> HIDE DEF o
  <2>6. r = Insert(q, o)
    BY <1>4 DEF RepeatScheduled, o
  <2>7. /\ r \in Seq(Entries) /\ ByTime(r) /\ Len(r) = Len(q) + 1
        /\ \A S : Count(r, S) = Count(q, S) + (IF o \in S THEN 1 ELSE 0)
        /\ \A i \in 1 .. Len(q) : q[i].due <= o.due => i \in 1 .. Len(r) /\ r[i] = q[i]
    <3>1. /\ Insert(q, o) \in Seq(Entries) /\ ByTime(Insert(q, o))
          /\ Len(Insert(q, o)) = Len(q) + 1
          /\ \A S : Count(Insert(q, o), S) = Count(q, S) + (IF o \in S THEN 1 ELSE 0)
          /\ \A i \in 1 .. Len(q) : q[i].due <= o.due =>
               i \in 1 .. Len(Insert(q, o)) /\ Insert(q, o)[i] = q[i]
      BY <2>4, Sprouted
    <3> QED BY <2>6, <3>1
  <2>8. s \in 1 .. Len(r) /\ r[s] = Entry /\ Len(r) - Len(q) = 1
    BY <1>2, <2>5, <2>7
  <2>9. \A t : o \in EntriesFor(t) <=> t = Entry.task
    BY <2>4 DEF EntriesFor
  <2>10. \A p : o \notin OffsFor(p) /\ o \notin LaterOffs(p)
    BY <2>4 DEF OffsFor, LaterOffs
  <2> QED BY <1>2, <2>7, <2>8, <2>9, <2>10
<1> QED BY <1>3, <1>4

(* What a note adds to the buffers *)
LEMMA BufferedNote ==
  ASSUME Inv, Playing, Buffered(Entry, TheNote)
  PROVE  /\ Onmsg' \in Seq(Messages) /\ Offmsg' \in Seq(Messages) /\ Offmsg2' \in Seq(Messages)
         /\ \A p \in Pitch :
              /\ CountOf(Onmsg', p) = CountOf(Onmsg, p)
                   + (IF TheNote.type = "note" /\ TheNote.pitch = p THEN 1 ELSE 0)
              /\ CountOf(Offmsg', p) = CountOf(Offmsg, p)
                   + (IF Entry.type = "noteoff" /\ TheNote.pitch = p THEN 1 ELSE 0)
              /\ CountOf(Offmsg2', p) = CountOf(Offmsg2, p)
                   + (IF Over(Entry, TheNote) /\ TheNote.pitch = p THEN 1 ELSE 0)
<1> DEFINE e == Entry
           n == TheNote
           m == Message(e, n)
<1>1. /\ Onmsg' = IF IsOn(n) THEN Append(Onmsg, m) ELSE Onmsg
      /\ Offmsg' = IF e.type = "noteoff" THEN Append(Offmsg, m) ELSE Offmsg
      /\ Offmsg2' = IF Over(e, n) \/ (~IsOn(n) /\ e.type # "noteoff")
                    THEN Append(Offmsg2, m) ELSE Offmsg2
  BY DEF Buffered
<1>2. e \in Entries /\ e.type # "wake"
  BY HandledEntry DEF Playing, Entry
<1>3. /\ n.pitch \in Pitch /\ (e.type = "noteoff" => n.type = "off")
      /\ (e.type # "noteoff" => n.type \in {"note", "on", "off"})
  <2>1. e.note \in 1 .. Len(e.phr) /\ n = e.phr[e.note]
    BY <1>2, NoteType DEF TheNote
  <2> QED BY <1>2, <2>1, NoteType
<1>4. /\ Onmsg \in Seq(Messages) /\ Offmsg \in Seq(Messages) /\ Offmsg2 \in Seq(Messages)
  BY Types DEF Inv
<1> HIDE DEF e, n
<1>5. /\ m \in Messages
      /\ \A p \in Pitch : m = p <=> (n.type = "note" \/ e.type = "noteoff") /\ n.pitch = p
  BY <1>3, SchedAssumption DEF Message, Messages
<1> HIDE DEF m
<1>6. \A q \in Seq(Messages) : \A p :
        /\ Append(q, m) \in Seq(Messages)
        /\ CountOf(Append(q, m), p) = CountOf(q, p) + (IF m = p THEN 1 ELSE 0)
        /\ CountOf(q, p) \in Nat
  BY <1>5, AppendCounted, MessagesCounted
<1>7. Onmsg' \in Seq(Messages) /\ Offmsg' \in Seq(Messages) /\ Offmsg2' \in Seq(Messages)
  BY <1>1, <1>4, <1>6
<1>8. ASSUME NEW p \in Pitch
      PROVE  CountOf(Onmsg', p) = CountOf(Onmsg, p) + (IF n.type = "note" /\ n.pitch = p THEN 1 ELSE 0)
  <2>1. CASE IsOn(n)
    <3>1. m = p <=> n.type = "note" /\ n.pitch = p
      BY <1>3, <1>5, <2>1 DEF IsOn
    <3>2. Onmsg' = Append(Onmsg, m)
      BY <1>1, <2>1
    <3> QED BY <1>4, <1>6, <3>1, <3>2
  <2>2. CASE ~IsOn(n)
    <3>1. Onmsg' = Onmsg /\ n.type # "note"
      BY <1>1, <2>2 DEF IsOn
    <3> QED BY <1>4, <1>6, <3>1
  <2> QED BY <2>1, <2>2
<1>9. ASSUME NEW p \in Pitch
      PROVE  CountOf(Offmsg', p) = CountOf(Offmsg, p) + (IF e.type = "noteoff" /\ n.pitch = p THEN 1 ELSE 0)
  <2>1. CASE e.type = "noteoff"
    <3>1. Offmsg' = Append(Offmsg, m) /\ (m = p <=> n.pitch = p)
      BY <1>1, <1>5, <2>1
    <3> QED BY <1>4, <1>6, <2>1, <3>1
  <2>2. CASE e.type # "noteoff"
    <3>1. Offmsg' = Offmsg
      BY <1>1, <2>2
    <3> QED BY <1>4, <1>6, <2>2, <3>1
  <2> QED BY <2>1, <2>2
<1>10. ASSUME NEW p \in Pitch
       PROVE  CountOf(Offmsg2', p) = CountOf(Offmsg2, p) + (IF Over(e, n) /\ n.pitch = p THEN 1 ELSE 0)
  <2>1. CASE Over(e, n)
    <3>1. Offmsg2' = Append(Offmsg2, m) /\ (m = p <=> n.pitch = p)
      BY <1>1, <1>5, <2>1 DEF Over
    <3> QED BY <1>4, <1>6, <2>1, <3>1
  <2>2. CASE ~Over(e, n) /\ ~IsOn(n) /\ e.type # "noteoff"
    <3>1. Offmsg2' = Append(Offmsg2, m) /\ ~(m = p)
      BY <1>1, <1>5, <2>2 DEF IsOn
    <3> QED BY <1>4, <1>6, <2>2, <3>1
  <2>3. CASE ~Over(e, n) /\ ~(~IsOn(n) /\ e.type # "noteoff")
    <3>1. Offmsg2' = Offmsg2
      BY <1>1, <2>3
    <3> QED BY <1>4, <1>6, <2>3, <3>1
  <2> QED BY <2>1, <2>2, <2>3
<1> QED BY <1>7, <1>8, <1>9, <1>10 DEF e, n

(* GoOn() leaves schedcnt right. *)
LEMMA HeldExact ==
  ASSUME Inv, Playing, NEW q \in Seq(Entries), GoOn(q),
         \A t \in Task : Count(q, EntriesFor(t)) = Count(Topsched, EntriesFor(t))
                            + (IF t = Entry.task THEN Len(q) - Len(Topsched) ELSE 0),
         \A t \in Task : Count(Topsched', EntriesFor(t))
           = Count(q, EntriesFor(t)) - (IF Entry.note = Len(Entry.phr) /\ t = Entry.task THEN 1 ELSE 0)
  PROVE  schedcnt' \in [Task -> Int] /\ CountsInv'
<1> DEFINE x == Held(Entry.task, q) - (IF Entry.note = Len(Entry.phr) THEN 1 ELSE 0)
<1>1. schedcnt' = [schedcnt EXCEPT ![Entry.task] = @ + x]
  BY DEF GoOn
<1>2. Entry.task \in Task
  BY HandledEntry, NoteType DEF Playing, Entry
<1>3. Topsched \in Seq(Entries) /\ Len(Topsched) \in Nat /\ schedcnt \in [Task -> Int]
  BY Types DEF Inv
<1>4. Len(q) \in Nat
  OBVIOUS
<1>5. x \in Int /\ x = Len(q) - Len(Topsched) - (IF Entry.note = Len(Entry.phr) THEN 1 ELSE 0)
  BY <1>3, <1>4 DEF Held
<1> HIDE DEF x
<1>6. schedcnt' \in [Task -> Int]
  BY <1>1, <1>2, <1>3, <1>5
<1>7. ASSUME NEW t \in Task PROVE schedcnt'[t] = Count(Topsched', EntriesFor(t))
  <2>1. schedcnt[t] = Count(Topsched, EntriesFor(t)) /\ Count(Topsched, EntriesFor(t)) \in Nat
    BY <1>3, CountType DEF Inv, CountsInv
  <2>2. CASE t = Entry.task
    <3>1. schedcnt'[t] = schedcnt[t] + x
      BY <1>1, <1>2, <1>3, <2>2
    <3>2. Count(q, EntriesFor(t)) = Count(Topsched, EntriesFor(t)) + (Len(q) - Len(Topsched))
      BY <2>2
    <3>3. Count(Topsched', EntriesFor(t))
            = Count(q, EntriesFor(t)) - (IF Entry.note = Len(Entry.phr) THEN 1 ELSE 0)
      BY <2>2
    <3> QED BY <1>3, <1>4, <1>5, <2>1, <3>1, <3>2, <3>3
  <2>3. CASE t # Entry.task
    <3>1. schedcnt'[t] = schedcnt[t]
      BY <1>1, <1>2, <1>3, <2>3
    <3> QED BY <2>1, <2>3, <3>1
  <2> QED BY <2>2, <2>3
<1> QED BY <1>6, <1>7 DEF CountsInv

(* execnt() plays a note. *)
LEMMA PlayNoteStep == ASSUME Inv, PlayNote PROVE Inv'
<1> DEFINE e == Entry
           n == TheNote
           more == n.type = "note" /\ ~Over(e, n)
           q == OffScheduled(Topsched, e, n)
           r == RepeatScheduled(q, e)
<1>1. /\ Playing /\ Buffered(e, n) /\ GoOn(r) /\ sounding' = sounding /\ cut' = cut
  BY DEF PlayNote
<1>2. e \in Entries /\ e.type # "wake"
  BY <1>1, HandledEntry DEF Playing, Entry
<1>3. /\ TypeOK /\ Topsched \in Seq(Entries) /\ Len(Topsched) \in Nat /\ sounding \in [Pitch -> Nat]
      /\ Onmsg \in Seq(Messages) /\ Offmsg \in Seq(Messages) /\ Offmsg2 \in Seq(Messages)
  BY Types DEF Inv
<1>4. /\ q \in Seq(Entries) /\ ByTime(q) /\ s \in 1 .. Len(q) /\ q[s] = Entry
      /\ Len(q) = Len(Topsched) + (IF more THEN 1 ELSE 0)
      /\ \A t : Count(q, EntriesFor(t)) = Count(Topsched, EntriesFor(t))
                                           + (IF more /\ t = Entry.task THEN 1 ELSE 0)
      /\ \A p : /\ Count(q, OffsFor(p)) = Count(Topsched, OffsFor(p))
                                           + (IF more /\ n.pitch = p THEN 1 ELSE 0)
                /\ Count(q, LaterOffs(p)) = Count(Topsched, LaterOffs(p))
                                           + (IF more /\ n.pitch = p THEN 1 ELSE 0)
  <2>1. more \in BOOLEAN
    OBVIOUS
  <2> QED BY <1>1, <2>1, OffAdded
<1> HIDE DEF q
<1>5. /\ r \in Seq(Entries) /\ ByTime(r) /\ s \in 1 .. Len(r) /\ r[s] = Entry
      /\ \A t : Count(r, EntriesFor(t)) = Count(q, EntriesFor(t))
                                           + (IF t = Entry.task THEN Len(r) - Len(q) ELSE 0)
      /\ \A p : /\ Count(r, OffsFor(p)) = Count(q, OffsFor(p))
                /\ Count(r, LaterOffs(p)) = Count(q, LaterOffs(p))
  BY <1>1, <1>4, RepeatAdded
<1> HIDE DEF r
<1>6. /\ Topsched' \in Seq(Entries) /\ ByTime(Topsched')
      /\ s' \in 1 .. Len(Topsched') + 1 /\ throttle' \in Int /\ sametime' \in BOOLEAN
      /\ sametime' => s' \in DOMAIN Topsched' /\ Topsched'[s'].type = "phrase"
      /\ \A t \in Task : Count(Topsched', EntriesFor(t))
           = Count(r, EntriesFor(t)) - (IF Entry.note = Len(Entry.phr) /\ t = Entry.task THEN 1 ELSE 0)
      /\ \A p : Count(Topsched', OffsFor(p))
           = Count(r, OffsFor(p)) - (IF Entry \in OffsFor(p) THEN 1 ELSE 0)
      /\ \A p : Count(Topsched', LaterOffs(p)) = Count(r, LaterOffs(p))
  BY <1>1, <1>5, GoneOn
<1>7. /\ Onmsg' \in Seq(Messages) /\ Offmsg' \in Seq(Messages) /\ Offmsg2' \in Seq(Messages)
      /\ \A p \in Pitch :
           /\ CountOf(Onmsg', p) = CountOf(Onmsg, p)
                + (IF n.type = "note" /\ n.pitch = p THEN 1 ELSE 0)
           /\ CountOf(Offmsg', p) = CountOf(Offmsg, p)
                + (IF e.type = "noteoff" /\ n.pitch = p THEN 1 ELSE 0)
           /\ CountOf(Offmsg2', p) = CountOf(Offmsg2, p)
                + (IF Over(e, n) /\ n.pitch = p THEN 1 ELSE 0)
  BY <1>1, BufferedNote
<1>8. \A S : Count(Topsched, S) \in Nat
  BY <1>3, CountType
<1>9. \A p : CountOf(Onmsg, p) \in Nat /\ CountOf(Offmsg, p) \in Nat /\ CountOf(Offmsg2, p) \in Nat
  BY <1>3, MessagesCounted
<1>10. \A p : e \in OffsFor(p) <=> e.type = "noteoff" /\ n.pitch = p
  <2>1. e.type = "noteoff" => n = e.phr[1]
    BY <1>2, NoteType DEF TheNote
  <2> QED BY <1>2, <2>1 DEF OffsFor
<1>11. Over(e, n) => n.type = "note"
  BY DEF Over
<1> HIDE DEF e, n
<1>12. ASSUME NEW p \in Pitch
       PROVE  /\ Count(Topsched', LaterOffs(p)) = Count(Topsched, LaterOffs(p))
                                           + (IF more /\ n.pitch = p THEN 1 ELSE 0)
              /\ Count(Topsched', OffsFor(p)) = Count(Topsched, OffsFor(p))
                   + (IF more /\ n.pitch = p THEN 1 ELSE 0)
                   - (IF e.type = "noteoff" /\ n.pitch = p THEN 1 ELSE 0)
  <2>1. Entry \in OffsFor(p) <=> e.type = "noteoff" /\ n.pitch = p
    BY <1>10 DEF e
  <2>2. /\ Count(Topsched', LaterOffs(p)) = Count(r, LaterOffs(p))
        /\ Count(r, LaterOffs(p)) = Count(q, LaterOffs(p))
        /\ Count(q, LaterOffs(p)) = Count(Topsched, LaterOffs(p))
                                     + (IF more /\ n.pitch = p THEN 1 ELSE 0)
    BY <1>4, <1>5, <1>6
  <2>3. /\ Count(Topsched', OffsFor(p)) = Count(r, OffsFor(p)) - (IF Entry \in OffsFor(p) THEN 1 ELSE 0)
        /\ Count(r, OffsFor(p)) = Count(q, OffsFor(p))
        /\ Count(q, OffsFor(p)) = Count(Topsched, OffsFor(p))
                                   + (IF more /\ n.pitch = p THEN 1 ELSE 0)
    BY <1>4, <1>5, <1>6
  <2> HIDE DEF more
  <2> QED BY <1>8, <2>1, <2>2, <2>3
<1>13. \A p \in Pitch : CountOf(Onmsg', p) <= CountOf(Offmsg2', p) + Count(Topsched', LaterOffs(p))
  <2> SUFFICES ASSUME NEW p \in Pitch
               PROVE  CountOf(Onmsg', p) <= CountOf(Offmsg2', p) + Count(Topsched', LaterOffs(p))
    OBVIOUS
  <2>1. CountOf(Onmsg, p) <= CountOf(Offmsg2, p) + Count(Topsched, LaterOffs(p))
    BY DEF Inv, WalkInv
  <2> QED BY <1>7, <1>8, <1>9, <1>11, <1>12, <2>1
<1>14. ASSUME ~cut, NEW p \in Pitch
       PROVE  sounding'[p] + CountOf(Onmsg', p)
                = Count(Topsched', OffsFor(p)) + CountOf(Offmsg', p) + CountOf(Offmsg2', p)
  <2>1. sounding[p] + CountOf(Onmsg, p)
          = Count(Topsched, OffsFor(p)) + CountOf(Offmsg, p) + CountOf(Offmsg2, p)
    BY <1>14 DEF Inv, NotesInv
  <2>2. sounding'[p] = sounding[p] /\ sounding[p] \in Nat
    BY <1>1, <1>3
  <2>3. /\ CountOf(Onmsg', p) = CountOf(Onmsg, p)
             + (IF n.type = "note" /\ n.pitch = p THEN 1 ELSE 0)
        /\ CountOf(Offmsg', p) = CountOf(Offmsg, p)
             + (IF e.type = "noteoff" /\ n.pitch = p THEN 1 ELSE 0)
        /\ CountOf(Offmsg2', p) = CountOf(Offmsg2, p)
             + (IF Over(e, n) /\ n.pitch = p THEN 1 ELSE 0)
    BY <1>7
  <2>4. Count(Topsched', OffsFor(p)) = Count(Topsched, OffsFor(p))
             + (IF more /\ n.pitch = p THEN 1 ELSE 0)
             - (IF e.type = "noteoff" /\ n.pitch = p THEN 1 ELSE 0)
    BY <1>12
  <2>5. /\ CountOf(Onmsg, p) \in Nat /\ CountOf(Offmsg, p) \in Nat /\ CountOf(Offmsg2, p) \in Nat
        /\ Count(Topsched, OffsFor(p)) \in Nat
    BY <1>8, <1>9
  <2>6. CASE n.pitch = p
    BY <1>11, <2>1, <2>2, <2>3, <2>4, <2>5, <2>6
  <2>7. CASE n.pitch # p
    BY <2>1, <2>2, <2>3, <2>4, <2>5, <2>7
  <2> QED BY <2>6, <2>7
<1>15. schedcnt' \in [Task -> Int] /\ CountsInv'
  <2>1. Len(q) \in Nat /\ Len(r) \in Nat
    BY <1>4, <1>5
  <2>2. \A t \in Task : Count(r, EntriesFor(t)) = Count(Topsched, EntriesFor(t))
                            + (IF t = Entry.task THEN Len(r) - Len(Topsched) ELSE 0)
    BY <1>3, <1>4, <1>5, <1>8, <2>1, SMTT(30)
  <2> QED BY <1>1, <1>5, <1>6, <2>2, HeldExact
<1>16. TypeOK'
  <2>1. {Onmsg', Offmsg', Offmsg2'} \subseteq Seq(Pitch \cup {"user"})
    BY <1>7 DEF Messages
  <2>2. s' \in 0 .. Len(Topsched') + 1
    BY <1>6
  <2> QED BY <1>1, <1>3, <1>6, <1>15, <2>1, <2>2 DEF TypeOK
<1>17. WalkInv'
  <2>1. s' # 0
    BY <1>6
  <2> QED BY <1>6, <1>13, <2>1 DEF WalkInv, Idle
<1>18. NotesInv'
  BY <1>1, <1>14 DEF NotesInv
<1> QED BY <1>6, <1>15, <1>16, <1>17, <1>18 DEF Inv, Sorted, ByTime

(* "Too many note-ons" soon after the start: the walk goes on without the note. *)
LEMMA TooManySoonStep == ASSUME Inv, TooManySoon PROVE Inv'
<1> DEFINE r == RepeatScheduled(Topsched, Entry)
<1>1. /\ Playing /\ GoOn(r) /\ sounding' = sounding /\ Offmsg2' = Offmsg2 /\ cut' = TRUE
      /\ Onmsg' = (IF IsOn(TheNote) THEN <<>> ELSE Onmsg)
      /\ Offmsg' = (IF IsOn(TheNote) THEN Offmsg ELSE <<>>)
  BY DEF TooManySoon
<1>2. /\ TypeOK /\ Topsched \in Seq(Entries) /\ ByTime(Topsched)
      /\ Onmsg \in Seq(Messages) /\ Offmsg \in Seq(Messages) /\ Offmsg2 \in Seq(Messages)
      /\ s \in 1 .. Len(Topsched) /\ Topsched[s] = Entry
  BY <1>1, HandledEntry, Types DEF Inv, Sorted, ByTime, Playing, Entry
<1>3. /\ r \in Seq(Entries) /\ ByTime(r) /\ s \in 1 .. Len(r) /\ r[s] = Entry
      /\ \A t : Count(r, EntriesFor(t)) = Count(Topsched, EntriesFor(t))
                                           + (IF t = Entry.task THEN Len(r) - Len(Topsched) ELSE 0)
      /\ \A p : Count(r, LaterOffs(p)) = Count(Topsched, LaterOffs(p))
  BY <1>1, <1>2, RepeatAdded
<1> HIDE DEF r
<1>4. /\ Topsched' \in Seq(Entries) /\ ByTime(Topsched')
      /\ s' \in 1 .. Len(Topsched') + 1 /\ throttle' \in Int /\ sametime' \in BOOLEAN
      /\ sametime' => s' \in DOMAIN Topsched' /\ Topsched'[s'].type = "phrase"
      /\ \A t \in Task : Count(Topsched', EntriesFor(t))
           = Count(r, EntriesFor(t)) - (IF Entry.note = Len(Entry.phr) /\ t = Entry.task THEN 1 ELSE 0)
      /\ \A p : Count(Topsched', LaterOffs(p)) = Count(r, LaterOffs(p))
  BY <1>1, <1>3, GoneOn
<1>5. schedcnt' \in [Task -> Int] /\ CountsInv'
  BY <1>1, <1>3, <1>4, HeldExact
<1>6. ASSUME NEW p \in Pitch
      PROVE  CountOf(Onmsg', p) <= CountOf(Offmsg2', p) + Count(Topsched', LaterOffs(p))
  <2>1. CountOf(Onmsg, p) <= CountOf(Offmsg2, p) + Count(Topsched, LaterOffs(p))
    BY DEF Inv, WalkInv
  <2>2. CountOf(Offmsg2, p) \in Nat /\ Count(Topsched, LaterOffs(p)) \in Nat
    BY <1>2, MessagesCounted, CountType
  <2>3. CountOf(Onmsg', p) = 0 \/ Onmsg' = Onmsg
    BY <1>1, NoMessages
  <2>4. Count(Topsched', LaterOffs(p)) = Count(Topsched, LaterOffs(p))
    BY <1>3, <1>4
  <2> QED BY <1>1, <2>1, <2>2, <2>3, <2>4
<1>7. TypeOK'
  <2>1. {Onmsg', Offmsg', Offmsg2'} \subseteq Seq(Pitch \cup {"user"})
    BY <1>1, <1>2 DEF Messages
  <2>2. s' \in 0 .. Len(Topsched') + 1
    BY <1>4
  <2> QED BY <1>1, <1>2, <1>4, <1>5, <2>1, <2>2 DEF TypeOK
<1>8. WalkInv'
  <2>1. s' # 0
    BY <1>4
  <2> QED BY <1>4, <1>6, <2>1 DEF WalkInv, Idle
<1> QED BY <1>1, <1>4, <1>5, <1>7, <1>8 DEF Inv, Sorted, ByTime, NotesInv

-----------------------------------------------------------------------------
LEMMA StepInv == ASSUME Inv, [Next]_vars PROVE Inv'
<1>1. CASE Programs
  BY <1>1, RealtimeStep, SleepTillStep, KillStep, FinishOffStep, ResetStep DEF Programs
<1>2. CASE Walk
  BY <1>2, SendStep, WakeUpStep, PlayNoteStep, TooManySoonStep, TooManyStep DEF Walk
<1>3. CASE \E d \in 1 .. MaxJump : Begin(d)
  BY <1>3, BeginStep
<1>4. CASE UNCHANGED vars
  <2>1. /\ Topsched' = Topsched /\ schedcnt' = schedcnt /\ Onmsg' = Onmsg /\ Offmsg' = Offmsg
        /\ Offmsg2' = Offmsg2 /\ s' = s /\ throttle' = throttle /\ sametime' = sametime
        /\ sounding' = sounding /\ cut' = cut
    BY <1>4 DEF vars, buffers, walk
  <2> QED BY <2>1 DEF Inv, TypeOK, WalkInv, Idle, Sorted, CountsInv, NotesInv
<1> QED BY <1>1, <1>2, <1>3, <1>4 DEF Next

LEMMA AlwaysInv == Spec => []Inv
<1>1. Inv /\ [Next]_vars => Inv'
  BY StepInv
<1> QED BY <1>1, InitInv, PTL DEF Spec

(* The walk's place is in the list or just behind it, and the entries are what
   realtime(), execnt() and sleeptill() make.                                 *)
THEOREM SchedTypeCorrect == Spec => []TypeOK
<1>1. Inv => TypeOK
  BY DEF Inv
<1> QED BY <1>1, AlwaysInv, PTL

(* "Topsched list is sorted" (chkoutput), while it is walked over, and whatever the
   walk adds to it and moves on in it.                                            *)
THEOREM ScheduleSorted == Spec => []Sorted
<1>1. Inv => Sorted
  BY DEF Inv
<1> QED BY <1>1, AlwaysInv, PTL

(* schedcnt is the number of entries of a task, so that freesch() frees the task, and
   wakes those that wait for it, with the last of them.                            *)
THEOREM EntriesCorrect == Spec => []CountsExact
<1> QED BY InvGives, AlwaysInv, PTL

(* A note that is on has its end in the schedule or in a buffer, one for each time it
   was turned on, until a walk is cut short or finishoff() is called.               *)
THEOREM NotesEndCorrect == Spec => []NotesEnd
<1> QED BY InvGives, AlwaysInv, PTL
=============================================================================
