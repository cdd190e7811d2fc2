--------------------------- MODULE PhrasesProofs ---------------------------
(* The phrases a program makes, for all its variables, constants and bounds: *)
(* they are in order, and what is merged, cut out or cut off is exact.       *)
EXTENDS Phrases, ListsProofs

-----------------------------------------------------------------------------
(* The times of a program: the integers or, if it writes no negative ones,   *)
(* the natural numbers.                                                      *)
IsClicks(T) == T \in {Int, Nat}

NotesOver(T) == [time : T, type : {NT_BYTES, NT_NOTE}, pitch : Nat, dur : Nat]
PhrasesOver(T) == [notes : Seq(NotesOver(T)), leng : T]

Writes(T) ==
  /\ IsClicks(T) /\ Times \subseteq T /\ Lengths \subseteq T
  /\ Literals \subseteq NotesOver(T)

LEMMA Sums ==
  ASSUME NEW T, IsClicks(T), NEW a \in T, NEW b \in T
  PROVE  a + b \in T /\ a \in Int /\ Nat \subseteq T
<1>1. CASE T = Int
  BY <1>1
<1>2. CASE T = Nat
  BY <1>2
<1> QED BY <1>1, <1>2 DEF IsClicks

LEMMA NotesAre == ASSUME NEW T, IsClicks(T) PROVE IsNotes(NotesOver(T))
<1> SUFFICES ASSUME NEW n \in NotesOver(T)
             PROVE  /\ n.time \in Int /\ n.type \in Int /\ n.pitch \in Int /\ n.dur \in Int
                    /\ {"time", "type", "pitch", "dur"} \subseteq DOMAIN n
  BY DEF IsNotes
<1> QED BY DEF NotesOver, IsClicks, NT_BYTES, NT_NOTE

(* What is true of any phrase that an operation leaves. *)
Fine(T, p) ==
  /\ p \in PhrasesOver(T)
  /\ T = Nat /\ AlwaysInOrder => InOrder(p.notes)

Typed(T) == value \in [Var -> PhrasesOver(T)]

(* The lists that the operations put in order. *)
LEMMA InsertedFine ==
  ASSUME NEW T, IsClicks(T), NEW q \in Seq(NotesOver(T)), NEW l \in T
  PROVE  Fine(T, Phrase(Inserted(q), l))
<1>1. Inserted(q) \in Seq(NotesOver(T)) /\ InOrder(Inserted(q))
  BY NotesAre, Inserts
<1> QED BY <1>1 DEF Fine, Phrase, PhrasesOver

LEMMA ReorderedFine ==
  ASSUME NEW T, IsClicks(T), NEW p \in PhrasesOver(T), NEW q \in Seq(NotesOver(T))
  PROVE  Fine(T, WithNotes(p, Phreorder(q)))
<1>1. Phreorder(q) \in Seq(NotesOver(T)) /\ InOrder(Phreorder(q))
  BY NotesAre, Reorders
<1> HIDE DEF NotesOver
<1> QED BY <1>1 DEF Fine, WithNotes, PhrasesOver

LEMMA ListOf ==
  ASSUME NEW E, NEW q \in Seq(E), NEW S, NEW r, r = [i \in DOMAIN q |-> r[i]],
         \A i \in DOMAIN q : r[i] \in S
  PROVE  r \in Seq(S) /\ Len(r) = Len(q) /\ DOMAIN r = DOMAIN q
<1>1. DOMAIN q = 1 .. Len(q) /\ Len(q) \in Nat
  OBVIOUS
<1>2. r \in [1 .. Len(q) -> S]
  BY <1>1
<1> QED BY <1>1, <1>2

LEMMA ShiftTyped ==
  ASSUME NEW T, IsClicks(T), NEW q \in Seq(NotesOver(T)), NEW o \in T
  PROVE  Shifted(q, o) \in Seq(NotesOver(T))
<1> DEFINE r == Shifted(q, o)
<1>1. r = [i \in DOMAIN q |-> r[i]] /\ \A i \in DOMAIN q : r[i] = [q[i] EXCEPT !.time = @ + o]
  BY DEF Shifted
<1>2. ASSUME NEW i \in DOMAIN q PROVE r[i] \in NotesOver(T)
  <2>1. q[i] \in NotesOver(T)
    OBVIOUS
  <2>2. q[i].time + o \in T
    <3>1. q[i].time \in T
      BY <2>1 DEF NotesOver
    <3> QED BY <3>1, Sums
  <2> QED BY <1>1, <2>1, <2>2 DEF NotesOver
<1> HIDE DEF r
<1> QED BY <1>1, <1>2, ListOf DEF r

-----------------------------------------------------------------------------
(* phcuttrunc(): the parts of the notes that sound in a range. *)
Late(n, tm1) ==
  IF n.time < tm1 THEN [n EXCEPT !.time = tm1, !.dur = @ - (tm1 - n.time)] ELSE n
Clip(n, to) == IF to >= 0 /\ End(n) > to THEN [n EXCEPT !.dur = @ - (End(n) - to)] ELSE n
Hits(q, tm1, tm2) == {i \in DOMAIN q : q[i].time < CutEnd(tm1, tm2) /\ PastEnd(q[i]) > tm1}
Parts(q, tm1, tm2) ==
  LET hit == Kept(q, Hits(q, tm1, tm2))
  IN [i \in DOMAIN hit |-> Clip(Late(hit[i], tm1), CutEnd(tm1, tm2))]

LEMMA TruncatedParts ==
  ASSUME NEW q, NEW tm1, NEW tm2
  PROVE  Phcuttrunc(q, tm1, tm2) = Inserted(Parts(q, tm1, tm2))
BY Zenon DEF Phcuttrunc, Parts, Hits, Late, Clip

LEMMA EndIs ==
  ASSUME NEW T, IsClicks(T), NEW n \in NotesOver(T)
  PROVE  /\ n.time \in T /\ n.dur \in Nat /\ n.time \in Int
         /\ End(n) = n.time + n.dur /\ End(n) \in T /\ End(n) \in Int
<1>1. n.time \in T /\ n.dur \in Nat
  BY DEF NotesOver
<1>2. n.dur \in T
  BY <1>1, Sums
<1>3. n.time + n.dur \in T /\ n.time \in Int
  BY <1>1, <1>2, Sums
<1> QED BY <1>1, <1>3 DEF End

(* The part of a note that is hit is a note. *)
LEMMA PartIs ==
  ASSUME NEW T, IsClicks(T), NEW n \in NotesOver(T), NEW tm1 \in T, NEW to \in T,
         tm1 < to, n.time < to, PastEnd(n) > tm1
  PROVE  LET m == Clip(Late(n, tm1), to)
         IN  /\ m \in NotesOver(T) /\ m.pitch = n.pitch
             /\ m.time = IF n.time < tm1 THEN tm1 ELSE n.time
             /\ End(m) = IF to >= 0 /\ End(n) > to THEN to ELSE End(n)
             /\ m.dur = End(m) - m.time
<1> DEFINE l == Late(n, tm1)
           m == Clip(l, to)
<1>1. /\ n.time \in Int /\ n.dur \in Nat /\ tm1 \in Int /\ to \in Int
      /\ End(n) = n.time + n.dur
  BY EndIs, Sums
<1>2. tm1 < End(n) \/ n.time >= tm1
  BY <1>1 DEF PastEnd
<1>3. /\ l \in NotesOver(T) /\ l.pitch = n.pitch
      /\ l.time = (IF n.time < tm1 THEN tm1 ELSE n.time) /\ l.time + l.dur = End(n)
  <2>1. CASE n.time < tm1
    <3>1. l = [n EXCEPT !.time = tm1, !.dur = @ - (tm1 - n.time)]
      BY <2>1 DEF Late
    <3>2. n.dur - (tm1 - n.time) \in Nat
      BY <1>1, <1>2, <2>1
    <3>3. l \in NotesOver(T) /\ l.pitch = n.pitch /\ l.time = tm1
          /\ l.dur = n.dur - (tm1 - n.time)
      BY <3>1, <3>2 DEF NotesOver
    <3> QED BY <1>1, <2>1, <3>3
  <2>2. CASE ~(n.time < tm1)
    BY <1>1, <2>2 DEF Late
  <2> QED BY <2>1, <2>2
<1> HIDE DEF l
<1>4. l.time \in Int /\ l.dur \in Nat /\ l.time < to
  BY <1>1, <1>3, EndIs
<1>5. End(l) = End(n)
  BY <1>3, Zenon DEF End
<1>6. CASE to >= 0 /\ End(n) > to
  <2>1. m = [l EXCEPT !.dur = @ - (End(l) - to)]
    BY <1>5, <1>6 DEF Clip
  <2>2. l.dur - (End(l) - to) = to - l.time /\ to - l.time \in Nat
    BY <1>1, <1>3, <1>4, <1>5
  <2>3. m \in NotesOver(T) /\ m.pitch = l.pitch /\ m.time = l.time /\ m.dur = to - l.time
    BY <1>3, <2>1, <2>2 DEF NotesOver
  <2>4. End(m) = to
    BY <1>1, <1>4, <2>3 DEF End
  <2> HIDE DEF m
  <2> QED BY <1>3, <1>6, <2>3, <2>4 DEF m, l
<1>7. CASE ~(to >= 0 /\ End(n) > to)
  <2>1. m = l
    BY <1>5, <1>7 DEF Clip
  <2>2. l.dur = End(l) - l.time
    BY <1>1, <1>3, <1>4, <1>5
  <2> HIDE DEF m
  <2> QED BY <1>3, <1>5, <1>7, <2>1, <2>2 DEF m, l
<1> QED BY <1>6, <1>7

LEMMA CutEndIs ==
  ASSUME NEW T, IsClicks(T), NEW tm1 \in T, NEW tm2 \in T, tm1 <= tm2
  PROVE  CutEnd(tm1, tm2) \in T /\ tm1 < CutEnd(tm1, tm2)
<1>1. tm1 \in Int /\ tm2 \in Int /\ 1 \in T
  <2>1. 1 \in Nat
    OBVIOUS
  <2> QED BY <2>1, Sums
<1>2. tm1 + 1 \in T
  BY <1>1, Sums
<1> QED BY <1>1, <1>2 DEF CutEnd

LEMMA PartsAre ==
  ASSUME NEW T, IsClicks(T), NEW q \in Seq(NotesOver(T)), NEW tm1 \in T, NEW tm2 \in T,
         tm1 <= tm2
  PROVE  Parts(q, tm1, tm2) \in Seq(NotesOver(T))
<1> DEFINE I == Hits(q, tm1, tm2)
           to == CutEnd(tm1, tm2)
           hit == Kept(q, I)
           r == Parts(q, tm1, tm2)
<1>1. I \in SUBSET DOMAIN q /\ to \in T /\ tm1 < to
  BY CutEndIs DEF Hits
<1>2. /\ hit \in Seq(NotesOver(T)) /\ DOMAIN hit = 1 .. Cardinality(I)
      /\ \A k \in 1 .. Cardinality(I) : Nth(I, k) \in I /\ hit[k] = q[Nth(I, k)]
  BY <1>1, KeptList
<1>3. r = [i \in DOMAIN hit |-> r[i]] /\ \A k \in DOMAIN hit : r[k] = Clip(Late(hit[k], tm1), to)
  BY DEF Parts
<1>4. ASSUME NEW k \in DOMAIN hit PROVE hit[k].time < to /\ PastEnd(hit[k]) > tm1
  BY <1>2 DEF Hits
<1> HIDE DEF r, hit, to
<1>5. \A k \in DOMAIN hit : hit[k] \in NotesOver(T)
  <2>1. hit \in Seq(NotesOver(T))
    BY <1>2
  <2>2. DOMAIN hit = 1 .. Len(hit) /\ \A k \in 1 .. Len(hit) : hit[k] \in NotesOver(T)
    BY <2>1
  <2> QED BY <2>2
<1>6. ASSUME NEW n \in NotesOver(T), n.time < to, PastEnd(n) > tm1
      PROVE  Clip(Late(n, tm1), to) \in NotesOver(T)
  BY <1>1, <1>6, PartIs
<1>7. \A k \in DOMAIN hit : r[k] \in NotesOver(T)
  BY <1>3, <1>4, <1>5, <1>6
<1>8. r \in Seq(NotesOver(T))
  BY <1>2, <1>3, <1>7, ListOf
<1> QED BY <1>8 DEF r

-----------------------------------------------------------------------------
(* The operations, one by one. *)
LEMMA MinMaxOf ==
  ASSUME NEW T, IsClicks(T), NEW a \in T, NEW b \in T
  PROVE  /\ Min({a, b}) = (IF a <= b THEN a ELSE b) /\ Max({a, b}) = (IF a <= b THEN b ELSE a)
         /\ Min({a, b}) \in T /\ Max({a, b}) \in T
<1>1. a \in Int /\ b \in Int
  BY Sums
<1>2. Min({a, b}) = IF a <= b THEN a ELSE b
  BY <1>1 DEF Min
<1>3. Max({a, b}) = IF a <= b THEN b ELSE a
  BY <1>1 DEF Max
<1> QED BY <1>2, <1>3

LEMMA ParsFine ==
  ASSUME NEW T, IsClicks(T), NEW a \in PhrasesOver(T), NEW b \in PhrasesOver(T),
         AlwaysInOrder => InOrder(a.notes) /\ InOrder(b.notes)
  PROVE  Fine(T, Dpar(a, b)) /\ Fine(T, Dadd(a, b))
<1> DEFINE E == NotesOver(T)
<1>1. a.notes \in Seq(E) /\ b.notes \in Seq(E) /\ a.leng \in T /\ b.leng \in T
  BY DEF PhrasesOver
<1>2. 0 \in T /\ 0 \in Int /\ a.leng \in Int /\ a.leng + b.leng \in T /\ Max({a.leng, b.leng}) \in T
  <2>1. 0 \in Nat
    OBVIOUS
  <2> QED BY <1>1, <2>1, Sums, MinMaxOf
<1>3. ASSUME NEW o \in T, NEW l \in T
      PROVE  Fine(T, Phrase(Phrmerge(b.notes, a.notes, o), l))
  <2> DEFINE r == Phrmerge(b.notes, a.notes, o)
  <2>1. Shifted(b.notes, o) \in Seq(E) /\ IsNotes(E) /\ o \in Int
    BY <1>1, NotesAre, ShiftTyped, Sums
  <2> HIDE DEF E
  <2>2. r \in Seq(E) /\ (InOrder(b.notes) /\ InOrder(a.notes) /\ o >= 0 => InOrder(r))
    BY <1>1, <2>1, Merges
  <2>3. T = Nat => o >= 0
    OBVIOUS
  <2> HIDE DEF r
  <2> QED BY <2>2, <2>3 DEF Fine, Phrase, PhrasesOver, E, r
<1> QED BY <1>1, <1>2, <1>3 DEF Dpar, Dadd

LEMMA OpsFine ==
  ASSUME NEW T, IsClicks(T), NEW a \in PhrasesOver(T), NEW b \in PhrasesOver(T)
  PROVE  Fine(T, Dsub(a, b)) /\ Fine(T, Damp(a, b))
<1>1. a.notes \in Seq(NotesOver(T)) /\ a.leng \in T
  BY DEF PhrasesOver
<1>2. ASSUME NEW common PROVE Fine(T, Phrase(Phrop(a.notes, b.notes, common), a.leng))
  <2>1. PICK I \in SUBSET DOMAIN a.notes :
          Phrop(a.notes, b.notes, common) = Inserted(Kept(a.notes, I))
    BY Zenon DEF Phrop
  <2>2. Kept(a.notes, I) \in Seq(NotesOver(T))
    BY <1>1, KeptList
  <2> QED BY <1>1, <2>1, <2>2, InsertedFine
<1> QED BY <1>2 DEF Dsub, Damp

LEMMA CutsFine ==
  ASSUME NEW T, IsClicks(T), NEW p \in PhrasesOver(T), NEW t1 \in T, NEW t2 \in T,
         NEW kind \in {"normal", "truncate", "inclusive"}
  PROVE  Fine(T, Cuts(p, t1, t2)[kind])
<1> DEFINE from == Min({t1, t2})
           to == Max({t1, t2})
<1>1. p.notes \in Seq(NotesOver(T)) /\ p.leng \in T
  BY DEF PhrasesOver
<1>2. from \in T /\ to \in T
  BY MinMaxOf
<1> HIDE DEF from, to
<1>3. Fine(T, Phrase(Phcut(p.notes, from, to), p.leng))
  <2>1. PICK I \in SUBSET DOMAIN p.notes : Phcut(p.notes, from, to) = Inserted(Kept(p.notes, I))
    BY Zenon DEF Phcut
  <2>2. Kept(p.notes, I) \in Seq(NotesOver(T))
    BY <1>1, KeptList
  <2> QED BY <1>1, <2>1, <2>2, InsertedFine
<1>4. Fine(T, Phrase(Phcutincl(p.notes, from, to), p.leng))
  <2>1. PICK I \in SUBSET DOMAIN p.notes :
          Phcutincl(p.notes, from, to) = Inserted(Kept(p.notes, I))
    BY Zenon DEF Phcutincl
  <2>2. Kept(p.notes, I) \in Seq(NotesOver(T))
    BY <1>1, KeptList
  <2> QED BY <1>1, <2>1, <2>2, InsertedFine
<1>5. Fine(T, Phrase(Phcuttrunc(p.notes, from, to), p.leng))
  <2>1. from <= to
    <3>1. t1 \in Int /\ t2 \in Int
      BY Sums
    <3> QED BY <3>1, MinMaxOf DEF from, to
  <2>2. Parts(p.notes, from, to) \in Seq(NotesOver(T))
    BY <1>1, <1>2, <2>1, PartsAre
  <2> QED BY <1>1, <2>2, TruncatedParts, InsertedFine
<1> QED BY <1>3, <1>4, <1>5 DEF Cuts, from, to

(* A list that is not empty has a note that ends last. *)
LEMMA LastEndIs ==
  ASSUME NEW T, IsClicks(T), NEW q \in Seq(NotesOver(T))
  PROVE  LastEnd(q) \in T
<1> DEFINE n == Len(q)
           e == [i \in 1 .. n |-> End(q[i])]
           P == {m \in 0 .. n : m = 0 \/ \E i \in 1 .. m : \A j \in 1 .. m : e[j] <= e[i]}
<1>1. n \in Nat /\ DOMAIN q = 1 .. n /\ \A i \in 1 .. n : q[i] \in NotesOver(T)
  OBVIOUS
<1>2. \A i \in 1 .. n : e[i] \in T /\ e[i] \in Int /\ e[i] = End(q[i])
  BY <1>1, EndIs
<1> HIDE DEF e
<1>3. 0 \in P
  BY <1>1
<1>4. ASSUME NEW m \in 1 .. n, m - 1 \in P PROVE m \in P
  <2>1. CASE m = 1
    <3>1. \A j \in 1 .. 1 : e[j] <= e[1]
      BY <1>2, <2>1
    <3> QED BY <1>1, <2>1, <3>1
  <2>2. CASE m # 1
    <3>1. PICK i \in 1 .. m - 1 : \A j \in 1 .. m - 1 : e[j] <= e[i]
      BY <1>4, <2>2
    <3>2. i \in 1 .. m /\ e[i] \in Int /\ e[m] \in Int /\ \A j \in 1 .. m : j \in 1 .. n
      BY <1>1, <1>2
    <3>3. CASE e[m] <= e[i]
      <4>1. \A j \in 1 .. m : e[j] <= e[i]
        BY <1>1, <3>1, <3>3
      <4> QED BY <1>1, <3>2, <4>1
    <3>4. CASE ~(e[m] <= e[i])
      <4>1. \A j \in 1 .. m : e[j] <= e[m]
        <5> TAKE j \in 1 .. m
        <5>1. e[j] \in Int
          BY <1>2, <3>2
        <5> QED BY <1>1, <3>1, <3>2, <3>4, <5>1
      <4> QED BY <1>1, <4>1
    <3> QED BY <3>3, <3>4
  <2> QED BY <2>1, <2>2
<1>5. n \in P
  <2>1. n \in 0 .. n
    BY <1>1
  <2> HIDE DEF P
  <2> QED BY <1>1, <1>3, <1>4, <2>1, Upwards
<1>6. CASE q = <<>>
  <2>1. 0 \in Nat
    OBVIOUS
  <2> QED BY <1>6, <2>1, Sums DEF LastEnd, IsClicks
<1>7. CASE q # <<>>
  <2> DEFINE S == {End(q[i]) : i \in DOMAIN q}
  <2>1. PICK i \in 1 .. n : \A j \in 1 .. n : e[j] <= e[i]
    BY <1>1, <1>5, <1>7
  <2>2. e[i] \in S /\ \A x \in S : e[i] >= x
    <3>1. \A x \in S : \E j \in 1 .. n : x = e[j]
      BY <1>1, <1>2
    <3>2. \A j \in 1 .. n : e[i] >= e[j]
      BY <1>2, <2>1
    <3> QED BY <1>1, <1>2, <3>1, <3>2
  <2>3. \A x \in S : x \in T
    BY <1>1, <1>2
  <2> HIDE DEF S
  <2>4. Max(S) \in S
    BY <2>2, Zenon DEF Max
  <2>5. LastEnd(q) = Max(S)
    BY <1>7, Zenon DEF LastEnd, S
  <2> QED BY <2>3, <2>4, <2>5
<1> QED BY <1>6, <1>7

LEMMA ConstantFine ==
  ASSUME NEW T, Writes(T), NEW k \in Nat, NEW q \in [1 .. k -> Literals]
  PROVE  Fine(T, Phrase(Yyphrase(q), LastEnd(q)))
<1>1. q \in Seq(NotesOver(T))
  BY DEF Writes
<1>2. IsClicks(T)
  BY DEF Writes
<1> QED BY <1>1, <1>2, LastEndIs, InsertedFine DEF Yyphrase

LEMMA ModuloFine ==
  ASSUME NEW T, IsClicks(T), NEW n \in NotesOver(T)
  PROVE  Fine(T, Phrase(<<n>>, End(n)))
<1>1. End(n) \in T
  BY EndIs
<1>2. <<n>> \in Seq(NotesOver(T)) /\ InOrder(<<n>>)
  BY DEF InOrder
<1> QED BY <1>1, <1>2 DEF Fine, Phrase, PhrasesOver

(* What a.time = t and a.dur = d make of a note. *)
LEMMA SetNoteIs ==
  ASSUME NEW T, IsClicks(T), NEW n \in NotesOver(T), NEW t \in T, NEW d \in Nat
  PROVE  SetNote(n, t) \in NotesOver(T) /\ SetDur(n, d) \in NotesOver(T)
<1>1. SetNote(n, t) \in NotesOver(T)
  BY DEF SetNote, NotesOver
<1>2. SetDur(n, d) \in NotesOver(T)
  BY DEF SetDur, NotesOver
<1> QED BY <1>1, <1>2

LEMMA MapTyped ==
  ASSUME NEW T, IsClicks(T), NEW q \in Seq(NotesOver(T)), NEW t \in T, NEW d \in Nat
  PROVE  /\ Map(q, LAMBDA n : SetNote(n, t)) \in Seq(NotesOver(T))
         /\ Map(q, LAMBDA n : SetDur(n, d)) \in Seq(NotesOver(T))
<1>1. \A i \in DOMAIN q : q[i] \in NotesOver(T)
  OBVIOUS
<1>2. \A i \in DOMAIN q : SetNote(q[i], t) \in NotesOver(T) /\ SetDur(q[i], d) \in NotesOver(T)
  BY <1>1, SetNoteIs
<1>3. Map(q, LAMBDA n : SetNote(n, t)) \in Seq(NotesOver(T))
  <2> DEFINE r == [i \in DOMAIN q |-> SetNote(q[i], t)]
  <2>1. r = [i \in DOMAIN q |-> r[i]] /\ \A i \in DOMAIN q : r[i] \in NotesOver(T)
    BY <1>2
  <2> HIDE DEF r
  <2>2. r \in Seq(NotesOver(T))
    BY <2>1, ListOf
  <2> QED BY <2>2 DEF Map, r
<1>4. Map(q, LAMBDA n : SetDur(n, d)) \in Seq(NotesOver(T))
  <2> DEFINE r == [i \in DOMAIN q |-> SetDur(q[i], d)]
  <2>1. r = [i \in DOMAIN q |-> r[i]] /\ \A i \in DOMAIN q : r[i] \in NotesOver(T)
    BY <1>2
  <2> HIDE DEF r
  <2>2. r \in Seq(NotesOver(T))
    BY <2>1, ListOf
  <2> QED BY <2>2 DEF Map, r
<1> QED BY <1>3, <1>4

(* One note changed or taken out. *)
LEMMA ChangedTyped ==
  ASSUME NEW E, NEW q \in Seq(E), NEW k \in DOMAIN q, NEW n \in E
  PROVE  [q EXCEPT ![k] = n] \in Seq(E)
<1> DEFINE r == [q EXCEPT ![k] = n]
<1>1. r = [i \in DOMAIN q |-> r[i]] /\ \A i \in DOMAIN q : r[i] \in E
  OBVIOUS
<1> HIDE DEF r
<1>2. r \in Seq(E)
  BY <1>1, ListOf
<1> QED BY <1>2 DEF r

LEMMA DeletedTyped ==
  ASSUME NEW E, NEW q \in Seq(E), NEW k \in DOMAIN q
  PROVE  NtDelete(q, k) \in Seq(E)
<1>1. k \in 1 .. Len(q)
  OBVIOUS
<1> QED BY <1>1, RemovedIsPut DEF NtDelete, RemoveAt

-----------------------------------------------------------------------------
(* Each step assigns such a phrase to a variable. *)
Assigns(T, v) == \E p : Fine(T, p) /\ Set(v, p)

LEMMA DotAssigns ==
  ASSUME NEW T, Writes(T), Typed(T), NEW v \in Var, DotAssign(v)
  PROVE  Assigns(T, v)
<1> DEFINE q == value[v].notes
<1>1. IsClicks(T) /\ Times \subseteq T /\ Durs \subseteq Nat
  BY PhrasesAssumption DEF Writes
<1>2. value[v] \in PhrasesOver(T) /\ q \in Seq(NotesOver(T))
  BY DEF Typed, PhrasesOver
<1> DEFINE timed(t) == Map(q, LAMBDA n : SetNote(n, t))
           lasting(d) == Map(q, LAMBDA n : SetDur(n, d))
<1>3. \/ \E t \in Times : Set(v, WithNotes(value[v], Phreorder(timed(t))))
      \/ \E d \in Durs : Set(v, WithNotes(value[v], Phreorder(lasting(d))))
  BY Zenon DEF DotAssign
<1>4. \A t \in Times : timed(t) \in Seq(NotesOver(T))
  <2> SUFFICES ASSUME NEW t \in Times PROVE timed(t) \in Seq(NotesOver(T))
    OBVIOUS
  <2>1. t \in T /\ 0 \in Nat
    BY <1>1
  <2> HIDE DEF q
  <2> QED BY <1>1, <1>2, <2>1, MapTyped, Zenon
<1>5. \A d \in Durs : lasting(d) \in Seq(NotesOver(T))
  <2> SUFFICES ASSUME NEW d \in Durs PROVE lasting(d) \in Seq(NotesOver(T))
    OBVIOUS
  <2>1. d \in Nat /\ d \in T
    <3>1. d \in Nat /\ 0 \in Nat
      BY <1>1
    <3> QED BY <1>1, <3>1 DEF IsClicks
  <2> HIDE DEF q
  <2> QED BY <1>1, <1>2, <2>1, MapTyped, Zenon
<1> HIDE DEF timed, lasting, q
<1>6. \A t \in Times : Fine(T, WithNotes(value[v], Phreorder(timed(t))))
  BY <1>1, <1>2, <1>4, ReorderedFine
<1>7. \A d \in Durs : Fine(T, WithNotes(value[v], Phreorder(lasting(d))))
  BY <1>1, <1>2, <1>5, ReorderedFine
<1> QED BY <1>3, <1>6, <1>7 DEF Assigns

LEMMA ModDotAssigns ==
  ASSUME NEW T, Writes(T), Typed(T), NEW v \in Var, ModDotAssign(v)
  PROVE  Assigns(T, v)
<1> DEFINE q == value[v].notes
<1>1. IsClicks(T) /\ Times \subseteq T /\ Durs \subseteq Nat
  BY PhrasesAssumption DEF Writes
<1>2. value[v] \in PhrasesOver(T) /\ q \in Seq(NotesOver(T))
  BY DEF Typed, PhrasesOver
<1>3. PICK k \in DOMAIN q :
        \/ \E t \in Times : Set(v, WithNotes(value[v], Phreorder([q EXCEPT ![k] = SetNote(@, t)])))
        \/ \E d \in Durs : Set(v, WithNotes(value[v], Phreorder([q EXCEPT ![k] = SetDur(@, d)])))
  BY DEF ModDotAssign
<1>4. q[k] \in NotesOver(T)
  BY <1>2
<1> HIDE DEF q
<1>5. ASSUME NEW n \in NotesOver(T)
      PROVE  Fine(T, WithNotes(value[v], Phreorder([q EXCEPT ![k] = n])))
  <2>1. [q EXCEPT ![k] = n] \in Seq(NotesOver(T))
    BY <1>2, ChangedTyped
  <2> QED BY <1>1, <1>2, <2>1, ReorderedFine
<1>6. \A t \in Times, d \in Durs :
        SetNote(q[k], t) \in NotesOver(T) /\ SetDur(q[k], d) \in NotesOver(T)
  BY <1>1, <1>4, SetNoteIs
<1>7. CASE \E t \in Times :
             Set(v, WithNotes(value[v], Phreorder([q EXCEPT ![k] = SetNote(@, t)])))
  <2>1. PICK t \in Times :
          Set(v, WithNotes(value[v], Phreorder([q EXCEPT ![k] = SetNote(q[k], t)])))
    BY <1>7
  <2>2. SetNote(q[k], t) \in NotesOver(T)
    BY <1>1, <1>4, SetNoteIs
  <2> QED BY <1>5, <2>1, <2>2 DEF Assigns
<1>8. CASE \E d \in Durs :
             Set(v, WithNotes(value[v], Phreorder([q EXCEPT ![k] = SetDur(@, d)])))
  <2>1. PICK d \in Durs :
          Set(v, WithNotes(value[v], Phreorder([q EXCEPT ![k] = SetDur(q[k], d)])))
    BY <1>8
  <2>2. 0 \in T /\ d \in Nat
    BY <1>1 DEF IsClicks
  <2>3. SetDur(q[k], d) \in NotesOver(T)
    BY <1>1, <1>4, <2>2, SetNoteIs
  <2> QED BY <1>5, <2>1, <2>3 DEF Assigns
<1> QED BY <1>3, <1>7, <1>8

LEMMA ModAssigns ==
  ASSUME NEW T, Writes(T), Typed(T), NEW v \in Var, ModAssign(v)
  PROVE  Assigns(T, v)
<1> DEFINE q == value[v].notes
<1>1. IsClicks(T)
  BY DEF Writes
<1>2. value[v] \in PhrasesOver(T) /\ q \in Seq(NotesOver(T))
  BY DEF Typed, PhrasesOver
<1>3. PICK k \in DOMAIN q, w \in Var :
        /\ value[w].notes # <<>>
        /\ Set(v, WithNotes(value[v], Phreorder([q EXCEPT ![k] =
             [@ EXCEPT !.pitch = value[w].notes[1].pitch, !.dur = value[w].notes[1].dur]])))
  BY DEF ModAssign
<1>4. q[k] \in NotesOver(T) /\ value[w].notes[1] \in NotesOver(T)
  <2>1. value[w].notes \in Seq(NotesOver(T)) /\ 1 \in 1 .. Len(value[w].notes)
    BY <1>3 DEF Typed, PhrasesOver
  <2> QED BY <1>2, <2>1
<1> DEFINE n == [q[k] EXCEPT !.pitch = value[w].notes[1].pitch, !.dur = value[w].notes[1].dur]
<1>5. n \in NotesOver(T)
  BY <1>4 DEF NotesOver
<1>6. Set(v, WithNotes(value[v], Phreorder([q EXCEPT ![k] = n])))
  BY <1>3
<1> HIDE DEF q, n
<1>7. [q EXCEPT ![k] = n] \in Seq(NotesOver(T))
  BY <1>2, <1>5, ChangedTyped
<1>8. Fine(T, WithNotes(value[v], Phreorder([q EXCEPT ![k] = n])))
  BY <1>1, <1>2, <1>7, ReorderedFine
<1> QED BY <1>6, <1>8 DEF Assigns

LEMMA StepAssigns ==
  ASSUME NEW T, Writes(T), Typed(T), Next
  PROVE  \E v \in Var : Assigns(T, v)
<1>1. PICK v \in Var : \/ Constant(v) \/ Operate(v) \/ Modulo(v) \/ Cut(v) \/ DotAssign(v)
                       \/ LengthAssign(v) \/ ModDotAssign(v) \/ ModDelete(v) \/ ModAssign(v)
  BY DEF Next
<1>2. IsClicks(T) /\ Times \subseteq T /\ Lengths \subseteq T
  BY DEF Writes
<1>3. \A w \in Var : /\ value[w] \in PhrasesOver(T)
                     /\ value[w].notes \in Seq(NotesOver(T)) /\ value[w].leng \in T
  BY DEF Typed, PhrasesOver
<1>4. CASE Constant(v)
  <2>1. PICK k \in 0 .. MaxNotes :
          \E q \in [1 .. k -> Literals] : Set(v, Phrase(Yyphrase(q), LastEnd(q)))
    BY <1>4 DEF Constant
  <2>2. k \in Nat
    BY PhrasesAssumption
  <2> QED BY <2>1, <2>2, ConstantFine DEF Assigns
<1>5. CASE Operate(v)
  <2>1. PICK a \in {value[w] : w \in Var}, b \in {value[w] : w \in Var} :
          \E r \in {Dpar(a, b), Dadd(a, b), Dsub(a, b), Damp(a, b)} : Set(v, r)
    BY <1>5 DEF Operate
  <2>2. a \in PhrasesOver(T) /\ b \in PhrasesOver(T)
    BY <1>3
  <2>3. AlwaysInOrder => InOrder(a.notes) /\ InOrder(b.notes)
    BY DEF AlwaysInOrder
  <2>4. Fine(T, Dpar(a, b)) /\ Fine(T, Dadd(a, b)) /\ Fine(T, Dsub(a, b)) /\ Fine(T, Damp(a, b))
    BY <1>2, <2>2, <2>3, ParsFine, OpsFine
  <2> QED BY <2>1, <2>4 DEF Assigns
<1>6. CASE Modulo(v)
  <2>1. PICK w \in Var : \E k \in DOMAIN value[w].notes :
          Set(v, Phrase(<<value[w].notes[k]>>, End(value[w].notes[k])))
    BY <1>6 DEF Modulo
  <2>2. \A k \in DOMAIN value[w].notes : value[w].notes[k] \in NotesOver(T)
    BY <1>3
  <2> QED BY <1>2, <2>1, <2>2, ModuloFine DEF Assigns
<1>7. CASE Cut(v)
  <2>1. PICK w \in Var, t1 \in Times, t2 \in Times, kind \in {"normal", "truncate", "inclusive"} :
          Set(v, Cuts(value[w], t1, t2)[kind])
    BY <1>7 DEF Cut
  <2>2. t1 \in T /\ t2 \in T
    BY <1>2
  <2> QED BY <1>2, <1>3, <2>1, <2>2, CutsFine DEF Assigns
<1>8. CASE DotAssign(v)
  BY <1>8, DotAssigns
<1>9. CASE LengthAssign(v)
  <2>1. PICK l \in Lengths : Set(v, [value[v] EXCEPT !.leng = l])
    BY <1>9 DEF LengthAssign
  <2>2. Fine(T, [value[v] EXCEPT !.leng = l])
    <3>1. [value[v] EXCEPT !.leng = l] \in PhrasesOver(T)
      BY <1>2, <1>3 DEF PhrasesOver
    <3>2. [value[v] EXCEPT !.leng = l].notes = value[v].notes
      BY <1>3 DEF PhrasesOver
    <3> QED BY <3>1, <3>2 DEF Fine, AlwaysInOrder
  <2> QED BY <2>1, <2>2 DEF Assigns
<1>10. CASE ModDotAssign(v)
  BY <1>10, ModDotAssigns
<1>11. CASE ModDelete(v)
  <2>1. PICK k \in DOMAIN value[v].notes :
          Set(v, WithNotes(value[v], Phreorder(NtDelete(value[v].notes, k))))
    BY <1>11 DEF ModDelete
  <2>2. NtDelete(value[v].notes, k) \in Seq(NotesOver(T))
    BY <1>3, DeletedTyped
  <2> QED BY <1>2, <1>3, <2>1, <2>2, ReorderedFine DEF Assigns
<1>12. CASE ModAssign(v)
  BY <1>12, ModAssigns
<1> QED BY <1>1, <1>4, <1>5, <1>6, <1>7, <1>8, <1>9, <1>10, <1>11, <1>12

LEMMA StepTyped ==
  ASSUME NEW T, Writes(T), Typed(T), [Next]_value
  PROVE  Typed(T)' /\ (T = Nat /\ AlwaysInOrder => AlwaysInOrder')
<1>1. CASE Next
  <2>1. PICK v \in Var : \E p : Fine(T, p) /\ Set(v, p)
    BY <1>1, StepAssigns DEF Assigns
  <2> PICK p : Fine(T, p) /\ Set(v, p)
    BY <2>1
  <2>2. value' = [value EXCEPT ![v] = p] /\ p \in PhrasesOver(T)
        /\ (T = Nat /\ AlwaysInOrder => InOrder(p.notes))
    BY DEF Set, Fine
  <2>3. \A w \in Var : value'[w] = IF w = v THEN p ELSE value[w]
    BY <2>2 DEF Typed
  <2>4. Typed(T)'
    BY <2>2 DEF Typed
  <2> QED BY <2>2, <2>3, <2>4 DEF AlwaysInOrder
<1>2. CASE UNCHANGED value
  BY <1>2 DEF Typed, AlwaysInOrder
<1> QED BY <1>1, <1>2

LEMMA InitTyped ==
  ASSUME NEW T, IsClicks(T), Init
  PROVE  Typed(T) /\ AlwaysInOrder
<1>1. 0 \in T
  BY DEF IsClicks
<1>2. Phrase(<<>>, 0) \in PhrasesOver(T) /\ InOrder(Phrase(<<>>, 0).notes)
  BY <1>1 DEF Phrase, PhrasesOver, InOrder
<1> QED BY <1>2 DEF Init, Typed, AlwaysInOrder

(* The programs of which phrmerge() and phrop() may assume the order. *)
NoNegatives ==
  Times \subseteq Nat /\ Lengths \subseteq Nat /\ \A n \in Literals : n.time >= 0

LEMMA AnyWrites == Writes(Int)
BY PhrasesAssumption DEF Writes, IsClicks, NotesOver

LEMMA NoneWrites == ASSUME NoNegatives PROVE Writes(Nat)
<1>1. Literals \subseteq NotesOver(Nat)
  <2> SUFFICES ASSUME NEW n \in Literals PROVE n \in NotesOver(Nat)
    OBVIOUS
  <2>1. n \in [time : Int, type : {NT_BYTES, NT_NOTE}, pitch : Nat, dur : Nat] /\ n.time >= 0
    BY PhrasesAssumption DEF NoNegatives
  <2> QED BY <2>1 DEF NotesOver
<1> QED BY <1>1 DEF Writes, IsClicks, NoNegatives

LEMMA OrderHolds ==
  ASSUME NoNegatives
  PROVE  Spec => [](Typed(Nat) /\ AlwaysInOrder)
<1>1. Init => Typed(Nat) /\ AlwaysInOrder
  BY InitTyped DEF IsClicks
<1>2. Typed(Nat) /\ AlwaysInOrder /\ [Next]_value => (Typed(Nat) /\ AlwaysInOrder)'
  BY NoneWrites, StepTyped
<1> QED BY <1>1, <1>2, PTL DEF Spec

(* AlwaysInOrder: constants, |, +, -, &, %, cut() and the assignments to notes,
   in any sequence, leave every phrase in the order of ntcmporder(), which
   phrmerge() and phrop() assume, if the program writes no negative times and
   lengths.                                                                   *)
THEOREM OrderCorrect ==
  ASSUME NoNegatives
  PROVE  Spec => []AlwaysInOrder
<1>1. Spec => [](Typed(Nat) /\ AlwaysInOrder)
  BY OrderHolds
<1> QED BY <1>1, PTL

LEMMA MergeIs ==
  ASSUME Typed(Nat), AlwaysInOrder
  PROVE  MergeExact
<1> DEFINE E == NotesOver(Nat)
           exact(q, a, b, offset) ==
             /\ InOrder(q)
             /\ \A n \in NotesOf(q) \cup NotesOf(a) \cup NotesOf(Shifted(b, offset)) :
                  Count(q, {n}) = Count(a, {n}) + Count(Shifted(b, offset), {n})
<1>1. ASSUME NEW a \in Seq(E), NEW b \in Seq(E), NEW o \in Nat, InOrder(a), InOrder(b)
      PROVE  exact(Phrmerge(b, a, o), a, b, o)
  <2>1. IsClicks(Nat)
    BY DEF IsClicks
  <2>2. Shifted(b, o) \in Seq(E) /\ IsNotes(E) /\ o \in Int /\ o >= 0
    BY <2>1, NotesAre, ShiftTyped
  <2> DEFINE r == Phrmerge(b, a, o)
  <2> HIDE DEF E
  <2>3. /\ InOrder(b) /\ InOrder(a) /\ o >= 0 => InOrder(r)
        /\ \A S : Count(r, S) = Count(a, S) + Count(Shifted(b, o), S)
    BY <2>2, Merges
  <2> QED BY <1>1, <2>2, <2>3
<1> HIDE DEF exact
<1>2. ASSUME NEW v \in Var, NEW w \in Var
      PROVE  /\ exact(Dpar(value[v], value[w]).notes, value[v].notes, value[w].notes, 0)
             /\ exact(Dadd(value[v], value[w]).notes, value[v].notes, value[w].notes,
                      value[v].leng)
  <2>1. /\ value[v].notes \in Seq(E) /\ value[w].notes \in Seq(E) /\ value[v].leng \in Nat
        /\ InOrder(value[v].notes) /\ InOrder(value[w].notes)
    BY DEF Typed, PhrasesOver, AlwaysInOrder
  <2> HIDE DEF E
  <2>2. /\ exact(Phrmerge(value[w].notes, value[v].notes, 0), value[v].notes, value[w].notes, 0)
        /\ exact(Phrmerge(value[w].notes, value[v].notes, value[v].leng), value[v].notes,
                 value[w].notes, value[v].leng)
    BY <1>1, <2>1
  <2> QED BY <2>2 DEF Dpar, Dadd, Phrase
<1> QED BY <1>2, Zenon DEF MergeExact, exact

(* MergeExact: a | b and a + b hold the notes of a and those of b, delayed, as
   often as they are there, and in order.                                     *)
THEOREM MergeCorrect ==
  ASSUME NoNegatives
  PROVE  Spec => []MergeExact
<1>1. Spec => [](Typed(Nat) /\ AlwaysInOrder)
  BY OrderHolds
<1>2. Typed(Nat) /\ AlwaysInOrder => MergeExact
  BY MergeIs
<1> QED BY <1>1, <1>2, PTL

LEMMA ExactNotes == ASSUME NEW T PROVE IsExact(NotesOver(T))
<1> SUFFICES ASSUME NEW a \in NotesOver(T), NEW b \in NotesOver(T),
                    a.time = b.time, a.type = b.type, a.pitch = b.pitch, a.dur = b.dur
             PROVE  a = b
  BY DEF IsExact
<1> QED BY DEF NotesOver

LEMMA SetOpsAre ==
  ASSUME Typed(Nat), AlwaysInOrder
  PROVE  SetOpsExact
<1> DEFINE E == NotesOver(Nat)
<1>0. IsNotes(E) /\ IsExact(E)
  BY NotesAre, ExactNotes DEF IsClicks
<1> SUFFICES ASSUME NEW v \in Var, NEW w \in Var
             PROVE  LET a == value[v].notes
                        b == value[w].notes
                        less == Dsub(value[v], value[w]).notes
                        both == Damp(value[v], value[w]).notes
                    IN  /\ InOrder(less) /\ InOrder(both)
                        /\ \A n \in NotesOf(a) \cup NotesOf(less) \cup NotesOf(both) :
                             /\ Count(both, {n}) = Min({Count(a, {n}), Count(b, {n})})
                             /\ Count(less, {n}) = Count(a, {n}) - Count(both, {n})
  BY DEF SetOpsExact
<1> DEFINE a == value[v].notes
           b == value[w].notes
           less == Phrop(a, b, FALSE)
           both == Phrop(a, b, TRUE)
<1>1. a \in Seq(E) /\ b \in Seq(E) /\ InOrder(a) /\ InOrder(b)
  BY DEF Typed, PhrasesOver, AlwaysInOrder
<1>2. Dsub(value[v], value[w]).notes = less /\ Damp(value[v], value[w]).notes = both
  BY DEF Dsub, Damp, Phrase
<1> HIDE DEF E, a, b
<1>3. /\ InOrder(both) /\ InOrder(less)
      /\ \A n : /\ Count(both, {n}) = Lesser(Count(a, {n}), Count(b, {n}))
                /\ Count(less, {n}) = Count(a, {n}) - Count(both, {n})
  BY <1>0, <1>1, PhropIs
<1>4. ASSUME NEW n
      PROVE  Min({Count(a, {n}), Count(b, {n})}) = Lesser(Count(a, {n}), Count(b, {n}))
  <2>1. Count(a, {n}) \in Nat /\ Count(b, {n}) \in Nat
    BY <1>1, CountType
  <2>2. IsClicks(Nat)
    BY DEF IsClicks
  <2> QED BY <2>1, <2>2, MinMaxOf DEF Lesser
<1> HIDE DEF both, less
<1> QED BY <1>2, <1>3, <1>4 DEF a, b

(* SetOpsExact: a - b and a & b are the difference and the intersection of the
   bags of notes, in order.                                                    *)
THEOREM SetOpsCorrect ==
  ASSUME NoNegatives
  PROVE  Spec => []SetOpsExact
<1>1. Spec => [](Typed(Nat) /\ AlwaysInOrder)
  BY OrderHolds
<1>2. Typed(Nat) /\ AlwaysInOrder => SetOpsExact
  BY SetOpsAre
<1> QED BY <1>1, <1>2, PTL

-----------------------------------------------------------------------------
(* cut() *)
LEMMA RangeIs ==
  ASSUME NEW t1 \in Int, NEW t2 \in Int
  PROVE  LET from == Min({t1, t2})
             to == Max({t1, t2, from + 1})
         IN  /\ from \in Int /\ to \in Int /\ from < to /\ from <= Max({t1, t2})
             /\ CutEnd(from, Max({t1, t2})) = to
<1> DEFINE a == IF t1 <= t2 THEN t1 ELSE t2
           b == IF t1 <= t2 THEN t2 ELSE t1
           c == IF a = b THEN a + 1 ELSE b
<1>1. Min({t1, t2}) = a /\ Max({t1, t2}) = b
  BY MinMaxOf DEF IsClicks
<1>2. Max({t1, t2, a + 1}) = c
  <2> DEFINE S == {t1, t2, a + 1}
  <2>1. c \in S /\ \A y \in S : c >= y
    OBVIOUS
  <2>2. \A x \in S : (\A y \in S : x >= y) => x = c
    OBVIOUS
  <2> HIDE DEF S, c
  <2>3. Max(S) \in S /\ \A y \in S : Max(S) >= y
    BY <2>1, Zenon DEF Max
  <2> QED BY <2>2, <2>3 DEF S
<1>3. CutEnd(a, b) = c
  BY DEF CutEnd
<1>4. a \in Int /\ b \in Int /\ c \in Int /\ a < c /\ a <= b
  OBVIOUS
<1> HIDE DEF a, b, c
<1> QED BY <1>1, <1>2, <1>3, <1>4

(* The part sounds where the note does, in the range. *)
LEMMA PartSounds ==
  ASSUME NEW n \in NotesOver(Int), NEW from \in Int, NEW to \in Int, from < to, to > 0,
         NEW c \in Int
  PROVE  (n.time < to /\ PastEnd(n) > from /\ Sounds(Clip(Late(n, from), to), c))
           <=> (from <= c /\ c < to /\ Sounds(n, c))
<1> DEFINE m == Clip(Late(n, from), to)
<1>1. n.time \in Int /\ n.dur \in Nat /\ End(n) = n.time + n.dur
  BY EndIs DEF IsClicks
<1>2. CASE n.time < to /\ PastEnd(n) > from
  <2>1. /\ m.time = IF n.time < from THEN from ELSE n.time
        /\ End(m) = IF End(n) > to THEN to ELSE End(n)
    <3>1. IsClicks(Int)
      BY DEF IsClicks
    <3>2. /\ m.time = IF n.time < from THEN from ELSE n.time
          /\ End(m) = IF to >= 0 /\ End(n) > to THEN to ELSE End(n)
      BY <1>2, <3>1, PartIs
    <3> HIDE DEF m
    <3> QED BY <3>2
  <2>2. IF n.dur = 0 THEN n.time + 1 > from ELSE n.time + n.dur > from
    BY <1>1, <1>2 DEF PastEnd
  <2> HIDE DEF m
  <2>3. Sounds(m, c) <=> m.time <= c /\ (c = m.time \/ c < End(m))
    BY DEF Sounds
  <2>4. Sounds(n, c) <=> n.time <= c /\ (c = n.time \/ c < n.time + n.dur)
    BY <1>1 DEF Sounds
  <2>5. Sounds(m, c) <=> (from <= c /\ c < to /\ Sounds(n, c))
    BY <1>1, <1>2, <2>1, <2>2, <2>3, <2>4
  <2> QED BY <1>2, <2>5 DEF m
<1>3. CASE ~(n.time < to /\ PastEnd(n) > from)
  <2>1. ~(from <= c /\ c < to /\ n.time <= c /\ (c = n.time \/ c < n.time + n.dur))
    BY <1>1, <1>3 DEF PastEnd
  <2> QED BY <1>1, <1>3, <2>1 DEF Sounds
<1> QED BY <1>2, <1>3

(* The inclusive part has the notes that sound in the range. *)
LEMMA HitSounds ==
  ASSUME NEW n \in NotesOver(Int), NEW from \in Int, NEW to \in Int, from < to
  PROVE  (\/ n.time <= from /\ PastEnd(n) > from
          \/ n.time > from /\ n.time < to)
           <=> \E c \in from .. to - 1 : Sounds(n, c)
<1>1. n.time \in Int /\ n.dur \in Nat /\ End(n) = n.time + n.dur
  BY EndIs DEF IsClicks
<1>2. \A c : Sounds(n, c) <=> n.time <= c /\ (c = n.time \/ c < n.time + n.dur)
  BY <1>1 DEF Sounds
<1>3. PastEnd(n) = IF n.dur = 0 THEN n.time + 1 ELSE n.time + n.dur
  BY <1>1 DEF PastEnd
<1>4. ASSUME n.time <= from /\ PastEnd(n) > from PROVE \E c \in from .. to - 1 : Sounds(n, c)
  <2>1. from \in from .. to - 1 /\ Sounds(n, from)
    BY <1>1, <1>2, <1>3, <1>4
  <2> QED BY <2>1
<1>5. ASSUME n.time > from /\ n.time < to PROVE \E c \in from .. to - 1 : Sounds(n, c)
  <2>1. n.time \in from .. to - 1 /\ Sounds(n, n.time)
    BY <1>1, <1>2, <1>5
  <2> QED BY <2>1
<1>6. ASSUME NEW c \in from .. to - 1, Sounds(n, c)
      PROVE  \/ n.time <= from /\ PastEnd(n) > from
             \/ n.time > from /\ n.time < to
  <2>1. n.time <= c /\ (c = n.time \/ c < n.time + n.dur) /\ from <= c /\ c < to /\ c \in Int
    BY <1>2, <1>6
  <2> QED BY <1>1, <1>3, <2>1
<1> QED BY <1>4, <1>5, <1>6

LEMMA TruncateExact ==
  ASSUME NEW q \in Seq(NotesOver(Int)), NEW from \in Int, NEW past \in Int, from <= past,
         NEW to, to = CutEnd(from, past), to > 0, NEW c \in Int, NEW p
  PROVE  Sounding(Phcuttrunc(q, from, past), c, p) =
           IF from <= c /\ c < to THEN Sounding(q, c, p) ELSE 0
<1> DEFINE E == NotesOver(Int)
           I == Hits(q, from, past)
           hit == Kept(q, I)
           part == Parts(q, from, past)
           r == Inserted(part)
           heardIn == {n \in E : n.pitch = p /\ Sounds(n, c)}
           hitIn == {n \in E : Clip(Late(n, from), to) \in heardIn}
<1>1. IsClicks(Int) /\ to \in Int /\ from < to
  BY CutEndIs DEF IsClicks
<1>2. part \in Seq(E) /\ r \in Seq(E) /\ SameNotes(part, r)
  <2>1. part \in Seq(E) /\ IsNotes(E)
    BY <1>1, PartsAre, NotesAre
  <2> HIDE DEF E, part
  <2> QED BY <2>1, Inserts
<1>3. /\ hit \in Seq(E) /\ I \in SUBSET DOMAIN q
      /\ \A k \in DOMAIN hit : hit[k].time < to /\ PastEnd(hit[k]) > from
  <2>1. I \in SUBSET DOMAIN q /\ \A i \in I : q[i].time < to /\ PastEnd(q[i]) > from
    BY DEF Hits
  <2> HIDE DEF I, E
  <2>2. /\ hit \in Seq(E) /\ DOMAIN hit = 1 .. Cardinality(I)
        /\ \A k \in 1 .. Cardinality(I) : Nth(I, k) \in I /\ hit[k] = q[Nth(I, k)]
    BY <2>1, KeptList DEF E
  <2> HIDE DEF hit
  <2> QED BY <2>1, <2>2
<1>4. /\ DOMAIN part = DOMAIN hit
      /\ \A k \in DOMAIN hit : part[k] = Clip(Late(hit[k], from), to)
  BY Zenon DEF Parts
<1>5. \A s \in Seq(E) : Sounding(s, c, p) = Count(s, heardIn)
  <2> SUFFICES ASSUME NEW s \in Seq(E) PROVE Sounding(s, c, p) = Count(s, heardIn)
    OBVIOUS
  <2>1. \A i \in DOMAIN s : s[i] \in E
    OBVIOUS
  <2> HIDE DEF E
  <2>2. {i \in DOMAIN s : s[i].pitch = p /\ Sounds(s[i], c)} = {i \in DOMAIN s : s[i] \in heardIn}
    BY <2>1
  <2> HIDE DEF heardIn
  <2> QED BY <2>2, Zenon DEF Sounding, Count
<1>6. \A k \in DOMAIN hit : hit[k] \in E
  <2>1. DOMAIN hit = 1 .. Len(hit) /\ \A k \in 1 .. Len(hit) : hit[k] \in E
    BY <1>3
  <2> QED BY <2>1
<1>7. Count(part, heardIn) = Count(hit, hitIn)
  <2> HIDE DEF part, hit, E, heardIn
  <2>1. \A k \in DOMAIN hit : part[k] \in heardIn <=> hit[k] \in hitIn
    BY <1>4, <1>6
  <2>2. {k \in DOMAIN part : part[k] \in heardIn} = {k \in DOMAIN hit : hit[k] \in hitIn}
    BY <1>4, <2>1
  <2> HIDE DEF hitIn
  <2> QED BY <2>2, Zenon DEF Count
<1>8. Count(hit, hitIn) = Cardinality({i \in I : q[i] \in hitIn})
  <2> HIDE DEF hitIn, I
  <2> QED BY <1>3, KeptCounts
<1>9. \A i \in DOMAIN q : q[i] \in E
  OBVIOUS
<1>10. ASSUME NEW i \in DOMAIN q
       PROVE  (i \in I /\ q[i] \in hitIn) <=> (from <= c /\ c < to /\ q[i] \in heardIn)
  <2> DEFINE n == q[i]
             m == Clip(Late(n, from), to)
  <2>1. n \in E
    BY <1>9
  <2>2. i \in I <=> n.time < to /\ PastEnd(n) > from
    BY DEF Hits
  <2>3. (n.time < to /\ PastEnd(n) > from /\ Sounds(m, c)) <=> (from <= c /\ c < to /\ Sounds(n, c))
    <3> HIDE DEF n
    <3> QED BY <1>1, <2>1, PartSounds DEF E
  <2>4. i \in I => m \in E /\ m.pitch = n.pitch
    <3> HIDE DEF n
    <3> QED BY <1>1, <2>1, <2>2, PartIs DEF E
  <2>5. n \in heardIn <=> n.pitch = p /\ Sounds(n, c)
    BY <2>1
  <2>6. n \in hitIn <=> m \in E /\ m.pitch = p /\ Sounds(m, c)
    BY <2>1
  <2> HIDE DEF n, m, I, E, heardIn, hitIn
  <2>7. (i \in I /\ n \in hitIn) <=> (from <= c /\ c < to /\ n \in heardIn)
    BY <2>2, <2>3, <2>4, <2>5, <2>6
  <2> QED BY <2>7 DEF n
<1>11. {i \in I : q[i] \in hitIn} =
         IF from <= c /\ c < to THEN {i \in DOMAIN q : q[i] \in heardIn} ELSE {}
  <2> HIDE DEF I, hitIn, heardIn
  <2>1. \A i \in I : i \in DOMAIN q
    BY <1>3
  <2> QED BY <1>10, <2>1
<1>12. Sounding(r, c, p) = Cardinality({i \in I : q[i] \in hitIn})
  <2>1. Count(r, heardIn) = Count(part, heardIn)
    BY <1>2, Zenon DEF SameNotes
  <2> QED BY <1>2, <1>5, <1>7, <1>8, <2>1
<1>13. Sounding(q, c, p) = Cardinality({i \in DOMAIN q : q[i] \in heardIn})
  BY <1>5, Zenon DEF Count
<1>14. Phcuttrunc(q, from, past) = r
  BY TruncatedParts
<1> HIDE DEF r, I, hitIn, heardIn
<1> QED BY <1>11, <1>12, <1>13, <1>14, FS_EmptySet

LEMMA InclusiveExact ==
  ASSUME NEW q \in Seq(NotesOver(Int)), NEW from \in Int, NEW past \in Int, from <= past,
         NEW to, to = CutEnd(from, past), NEW n \in Elements(q)
  PROVE  Count(Phcutincl(q, from, past), {n}) =
           IF \E c \in from .. to - 1 : Sounds(n, c) THEN Count(q, {n}) ELSE 0
<1> DEFINE E == NotesOver(Int)
           In(m) == \/ m.time <= from /\ PastEnd(m) > from
                    \/ m.time > from /\ m.time < to
           I == {i \in DOMAIN q : In(q[i])}
<1>1. IsClicks(Int) /\ to \in Int /\ from < to
  BY CutEndIs DEF IsClicks
<1>2. n \in E
  BY DEF Elements
<1>3. Phcutincl(q, from, past) = Inserted(Kept(q, I))
  BY Zenon DEF Phcutincl
<1>4. I \in SUBSET DOMAIN q
  OBVIOUS
<1>5. In(n) <=> \E c \in from .. to - 1 : Sounds(n, c)
  BY <1>1, <1>2, HitSounds
<1>6. {i \in I : q[i] \in {n}} = IF In(n) THEN {i \in DOMAIN q : q[i] \in {n}} ELSE {}
  <2>1. \A i \in DOMAIN q : q[i] = n => (In(q[i]) <=> In(n))
    OBVIOUS
  <2>2. \A i \in DOMAIN q : i \in I <=> In(q[i])
    OBVIOUS
  <2> HIDE DEF In
  <2> QED BY <2>1, <2>2
<1> HIDE DEF I, In, E
<1>7. Kept(q, I) \in Seq(E) /\ IsNotes(E)
  BY <1>1, <1>4, KeptList, NotesAre DEF E
<1>8. Count(Kept(q, I), {n}) = Cardinality({i \in I : q[i] \in {n}})
  BY <1>4, KeptCounts
<1>9. Count(Inserted(Kept(q, I)), {n}) = Count(Kept(q, I), {n})
  <2>1. SameNotes(Kept(q, I), Inserted(Kept(q, I)))
    BY <1>7, Inserts
  <2> QED BY <2>1, Zenon DEF SameNotes
<1>10. Count(q, {n}) = Cardinality({i \in DOMAIN q : q[i] \in {n}})
  BY Zenon DEF Count
<1> QED BY <1>3, <1>5, <1>6, <1>8, <1>9, <1>10, FS_EmptySet

LEMMA TruncateOrder ==
  ASSUME NEW q \in Seq(NotesOver(Int)), NEW from \in Int, NEW past \in Int, from <= past
  PROVE  InOrder(Phcuttrunc(q, from, past))
<1>1. IsClicks(Int)
  BY DEF IsClicks
<1>2. Parts(q, from, past) \in Seq(NotesOver(Int)) /\ IsNotes(NotesOver(Int))
  BY <1>1, PartsAre, NotesAre
<1> QED BY <1>2, Inserts, TruncatedParts

LEMMA CutIs == ASSUME Typed(Int) PROVE CutExact
<1> SUFFICES
      ASSUME NEW v \in Var, NEW t1 \in Times, NEW t2 \in Times,
             Max({t1, t2, Min({t1, t2}) + 1}) > 0
      PROVE  LET q == value[v].notes
                 from == Min({t1, t2})
                 to == Max({t1, t2, from + 1})
                 cut == Cuts(value[v], t1, t2)
             IN  /\ \A c \in -Bound .. Bound, p \in {q[i].pitch : i \in DOMAIN q} :
                      Sounding(cut.truncate.notes, c, p) =
                        IF from <= c /\ c < to THEN Sounding(q, c, p) ELSE 0
                 /\ InOrder(cut.truncate.notes)
                 /\ \A n \in NotesOf(q) :
                      Count(cut.inclusive.notes, {n}) =
                        IF \E c \in from .. to - 1 : Sounds(n, c) THEN Count(q, {n}) ELSE 0
  BY Zenon DEF CutExact
<1> DEFINE q == value[v].notes
           from == Min({t1, t2})
           past == Max({t1, t2})
           to == Max({t1, t2, from + 1})
           cut == Cuts(value[v], t1, t2)
<1>1. q \in Seq(NotesOver(Int))
  BY DEF Typed, PhrasesOver
<1>2. /\ from \in Int /\ past \in Int /\ to \in Int /\ from <= past /\ to = CutEnd(from, past)
  <2>1. t1 \in Int /\ t2 \in Int /\ IsClicks(Int)
    BY PhrasesAssumption DEF IsClicks
  <2>2. past \in Int
    BY <2>1, MinMaxOf
  <2> QED BY <2>1, <2>2, RangeIs
<1>3. /\ cut.truncate.notes = Phcuttrunc(q, from, past)
      /\ cut.inclusive.notes = Phcutincl(q, from, past)
  BY DEF Cuts, Phrase
<1>4. to > 0 /\ \A c \in -Bound .. Bound : c \in Int
  BY PhrasesAssumption
<1> HIDE DEF q, from, past, to, cut
<1>5. \A c \in -Bound .. Bound, p \in {q[i].pitch : i \in DOMAIN q} :
        Sounding(cut.truncate.notes, c, p) =
          IF from <= c /\ c < to THEN Sounding(q, c, p) ELSE 0
  BY <1>1, <1>2, <1>3, <1>4, TruncateExact
<1>6. InOrder(cut.truncate.notes)
  BY <1>1, <1>2, <1>3, TruncateOrder
<1>7. \A n \in NotesOf(q) :
        Count(cut.inclusive.notes, {n}) =
          IF \E c \in from .. to - 1 : Sounds(n, c) THEN Count(q, {n}) ELSE 0
  <2>1. NotesOf(q) = Elements(q)
    BY Zenon DEF NotesOf, Elements
  <2>2. ASSUME NEW n \in Elements(q)
        PROVE  Count(Phcutincl(q, from, past), {n}) =
                 IF \E c \in from .. to - 1 : Sounds(n, c) THEN Count(q, {n}) ELSE 0
    BY <1>1, <1>2, InclusiveExact
  <2> QED BY <1>3, <2>1, <2>2, Zenon
<1> QED BY <1>5, <1>6, <1>7 DEF q, from, to, cut

(* CutExact: the truncated part of a phrase sounds, in the range, as the phrase
   does, and nowhere else; the inclusive part has the notes that sound there,
   whole, each as often: whatever times the program writes.                    *)
THEOREM CutCorrect == Spec => []CutExact
<1>1. Init => Typed(Int)
  BY InitTyped DEF IsClicks
<1>2. Typed(Int) /\ [Next]_value => Typed(Int)'
  BY AnyWrites, StepTyped
<1>3. Typed(Int) => CutExact
  BY CutIs
<1> QED BY <1>1, <1>2, <1>3, PTL DEF Spec
=============================================================================
