------------------------------ MODULE Phrases ------------------------------
(***************************************************************************)
(* The phrases of a program and the operators of the language on them:     *)
(* code2.c, with cut() of bltin.c.  A variable holds a phrase by value;    *)
(* Values.tla is about how the values are shared.                          *)
(*                                                                         *)
(* Each operator relies on its operands being in the order of ntcmporder() *)
(* and leaves its result to the next one, so what one of them does depends *)
(* on everything the program has done before.                              *)
(***************************************************************************)
EXTENDS NoteLists

CONSTANTS
  Var,       (* the variables of the program                               *)
  Literals,  (* the notes it writes in constants                           *)
  Times,     (* the times it assigns and cuts at                           *)
  Durs,      (* the durations it assigns                                   *)
  Lengths,   (* the lengths it assigns                                     *)
  MaxNotes,  (* bound: notes of a phrase                                   *)
  Bound      (* bound: -Bound .. Bound are the times and lengths           *)

ASSUME PhrasesAssumption ==
  /\ Literals \subseteq [time : Int, type : {NT_BYTES, NT_NOTE}, pitch : Nat, dur : Nat]
  /\ \A n \in Literals : IsBytes(n) => n.dur = 0
  /\ Times \subseteq Int /\ Durs \subseteq Nat /\ Lengths \subseteq Int
  /\ MaxNotes \in Nat /\ Bound \in Nat

VARIABLE value   (* [Var -> phrases], a phrase has notes and p_leng *)

Phrase(notes, leng) == [notes |-> notes, leng |-> leng]

(* Bounds: the state is left out otherwise. *)
Fits(p) ==
  /\ Len(p.notes) <= MaxNotes /\ p.leng \in -Bound .. Bound
  /\ \A i \in DOMAIN p.notes : p.notes[i].time \in -Bound .. Bound /\ End(p.notes[i]) <= Bound

Set(v, p) == Fits(p) /\ value' = [value EXCEPT ![v] = p]

Init == value = [v \in Var |-> Phrase(<<>>, 0)]

(* The length of a constant is the end of its last note. *)
LastEnd(q) == IF q = <<>> THEN 0 ELSE Max({End(q[i]) : i \in DOMAIN q})

Constant(v) ==
  \E k \in 0 .. MaxNotes : \E q \in [1 .. k -> Literals] :
    Set(v, Phrase(Yyphrase(q), LastEnd(q)))

(* a | b, a + b, a - b and a & b *)
Dpar(a, b) == Phrase(Phrmerge(b.notes, a.notes, 0), Max({a.leng, b.leng}))
Dadd(a, b) == Phrase(Phrmerge(b.notes, a.notes, a.leng), a.leng + b.leng)
Dsub(a, b) == Phrase(Phrop(a.notes, b.notes, FALSE), a.leng)
Damp(a, b) == Phrase(Phrop(a.notes, b.notes, TRUE), a.leng)

Operate(v) ==
  \E a, b \in {value[w] : w \in Var} :
    \E r \in {Dpar(a, b), Dadd(a, b), Dsub(a, b), Damp(a, b)} : Set(v, r)

(* a % k *)
Modulo(v) ==
  \E w \in Var : \E k \in DOMAIN value[w].notes :
    LET n == value[w].notes[k] IN Set(v, Phrase(<<n>>, End(n)))

(* cut(a, CUT_TIME, t1, t2, kind) *)
Cuts(p, t1, t2) ==
  LET from == Min({t1, t2})
      to == Max({t1, t2})
  IN [normal |-> Phrase(Phcut(p.notes, from, to), p.leng),
      truncate |-> Phrase(Phcuttrunc(p.notes, from, to), p.leng),
      inclusive |-> Phrase(Phcutincl(p.notes, from, to), p.leng)]

Cut(v) ==
  \E w \in Var, t1, t2 \in Times, kind \in {"normal", "truncate", "inclusive"} :
    Set(v, Cuts(value[w], t1, t2)[kind])

(* setval(): of a message only the time can be set. *)
SetNote(n, t) == [n EXCEPT !.time = t]
SetDur(n, d) == IF IsBytes(n) THEN n ELSE [n EXCEPT !.dur = d]

Map(q, F(_)) == [i \in DOMAIN q |-> F(q[i])]
WithNotes(p, q) == [p EXCEPT !.notes = q]

(* Mutant of DotAssign: no phreorder(). *)
DotAssignUnordered(v) ==
  LET q == value[v].notes IN
  \/ \E t \in Times : Set(v, WithNotes(value[v], Map(q, LAMBDA n : SetNote(n, t))))
  \/ \E d \in Durs : Set(v, WithNotes(value[v], Map(q, LAMBDA n : SetDur(n, d))))

(* a.time = t and a.dur = d: every note, and then the order. *)
DotAssign(v) ==
  LET q == value[v].notes IN
  \/ \E t \in Times : Set(v, WithNotes(value[v], Phreorder(Map(q, LAMBDA n : SetNote(n, t)))))
  \/ \E d \in Durs : Set(v, WithNotes(value[v], Phreorder(Map(q, LAMBDA n : SetDur(n, d)))))

LengthAssign(v) == \E l \in Lengths : Set(v, [value[v] EXCEPT !.leng = l])

(* a%k.time = t and a%k.dur = d *)
ModDotAssign(v) ==
  LET q == value[v].notes IN
  \E k \in DOMAIN q :
    \/ \E t \in Times : Set(v, WithNotes(value[v], Phreorder([q EXCEPT ![k] = SetNote(@, t)])))
    \/ \E d \in Durs : Set(v, WithNotes(value[v], Phreorder([q EXCEPT ![k] = SetDur(@, d)])))

(* a%k = '' deletes the note. *)
ModDelete(v) ==
  LET q == value[v].notes IN
  \E k \in DOMAIN q, w \in Var :
    value[w].notes = <<>> /\ Set(v, WithNotes(value[v], Phreorder(NtDelete(q, k))))

(* a%k = b: the pitch and the duration of b's first note; the time stays.  Of
   messages, or of a note and a message, the code adds up bytes that mean
   something else: left out.                                                 *)
ModAssign(v) ==
  LET q == value[v].notes IN
  \E k \in {i \in DOMAIN q : ~IsBytes(q[i])} :
    \E r \in {value[w].notes : w \in {u \in Var : value[u].notes # <<>>}} :
      /\ ~IsBytes(r[1])
      /\ Set(v, WithNotes(value[v],
            Phreorder([q EXCEPT ![k] = [@ EXCEPT !.pitch = r[1].pitch, !.dur = r[1].dur]])))

Next ==
  \E v \in Var :
    \/ Constant(v) \/ Operate(v) \/ Modulo(v) \/ Cut(v)
    \/ DotAssign(v) \/ LengthAssign(v) \/ ModDotAssign(v) \/ ModDelete(v) \/ ModAssign(v)

Spec == Init /\ [][Next]_value
-----------------------------------------------------------------------------
NotesOf(q) == {q[i] : i \in DOMAIN q}

(* A note sounds for at least one click. *)
Sounds(n, c) == n.time <= c /\ (c = n.time \/ c < End(n))

(* How many notes of q of the pitch p sound at the click c. *)
Sounding(q, c, p) == Cardinality({i \in DOMAIN q : q[i].pitch = p /\ Sounds(q[i], c)})

(* Every phrase a program can make is in the order of ntcmporder(), which is
   what phrmerge() and phrop() say they assume: of a program that assigns no
   negative times and lengths.                                               *)
AlwaysInOrder == \A v \in Var : InOrder(value[v].notes)

(* phrmerge(): a | b and a + b hold every note of a and every note of b,
   delayed by the length of a, as often as they are there, in order.      *)
MergeExact ==
  \A v, w \in Var :
    LET a == value[v]
        b == value[w]
        exact(q, offset) ==
          /\ InOrder(q)
          /\ \A n \in NotesOf(q) \cup NotesOf(a.notes) \cup NotesOf(Shifted(b.notes, offset)) :
               Count(q, {n}) = Count(a.notes, {n}) + Count(Shifted(b.notes, offset), {n})
    IN exact(Dpar(a, b).notes, 0) /\ exact(Dadd(a, b).notes, a.leng)

(* phrop(): a - b and a & b are the difference and the intersection of the
   bags of notes, in order, whatever the order of the messages in them.    *)
SetOpsExact ==
  \A v, w \in Var :
    LET a == value[v].notes
        b == value[w].notes
        less == Dsub(value[v], value[w]).notes
        both == Damp(value[v], value[w]).notes
    IN /\ InOrder(less) /\ InOrder(both)
       /\ \A n \in NotesOf(a) \cup NotesOf(less) \cup NotesOf(both) :
            /\ Count(both, {n}) = Min({Count(a, {n}), Count(b, {n})})
            /\ Count(less, {n}) = Count(a, {n}) - Count(both, {n})

(* phcuttrunc() and phcutincl(): at each click from the first to the last of
   the range the truncated part sounds as the phrase does, and at no other
   click does it sound; the notes of the inclusive one are those that sound
   in the range, whole.  For ranges that do not end before 0.                *)
CutExact ==
  \A v \in Var, t1, t2 \in Times :
    LET q == value[v].notes
        from == Min({t1, t2})
        to == Max({t1, t2, from + 1})
        cut == Cuts(value[v], t1, t2)
    IN to > 0 =>
         /\ \A c \in -Bound .. Bound, p \in {q[i].pitch : i \in DOMAIN q} :
              Sounding(cut.truncate.notes, c, p) =
                IF from <= c /\ c < to THEN Sounding(q, c, p) ELSE 0
         /\ InOrder(cut.truncate.notes)
         /\ \A n \in NotesOf(q) :
              Count(cut.inclusive.notes, {n}) =
                IF \E c \in from .. to - 1 : Sounds(n, c) THEN Count(q, {n}) ELSE 0
=============================================================================
