----------------------------- MODULE NoteLists -----------------------------
(***************************************************************************)
(* A phrase of KeyKit is a linked list of notes in the order of            *)
(* ntcmporder(); here it is a sequence.  Operators for what phrase.c,      *)
(* util.c and code2.c do with such lists.                                  *)
(*                                                                         *)
(* A note is a record with at least the fields time, type, pitch and dur.  *)
(* For a MIDI message (NT_BYTES) pitch stands for its bytes and dur is 0.  *)
(* Channel, port, volume and flags are compared between pitch and dur in   *)
(* the code, like one more pitch, and are left out.                        *)
(***************************************************************************)
EXTENDS Lists, Integers, SequencesExt

NT_BYTES == 1
NT_NOTE == 2

IsBytes(n) == n.type = NT_BYTES
End(n) == n.time + n.dur

Lexicographic(a, b) ==
  \E i \in DOMAIN a \cap DOMAIN b : a[i] < b[i] /\ \A j \in 1 .. i - 1 : a[j] = b[j]

OrderKey(n) ==
  IF IsBytes(n) THEN <<n.time, n.type>> ELSE <<n.time, n.type, n.pitch, n.dur>>

(* ntcmporder(a, b) < 0: messages of the same time are not ordered. *)
Before(a, b) == Lexicographic(OrderKey(a), OrderKey(b))

XactKey(n) == <<n.time, n.type, n.pitch, n.dur>>

(* ntcmpxact(a, b) < 0, and = 0 *)
XactBefore(a, b) == Lexicographic(XactKey(a), XactKey(b))
Same(a, b) == XactKey(a) = XactKey(b)

InOrder(q) == \A i \in 1 .. Len(q) - 1 : ~Before(q[i + 1], q[i])

(* n behind the first notes that it does not belong before. *)
InsertFromStart(q, n) ==
  LET later == {i \in DOMAIN q : Before(n, q[i])}
  IN InsertAt(q, IF later = {} THEN Len(q) + 1 ELSE Min(later), n)

(* ntinsert(): p_end tells whether n goes to the end. *)
NtInsert(q, n) ==
  IF q # <<>> /\ ~Before(n, Last(q)) THEN Append(q, n) ELSE InsertFromStart(q, n)

NtDelete(q, i) == RemoveAt(q, i)

(* phreorder(): each note that is before its predecessor is taken out and put
   in again, without the help of p_end.                                      *)
Phreorder(q) ==
  LET list[i \in 0 .. Len(q)] ==
        IF i = 0 THEN <<>> ELSE InsertFromStart(list[i - 1], q[i])
  IN list[Len(q)]

(* The notes put into a new phrase, one after the other. *)
Inserted(q) ==
  LET list[i \in 0 .. Len(q)] == IF i = 0 THEN <<>> ELSE NtInsert(list[i - 1], q[i])
  IN list[Len(q)]

Shifted(q, offset) == [i \in DOMAIN q |-> [q[i] EXCEPT !.time = @ + offset]]

(* Mutant of Phrmerge: the short cut ignores the delay. *)
PhrmergeUndelayed(p, out, offset) ==
  IF p # <<>> /\ out # <<>> /\ Before(Last(out), p[1]) THEN out \o p
  ELSE Inserted(out \o Shifted(p, offset))

(* phrmerge(): p, delayed, into out.  The short cut compares the notes as
   they are before the delay.  merge[k] is the state of the loop when it has
   linked k notes: i and j are the places of the next notes of out and of p. *)
Phrmerge(p, out, offset) ==
  LET late == Shifted(p, offset)
      useout(m) == m.i <= Len(out) /\ (m.j > Len(late) \/ Before(out[m.i], late[m.j]))
      link(m) == IF useout(m)
                 THEN [i |-> m.i + 1, j |-> m.j, list |-> Append(m.list, out[m.i])]
                 ELSE [i |-> m.i, j |-> m.j + 1, list |-> Append(m.list, late[m.j])]
      merge[k \in 0 .. Len(out) + Len(late)] ==
        IF k = 0 THEN [i |-> 1, j |-> 1, list |-> <<>>] ELSE link(merge[k - 1])
  IN IF p # <<>> /\ out # <<>> /\ Before(Last(out), p[1])
     THEN out \o late
     ELSE merge[Len(out) + Len(late)].list

(* The last index of the run of messages of the same time that begins at i. *)
RunEnd(q, i) ==
  LET other == {k \in i .. Len(q) : ~IsBytes(q[k]) \/ q[k].time # q[i].time}
  IN IF other = {} THEN Len(q) ELSE Min(other) - 1

(* Mutant of Matched: a message of p2 may match any number of messages. *)
MatchedAgain(p1, i, p2, j) ==
  {k \in i .. RunEnd(p1, i) : \E m \in j .. RunEnd(p2, j) : Same(p1[k], p2[m])}

(* The notes of p1's run at i that match one of p2's run at j: each message of
   p2 is used for one only.                                                   *)
Matched(p1, i, p2, j) ==
  LET free(k, used) == {m \in (j .. RunEnd(p2, j)) \ used : Same(p1[k], p2[m])}
      look(m, k) == IF k < i \/ free(k, m.used) = {} THEN m
                    ELSE [found |-> m.found \cup {k}, used |-> m.used \cup {Min(free(k, m.used))}]
      match[k \in 0 .. RunEnd(p1, i)] ==
        IF k = 0 THEN [found |-> {}, used |-> {}] ELSE look(match[k - 1], k)
  IN match[RunEnd(p1, i)].found

(* The loop of phrop(), at the notes i and j, has found the notes of p1 that are
   also in p2.  Messages of the same time are compared run by run, since they are
   in no order.                                                                  *)
InBoth(p1, p2) ==
  LET advance(m) ==
        IF m.i > Len(p1) \/ m.j > Len(p2) THEN m
        ELSE IF IsBytes(p1[m.i]) /\ IsBytes(p2[m.j]) /\ p1[m.i].time = p2[m.j].time
             THEN [i |-> RunEnd(p1, m.i) + 1, j |-> RunEnd(p2, m.j) + 1,
                   found |-> m.found \cup Matched(p1, m.i, p2, m.j)]
        ELSE IF XactBefore(p1[m.i], p2[m.j]) THEN [m EXCEPT !.i = @ + 1]
        ELSE IF XactBefore(p2[m.j], p1[m.i]) THEN [m EXCEPT !.j = @ + 1]
        ELSE [i |-> m.i + 1, j |-> m.j + 1, found |-> m.found \cup {m.i}]
      loop[k \in 0 .. Len(p1) + Len(p2)] ==
        IF k = 0 THEN [i |-> 1, j |-> 1, found |-> {}] ELSE advance(loop[k - 1])
  IN loop[Len(p1) + Len(p2)].found

(* phrop(): p1 less the notes of p2 or, if common, the notes of p1 that are
   also in p2.                                                               *)
Phrop(p1, p2, common) ==
  Inserted(Kept(p1, {i \in DOMAIN p1 : i \in InBoth(p1, p2) <=> common}))

(* Mutant of PastEnd: a note of no duration is left out. *)
PastEndOf(n) == End(n)

(* The parameters of phcut*(): an empty range is one click long, and so is a
   note of no duration.                                                      *)
CutEnd(tm1, tm2) == IF tm1 = tm2 THEN tm1 + 1 ELSE tm2
PastEnd(n) == IF n.dur = 0 THEN n.time + 1 ELSE End(n)

(* phcut(): the notes that start in the range. *)
Phcut(q, tm1, tm2) ==
  Inserted(Kept(q, {i \in DOMAIN q : tm1 <= q[i].time /\ q[i].time < CutEnd(tm1, tm2)}))

(* phcutincl(): also the notes that sound when it starts. *)
Phcutincl(q, tm1, tm2) ==
  Inserted(Kept(q, {i \in DOMAIN q :
    \/ q[i].time <= tm1 /\ PastEnd(q[i]) > tm1
    \/ q[i].time > tm1 /\ q[i].time < CutEnd(tm1, tm2)}))

(* phcuttrunc(): the parts of the notes that sound in the range. *)
Phcuttrunc(q, tm1, tm2) ==
  LET to == CutEnd(tm1, tm2)
      late(n) == IF n.time < tm1
                 THEN [n EXCEPT !.time = tm1, !.dur = @ - (tm1 - n.time)] ELSE n
      clip(n) == IF to >= 0 /\ End(n) > to THEN [n EXCEPT !.dur = @ - (End(n) - to)] ELSE n
      hit == Kept(q, {i \in DOMAIN q : q[i].time < to /\ PastEnd(q[i]) > tm1})
  IN Inserted([i \in DOMAIN hit |-> clip(late(hit[i]))])

(* yyphrase(): the notes of a constant, in any order. *)
Yyphrase(q) == Inserted(q)
=============================================================================
