---------------------------- MODULE RecordProofs ----------------------------
(* Noteq is a queue, for every Noteqsize, whatever is played and recorded,  *)
(* and Current holds the notes that are on, whatever the queue has lost.    *)
EXTENDS Record, ListsProofs

-----------------------------------------------------------------------------
(* The queue.  The argument is one of indices: they wrap once at most, so    *)
(* that the slots from Qbegin to Qavail are Pending many and all different.  *)

LEMMA Wraps ==
  ASSUME NEW n \in Nat \ {0}, NEW x \in 0 .. 2 * n - 1
  PROVE  x % n = IF x < n THEN x ELSE x - n
<1>1. CASE x < n
  BY <1>1
<1>2. CASE x >= n
  <2>1. x - n \in 0 .. n - 1
    BY <1>2
  <2> QED BY <1>2, <2>1
<1> QED BY <1>1, <1>2

LEMMA NextSlotIs ==
  ASSUME NEW i \in Slots
  PROVE  NextSlot(i) = (IF i = Noteqsize - 1 THEN 0 ELSE i + 1) /\ NextSlot(i) \in Slots
<1> USE RecordAssumption DEF Slots
<1> DEFINE x == i + 1
<1>1. Noteqsize \in Nat \ {0} /\ x \in 0 .. 2 * Noteqsize - 1
  OBVIOUS
<1>2. x % Noteqsize = IF x < Noteqsize THEN x ELSE x - Noteqsize
  BY <1>1, Wraps
<1>3. NextSlot(i) = IF x < Noteqsize THEN x ELSE x - Noteqsize
  BY <1>2, Zenon DEF NextSlot
<1> HIDE DEF NextSlot
<1> QED BY <1>3

(* How many messages wait between the slots b and a, and where the k-th is. *)
Between(b, a) == (a - b + Noteqsize) % Noteqsize
SlotAt(b, k) == (b + k - 1) % Noteqsize

LEMMA BetweenIs ==
  ASSUME NEW a \in Slots, NEW b \in Slots
  PROVE  Between(b, a) = (IF b <= a THEN a - b ELSE a - b + Noteqsize)
         /\ Between(b, a) \in Slots
<1> USE RecordAssumption DEF Slots
<1> DEFINE x == a - b + Noteqsize
<1>1. Noteqsize \in Nat \ {0} /\ x \in 0 .. 2 * Noteqsize - 1
  OBVIOUS
<1>2. x % Noteqsize = IF x < Noteqsize THEN x ELSE x - Noteqsize
  BY <1>1, Wraps
<1>3. Between(b, a) = IF x < Noteqsize THEN x ELSE x - Noteqsize
  BY <1>2, Zenon DEF Between
<1> QED BY <1>3

LEMMA SlotAtIs ==
  ASSUME NEW b \in Slots, NEW k \in 1 .. Noteqsize
  PROVE  /\ SlotAt(b, k) = (IF b + k - 1 < Noteqsize THEN b + k - 1 ELSE b + k - 1 - Noteqsize)
         /\ SlotAt(b, k) \in Slots
<1> USE RecordAssumption DEF Slots
<1> DEFINE x == b + k - 1
<1>1. Noteqsize \in Nat \ {0} /\ x \in 0 .. 2 * Noteqsize - 1
  OBVIOUS
<1>2. x % Noteqsize = IF x < Noteqsize THEN x ELSE x - Noteqsize
  BY <1>1, Wraps
<1>3. SlotAt(b, k) = IF x < Noteqsize THEN x ELSE x - Noteqsize
  BY <1>2, Zenon DEF SlotAt
<1> QED BY <1>3

Message == [type : {"on", "off"}, pitch : Pitches, time : 0 .. MaxClock]
             \cup [type : {"bytes"}, pitch : Pedals, time : 0 .. MaxClock]

QueueInv ==
  /\ Qbegin \in Slots /\ Qavail \in Slots
  /\ DOMAIN Noteq = Slots
  /\ clock \in 0 .. MaxClock

(* The messages from slot b to slot a of the ring q, as a sequence. *)
Content(q, b, a) == [k \in 1 .. Between(b, a) |-> q[SlotAt(b, k)]]

LEMMA WaitingIs == Waiting = Content(Noteq, Qbegin, Qavail)
BY Zenon DEF Waiting, Pending, Content, Between, SlotAt

LEMMA ContentIs ==
  ASSUME NEW b \in Slots, NEW a \in Slots, NEW S, NEW q, \A i \in Slots : q[i] \in S
  PROVE  /\ Content(q, b, a) \in Seq(S) /\ Len(Content(q, b, a)) = Between(b, a)
         /\ \A k \in 1 .. Between(b, a) :
              SlotAt(b, k) \in Slots /\ Content(q, b, a)[k] = q[SlotAt(b, k)]
<1>1. Between(b, a) \in Slots /\ Between(b, a) \in Nat
  BY BetweenIs DEF Slots
<1>2. \A k \in 1 .. Between(b, a) : k \in 1 .. Noteqsize
  BY <1>1, RecordAssumption DEF Slots
<1>3. \A k \in 1 .. Between(b, a) : SlotAt(b, k) \in Slots
  BY <1>2, SlotAtIs
<1>4. Content(q, b, a) \in [1 .. Between(b, a) -> S]
  BY <1>3 DEF Content
<1>5. \A k \in 1 .. Between(b, a) : Content(q, b, a)[k] = q[SlotAt(b, k)]
  BY DEF Content
<1> QED BY <1>1, <1>3, <1>4, <1>5

Written(q, a, m) == [q EXCEPT ![a] = m]

(* A message put into the slot a is behind the others, if the ring has room. *)
LEMMA PutAppends ==
  ASSUME NEW b \in Slots, NEW a \in Slots, NEW q, NEW m, DOMAIN q = Slots,
         NextSlot(a) # b
  PROVE  /\ Content(Written(q, a, m), b, NextSlot(a)) = Append(Content(q, b, a), m)
         /\ Len(Content(q, b, a)) < Noteqsize - 1
<1> DEFINE S == {q[i] : i \in Slots} \cup {m}
           q2 == Written(q, a, m)
           n == Between(b, a)
<1>1. \A i \in Slots : q2[i] = IF i = a THEN m ELSE q[i]
  BY DEF Written
<1>2. NextSlot(a) \in Slots /\ n \in Nat /\ Between(b, NextSlot(a)) = n + 1 /\ n < Noteqsize - 1
  <2>1. NextSlot(a) \in Slots /\ NextSlot(a) = IF a = Noteqsize - 1 THEN 0 ELSE a + 1
    BY NextSlotIs
  <2>2. n = (IF b <= a THEN a - b ELSE a - b + Noteqsize) /\ n \in Slots
    BY BetweenIs
  <2>3. Between(b, NextSlot(a)) =
          IF b <= NextSlot(a) THEN NextSlot(a) - b ELSE NextSlot(a) - b + Noteqsize
    BY <2>1, BetweenIs
  <2> HIDE DEF n
  <2> QED BY <2>1, <2>2, <2>3, RecordAssumption DEF Slots
<1>3. /\ Content(q, b, a) \in Seq(S) /\ Len(Content(q, b, a)) = n
      /\ \A k \in 1 .. n : SlotAt(b, k) \in Slots /\ Content(q, b, a)[k] = q[SlotAt(b, k)]
  BY ContentIs
<1>4. /\ Content(q2, b, NextSlot(a)) \in Seq(S) /\ Len(Content(q2, b, NextSlot(a))) = n + 1
      /\ \A k \in 1 .. n + 1 : SlotAt(b, k) \in Slots
                               /\ Content(q2, b, NextSlot(a))[k] = q2[SlotAt(b, k)]
  <2>1. \A i \in Slots : q2[i] \in S
    BY <1>1
  <2> DEFINE c == NextSlot(a)
  <2> HIDE DEF S, q2, n, c
  <2>2. c \in Slots
    BY <1>2 DEF c
  <2>3. /\ Content(q2, b, c) \in Seq(S) /\ Len(Content(q2, b, c)) = Between(b, c)
        /\ \A k \in 1 .. Between(b, c) :
             SlotAt(b, k) \in Slots /\ Content(q2, b, c)[k] = q2[SlotAt(b, k)]
    <3>1. \A x \in Slots :
            /\ Content(q2, b, x) \in Seq(S) /\ Len(Content(q2, b, x)) = Between(b, x)
            /\ \A k \in 1 .. Between(b, x) :
                 SlotAt(b, k) \in Slots /\ Content(q2, b, x)[k] = q2[SlotAt(b, k)]
      BY <2>1, ContentIs
    <3> QED BY <2>2, <3>1
  <2> QED BY <1>2, <2>3 DEF c
<1>5. SlotAt(b, n + 1) = a /\ \A k \in 1 .. n : SlotAt(b, k) # a
  <2>1. \A k \in 1 .. n + 1 : k \in 1 .. Noteqsize
    BY <1>2, RecordAssumption
  <2>2. n = IF b <= a THEN a - b ELSE a - b + Noteqsize
    BY BetweenIs
  <2> HIDE DEF n
  <2>3. \A k \in 1 .. n + 1 :
          SlotAt(b, k) = IF b + k - 1 < Noteqsize THEN b + k - 1 ELSE b + k - 1 - Noteqsize
    BY <2>1, SlotAtIs
  <2> QED BY <1>2, <2>2, <2>3, RecordAssumption DEF Slots
<1>6. /\ Append(Content(q, b, a), m) \in Seq(S) /\ Len(Append(Content(q, b, a), m)) = n + 1
      /\ \A k \in 1 .. n + 1 : Append(Content(q, b, a), m)[k] =
                                 IF k = n + 1 THEN m ELSE Content(q, b, a)[k]
  <2> m \in S
    OBVIOUS
  <2> HIDE DEF S, n
  <2> QED BY <1>2, <1>3, AppendProperties
<1>7. \A k \in 1 .. n + 1 : Content(q2, b, NextSlot(a))[k] = Append(Content(q, b, a), m)[k]
  <2> TAKE k \in 1 .. n + 1
  <2>1. CASE k = n + 1
    BY <1>1, <1>4, <1>5, <1>6, <2>1
  <2>2. CASE k # n + 1
    <3> HIDE DEF S, q2, n
    <3>1. k \in 1 .. n
      BY <1>2, <2>2
    <3> QED BY <1>1, <1>3, <1>4, <1>5, <1>6, <2>2, <3>1
  <2> QED BY <2>1, <2>2
<1> HIDE DEF S, q2, n
<1>8. Content(q2, b, NextSlot(a)) = Append(Content(q, b, a), m)
  BY <1>2, <1>4, <1>6, <1>7, SeqEqual
<1> QED BY <1>2, <1>3, <1>8 DEF q2

(* Taking the message of slot b out leaves the tail. *)
LEMMA TakeLeavesTail ==
  ASSUME NEW b \in Slots, NEW a \in Slots, NEW q, a # b
  PROVE  /\ Content(q, NextSlot(b), a) = Tail(Content(q, b, a))
         /\ Content(q, b, a) # <<>>
<1> DEFINE S == {q[i] : i \in Slots}
           n == Between(b, a)
           c == NextSlot(b)
<1>1. c \in Slots /\ n \in Nat \ {0} /\ Between(c, a) = n - 1 /\ n < Noteqsize
  <2>1. c \in Slots /\ c = IF b = Noteqsize - 1 THEN 0 ELSE b + 1
    BY NextSlotIs
  <2>2. n = (IF b <= a THEN a - b ELSE a - b + Noteqsize) /\ n \in Slots
    BY BetweenIs
  <2> HIDE DEF c, n
  <2>3. Between(c, a) = IF c <= a THEN a - c ELSE a - c + Noteqsize
    BY <2>1, BetweenIs
  <2> QED BY <2>1, <2>2, <2>3, RecordAssumption DEF Slots
<1>2. \A i \in Slots : q[i] \in S
  OBVIOUS
<1>3. \A k \in 1 .. n - 1 : SlotAt(c, k) = SlotAt(b, k + 1)
  <2> HIDE DEF n, c
  <2> TAKE k \in 1 .. n - 1
  <2>1. k \in 1 .. Noteqsize /\ k + 1 \in 1 .. Noteqsize
    BY <1>1, RecordAssumption
  <2>2. c = IF b = Noteqsize - 1 THEN 0 ELSE b + 1
    BY NextSlotIs DEF c
  <2>3. SlotAt(c, k) = IF c + k - 1 < Noteqsize THEN c + k - 1 ELSE c + k - 1 - Noteqsize
    BY <1>1, <2>1, SlotAtIs
  <2> DEFINE j == k + 1
  <2>4. SlotAt(b, j) = IF b + j - 1 < Noteqsize THEN b + j - 1 ELSE b + j - 1 - Noteqsize
    <3> j \in 1 .. Noteqsize
      BY <2>1
    <3> HIDE DEF j
    <3> QED BY SlotAtIs
  <2> QED BY <1>1, <2>1, <2>2, <2>3, <2>4, RecordAssumption DEF Slots
<1> HIDE DEF S, n, c
<1>4. /\ Content(q, b, a) \in Seq(S) /\ Len(Content(q, b, a)) = n
      /\ \A k \in 1 .. n : Content(q, b, a)[k] = q[SlotAt(b, k)]
  BY <1>2, ContentIs DEF n
<1>5. /\ Content(q, c, a) \in Seq(S) /\ Len(Content(q, c, a)) = n - 1
      /\ \A k \in 1 .. n - 1 : Content(q, c, a)[k] = q[SlotAt(c, k)]
  <2>1. /\ Content(q, c, a) \in Seq(S) /\ Len(Content(q, c, a)) = Between(c, a)
        /\ \A k \in 1 .. Between(c, a) :
             SlotAt(c, k) \in Slots /\ Content(q, c, a)[k] = q[SlotAt(c, k)]
    <3>1. \A x \in Slots : Content(q, x, a) \in Seq(S) /\ Len(Content(q, x, a)) = Between(x, a)
      BY <1>2, ContentIs
    <3>2. \A x \in Slots : \A k \in 1 .. Between(x, a) :
            SlotAt(x, k) \in Slots /\ Content(q, x, a)[k] = q[SlotAt(x, k)]
      BY <1>2, ContentIs
    <3> QED BY <1>1, <3>1, <3>2
  <2> QED BY <1>1, <2>1
<1>6. Content(q, b, a) # <<>>
  BY <1>1, <1>4
<1>7. /\ Tail(Content(q, b, a)) \in Seq(S) /\ Len(Tail(Content(q, b, a))) = n - 1
      /\ \A k \in 1 .. n - 1 : Tail(Content(q, b, a))[k] = Content(q, b, a)[k + 1]
  BY <1>4, <1>6, HeadTailProperties
<1>8. \A k \in 1 .. n - 1 : Content(q, c, a)[k] = Tail(Content(q, b, a))[k]
  <2> TAKE k \in 1 .. n - 1
  <2>1. k + 1 \in 1 .. n
    BY <1>1
  <2> QED BY <1>3, <1>4, <1>5, <1>7, <2>1
<1>9. Content(q, c, a) = Tail(Content(q, b, a))
  BY <1>1, <1>5, <1>7, <1>8, SeqEqual
<1> QED BY <1>6, <1>9 DEF c

(* A callback of the parser: its message goes to the end, or is lost. *)
LEMMA ArrivePuts ==
  ASSUME QueueInv, Arrive
  PROVE  /\ QueueInv'
         /\ \/ UNCHANGED Waiting
            \/ Queued!Put /\ \E m : m.time = clock /\ Waiting' = Append(Waiting, m)
<1>1. PICK type, pitch : Qnote(type, pitch)
                         /\ [type |-> type, pitch |-> pitch, time |-> clock] \in Message
  BY DEF Arrive, RcOn, RcOff, RcControl, Message, QueueInv
<1>2. Qbegin' = Qbegin /\ clock' = clock
  BY DEF Arrive
<1> DEFINE m == [type |-> type, pitch |-> pitch, time |-> clock]
<1>3. CASE NextSlot(Qavail) = Qbegin
  <2>1. UNCHANGED <<Noteq, Qbegin, Qavail>>
    BY <1>1, <1>2, <1>3 DEF Qnote
  <2> QED BY <1>2, <2>1, WaitingIs DEF QueueInv, Waiting, Pending
<1>4. CASE NextSlot(Qavail) # Qbegin
  <2>1. Noteq' = [Noteq EXCEPT ![Qavail] = m] /\ Qavail' = NextSlot(Qavail)
    BY <1>1, <1>4 DEF Qnote
  <2>2. QueueInv'
    BY <1>2, <2>1, NextSlotIs DEF QueueInv, Slots
  <2> HIDE DEF m
  <2>3. /\ Content(Noteq', Qbegin, Qavail') = Append(Content(Noteq, Qbegin, Qavail), m)
        /\ Len(Content(Noteq, Qbegin, Qavail)) < Noteqsize - 1
    <3>1. Qbegin \in Slots /\ Qavail \in Slots /\ DOMAIN Noteq = Slots
      BY DEF QueueInv
    <3>2. \A b, a \in Slots : NextSlot(a) # b =>
            Content(Written(Noteq, a, m), b, NextSlot(a)) = Append(Content(Noteq, b, a), m)
      BY <3>1, PutAppends
    <3>3. \A b, a \in Slots : NextSlot(a) # b => Len(Content(Noteq, b, a)) < Noteqsize - 1
      BY <3>1, PutAppends
    <3> QED BY <1>4, <2>1, <3>1, <3>2, <3>3 DEF m, Written
  <2>4. Waiting' = Content(Noteq', Qbegin', Qavail')
    BY Zenon DEF Waiting, Pending, Content, Between, SlotAt
  <2>5. Waiting' = Append(Waiting, m) /\ Len(Waiting) < Noteqsize - 1
    BY <1>2, <2>3, <2>4, WaitingIs
  <2>6. m \in Message
    BY <1>1 DEF m
  <2>7. Queued!Put
    BY <2>5, <2>6 DEF Queued!Put, Message
  <2>8. m.time = clock
    BY DEF m
  <2> QED BY <2>2, <2>5, <2>7, <2>8
<1> QED BY <1>3, <1>4

(* The first message leaves when its handler returns. *)
LEMMA HandleTakes ==
  ASSUME QueueInv, Handle
  PROVE  QueueInv' /\ Queued!Take
<1>1. PICK type : Handling(type)
  BY DEF Handle, HandleOn, HandleOff, HandleStrayOff, HandleBytes
<1>2. /\ Qavail # Qbegin /\ Qbegin' = NextSlot(Qbegin)
      /\ UNCHANGED <<Noteq, Qavail, clock>>
  BY <1>1 DEF Handling
<1>3. QueueInv'
  BY <1>2, NextSlotIs DEF QueueInv, Slots
<1>4. /\ Content(Noteq, NextSlot(Qbegin), Qavail) = Tail(Content(Noteq, Qbegin, Qavail))
      /\ Content(Noteq, Qbegin, Qavail) # <<>>
  BY <1>2, TakeLeavesTail DEF QueueInv
<1>5. Waiting' = Content(Noteq', Qbegin', Qavail')
  BY Zenon DEF Waiting, Pending, Content, Between, SlotAt
<1>6. Waiting' = Tail(Waiting) /\ Waiting # <<>>
  BY <1>2, <1>4, <1>5, WaitingIs
<1> QED BY <1>3, <1>6 DEF Queued!Take

LEMMA OthersWait ==
  ASSUME QueueInv, UNCHANGED queue, clock' = clock \/ Tick
  PROVE  QueueInv' /\ UNCHANGED Waiting
<1>1. UNCHANGED <<Noteq, Qbegin, Qavail>>
  BY DEF queue
<1>2. UNCHANGED Waiting
  BY <1>1 DEF Waiting, Pending
<1>3. clock' \in 0 .. MaxClock
  BY RecordAssumption DEF QueueInv, Tick
<1> QED BY <1>1, <1>2, <1>3 DEF QueueInv

LEMMA InitQueue == Init => QueueInv /\ Queued!Init
<1> SUFFICES ASSUME Init PROVE QueueInv /\ Queued!Init
  OBVIOUS
<1>1. QueueInv
  BY RecordAssumption DEF Init, QueueInv, Slots
<1>2. Between(Qbegin, Qavail) = 0
  BY <1>1, BetweenIs, RecordAssumption DEF Init, QueueInv, Slots
<1>3. Waiting = <<>>
  BY <1>2, WaitingIs DEF Content
<1> QED BY <1>1, <1>3 DEF Queued!Init

LEMMA StepQueue == QueueInv /\ [Next]_vars => QueueInv' /\ [Queued!Next]_Waiting
<1> SUFFICES ASSUME QueueInv, [Next]_vars PROVE QueueInv' /\ [Queued!Next]_Waiting
  OBVIOUS
<1>1. CASE Arrive
  BY <1>1, ArrivePuts DEF Queued!Next
<1>2. CASE Handle
  BY <1>2, HandleTakes DEF Queued!Next
<1>3. CASE ~Arrive /\ ~Handle
  <2>1. UNCHANGED queue /\ (clock' = clock \/ Tick)
    BY <1>3 DEF Next, vars, queue, StartDrain, EndDrain, Tick, Keep, Release, SetRecord, Play,
                Merge, FinishOff
  <2> QED BY <2>1, OthersWait
<1> QED BY <1>1, <1>2, <1>3

(* ImplementsNoteQueue: the ring of qnote() and chkinput() is the queue of    *)
(* NoteQueue with room for Noteqsize - 1 messages.                           *)
THEOREM QueueImplemented == Spec => ImplementsNoteQueue
<1>1. Spec => []QueueInv
  BY InitQueue, StepQueue, PTL DEF Spec
<1> QED
  BY <1>1, InitQueue, StepQueue, PTL DEF Spec, ImplementsNoteQueue, Queued!Spec
-----------------------------------------------------------------------------
(* Current.  The notes are numbered by the steps that made them, so that the *)
(* latest of a pitch, which noteoff() finds first, has the largest number.   *)

On == [time : 0 .. MaxClock, pitch : Pitches, id : Nat]

(* The number of a note is a number. *)
LEMMA NumbersOf ==
  ASSUME NEW q \in Seq(On)
  PROVE  \A i \in 1 .. Len(q) : q[i] \in On /\ q[i].id \in Nat
<1> SUFFICES ASSUME NEW i \in 1 .. Len(q) PROVE q[i] \in On /\ q[i].id \in Nat
  OBVIOUS
<1>1. q[i] \in On
  OBVIOUS
<1> QED BY <1>1 DEF On

Falling(q) == \A i, k \in DOMAIN q : i < k => q[i].id > q[k].id

(* A later note goes to the front. *)
LEMMA InFront ==
  ASSUME NEW q \in Seq(On), Falling(q), NEW n \in On, \A i \in DOMAIN q : q[i].id < n.id
  PROVE  /\ <<n>> \o q \in Seq(On) /\ Falling(<<n>> \o q)
         /\ Elements(<<n>> \o q) = Elements(q) \cup {n}
         /\ \A i \in DOMAIN (<<n>> \o q) : (<<n>> \o q)[i].id <= n.id
<1> DEFINE r == <<n>> \o q
<1>1. r \in Seq(On) /\ Len(r) = Len(q) + 1 /\ DOMAIN r = 1 .. Len(q) + 1
      /\ DOMAIN q = 1 .. Len(q) /\ Len(q) \in Nat
  OBVIOUS
<1>2. \A i \in 1 .. Len(q) + 1 : r[i] = IF i = 1 THEN n ELSE q[i - 1]
  OBVIOUS
<1> HIDE DEF r
<1>3. \A i \in 1 .. Len(q) : q[i] = r[i + 1] /\ i + 1 \in 1 .. Len(q) + 1
  BY <1>1, <1>2
<1>4. \A i \in 1 .. Len(q) : q[i].id \in Nat
  BY NumbersOf
<1>5. n.id \in Nat
  BY DEF On
<1>6. Elements(r) = Elements(q) \cup {n}
  <2>1. \A i \in DOMAIN r : r[i] \in Elements(q) \cup {n}
    BY <1>1, <1>2 DEF Elements
  <2>2. \A i \in DOMAIN q : q[i] \in Elements(r)
    BY <1>1, <1>3 DEF Elements
  <2>3. n \in Elements(r)
    BY <1>1, <1>2 DEF Elements
  <2> QED BY <2>1, <2>2, <2>3 DEF Elements
<1>7. Falling(r)
  <2> SUFFICES ASSUME NEW i \in DOMAIN r, NEW k \in DOMAIN r, i < k PROVE r[i].id > r[k].id
    BY DEF Falling
  <2>1. k - 1 \in DOMAIN q /\ r[k] = q[k - 1]
    BY <1>1, <1>2
  <2>2. CASE i = 1
    BY <1>1, <1>2, <2>1, <2>2
  <2>3. CASE i # 1
    <3>1. i - 1 \in DOMAIN q /\ r[i] = q[i - 1] /\ i - 1 < k - 1
      BY <1>1, <1>2, <2>3
    <3> QED BY <2>1, <3>1 DEF Falling
  <2> QED BY <2>2, <2>3
<1>8. \A i \in DOMAIN r : r[i].id <= n.id
  <2> SUFFICES ASSUME NEW i \in DOMAIN r PROVE r[i].id <= n.id
    OBVIOUS
  <2>1. CASE i = 1
    BY <1>1, <1>2, <1>5, <2>1
  <2>2. CASE i # 1
    <3>1. i - 1 \in 1 .. Len(q) /\ r[i] = q[i - 1]
      BY <1>1, <1>2, <2>2
    <3>2. q[i - 1].id < n.id /\ q[i - 1].id \in Nat
      BY <1>1, <1>4, <3>1
    <3> QED BY <1>5, <3>1, <3>2
  <2> QED BY <2>1, <2>2
<1> QED BY <1>1, <1>6, <1>7, <1>8 DEF r

(* One note leaves, and it is the only one of its number. *)
LEMMA OneLess ==
  ASSUME NEW q \in Seq(On), Falling(q), NEW i \in DOMAIN q
  PROVE  /\ RemoveAt(q, i) \in Seq(On) /\ Falling(RemoveAt(q, i))
         /\ Elements(RemoveAt(q, i)) = Elements(q) \ {q[i]}
<1> DEFINE r == RemoveAt(q, i)
<1>1. DOMAIN q = 1 .. Len(q) /\ Len(q) \in Nat /\ i \in 1 .. Len(q)
      /\ \A k \in DOMAIN q : q[k] \in On /\ q[k].id \in Nat
  BY NumbersOf
<1>2. /\ SubSeq(q, 1, i - 1) \in Seq(On) /\ Len(SubSeq(q, 1, i - 1)) = i - 1
      /\ \A k \in 1 .. i - 1 : SubSeq(q, 1, i - 1)[k] = q[k]
  BY <1>1
<1>3. /\ SubSeq(q, i + 1, Len(q)) \in Seq(On) /\ Len(SubSeq(q, i + 1, Len(q))) = Len(q) - i
      /\ \A k \in 1 .. Len(q) - i : SubSeq(q, i + 1, Len(q))[k] = q[i + k]
  BY <1>1, SMTT(30)
<1>4. /\ r \in Seq(On) /\ Len(r) = Len(q) - 1 /\ DOMAIN r = 1 .. Len(q) - 1
      /\ \A k \in 1 .. Len(q) - 1 : r[k] = IF k < i THEN q[k] ELSE q[k + 1]
  <2> DEFINE a == SubSeq(q, 1, i - 1)
             b == SubSeq(q, i + 1, Len(q))
  <2>1. r = a \o b
    BY DEF RemoveAt
  <2> HIDE DEF a, b, r
  <2>2. /\ a \o b \in Seq(On) /\ Len(a \o b) = Len(a) + Len(b)
        /\ \A k \in 1 .. Len(a) + Len(b) :
             (a \o b)[k] = IF k <= Len(a) THEN a[k] ELSE b[k - Len(a)]
    BY <1>2, <1>3, ConcatProperties DEF a, b
  <2>3. Len(a) = i - 1 /\ Len(b) = Len(q) - i
    BY <1>2, <1>3 DEF a, b
  <2>4. \A k \in 1 .. Len(q) - 1 : r[k] = IF k < i THEN q[k] ELSE q[k + 1]
    <3> TAKE k \in 1 .. Len(q) - 1
    <3>1. CASE k < i
      BY <1>1, <1>2, <2>1, <2>2, <2>3, <3>1 DEF a
    <3>2. CASE k >= i
      <4>1. r[k] = b[k - (i - 1)]
        BY <1>1, <2>1, <2>2, <2>3, <3>2, SMTT(30)
      <4>2. k - (i - 1) \in 1 .. Len(q) - i /\ i + (k - (i - 1)) = k + 1
        BY <1>1, <3>2
      <4> QED BY <1>3, <3>2, <4>1, <4>2, SMTT(30) DEF b
    <3> QED BY <1>1, <3>1, <3>2
  <2>5. r \in Seq(On) /\ Len(r) = Len(q) - 1
    BY <1>1, <2>1, <2>2, <2>3
  <2>6. DOMAIN r = 1 .. Len(r)
    BY <2>5
  <2> QED BY <2>4, <2>5, <2>6
<1> HIDE DEF r
<1>5. \A k, l \in DOMAIN q : k # l => q[k] # q[l]
  <2> SUFFICES ASSUME NEW k \in DOMAIN q, NEW l \in DOMAIN q, k # l PROVE q[k] # q[l]
    OBVIOUS
  <2>1. k < l \/ l < k
    BY <1>1
  <2>2. q[k].id > q[l].id \/ q[l].id > q[k].id
    BY <2>1 DEF Falling
  <2> QED BY <1>1, <2>2
<1>6. Elements(r) = Elements(q) \ {q[i]}
  <2>1. ASSUME NEW k \in DOMAIN r PROVE r[k] \in Elements(q) \ {q[i]}
    <3> DEFINE l == IF k < i THEN k ELSE k + 1
    <3>1. l \in DOMAIN q /\ l # i /\ r[k] = q[l]
      BY <1>1, <1>4
    <3> HIDE DEF l
    <3> QED BY <1>5, <3>1 DEF Elements
  <2>2. ASSUME NEW l \in DOMAIN q, q[l] # q[i] PROVE q[l] \in Elements(r)
    <3> DEFINE k == IF l < i THEN l ELSE l - 1
    <3>1. k \in DOMAIN r /\ r[k] = q[l]
      BY <1>1, <1>4, <2>2
    <3> HIDE DEF k
    <3> QED BY <3>1 DEF Elements
  <2> QED BY <2>1, <2>2 DEF Elements
<1>7. Falling(r)
  <2> SUFFICES ASSUME NEW k \in DOMAIN r, NEW l \in DOMAIN r, k < l PROVE r[k].id > r[l].id
    BY DEF Falling
  <2> DEFINE up(j) == IF j < i THEN j ELSE j + 1
  <2>1. up(k) \in DOMAIN q /\ up(l) \in DOMAIN q /\ up(k) < up(l)
        /\ r[k] = q[up(k)] /\ r[l] = q[up(l)]
    BY <1>1, <1>4
  <2> HIDE DEF up
  <2> QED BY <2>1 DEF Falling
<1> QED BY <1>4, <1>6, <1>7 DEF r

(* What is proved of Current, and of the ring it is fed from. *)
CurrentInv ==
  /\ QueueInv
  /\ \A i \in Slots : Noteq[i] \in Message \cup {Empty}
  /\ count \in Nat
  /\ Current \in Seq(On)
  /\ \A i \in DOMAIN Current : Current[i].id <= count
  /\ CurrentExact

LEMMA ExactIs == CurrentExact <=> Elements(Current) = sounding /\ Falling(Current)
BY DEF CurrentExact, Elements, Falling

(* A note on: noteon() puts it in front. *)
LEMMA OnKeeps ==
  ASSUME CurrentInv, HandleOn, Hear(Noteq[Qbegin])
  PROVE  /\ count' \in Nat /\ Current' \in Seq(On)
         /\ \A i \in DOMAIN Current' : Current'[i].id <= count'
         /\ CurrentExact'
<1> DEFINE q == Noteq[Qbegin]
           n == [time |-> q.time, pitch |-> q.pitch, id |-> count + 1]
<1>1. q \in Message \cup {Empty} /\ q.type = "on"
  BY DEF CurrentInv, QueueInv, HandleOn, Handling
<1>2. q.pitch \in Pitches /\ q.time \in 0 .. MaxClock
  BY <1>1 DEF Message, Empty
<1>3. n \in On
  BY <1>2 DEF On, CurrentInv
<1>4. count' = count + 1 /\ sounding' = sounding \cup {n} /\ Current' = <<n>> \o Current
  BY <1>1 DEF HandleOn, Hear, Id
<1>5. n.id = count + 1
  OBVIOUS
<1> HIDE DEF q, n
<1>6. Elements(Current) = sounding /\ Falling(Current) /\ Current \in Seq(On) /\ count \in Nat
  BY ExactIs DEF CurrentInv
<1>7. \A i \in DOMAIN Current : Current[i].id < n.id
  <2>1. \A i \in DOMAIN Current : Current[i].id \in Nat
    BY <1>6, NumbersOf
  <2> QED BY <1>5, <1>6, <2>1 DEF CurrentInv
<1>8. /\ <<n>> \o Current \in Seq(On) /\ Falling(<<n>> \o Current)
      /\ Elements(<<n>> \o Current) = Elements(Current) \cup {n}
      /\ \A i \in DOMAIN (<<n>> \o Current) : (<<n>> \o Current)[i].id <= n.id
  BY <1>3, <1>6, <1>7, InFront
<1>9. Elements(Current') = sounding' /\ Falling(Current')
  BY <1>4, <1>6, <1>8
<1> QED BY <1>4, <1>5, <1>6, <1>8, <1>9 DEF CurrentExact, Elements, Falling

(* A note off: the first note of its pitch is the latest of them. *)
LEMMA OffTakes ==
  ASSUME CurrentInv, HandleOff, Hear(Noteq[Qbegin])
  PROVE  LET q == Noteq[Qbegin]
             i == Latest(q.pitch)
         IN  /\ i \in DOMAIN Current /\ Current[i].pitch = q.pitch /\ Current[i] \in sounding
             /\ Current' \in Seq(On) /\ Falling(Current')
             /\ Elements(Current') = Elements(Current) \ {Current[i]}
             /\ count' = count + 1 /\ sounding' = sounding \ {Current[i]}
             /\ heard' = IF recording THEN heard \cup {Ended(Current[i], q)} ELSE heard
             /\ Ntrecord(Ended(Current[i], q), EarliestAfter(i))
<1> DEFINE q == Noteq[Qbegin]
           S == {j \in DOMAIN Current : Current[j].pitch = q.pitch}
           i == Latest(q.pitch)
           mine == {n \in sounding : n.pitch = q.pitch}
           ended == CHOOSE n \in mine : \A m \in mine : m.id <= n.id
<1>1. q.type = "off" /\ IsOn(q.pitch) /\ Current' = RemoveAt(Current, i)
  BY DEF HandleOff, Handling
<1>2. Elements(Current) = sounding /\ Falling(Current) /\ Current \in Seq(On) /\ count \in Nat
      /\ DOMAIN Current = 1 .. Len(Current) /\ Len(Current) \in Nat
  BY ExactIs DEF CurrentInv
<1>3. i \in S /\ \A j \in S : i <= j
  <2>1. S \in SUBSET Nat /\ S # {} /\ IsFiniteSet(S)
    <3>1. IsFiniteSet(1 .. Len(Current)) /\ S \in SUBSET (1 .. Len(Current))
      BY <1>2, FS_Interval
    <3>2. IsFiniteSet(S)
      BY <3>1, FS_Subset
    <3> QED BY <1>1, <1>2, <3>2 DEF IsOn
  <2>2. i = Min(S)
    BY Zenon DEF Latest
  <2> HIDE DEF S, i
  <2> QED BY <2>1, <2>2, MinIs
<1>4. \A j \in DOMAIN Current : Current[j].id \in Nat
  BY <1>2, NumbersOf
<1>5. mine # {} /\ count' = count + 1 /\ sounding' = sounding \ {ended}
  <2>1. Current[i] \in mine
    BY <1>2, <1>3 DEF Elements
  <2> QED BY <1>1, <2>1 DEF Hear, Id
<1>6. heard' = IF recording
               THEN heard \cup {Note(NT_NOTE, q.pitch, ended.time, q.time - ended.time, ended.id)}
               ELSE heard
  BY <1>1, <1>5 DEF Hear
<1>7. \A n \in mine : \E j \in S : n = Current[j]
  BY <1>2 DEF Elements
<1> HIDE DEF i
<1>8. \A j \in S : j # i => i < j
  BY <1>2, <1>3
<1>9. \A j \in S : j # i => Current[j].id < Current[i].id
  BY <1>2, <1>3, <1>4, <1>8 DEF Falling
<1>10. Current[i] \in mine /\ \A n \in mine : n # Current[i] => n.id < Current[i].id
  <2>1. Current[i] \in mine
    BY <1>2, <1>3 DEF Elements
  <2> HIDE DEF S, mine
  <2>2. \A n \in mine : n # Current[i] => n.id < Current[i].id
    BY <1>7, <1>9
  <2> QED BY <2>1, <2>2
<1>11. \A n \in mine : n.id \in Nat
  BY <1>4, <1>7
<1>12. ended = Current[i]
  <2> HIDE DEF mine
  <2>1. \A m \in mine : m.id <= Current[i].id
    BY <1>10, <1>11
  <2>2. ended \in mine /\ \A m \in mine : m.id <= ended.id
    BY <1>10, <2>1
  <2> HIDE DEF ended
  <2> QED BY <1>10, <1>11, <2>2
<1>13. i \in DOMAIN Current /\ Current[i].pitch = q.pitch
  BY <1>3
<1> HIDE DEF q, S, mine, ended
<1>14. /\ RemoveAt(Current, i) \in Seq(On) /\ Falling(RemoveAt(Current, i))
       /\ Elements(RemoveAt(Current, i)) = Elements(Current) \ {Current[i]}
  BY <1>2, <1>13, OneLess
<1>15. Current' = RemoveAt(Current, i) /\ Ntrecord(Ended(Current[i], q), EarliestAfter(i))
  BY <1>1 DEF HandleOff, q, i
<1>16. heard' = IF recording THEN heard \cup {Ended(Current[i], q)} ELSE heard
  BY <1>12, <1>13, <1>6 DEF Ended
<1>17. Current[i] \in sounding
  BY <1>2, <1>13 DEF Elements
<1> QED BY <1>5, <1>12, <1>13, <1>14, <1>15, <1>16, <1>17 DEF q, i

LEMMA OffKeeps ==
  ASSUME CurrentInv, HandleOff, Hear(Noteq[Qbegin])
  PROVE  /\ count' \in Nat /\ Current' \in Seq(On)
         /\ \A i \in DOMAIN Current' : Current'[i].id <= count'
         /\ CurrentExact'
<1> DEFINE i == Latest(Noteq[Qbegin].pitch)
<1>1. /\ Current' \in Seq(On) /\ Falling(Current') /\ count' = count + 1
      /\ Elements(Current') = Elements(Current) \ {Current[i]}
      /\ sounding' = sounding \ {Current[i]}
  BY OffTakes
<1> HIDE DEF i
<1>2. Elements(Current) = sounding /\ Current \in Seq(On) /\ count \in Nat
      /\ DOMAIN Current = 1 .. Len(Current) /\ Len(Current) \in Nat
  BY ExactIs DEF CurrentInv
<1>3. \A j \in DOMAIN Current : Current[j].id \in Nat /\ Current[j].id <= count
  BY <1>2, NumbersOf DEF CurrentInv
<1>4. \A k \in DOMAIN Current' : Current'[k].id <= count'
  <2> SUFFICES ASSUME NEW k \in DOMAIN Current' PROVE Current'[k].id <= count'
    OBVIOUS
  <2>1. Current'[k] \in Elements(Current)
    BY <1>1 DEF Elements
  <2>2. PICK j \in DOMAIN Current : Current'[k] = Current[j]
    BY <2>1 DEF Elements
  <2> QED BY <1>1, <1>2, <1>3, <2>2
<1>5. Elements(Current') = sounding' /\ Falling(Current')
  BY <1>1, <1>2
<1>6. CurrentExact'
  BY <1>5, Zenon DEF CurrentExact, Elements, Falling
<1>7. count' \in Nat
  BY <1>1, <1>2
<1> QED BY <1>1, <1>4, <1>6, <1>7

(* No other step changes the notes that are on. *)
LEMMA SameKeeps ==
  ASSUME CurrentInv, UNCHANGED <<Current, sounding>>, count' \in {count, count + 1}
  PROVE  /\ count' \in Nat /\ Current' \in Seq(On)
         /\ \A i \in DOMAIN Current' : Current'[i].id <= count'
         /\ CurrentExact'
<1>1. \A i \in DOMAIN Current : Current[i].id \in Nat /\ Current[i].id <= count
  <2>1. DOMAIN Current = 1 .. Len(Current)
    BY DEF CurrentInv
  <2>2. \A i \in DOMAIN Current : Current[i].id \in Nat
    BY <2>1, NumbersOf DEF CurrentInv
  <2> QED BY <2>2 DEF CurrentInv
<1>2. count' \in Nat /\ count <= count' /\ count \in Nat
  BY DEF CurrentInv
<1>3. \A i \in DOMAIN Current : Current[i].id <= count'
  BY <1>1, <1>2
<1> QED BY <1>2, <1>3 DEF CurrentInv, CurrentExact

(* What waits in the ring is a message. *)
LEMMA RingKeeps ==
  ASSUME CurrentInv, [Next]_vars
  PROVE  \A i \in Slots : Noteq'[i] \in Message \cup {Empty}
<1>1. CASE Arrive
  <2>1. PICK type, pitch : Qnote(type, pitch)
                           /\ [type |-> type, pitch |-> pitch, time |-> clock] \in Message
    BY <1>1 DEF Arrive, RcOn, RcOff, RcControl, Message, CurrentInv, QueueInv
  <2> QED BY <2>1 DEF Qnote, CurrentInv, QueueInv
<1>2. CASE ~Arrive
  <2>1. Noteq' = Noteq
    BY <1>2 DEF Next, vars, queue, StartDrain, Handle, HandleOn, HandleOff, HandleStrayOff,
                HandleBytes, Handling, EndDrain, Tick, Keep, Release, SetRecord, Play, Merge,
                FinishOff
  <2> QED BY <2>1 DEF CurrentInv
<1> QED BY <1>1, <1>2

LEMMA StepCurrent == CurrentInv /\ [Next]_vars => CurrentInv'
<1> SUFFICES ASSUME CurrentInv, [Next]_vars PROVE CurrentInv'
  OBVIOUS
<1> DEFINE Holds == /\ count' \in Nat /\ Current' \in Seq(On)
                    /\ \A i \in DOMAIN Current' : Current'[i].id <= count'
                    /\ CurrentExact'
<1>1. QueueInv' /\ \A i \in Slots : Noteq'[i] \in Message \cup {Empty}
  BY StepQueue, RingKeeps DEF CurrentInv
<1>2. Holds
  <2>1. CASE HandleOn /\ Hear(Noteq[Qbegin])
    BY <2>1, OnKeeps
  <2>2. CASE HandleOff /\ Hear(Noteq[Qbegin])
    BY <2>2, OffKeeps
  <2>3. CASE HandleStrayOff /\ Hear(Noteq[Qbegin])
    <3>1. Noteq[Qbegin].type = "off" /\ ~IsOn(Noteq[Qbegin].pitch) /\ Current' = Current
      BY <2>3 DEF HandleStrayOff, Handling
    <3>2. {n \in sounding : n.pitch = Noteq[Qbegin].pitch} = {}
      BY <3>1 DEF IsOn, CurrentInv, CurrentExact
    <3>3. sounding' = sounding /\ count' = count + 1
      BY <2>3, <3>1, <3>2 DEF Hear, Id
    <3> QED BY <3>1, <3>3, SameKeeps
  <2>4. CASE HandleBytes /\ Hear(Noteq[Qbegin])
    <3>1. Current' = Current /\ sounding' = sounding /\ count' = count + 1
      BY <2>4 DEF HandleBytes, Handling, Hear, Id
    <3> QED BY <3>1, SameKeeps
  <2>5. CASE FinishOff
    BY <2>5 DEF FinishOff, Id, CurrentInv, CurrentExact
  <2>6. CASE Arrive \/ StartDrain \/ EndDrain \/ Tick \/ Keep \/ Release \/ UNCHANGED vars
    <3>1. UNCHANGED <<Current, sounding, count>>
      BY <2>6 DEF Arrive, StartDrain, EndDrain, Tick, Keep, Release, vars, history
    <3> QED BY <3>1, SameKeeps
  <2>7. CASE SetRecord \/ Play \/ Merge
    <3>1. UNCHANGED <<Current, sounding>> /\ count' = count + 1
      BY <2>7 DEF SetRecord, Play, Merge, Id
    <3> QED BY <3>1, SameKeeps
  <2> QED BY <2>1, <2>2, <2>3, <2>4, <2>5, <2>6, <2>7 DEF Next, Handle
<1> QED BY <1>1, <1>2 DEF CurrentInv

LEMMA InitCurrent == Init => CurrentInv
<1> SUFFICES ASSUME Init PROVE CurrentInv
  OBVIOUS
<1>1. QueueInv
  BY InitQueue
<1> QED BY <1>1 DEF Init, CurrentInv, CurrentExact

(* CurrentExact: noteon(), noteoff() and finishoff() keep the notes that are *)
(* on in Current, latest first, also when messages were lost.                *)
THEOREM CurrentCorrect == Spec => []CurrentExact
<1>1. Spec => []CurrentInv
  BY InitCurrent, StepCurrent, PTL DEF Spec
<1>2. CurrentInv => CurrentExact
  BY DEF CurrentInv
<1> QED BY <1>1, <1>2, PTL

-----------------------------------------------------------------------------
(* Recorded: ntrecord() puts a note between the others and loses none.       *)

Notes == [type : {NT_BYTES, NT_NOTE}, pitch : Nat, time : Int, dur : Nat, id : Nat]
IdsOf(q) == {q[i].id : i \in DOMAIN q}

LEMMA NotesAre == IsNotes(Notes)
BY DEF IsNotes, Notes, NT_BYTES, NT_NOTE

LEMMA PositionIs ==
  ASSUME NEW q, NEW id \in IdsOf(q)
  PROVE  PositionOf(q, id) \in DOMAIN q /\ q[PositionOf(q, id)].id = id
<1>1. \E i \in DOMAIN q : q[i].id = id
  BY DEF IdsOf
<1> QED BY <1>1 DEF PositionOf

(* list is q and, somewhere, n. *)
IsAdded(q, n, list) ==
  /\ list \in Seq(Notes) /\ Len(list) = Len(q) + 1
  /\ Elements(list) = Elements(q) \cup {n}

LEMMA PutIsAdded ==
  ASSUME NEW q \in Seq(Notes), NEW n \in Notes, NEW list \in Seq(Notes), NEW k,
         IsPut(q, k, n, list)
  PROVE  IsAdded(q, n, list)
<1>1. /\ Len(q) \in Nat /\ DOMAIN q = 1 .. Len(q) /\ DOMAIN list = 1 .. Len(list)
      /\ Len(list) = Len(q) + 1 /\ k \in 1 .. Len(list) /\ list[k] = n
      /\ \A i \in 1 .. Len(q) : i < k => list[i] = q[i]
      /\ \A i \in 1 .. Len(q) : i >= k => list[i + 1] = q[i]
  BY DEF IsPut
<1>2. ASSUME NEW i \in DOMAIN list PROVE list[i] \in Elements(q) \cup {n}
  <2>1. CASE i < k
    BY <1>1, <2>1 DEF Elements
  <2>2. CASE i = k
    BY <1>1, <2>2
  <2>3. CASE i > k
    <3>1. i - 1 \in DOMAIN q /\ i - 1 >= k /\ (i - 1) + 1 = i
      BY <1>1, <2>3
    <3>2. list[i] = q[i - 1]
      BY <1>1, <3>1
    <3> QED BY <3>1, <3>2 DEF Elements
  <2> QED BY <1>1, <2>1, <2>2, <2>3
<1>3. ASSUME NEW i \in DOMAIN q PROVE q[i] \in Elements(list)
  <2>1. i \in DOMAIN list /\ i + 1 \in DOMAIN list
    BY <1>1
  <2>2. q[i] = list[i] \/ q[i] = list[i + 1]
    BY <1>1
  <2> QED BY <2>1, <2>2 DEF Elements
<1>4. n \in Elements(list)
  BY <1>1 DEF Elements
<1>5. Elements(list) = Elements(q) \cup {n}
  BY <1>2, <1>3, <1>4 DEF Elements
<1> QED BY <1>1, <1>5 DEF IsAdded

LEMMA WithNoteAdds ==
  ASSUME NEW q \in Seq(Notes), NEW n \in Notes, NEW middle \in IdsOf(q) \cup {None}
  PROVE  IsAdded(q, n, WithNote(q, middle, n))
<1> DEFINE from == IF middle = None THEN 0 ELSE PositionOf(q, middle)
           later == {i \in from + 1 .. Len(q) : Before(n, q[i])}
           k == IF later = {} THEN Len(q) + 1 ELSE Min(later)
           r == SubSeq(q, 1, k - 1) \o <<n>> \o SubSeq(q, k, Len(q))
<1>1. Len(q) \in Nat /\ DOMAIN q = 1 .. Len(q)
  OBVIOUS
<1>2. from \in 0 .. Len(q)
  <2>1. CASE middle = None
    BY <1>1, <2>1
  <2>2. CASE middle # None
    BY <1>1, <2>2, PositionIs
  <2> QED BY <2>1, <2>2
<1>3. later \in SUBSET (1 .. Len(q))
  BY <1>1, <1>2
<1>4. k \in 1 .. Len(q) + 1
  <2>1. CASE later = {}
    BY <1>1, <2>1
  <2>2. CASE later # {}
    <3>1. IsFiniteSet(1 .. Len(q))
      BY <1>1, FS_Interval
    <3>2. IsFiniteSet(later) /\ later \in SUBSET Nat
      BY <1>1, <1>3, <3>1, FS_Subset
    <3> HIDE DEF later
    <3>3. Min(later) \in later
      BY <2>2, <3>2, MinIs
    <3>4. k = Min(later)
      BY <2>2
    <3> HIDE DEF k
    <3>5. k \in 1 .. Len(q)
      BY <1>3, <3>3, <3>4
    <3> QED BY <1>1, <3>5
  <2> QED BY <2>1, <2>2
<1>5. WithNote(q, middle, n) = r
  BY Zenon DEF WithNote, InsertAt
<1> HIDE DEF k
<1>6. r \in Seq(Notes) /\ IsPut(q, k, n, r)
  BY <1>4, InsertedIsPut
<1> HIDE DEF r
<1> QED BY <1>5, <1>6, PutIsAdded

(* Recmiddle stays in the list. *)
LEMMA MiddlesIn ==
  ASSUME NEW q \in Seq(Notes), NEW n \in Notes, NEW middle \in IdsOf(q) \cup {None},
         NEW earliest
  PROVE  Middles(q, middle, n, earliest) \subseteq IdsOf(WithNote(q, middle, n)) \cup {None}
<1> DEFINE list == WithNote(q, middle, n)
           first == IF middle # None THEN middle ELSE IF q = <<>> THEN None ELSE q[1].id
           at == PositionOf(list, first)
           reach(top) == {i \in DOMAIN list :
             /\ i >= at /\ \A k \in at + 1 .. i : top = None \/ list[k].time < top}
<1>1. Middles(q, middle, n, earliest) =
        IF earliest # None THEN {IF earliest = n.id THEN n.id ELSE first}
        ELSE IF first = None THEN {None}
        ELSE {list[Max(reach(top))].id : top \in {None} \cup 0 .. MaxClock}
  BY Zenon DEF Middles
<1>2. IsAdded(q, n, list)
  BY WithNoteAdds
<1> HIDE DEF list
<1>3. \A e \in Elements(q) \cup {n} : e.id \in IdsOf(list)
  BY <1>2 DEF IsAdded, Elements, IdsOf
<1>4. first \in IdsOf(list) \cup {None}
  <2>1. \A id \in IdsOf(q) : id \in IdsOf(list)
    BY <1>3 DEF IdsOf, Elements
  <2>2. q # <<>> => q[1] \in Elements(q)
    BY DEF Elements
  <2> QED BY <1>3, <2>1, <2>2
<1>5. n.id \in IdsOf(list)
  BY <1>3
<1> HIDE DEF first
<1>6. ASSUME first # None, NEW top PROVE list[Max(reach(top))].id \in IdsOf(list)
  <2>1. at \in DOMAIN list
    BY <1>4, <1>6, PositionIs
  <2>2. list \in Seq(Notes) /\ DOMAIN list = 1 .. Len(list) /\ Len(list) \in Nat
    BY <1>2 DEF IsAdded
  <2> HIDE DEF at
  <2>3. at \in reach(top)
    BY <2>1, <2>2
  <2>4. IsFiniteSet(reach(top)) /\ reach(top) \in SUBSET Nat
    <3>1. IsFiniteSet(1 .. Len(list)) /\ reach(top) \in SUBSET (1 .. Len(list))
      BY <2>2, FS_Interval
    <3>2. IsFiniteSet(reach(top))
      BY <3>1, FS_Subset
    <3> QED BY <2>2, <3>1, <3>2
  <2>5. \A i \in reach(top) : i \in DOMAIN list
    OBVIOUS
  <2> DEFINE R == reach(top)
  <2> HIDE DEF reach, R
  <2>6. Max(R) \in R
    <3>1. R \in SUBSET Nat /\ R # {} /\ IsFiniteSet(R)
      BY <2>3, <2>4 DEF R
    <3> QED BY <3>1, MaxIs
  <2> QED BY <2>5, <2>6 DEF IdsOf, R
<1> HIDE DEF reach
<1> QED BY <1>1, <1>4, <1>5, <1>6 DEF list

-----------------------------------------------------------------------------
(* The two phrases, and what a step does to the one that is Recorded. *)
StoreInv ==
  /\ notes \in [Phr -> Seq(Notes)]
  /\ Recphr \in Phr /\ held \in Phr \cup {None}
  /\ used = [p \in Phr |-> (IF p = Recphr THEN 1 ELSE 0) + (IF p = held THEN 1 ELSE 0)]
  /\ Recmiddle \in IdsOf(notes[Recphr]) \cup {None}

HeldSame == held # None /\ held' = held => Elements(notes'[held]) = Elements(notes[held])

(* Recorded gets n, or keeps the notes it has. *)
Gets(n) ==
  /\ StoreInv' /\ HeldSame
  /\ Elements(notes'[Recphr']) = Elements(notes[Recphr]) \cup {n}
  /\ Len(notes'[Recphr']) = Len(notes[Recphr]) + 1

Stays ==
  /\ StoreInv' /\ HeldSame
  /\ Elements(notes'[Recphr']) = Elements(notes[Recphr])
  /\ Len(notes'[Recphr']) = Len(notes[Recphr])

LEMMA OtherIs ==
  ASSUME Recphr \in Phr
  PROVE  Other \in Phr /\ Other # Recphr /\ \A p \in Phr : p # Recphr => p = Other
<1>1. \E p \in Phr : p # Recphr
  BY DEF Phr
<1>2. Other \in Phr /\ Other # Recphr
  BY <1>1 DEF Other
<1> QED BY <1>2 DEF Phr

LEMMA IdsAre == ASSUME NEW q PROVE IdsOf(q) = {e.id : e \in Elements(q)}
<1>1. \A id \in IdsOf(q) : \E e \in Elements(q) : id = e.id
  BY DEF IdsOf, Elements
<1>2. \A e \in Elements(q) : e.id \in IdsOf(q)
  BY DEF IdsOf, Elements
<1> QED BY <1>1, <1>2

(* Putting a list in order changes neither its notes nor their number. *)
LEMMA ReorderKeeps ==
  ASSUME NEW q \in Seq(Notes)
  PROVE  /\ Phreorder(q) \in Seq(Notes) /\ Len(Phreorder(q)) = Len(q)
         /\ Elements(Phreorder(q)) = Elements(q) /\ IdsOf(Phreorder(q)) = IdsOf(q)
<1>1. Phreorder(q) \in Seq(Notes) /\ SameNotes(q, Phreorder(q))
  BY NotesAre, Reorders
<1>2. Elements(Phreorder(q)) = Elements(q) /\ Len(Phreorder(q)) = Len(q)
  BY <1>1, SameHolds
<1> QED BY <1>1, <1>2, IdsAre

(* The phrase p is Recorded now, and is q with n added. *)
Into(p, q, n) ==
  /\ notes' \in [Phr -> Seq(Notes)] /\ Recphr' = p
  /\ \A o \in Phr : o # p => notes'[o] = notes[o]
  /\ Elements(notes'[p]) = Elements(q) \cup {n} /\ Len(notes'[p]) = Len(q) + 1
  /\ Recmiddle' \in IdsOf(notes'[p]) \cup {None}

LEMMA AddDoes ==
  ASSUME NEW p \in Phr, NEW q \in Seq(Notes), NEW n \in Notes,
         NEW middle \in IdsOf(q) \cup {None}, NEW earliest, NEW reorder \in BOOLEAN,
         Add(p, q, n, middle, earliest, reorder), notes \in [Phr -> Seq(Notes)]
  PROVE  Into(p, q, n)
<1> DEFINE list == WithNote(q, middle, n)
           new == IF reorder THEN Phreorder(list) ELSE list
<1>1. /\ Recphr' = p /\ notes' = [notes EXCEPT ![p] = new]
      /\ Recmiddle' \in Middles(q, middle, n, earliest)
  BY DEF Add
<1>2. IsAdded(q, n, list) /\ Middles(q, middle, n, earliest) \subseteq IdsOf(list) \cup {None}
  BY WithNoteAdds, MiddlesIn
<1> HIDE DEF list
<1>3. /\ list \in Seq(Notes) /\ Len(list) = Len(q) + 1 /\ Elements(list) = Elements(q) \cup {n}
  BY <1>2 DEF IsAdded
<1>4. /\ new \in Seq(Notes) /\ Len(new) = Len(list) /\ Elements(new) = Elements(list)
      /\ IdsOf(new) = IdsOf(list)
  BY <1>3, ReorderKeeps
<1> HIDE DEF new
<1>5. notes'[p] = new /\ notes' \in [Phr -> Seq(Notes)]
  BY <1>1, <1>4
<1> QED BY <1>1, <1>2, <1>3, <1>4, <1>5 DEF Into

(* A note goes into Recorded, and into a copy if the phrase is shared. *)
LEMMA FreshGets ==
  ASSUME StoreInv, NEW n \in Notes, NEW earliest, NEW reorder \in BOOLEAN,
         AddFresh(n, earliest, reorder), held' = held
  PROVE  Gets(n)
<1>1. /\ notes \in [Phr -> Seq(Notes)] /\ Recphr \in Phr /\ held \in Phr \cup {None}
      /\ notes[Recphr] \in Seq(Notes) /\ Recmiddle \in IdsOf(notes[Recphr]) \cup {None}
      /\ \A p \in Phr : used[p] = (IF p = Recphr THEN 1 ELSE 0) + (IF p = held THEN 1 ELSE 0)
      /\ DOMAIN used = Phr /\ used = [p \in Phr |-> used[p]]
  BY DEF StoreInv
<1>2. Other \in Phr /\ Other # Recphr /\ \A p \in Phr : p # Recphr => p = Other
  BY <1>1, OtherIs
<1>3. None \notin Phr
  BY RecordAssumption DEF Phr
<1>4. CASE Shared
  <2>1. held = Recphr
    BY <1>1, <1>4 DEF Shared
  <2>2. /\ used' = [used EXCEPT ![Recphr] = @ - 1, ![Other] = 1]
        /\ Add(Other, notes[Recphr], n, None, None, reorder)
    BY <1>4 DEF AddFresh
  <2>3. /\ notes' \in [Phr -> Seq(Notes)] /\ Recphr' = Other
        /\ notes'[Recphr] = notes[Recphr]
        /\ Elements(notes'[Other]) = Elements(notes[Recphr]) \cup {n}
        /\ Len(notes'[Other]) = Len(notes[Recphr]) + 1
        /\ Recmiddle' \in IdsOf(notes'[Other]) \cup {None}
    <3>1. None \in IdsOf(notes[Recphr]) \cup {None}
      OBVIOUS
    <3>2. /\ Add(Other, notes[Recphr], n, None, None, reorder) /\ Other \in Phr
          /\ notes \in [Phr -> Seq(Notes)] /\ notes[Recphr] \in Seq(Notes)
      BY <1>1, <1>2, <2>2
    <3>3. Into(Other, notes[Recphr], n)
      BY <3>1, <3>2, AddDoes
    <3> QED BY <1>1, <1>2, <3>3 DEF Into
  <2>4. used[Recphr] = 2
    BY <1>1, <2>1
  <2> HIDE DEF Other
  <2>5. used' = [p \in Phr |-> (IF p = Other THEN 1 ELSE 0) + (IF p = held THEN 1 ELSE 0)]
    <3>1. \A p \in Phr : [used EXCEPT ![Recphr] = @ - 1, ![Other] = 1][p] = 1
      BY <1>1, <1>2, <2>4
    <3>2. \A p \in Phr : (IF p = Other THEN 1 ELSE 0) + (IF p = held THEN 1 ELSE 0) = 1
      BY <1>2, <2>1
    <3>3. DOMAIN [used EXCEPT ![Recphr] = @ - 1, ![Other] = 1] = Phr
      BY <1>1
    <3> QED BY <2>2, <3>1, <3>2, <3>3
  <2>6. StoreInv'
    BY <1>1, <1>2, <2>3, <2>5 DEF StoreInv
  <2>7. HeldSame
    BY <2>1, <2>3 DEF HeldSame
  <2> QED BY <2>3, <2>6, <2>7 DEF Gets
<1>5. CASE ~Shared
  <2>1. held # Recphr
    BY <1>1, <1>5 DEF Shared
  <2>2. used' = used /\ Add(Recphr, notes[Recphr], n, Recmiddle, earliest, reorder)
    BY <1>5 DEF AddFresh
  <2>3. /\ notes' \in [Phr -> Seq(Notes)] /\ Recphr' = Recphr
        /\ \A o \in Phr : o # Recphr => notes'[o] = notes[o]
        /\ Elements(notes'[Recphr]) = Elements(notes[Recphr]) \cup {n}
        /\ Len(notes'[Recphr]) = Len(notes[Recphr]) + 1
        /\ Recmiddle' \in IdsOf(notes'[Recphr]) \cup {None}
    <3>1. Into(Recphr, notes[Recphr], n)
      BY <1>1, <2>2, AddDoes
    <3> QED BY <3>1 DEF Into
  <2>4. StoreInv'
    BY <2>2, <2>3 DEF StoreInv
  <2>5. HeldSame
    BY <1>1, <2>1, <2>3 DEF HeldSame
  <2> QED BY <2>3, <2>4, <2>5 DEF Gets
<1> QED BY <1>4, <1>5

LEMMA NothingStays ==
  ASSUME StoreInv, UNCHANGED <<notes, used, Recphr, Recmiddle, held>>
  PROVE  Stays
BY DEF StoreInv, Stays, HeldSame

LEMMA NtrecordDoes ==
  ASSUME StoreInv, NEW n \in Notes, NEW earliest, Ntrecord(n, earliest), held' = held
  PROVE  IF recording THEN Gets(n) ELSE Stays
<1>1. CASE recording
  <2>1. AddFresh(n, earliest, FALSE)
    BY <1>1 DEF Ntrecord
  <2> QED BY <1>1, <2>1, FreshGets
<1>2. CASE ~recording
  BY <1>2, NothingStays DEF Ntrecord
<1> QED BY <1>1, <1>2

(* x = Recorded, and x = 0 *)
LEMMA KeepStays == ASSUME StoreInv, Keep \/ Release PROVE Stays
<1>1. /\ notes \in [Phr -> Seq(Notes)] /\ Recphr \in Phr /\ DOMAIN used = Phr
      /\ Recmiddle \in IdsOf(notes[Recphr]) \cup {None}
  BY DEF StoreInv
<1>2. Other \in Phr /\ Other # Recphr /\ \A p \in Phr : p # Recphr => p = Other
  BY <1>1, OtherIs
<1>3. None \notin Phr /\ <<>> \in Seq(Notes)
  BY RecordAssumption DEF Phr
<1> HIDE DEF Other
<1>4. /\ notes' = [notes EXCEPT ![Other] = <<>>] /\ UNCHANGED <<Recphr, Recmiddle>>
      /\ \/ held' = Recphr /\ used' = [used EXCEPT ![Recphr] = 2, ![Other] = 0] /\ held # Recphr
         \/ held' = None /\ used' = [used EXCEPT ![Recphr] = 1, ![Other] = 0] /\ held # None
  BY DEF Keep, Release
<1>5. notes' \in [Phr -> Seq(Notes)] /\ notes'[Recphr] = notes[Recphr]
  BY <1>1, <1>2, <1>3, <1>4
<1>6. used' = [p \in Phr |-> (IF p = Recphr THEN 1 ELSE 0) + (IF p = held' THEN 1 ELSE 0)]
  <2>1. CASE held' = Recphr
    <3>1. used' = [used EXCEPT ![Recphr] = 2, ![Other] = 0]
      BY <1>1, <1>3, <1>4, <2>1
    <3>2. DOMAIN used' = Phr /\ used'[Recphr] = 2 /\ used'[Other] = 0
      BY <1>1, <1>2, <3>1
    <3>3. used' = [p \in Phr |-> used'[p]]
      BY <1>1, <3>1
    <3>4. \A p \in Phr :
            used'[p] = (IF p = Recphr THEN 1 ELSE 0) + (IF p = held' THEN 1 ELSE 0)
      BY <1>2, <2>1, <3>2
    <3> QED BY <3>3, <3>4
  <2>2. CASE held' = None
    <3>1. used' = [used EXCEPT ![Recphr] = 1, ![Other] = 0]
      BY <1>1, <1>3, <1>4, <2>2
    <3>2. DOMAIN used' = Phr /\ used'[Recphr] = 1 /\ used'[Other] = 0
      BY <1>1, <1>2, <3>1
    <3>3. used' = [p \in Phr |-> used'[p]]
      BY <1>1, <3>1
    <3>4. \A p \in Phr :
            used'[p] = (IF p = Recphr THEN 1 ELSE 0) + (IF p = held' THEN 1 ELSE 0)
      BY <1>2, <1>3, <2>2, <3>2
    <3> QED BY <3>3, <3>4
  <2> QED BY <1>4, <2>1, <2>2
<1>7. StoreInv'
  BY <1>1, <1>4, <1>5, <1>6 DEF StoreInv
<1>8. HeldSame
  BY <1>4 DEF HeldSame
<1> QED BY <1>4, <1>5, <1>7, <1>8 DEF Stays

(* Recorded |= p : the note is one more, wherever phrmerge() links it. *)
LEMMA MergeGets ==
  ASSUME StoreInv, NEW n \in Notes, ~Shared,
         notes' = [notes EXCEPT ![Recphr] = Phrmerge(<<n>>, @, 0)],
         UNCHANGED <<used, Recphr, Recmiddle, held>>
  PROVE  Gets(n)
<1> DEFINE q == notes[Recphr]
           r == Phrmerge(<<n>>, q, 0)
<1>1. /\ notes \in [Phr -> Seq(Notes)] /\ Recphr \in Phr /\ q \in Seq(Notes)
      /\ Recmiddle \in IdsOf(q) \cup {None} /\ held \in Phr \cup {None}
  BY DEF StoreInv
<1>2. Shifted(<<n>>, 0) = <<n>>
  <2>1. [n EXCEPT !.time = @ + 0] = n
    BY DEF Notes
  <2>2. DOMAIN <<n>> = {1} /\ <<n>>[1] = n
    OBVIOUS
  <2> QED BY <2>1, <2>2 DEF Shifted
<1> DEFINE one == <<n>>
           none == <<>>
<1>3. one \in Seq(Notes) /\ none \in Seq(Notes)
  OBVIOUS
<1>4. one = Append(none, n)
  OBVIOUS
<1> HIDE DEF q, one, none
<1>5. Shifted(one, 0) = one
  BY <1>2 DEF one
<1>6. r \in Seq(Notes) /\ \A S : Count(r, S) = Count(q, S) + Count(one, S)
  <2>1. Shifted(one, 0) \in Seq(Notes)
    BY <1>3, <1>5
  <2>2. LET s == Phrmerge(one, q, 0)
        IN  s \in Seq(Notes) /\ \A S : Count(s, S) = Count(q, S) + Count(Shifted(one, 0), S)
    BY <1>1, <1>3, <2>1, NotesAre, Merges
  <2> QED BY <1>5, <2>2 DEF one
<1>7. \A S : Count(one, S) = IF n \in S THEN 1 ELSE 0
  <2> SUFFICES ASSUME NEW S PROVE Count(one, S) = IF n \in S THEN 1 ELSE 0
    OBVIOUS
  <2>1. IsPut(none, Len(none) + 1, n, one)
    BY <1>3, <1>4, AtEnd
  <2>2. Count(one, S) = Count(none, S) + (IF n \in S THEN 1 ELSE 0)
    BY <1>3, <2>1, PutCounts
  <2>3. Count(none, S) = 0
    BY CountEmpty DEF none
  <2> QED BY <2>2, <2>3
<1> DEFINE a == Append(q, n)
<1>8. a \in Seq(Notes) /\ IsPut(q, Len(q) + 1, n, a)
  BY <1>1, AtEnd
<1>9. IsAdded(q, n, a)
  BY <1>1, <1>8, PutIsAdded
<1>10. SameNotes(a, r)
  <2> SUFFICES ASSUME NEW S PROVE Count(r, S) = Count(a, S)
    BY DEF SameNotes
  <2> HIDE DEF a, r
  <2>1. Count(a, S) = Count(q, S) + (IF n \in S THEN 1 ELSE 0)
    BY <1>1, <1>8, PutCounts
  <2> QED BY <1>6, <1>7, <2>1
<1> HIDE DEF a, r
<1>11. Elements(r) = Elements(q) \cup {n} /\ Len(r) = Len(q) + 1
  <2>1. Elements(r) = Elements(a) /\ Len(r) = Len(a)
    BY <1>6, <1>8, <1>10, SameHolds
  <2> QED BY <1>9, <2>1 DEF IsAdded
<1>12. notes' = [notes EXCEPT ![Recphr] = r] /\ notes'[Recphr] = r
  BY <1>1 DEF q, r
<1>13. \A id \in IdsOf(q) : id \in IdsOf(r)
  BY <1>11, IdsAre
<1>14. held # Recphr
  BY <1>1 DEF StoreInv, Shared
<1>15. StoreInv'
  BY <1>1, <1>6, <1>12, <1>13 DEF StoreInv
<1>16. HeldSame
  BY <1>1, <1>12, <1>14 DEF HeldSame
<1> QED BY <1>11, <1>12, <1>15, <1>16 DEF Gets, q

(* finishoff() puts Recorded in order. *)
LEMMA ReorderStays ==
  ASSUME StoreInv, notes' = [notes EXCEPT ![Recphr] = Phreorder(@)],
         UNCHANGED <<used, Recphr, Recmiddle, held>>
  PROVE  Stays
<1> DEFINE q == notes[Recphr]
<1>1. /\ notes \in [Phr -> Seq(Notes)] /\ Recphr \in Phr /\ q \in Seq(Notes)
      /\ Recmiddle \in IdsOf(q) \cup {None} /\ held \in Phr \cup {None}
  BY DEF StoreInv
<1> HIDE DEF q
<1>2. /\ Phreorder(q) \in Seq(Notes) /\ Len(Phreorder(q)) = Len(q)
      /\ Elements(Phreorder(q)) = Elements(q) /\ IdsOf(Phreorder(q)) = IdsOf(q)
  BY <1>1, ReorderKeeps
<1>3. \A p \in Phr : notes'[p] = IF p = Recphr THEN Phreorder(q) ELSE notes[p]
  BY <1>1 DEF q
<1>4. notes' \in [Phr -> Seq(Notes)]
  BY <1>1, <1>2 DEF q
<1>5. StoreInv'
  BY <1>1, <1>2, <1>3, <1>4 DEF StoreInv
<1>6. HeldSame
  BY <1>1, <1>2, <1>3 DEF HeldSame, q
<1> QED BY <1>1, <1>2, <1>3, <1>5, <1>6 DEF Stays, q

-----------------------------------------------------------------------------
(* The messages are taken in the order of their times, which the clock gave  *)
(* them: a note does not end before it began.                                *)
InTime ==
  /\ \A j, k \in 1 .. Len(Waiting) : j < k => Waiting[j].time <= Waiting[k].time
  /\ \A k \in 1 .. Len(Waiting) : Waiting[k].time <= clock
  /\ \A i \in DOMAIN Current : Current[i].time <= clock
  /\ \A i \in DOMAIN Current, k \in 1 .. Len(Waiting) : Current[i].time <= Waiting[k].time

LEMMA WaitingType ==
  ASSUME CurrentInv
  PROVE  /\ Waiting \in Seq(Message \cup {Empty})
         /\ Qavail # Qbegin => Waiting # <<>> /\ Waiting[1] = Noteq[Qbegin]
<1>1. Qbegin \in Slots /\ Qavail \in Slots /\ \A i \in Slots : Noteq[i] \in Message \cup {Empty}
  BY DEF CurrentInv, QueueInv
<1>2. /\ Waiting \in Seq(Message \cup {Empty}) /\ Len(Waiting) = Between(Qbegin, Qavail)
      /\ \A k \in 1 .. Between(Qbegin, Qavail) : Waiting[k] = Noteq[SlotAt(Qbegin, k)]
  <2> DEFINE S == Message \cup {Empty}
  <2> HIDE DEF S
  <2>1. Qbegin \in Slots /\ Qavail \in Slots /\ \A i \in Slots : Noteq[i] \in S
    BY <1>1 DEF S
  <2>2. LET w == Content(Noteq, Qbegin, Qavail)
        IN  /\ w \in Seq(S) /\ Len(w) = Between(Qbegin, Qavail)
            /\ \A k \in 1 .. Between(Qbegin, Qavail) :
                 SlotAt(Qbegin, k) \in Slots /\ w[k] = Noteq[SlotAt(Qbegin, k)]
    BY <2>1, ContentIs, SMTT(30)
  <2> QED BY <2>2, WaitingIs DEF S
<1>3. ASSUME Qavail # Qbegin PROVE Waiting # <<>> /\ Waiting[1] = Noteq[Qbegin]
  <2>1. Between(Qbegin, Qavail) \in Nat \ {0}
    <3>1. /\ Between(Qbegin, Qavail) =
               (IF Qbegin <= Qavail THEN Qavail - Qbegin ELSE Qavail - Qbegin + Noteqsize)
          /\ Between(Qbegin, Qavail) \in Slots
      BY <1>1, BetweenIs
    <3> QED BY <1>1, <1>3, <3>1, RecordAssumption DEF Slots
  <2>2. SlotAt(Qbegin, 1) = Qbegin
    <3>1. 1 \in 1 .. Noteqsize
      BY RecordAssumption
    <3>2. SlotAt(Qbegin, 1) =
            IF Qbegin + 1 - 1 < Noteqsize THEN Qbegin + 1 - 1 ELSE Qbegin + 1 - 1 - Noteqsize
      BY <1>1, <3>1, SlotAtIs
    <3> QED BY <1>1, <3>2, RecordAssumption DEF Slots
  <2>3. 1 \in 1 .. Between(Qbegin, Qavail)
    BY <2>1
  <2>4. Waiting[1] = Noteq[Qbegin]
    BY <1>2, <2>2, <2>3
  <2> QED BY <1>2, <2>1, <2>4
<1> QED BY <1>2, <1>3

LEMMA TimesAre ==
  ASSUME CurrentInv
  PROVE  /\ \A k \in 1 .. Len(Waiting) : Waiting[k].time \in Int
         /\ \A i \in DOMAIN Current : Current[i].time \in Int
         /\ clock \in Int /\ DOMAIN Current = 1 .. Len(Current) /\ Len(Waiting) \in Nat
<1>1. \A m \in Message \cup {Empty} : m.time \in Int
  <2> SUFFICES ASSUME NEW m \in Message \cup {Empty} PROVE m.time \in Int
    OBVIOUS
  <2> QED BY RecordAssumption DEF Message, Empty
<1>2. Waiting \in Seq(Message \cup {Empty})
  BY WaitingType
<1>3. \A k \in 1 .. Len(Waiting) : Waiting[k] \in Message \cup {Empty}
  BY <1>2
<1>4. \A m \in On : m.time \in Int
  BY RecordAssumption DEF On
<1>5. DOMAIN Current = 1 .. Len(Current) /\ \A i \in 1 .. Len(Current) : Current[i] \in On
  BY DEF CurrentInv
<1>6. clock \in Int
  BY RecordAssumption DEF CurrentInv, QueueInv
<1> QED BY <1>1, <1>2, <1>3, <1>4, <1>5, <1>6

(* A message arrives with the time of the clock. *)
LEMMA ArriveInTime ==
  ASSUME CurrentInv, InTime, NEW m, m.time = clock, Waiting' = Append(Waiting, m),
         UNCHANGED <<Current, clock>>
  PROVE  InTime'
<1>1. /\ \A k \in 1 .. Len(Waiting) : Waiting[k].time \in Int
      /\ \A i \in DOMAIN Current : Current[i].time \in Int
      /\ clock \in Int /\ Len(Waiting) \in Nat
  BY TimesAre
<1> DEFINE w == Waiting
           v == Waiting'
<1>2. /\ Len(v) = Len(w) + 1 /\ v[Len(w) + 1] = m
      /\ \A k \in 1 .. Len(w) : v[k] = w[k]
  <2> DEFINE S == Message \cup {Empty} \cup {m}
  <2>1. w \in Seq(S) /\ m \in S
    <3>1. w \in Seq(Message \cup {Empty})
      BY WaitingType
    <3> HIDE DEF w
    <3> QED BY <3>1
  <2>2. v = Append(w, m)
    OBVIOUS
  <2> HIDE DEF S, w, v
  <2> QED BY <2>1, <2>2, AppendProperties
<1>3. \A k \in 1 .. Len(v) : k \in 1 .. Len(w) \/ k = Len(w) + 1
  BY <1>1, <1>2
<1> HIDE DEF w, v
<1>4. /\ \A j, k \in 1 .. Len(w) : j < k => w[j].time <= w[k].time
      /\ \A k \in 1 .. Len(w) : w[k].time <= clock
      /\ \A i \in DOMAIN Current : Current[i].time <= clock
      /\ \A i \in DOMAIN Current, k \in 1 .. Len(w) : Current[i].time <= w[k].time
  BY DEF InTime, w
<1>5. \A k \in 1 .. Len(v) : v[k].time <= clock
  BY <1>1, <1>2, <1>3, <1>4 DEF w
<1>6. \A j, k \in 1 .. Len(v) : j < k => v[j].time <= v[k].time
  <2> SUFFICES ASSUME NEW j \in 1 .. Len(v), NEW k \in 1 .. Len(v), j < k
               PROVE  v[j].time <= v[k].time
    OBVIOUS
  <2>1. j \in 1 .. Len(w)
    BY <1>1, <1>2, <1>3 DEF w
  <2>2. CASE k \in 1 .. Len(w)
    BY <1>2, <1>4, <2>1, <2>2
  <2>3. CASE k = Len(w) + 1
    BY <1>2, <1>4, <2>1, <2>3
  <2> QED BY <1>3, <2>2, <2>3
<1>7. \A i \in DOMAIN Current, k \in 1 .. Len(v) : Current[i].time <= v[k].time
  BY <1>2, <1>3, <1>4
<1> QED BY <1>4, <1>5, <1>6, <1>7 DEF InTime, v

(* The first message leaves, and a note on of its time may join Current. *)
LEMMA TakeInTime ==
  ASSUME CurrentInv, InTime, Waiting # <<>>, Waiting' = Tail(Waiting), clock' = clock,
         \A i \in DOMAIN Current' :
           \/ \E k \in DOMAIN Current : Current'[i].time = Current[k].time
           \/ Current'[i].time = Waiting[1].time
  PROVE  InTime'
<1> DEFINE w == Waiting
           v == Waiting'
<1>1. w \in Seq(Message \cup {Empty}) /\ w # <<>>
  BY WaitingType
<1>2. Len(w) \in Nat \ {0} /\ Len(v) = Len(w) - 1 /\ \A k \in 1 .. Len(v) : v[k] = w[k + 1]
  <2>1. v = Tail(w)
    OBVIOUS
  <2> HIDE DEF w, v
  <2> QED BY <1>1, <2>1, HeadTailProperties
<1>3. /\ \A j, k \in 1 .. Len(w) : j < k => w[j].time <= w[k].time
      /\ \A k \in 1 .. Len(w) : w[k].time <= clock
      /\ \A i \in DOMAIN Current : Current[i].time <= clock
      /\ \A i \in DOMAIN Current, k \in 1 .. Len(w) : Current[i].time <= w[k].time
  BY DEF InTime
<1>4. \A i \in DOMAIN Current' :
        \/ \E k \in DOMAIN Current : Current'[i].time = Current[k].time
        \/ Current'[i].time = w[1].time
  OBVIOUS
<1> HIDE DEF w, v
<1>5. \A k \in 1 .. Len(v) : k + 1 \in 1 .. Len(w) /\ 1 < k + 1 /\ 1 \in 1 .. Len(w)
  BY <1>2
<1>6. \A j, k \in 1 .. Len(v) : j < k => v[j].time <= v[k].time
  <2> SUFFICES ASSUME NEW j \in 1 .. Len(v), NEW k \in 1 .. Len(v), j < k
               PROVE  v[j].time <= v[k].time
    OBVIOUS
  <2>1. j + 1 < k + 1
    BY <1>2
  <2> QED BY <1>2, <1>3, <1>5, <2>1
<1>7. \A k \in 1 .. Len(v) : v[k].time <= clock
  BY <1>2, <1>3, <1>5
<1>8. \A i \in DOMAIN Current' : Current'[i].time <= clock
  <2>1. w[1].time <= clock
    BY <1>2, <1>3
  <2> QED BY <1>3, <1>4, <2>1
<1>9. \A i \in DOMAIN Current', k \in 1 .. Len(v) : Current'[i].time <= v[k].time
  <2> SUFFICES ASSUME NEW i \in DOMAIN Current', NEW k \in 1 .. Len(v)
               PROVE  Current'[i].time <= v[k].time
    OBVIOUS
  <2>1. v[k] = w[k + 1] /\ w[1].time <= w[k + 1].time
    BY <1>2, <1>3, <1>5
  <2>2. \A l \in DOMAIN Current : Current[l].time <= w[k + 1].time
    BY <1>3, <1>5
  <2> QED BY <1>4, <2>1, <2>2
<1> QED BY <1>6, <1>7, <1>8, <1>9 DEF InTime, v

LEMMA StepInTime == CurrentInv /\ InTime /\ [Next]_vars => InTime'
<1> SUFFICES ASSUME CurrentInv, InTime, [Next]_vars PROVE InTime'
  OBVIOUS
<1>0. QueueInv
  BY DEF CurrentInv
<1>1. CASE Arrive
  <2>1. UNCHANGED <<Current, clock>>
    BY <1>1 DEF Arrive
  <2>2. \/ UNCHANGED Waiting
        \/ \E m : m.time = clock /\ Waiting' = Append(Waiting, m)
    BY <1>0, <1>1, ArrivePuts
  <2>3. CASE UNCHANGED Waiting
    BY <2>1, <2>3 DEF InTime
  <2> QED BY <2>1, <2>2, <2>3, ArriveInTime
<1>2. CASE Handle /\ Hear(Noteq[Qbegin])
  <2>1. Waiting' = Tail(Waiting) /\ Waiting # <<>>
    BY <1>0, <1>2, HandleTakes DEF Queued!Take
  <2>2. clock' = clock /\ Waiting[1] = Noteq[Qbegin]
    BY <1>2, WaitingType DEF Handle, HandleOn, HandleOff, HandleStrayOff, HandleBytes, Handling
  <2>3. DOMAIN Current = 1 .. Len(Current) /\ Len(Current) \in Nat /\ Current \in Seq(On)
    BY DEF CurrentInv
  <2>4. \A i \in DOMAIN Current' :
          \/ \E k \in DOMAIN Current : Current'[i].time = Current[k].time
          \/ Current'[i].time = Waiting[1].time
    <3>1. CASE HandleOn
      <4> DEFINE n == [time |-> Noteq[Qbegin].time, pitch |-> Noteq[Qbegin].pitch, id |-> Id]
      <4>1. Current' = <<n>> \o Current /\ n.time = Waiting[1].time
        BY <2>2, <3>1 DEF HandleOn
      <4> HIDE DEF n
      <4>2. /\ DOMAIN (<<n>> \o Current) = 1 .. Len(Current) + 1
            /\ \A i \in 1 .. Len(Current) + 1 :
                 (<<n>> \o Current)[i] = IF i = 1 THEN n ELSE Current[i - 1]
        BY <2>3
      <4>3. \A i \in 1 .. Len(Current) + 1 : i = 1 \/ i - 1 \in 1 .. Len(Current)
        BY <2>3
      <4> QED BY <2>3, <4>1, <4>2, <4>3
    <3>2. CASE HandleOff
      <4>1. CurrentInv /\ HandleOff /\ Hear(Noteq[Qbegin])
        BY <1>2, <3>2
      <4>2. \A i \in DOMAIN Current' : Current'[i] \in Elements(Current)
        BY <4>1, OffTakes DEF Elements
      <4> QED BY <4>2 DEF Elements
    <3>3. CASE HandleStrayOff \/ HandleBytes
      <4>1. Current' = Current
        BY <3>3 DEF HandleStrayOff, HandleBytes
      <4> QED BY <4>1
    <3> QED BY <1>2, <3>1, <3>2, <3>3 DEF Handle
  <2> QED BY <2>1, <2>2, <2>4, TakeInTime
<1>3. CASE FinishOff
  <2>1. UNCHANGED queue /\ Current' = <<>> /\ clock' = clock
    BY <1>3 DEF FinishOff
  <2>2. UNCHANGED Waiting
    BY <1>0, <2>1, OthersWait
  <2> QED BY <2>1, <2>2 DEF InTime
<1>4. CASE Tick
  <2>1. UNCHANGED queue /\ Current' = Current /\ clock' = clock + 1
    BY <1>4 DEF Tick
  <2>2. UNCHANGED Waiting
    BY <1>0, <1>4, <2>1, OthersWait
  <2>3. clock \in Int /\ \A t \in Int : t <= clock => t <= clock + 1
    BY TimesAre
  <2> QED BY <2>1, <2>2, <2>3, TimesAre DEF InTime
<1>5. CASE StartDrain \/ EndDrain \/ Keep \/ Release \/ SetRecord \/ Play \/ Merge
           \/ UNCHANGED vars
  <2>1. UNCHANGED <<Current, clock>> /\ UNCHANGED queue
    BY <1>5 DEF StartDrain, EndDrain, Keep, Release, SetRecord, Play, Merge, vars, queue
  <2>2. UNCHANGED Waiting
    BY <1>0, <2>1, OthersWait
  <2> QED BY <2>1, <2>2 DEF InTime
<1> QED BY <1>1, <1>2, <1>3, <1>4, <1>5 DEF Next

-----------------------------------------------------------------------------
(* Recorded holds what was played.  The numbers of the notes in Recorded and  *)
(* of those that are on are all different, so that each new note is one more. *)
Known ==
  /\ RecordedExact
  /\ \A n \in heard : n.id \in Nat /\ n.id <= count
  /\ \A n \in heard, m \in sounding : n.id # m.id

LEMMA SoundingIs ==
  ASSUME CurrentInv
  PROVE  /\ \A m \in sounding : m \in On /\ m.id \in Nat /\ m.id <= count
         /\ \A m, o \in sounding : m.id = o.id => m = o
         /\ count \in Nat
<1>1. /\ Elements(Current) = sounding /\ Falling(Current) /\ Current \in Seq(On)
      /\ DOMAIN Current = 1 .. Len(Current) /\ Len(Current) \in Nat /\ count \in Nat
  BY ExactIs DEF CurrentInv
<1>2. \A i \in DOMAIN Current :
        Current[i] \in On /\ Current[i].id \in Nat /\ Current[i].id <= count
  BY <1>1, NumbersOf DEF CurrentInv
<1>3. \A m \in sounding : \E i \in DOMAIN Current : m = Current[i]
  BY <1>1 DEF Elements
<1>4. \A i, k \in DOMAIN Current : Current[i].id = Current[k].id => i = k
  <2> SUFFICES ASSUME NEW i \in DOMAIN Current, NEW k \in DOMAIN Current, i # k
               PROVE  Current[i].id # Current[k].id
    OBVIOUS
  <2>1. i < k \/ k < i
    BY <1>1
  <2>2. Current[i].id > Current[k].id \/ Current[k].id > Current[i].id
    BY <1>1, <2>1 DEF Falling
  <2> QED BY <1>2, <2>2
<1> QED BY <1>1, <1>2, <1>3, <1>4

LEMMA HearsNew ==
  ASSUME StoreInv, RecordedExact, NEW n, Gets(n), heard' = heard \cup {n},
         \A m \in heard : m.id # n.id
  PROVE  RecordedExact'
<1> DEFINE q == notes[Recphr]
<1>1. q \in Seq(Notes) /\ Elements(q) = heard /\ Cardinality(heard) = Len(q)
  BY DEF StoreInv, RecordedExact, NotesOf, Elements
<1>2. n \notin heard
  OBVIOUS
<1>3. IsFiniteSet(heard)
  <2>1. IsFiniteSet(DOMAIN q)
    <3>1. DOMAIN q = 1 .. Len(q) /\ Len(q) \in Nat
      BY <1>1
    <3> QED BY <3>1, FS_Interval
  <2> HIDE DEF q
  <2>2. q \in Surjection(DOMAIN q, Elements(q))
    <3>1. q \in [DOMAIN q -> Elements(q)]
      BY <1>1 DEF Elements
    <3>2. \A e \in Elements(q) : \E i \in DOMAIN q : q[i] = e
      BY DEF Elements
    <3> QED BY <3>1, <3>2 DEF Surjection
  <2>3. IsFiniteSet(Elements(q))
    BY <2>1, <2>2, FS_Surjection
  <2> QED BY <1>1, <2>3
<1>4. Cardinality(heard') = Cardinality(heard) + 1
  BY <1>2, <1>3, FS_AddElement
<1>5. Elements(notes'[Recphr']) = heard' /\ Len(notes'[Recphr']) = Len(q) + 1
  BY <1>1 DEF Gets
<1>6. Len(notes'[Recphr']) = Cardinality(heard')
  BY <1>1, <1>4, <1>5
<1> QED BY <1>5, <1>6 DEF RecordedExact, NotesOf, Elements

LEMMA HearsNone ==
  ASSUME RecordedExact, Stays, heard' = heard
  PROVE  RecordedExact'
BY DEF RecordedExact, Stays, NotesOf, Elements

(* A new note, or one that was on, comes into Recorded. *)
LEMMA KnowsNew ==
  ASSUME CurrentInv, StoreInv, Known, NEW n \in Notes, Gets(n), heard' = heard \cup {n},
         count' = count + 1,
         \/ n.id = count + 1 /\ sounding' \subseteq sounding
         \/ \E m \in sounding : n.id = m.id /\ sounding' = sounding \ {m}
  PROVE  Known'
<1>1. /\ \A m \in sounding : m.id \in Nat /\ m.id <= count
      /\ \A m, o \in sounding : m.id = o.id => m = o
      /\ count \in Nat
  BY SoundingIs
<1>2. /\ \A o \in heard : o.id \in Nat /\ o.id <= count
      /\ \A o \in heard, m \in sounding : o.id # m.id
  BY DEF Known
<1>3. n.id \in Nat /\ n.id <= count + 1
  BY <1>1
<1>4. \A m \in heard : m.id # n.id
  BY <1>1, <1>2
<1>5. RecordedExact'
  BY <1>4, HearsNew DEF Known
<1>6. \A o \in heard' : o.id \in Nat /\ o.id <= count'
  BY <1>1, <1>2, <1>3
<1>7. \A m \in sounding' : n.id # m.id /\ m \in sounding
  BY <1>1
<1>8. \A o \in heard', m \in sounding' : o.id # m.id
  BY <1>2, <1>7
<1> QED BY <1>5, <1>6, <1>8 DEF Known

(* Recorded has the notes it had, and at most a new note is on. *)
LEMMA KnowsOld ==
  ASSUME CurrentInv, Known, Stays, heard' = heard, count' \in {count, count + 1},
         \A m \in sounding' : m \in sounding \/ m.id = count + 1
  PROVE  Known'
<1>1. count \in Nat
  BY SoundingIs
<1>2. /\ \A o \in heard : o.id \in Nat /\ o.id <= count
      /\ \A o \in heard, m \in sounding : o.id # m.id
  BY DEF Known
<1>3. RecordedExact'
  BY HearsNone DEF Known
<1>4. \A o \in heard' : o.id \in Nat /\ o.id <= count'
  BY <1>1, <1>2
<1>5. \A o \in heard' : o.id # count + 1
  BY <1>1, <1>2
<1>6. \A o \in heard', m \in sounding' : o.id # m.id
  BY <1>2, <1>5
<1> QED BY <1>3, <1>4, <1>6 DEF Known

LEMMA NewNote ==
  ASSUME NEW type \in {NT_BYTES, NT_NOTE}, NEW pitch \in Nat, NEW time \in Int, NEW dur \in Nat,
         NEW id \in Nat
  PROVE  Note(type, pitch, time, dur, id) \in Notes /\ Note(type, pitch, time, dur, id).id = id
BY DEF Note, Notes

LEMMA OnIs ==
  ASSUME NEW c \in On
  PROVE  c.time \in Int /\ c.pitch \in Nat /\ c.id \in Nat
<1>1. c.time \in 0 .. MaxClock /\ c.pitch \in Pitches /\ c.id \in Nat
  BY DEF On
<1>2. Pitches \subseteq Nat
  BY RecordAssumption
<1>3. 0 .. MaxClock \subseteq Int
  BY RecordAssumption
<1> QED BY <1>1, <1>2, <1>3

LEMMA EndedIs ==
  ASSUME NEW c \in On, NEW q, q.time \in Int, c.time <= q.time
  PROVE  Ended(c, q) \in Notes /\ Ended(c, q).id = c.id
<1> DEFINE p == c.pitch
           t == c.time
           d == q.time - c.time
           id == c.id
<1>1. p \in Nat /\ t \in Int /\ d \in Nat /\ id \in Nat
  BY OnIs
<1>2. Ended(c, q) = Note(NT_NOTE, p, t, d, id)
  BY DEF Ended
<1> HIDE DEF p, t, d
<1>3. Note(NT_NOTE, p, t, d, id) \in Notes /\ Note(NT_NOTE, p, t, d, id).id = id
  <2> HIDE DEF id
  <2> QED BY <1>1, NewNote
<1> QED BY <1>2, <1>3

RecordInv == CurrentInv /\ InTime /\ StoreInv /\ Known

Records == StoreInv' /\ Known' /\ HeldSame

(* noteoff(): the note that was on is recorded from its note on to now. *)
LEMMA OffRecords ==
  ASSUME RecordInv, HandleOff, Hear(Noteq[Qbegin])
  PROVE  Records
<1> DEFINE q == Noteq[Qbegin]
           i == Latest(q.pitch)
           n == Ended(Current[i], q)
<1>1. CurrentInv /\ InTime /\ StoreInv /\ Known
  BY DEF RecordInv
<1>2. /\ i \in DOMAIN Current /\ Current[i].pitch = q.pitch /\ Current[i] \in sounding
      /\ count' = count + 1 /\ sounding' = sounding \ {Current[i]}
      /\ heard' = IF recording THEN heard \cup {n} ELSE heard
      /\ Ntrecord(n, EarliestAfter(i))
  BY <1>1, OffTakes
<1>3. held' = held /\ q = Waiting[1] /\ Waiting # <<>>
  BY <1>1, WaitingType DEF HandleOff, Handling
<1> HIDE DEF q, i
<1>4. Current[i] \in On
  BY <1>1, <1>2, SoundingIs
<1>5. q.time \in Int /\ Current[i].time <= q.time
  <2>1. 1 \in 1 .. Len(Waiting)
    <3>1. Waiting \in Seq(Message \cup {Empty}) /\ Waiting # <<>>
      BY <1>1, <1>3, WaitingType
    <3> DEFINE w == Waiting
    <3> HIDE DEF w
    <3> QED BY <3>1 DEF w
  <2>2. Waiting[1].time \in Int
    BY <1>1, <2>1, TimesAre
  <2>3. Current[i].time <= Waiting[1].time
    BY <1>1, <1>2, <2>1 DEF InTime
  <2> QED BY <1>3, <2>2, <2>3
<1>6. n \in Notes /\ n.id = Current[i].id
  BY <1>4, <1>5, EndedIs
<1> HIDE DEF n
<1>7. IF recording THEN Gets(n) ELSE Stays
  BY <1>1, <1>2, <1>3, <1>6, NtrecordDoes
<1>8. CASE recording
  <2>1. Gets(n) /\ heard' = heard \cup {n}
    BY <1>2, <1>7, <1>8
  <2>2. \E m \in sounding : n.id = m.id /\ sounding' = sounding \ {m}
    BY <1>2, <1>6
  <2>3. Known'
    BY <1>1, <1>2, <1>6, <2>1, <2>2, KnowsNew
  <2> QED BY <2>1, <2>3 DEF Gets, Records
<1>9. CASE ~recording
  <2>1. Stays /\ heard' = heard
    BY <1>2, <1>7, <1>9
  <2>2. \A m \in sounding' : m \in sounding
    BY <1>2
  <2>3. Known'
    BY <1>1, <1>2, <2>1, <2>2, KnowsOld
  <2> QED BY <2>1, <2>3 DEF Stays, Records
<1> QED BY <1>8, <1>9

(* A note that is numbered by this step is recorded, if Record is on. *)
LEMMA NewRecords ==
  ASSUME RecordInv, NEW n \in Notes, n.id = count + 1, count' = count + 1, held' = held,
         IF recording THEN Gets(n) ELSE Stays,
         heard' = (IF recording THEN heard \cup {n} ELSE heard), sounding' \subseteq sounding
  PROVE  Records
<1>0. CurrentInv /\ StoreInv /\ Known
  BY DEF RecordInv
<1>1. CASE recording
  <2>1. Gets(n) /\ heard' = heard \cup {n}
    BY <1>1
  <2>2. Known'
    BY <1>0, <2>1, KnowsNew
  <2> QED BY <2>1, <2>2 DEF Gets, Records
<1>2. CASE ~recording
  <2>1. Stays /\ heard' = heard
    BY <1>2
  <2>2. \A m \in sounding' : m \in sounding
    OBVIOUS
  <2>3. Known'
    BY <1>0, <2>1, <2>2, KnowsOld
  <2> QED BY <2>1, <2>3 DEF Stays, Records
<1> QED BY <1>1, <1>2

LEMMA OldRecords ==
  ASSUME RecordInv, Stays, heard' = heard, count' \in {count, count + 1},
         \A m \in sounding' : m \in sounding \/ m.id = count + 1
  PROVE  Records
<1>1. Known'
  BY KnowsOld DEF RecordInv
<1> QED BY <1>1 DEF Stays, Records

LEMMA NewMessage ==
  ASSUME NEW pitch \in Nat, NEW time \in Int, NEW id \in Nat
  PROVE  Note(NT_BYTES, pitch, time, 0, id) \in Notes /\ Note(NT_BYTES, pitch, time, 0, id).id = id
BY DEF Note, Notes

(* A message, a scheduled note and the release of the pedal are notes. *)
LEMMA SentIs ==
  ASSUME CurrentInv, HandleBytes
  PROVE  Sent(Noteq[Qbegin]) \in Notes /\ Sent(Noteq[Qbegin]).id = count + 1
<1> DEFINE q == Noteq[Qbegin]
           p == q.pitch
           t == q.time
<1>1. q \in Message /\ q.type = "bytes"
  BY DEF CurrentInv, QueueInv, HandleBytes, Handling, Empty
<1>2. p \in Pedals /\ t \in 0 .. MaxClock
  BY <1>1 DEF Message
<1> DEFINE k == count + 1
<1>3. p \in Nat /\ t \in Int /\ k \in Nat
  <2>1. Pedals \subseteq Nat /\ 0 .. MaxClock \subseteq Int
    BY RecordAssumption
  <2>2. count + 1 \in Nat
    BY DEF CurrentInv
  <2> HIDE DEF p, t
  <2> QED BY <1>2, <2>1, <2>2
<1>4. Sent(q) = Note(NT_BYTES, p, t, 0, k)
  BY DEF Sent, Id
<1> HIDE DEF q, p, t, k
<1>5. Note(NT_BYTES, p, t, 0, k) \in Notes /\ Note(NT_BYTES, p, t, 0, k).id = k
  BY <1>3, NewMessage
<1> QED BY <1>4, <1>5 DEF q, k

LEMMA PlayedIs ==
  ASSUME CurrentInv, NEW p \in Pitches
  PROVE  Note(NT_NOTE, p, clock, 1, Id) \in Notes /\ Note(NT_NOTE, p, clock, 1, Id).id = count + 1
<1>1. p \in Nat /\ clock \in Int /\ count + 1 \in Nat
  BY RecordAssumption DEF CurrentInv, QueueInv
<1>2. Id = count + 1
  BY DEF Id
<1> QED BY <1>1, <1>2, NewNote, NT_NOTE \in {NT_BYTES, NT_NOTE}, 1 \in Nat

LEMMA ReleasedIs ==
  ASSUME CurrentInv, NEW now \in {-1, clock}
  PROVE  Note(NT_BYTES, Up, now, 0, Id) \in Notes /\ Note(NT_BYTES, Up, now, 0, Id).id = count + 1
<1>1. Up \in Nat /\ now \in Int /\ count + 1 \in Nat
  BY RecordAssumption DEF CurrentInv, QueueInv, Up
<1>2. Id = count + 1
  BY DEF Id
<1> QED BY <1>1, <1>2, NewMessage

(* chkinput() *)
LEMMA OnRecords ==
  ASSUME RecordInv, HandleOn, Hear(Noteq[Qbegin])
  PROVE  Records
<1>1. StoreInv
  BY DEF RecordInv
<1>2. UNCHANGED <<notes, used, Recphr, Recmiddle, held>> /\ Noteq[Qbegin].type = "on"
  BY DEF HandleOn, Handling, record
<1>3. /\ count' = count + 1 /\ heard' = heard
      /\ \A m \in sounding' : m \in sounding \/ m.id = count + 1
  BY <1>2 DEF Hear, Id
<1> QED BY <1>1, <1>2, <1>3, NothingStays, OldRecords

LEMMA StrayOffRecords ==
  ASSUME RecordInv, HandleStrayOff, Hear(Noteq[Qbegin])
  PROVE  Records
<1>1. StoreInv /\ CurrentInv
  BY DEF RecordInv
<1>2. UNCHANGED <<notes, used, Recphr, Recmiddle, held>>
      /\ Noteq[Qbegin].type = "off" /\ ~IsOn(Noteq[Qbegin].pitch)
  BY DEF HandleStrayOff, Handling, record
<1>3. {n \in sounding : n.pitch = Noteq[Qbegin].pitch} = {}
  BY <1>1, <1>2 DEF IsOn, CurrentInv, CurrentExact
<1>4. count' = count + 1 /\ heard' = heard /\ sounding' = sounding
  BY <1>2, <1>3 DEF Hear, Id
<1> QED BY <1>1, <1>2, <1>4, NothingStays, OldRecords

LEMMA BytesRecords ==
  ASSUME RecordInv, HandleBytes, Hear(Noteq[Qbegin])
  PROVE  Records
<1> DEFINE q == Noteq[Qbegin]
           n == Sent(q)
<1>1. StoreInv /\ CurrentInv
  BY DEF RecordInv
<1>2. Ntrecord(n, Earliest) /\ held' = held /\ recording' = recording /\ q.type = "bytes"
  BY DEF HandleBytes, Handling
<1>3. n \in Notes /\ n.id = count + 1
  BY <1>1, SentIs
<1>4. /\ count' = count + 1 /\ sounding' \subseteq sounding
      /\ heard' = IF recording THEN heard \cup {n} ELSE heard
  BY <1>2 DEF Hear, Id, Sent
<1> HIDE DEF q, n
<1>5. IF recording THEN Gets(n) ELSE Stays
  BY <1>1, <1>2, <1>3, NtrecordDoes
<1> QED BY <1>2, <1>3, <1>4, <1>5, NewRecords

(* execnt() *)
LEMMA PlayRecords == ASSUME RecordInv, Play PROVE Records
<1>1. StoreInv /\ CurrentInv
  BY DEF RecordInv
<1>2. PICK p \in Pitches :
        /\ Ntrecord(Note(NT_NOTE, p, clock, 1, Id), Earliest)
        /\ heard' = IF recording THEN heard \cup {Note(NT_NOTE, p, clock, 1, Id)} ELSE heard
  BY DEF Play
<1> DEFINE n == Note(NT_NOTE, p, clock, 1, Id)
<1>3. n \in Notes /\ n.id = count + 1
  BY <1>1, PlayedIs
<1>4. count' = count + 1 /\ sounding' \subseteq sounding /\ held' = held
  BY DEF Play, Id
<1>5. Ntrecord(n, Earliest) /\ heard' = IF recording THEN heard \cup {n} ELSE heard
  BY <1>2
<1> HIDE DEF n
<1>6. IF recording THEN Gets(n) ELSE Stays
  BY <1>1, <1>3, <1>4, <1>5, NtrecordDoes
<1> QED BY <1>3, <1>4, <1>5, <1>6, NewRecords

LEMMA MergeRecords == ASSUME RecordInv, Merge PROVE Records
<1>1. StoreInv /\ CurrentInv /\ Known
  BY DEF RecordInv
<1>2. PICK p \in Pitches :
        LET n == Note(NT_NOTE, p, clock, 1, Id) IN
        /\ notes' = [notes EXCEPT ![Recphr] = Phrmerge(<<n>>, @, 0)]
        /\ heard' = heard \cup {n}
  BY DEF Merge
<1> DEFINE n == Note(NT_NOTE, p, clock, 1, Id)
<1>3. n \in Notes /\ n.id = count + 1
  BY <1>1, PlayedIs
<1>4. /\ count' = count + 1 /\ sounding' \subseteq sounding /\ ~Shared
      /\ UNCHANGED <<used, Recphr, Recmiddle, held>>
  BY DEF Merge, Id
<1>5. notes' = [notes EXCEPT ![Recphr] = Phrmerge(<<n>>, @, 0)] /\ heard' = heard \cup {n}
  BY <1>2
<1> HIDE DEF n
<1>6. Gets(n)
  BY <1>1, <1>3, <1>4, <1>5, MergeGets
<1>7. Known'
  BY <1>1, <1>3, <1>4, <1>5, <1>6, KnowsNew
<1> QED BY <1>6, <1>7 DEF Gets, Records

LEMMA FinishOffRecords == ASSUME RecordInv, FinishOff PROVE Records
<1>1. StoreInv /\ CurrentInv /\ Known
  BY DEF RecordInv
<1>2. PICK now \in {-1, clock} :
        LET n == Note(NT_BYTES, Up, now, 0, Id) IN
        IF sustain /\ recording
        THEN AddFresh(n, Earliest, TRUE) /\ heard' = heard \cup {n}
        ELSE /\ notes' = [notes EXCEPT ![Recphr] = Phreorder(@)]
             /\ UNCHANGED <<used, Recphr, Recmiddle, Earliest, heard>>
  BY DEF FinishOff
<1> DEFINE n == Note(NT_BYTES, Up, now, 0, Id)
<1>3. n \in Notes /\ n.id = count + 1
  BY <1>1, ReleasedIs
<1>4. /\ count' = count + 1 /\ held' = held /\ sounding' \subseteq sounding
      /\ \A m \in sounding' : m \in sounding \/ m.id = count + 1
  BY DEF FinishOff, Id
<1>5. CASE sustain /\ recording
  <2>1. AddFresh(n, Earliest, TRUE) /\ heard' = heard \cup {n}
    BY <1>2, <1>5
  <2> HIDE DEF n
  <2>2. Gets(n)
    BY <1>1, <1>3, <1>4, <2>1, FreshGets
  <2>3. Known'
    BY <1>1, <1>3, <1>4, <2>1, <2>2, KnowsNew
  <2> QED BY <2>2, <2>3 DEF Gets, Records
<1>6. CASE ~(sustain /\ recording)
  <2>1. notes' = [notes EXCEPT ![Recphr] = Phreorder(@)]
        /\ UNCHANGED <<used, Recphr, Recmiddle, heard>>
    BY <1>2, <1>6
  <2>2. Stays
    BY <1>1, <1>4, <2>1, ReorderStays
  <2> QED BY <1>4, <2>1, <2>2, OldRecords
<1> QED BY <1>5, <1>6

LEMMA StepRecord == RecordInv /\ [Next]_vars => Records
<1> SUFFICES ASSUME RecordInv, [Next]_vars PROVE Records
  OBVIOUS
<1>1. StoreInv
  BY DEF RecordInv
<1>2. CASE Handle /\ Hear(Noteq[Qbegin])
  BY <1>2, OnRecords, OffRecords, StrayOffRecords, BytesRecords DEF Handle
<1>3. CASE Play \/ Merge \/ FinishOff
  BY <1>3, PlayRecords, MergeRecords, FinishOffRecords
<1>4. CASE Keep \/ Release
  <2>1. UNCHANGED history
    BY <1>4 DEF Keep, Release
  <2>2. UNCHANGED <<count, sounding, heard>>
    BY <2>1 DEF history
  <2>3. Stays
    BY <1>1, <1>4, KeepStays
  <2> QED BY <2>2, <2>3, OldRecords
<1>5. CASE Arrive \/ StartDrain \/ EndDrain \/ Tick \/ SetRecord \/ UNCHANGED vars
  <2>1. UNCHANGED <<record, held, sounding, heard>> /\ count' \in {count, count + 1}
    BY <1>5 DEF Arrive, StartDrain, EndDrain, Tick, SetRecord, Id, vars, history
  <2>2. UNCHANGED <<notes, used, Recphr, Recmiddle, held>>
    BY <2>1 DEF record
  <2>3. Stays
    BY <1>1, <2>2, NothingStays
  <2> QED BY <2>1, <2>3, OldRecords
<1> QED BY <1>2, <1>3, <1>4, <1>5 DEF Next

LEMMA InitRecord == Init => RecordInv
<1> SUFFICES ASSUME Init PROVE RecordInv
  OBVIOUS
<1>1. CurrentInv
  BY InitCurrent
<1>2. StoreInv
  <2>1. <<>> \in Seq(Notes) /\ None \notin Phr /\ 1 \in Phr
    BY RecordAssumption DEF Phr
  <2>2. \A p \in Phr : (IF p = 1 THEN 1 ELSE 0) =
                       (IF p = Recphr THEN 1 ELSE 0) + (IF p = held THEN 1 ELSE 0)
    BY <2>1 DEF Init
  <2> QED BY <2>1, <2>2 DEF Init, StoreInv
<1>3. InTime
  <2>1. Waiting = <<>>
    BY InitQueue DEF Queued!Init
  <2> QED BY <2>1 DEF InTime, Init
<1>4. Known
  <2>1. heard = {} /\ sounding = {} /\ notes[Recphr] = <<>>
    BY DEF Init, Phr
  <2>2. NotesOf(Recphr) = {} /\ Len(notes[Recphr]) = 0
    BY <2>1 DEF NotesOf
  <2> QED BY <2>1, <2>2, FS_EmptySet DEF Known, RecordedExact
<1> QED BY <1>1, <1>2, <1>3, <1>4 DEF RecordInv

LEMMA StepRecordInv == RecordInv /\ [Next]_vars => RecordInv'
<1> SUFFICES ASSUME RecordInv, [Next]_vars PROVE RecordInv'
  OBVIOUS
<1>1. CurrentInv' /\ InTime'
  BY StepCurrent, StepInTime DEF RecordInv
<1>2. StoreInv' /\ Known'
  BY StepRecord DEF Records
<1> QED BY <1>1, <1>2 DEF RecordInv

LEMMA RecordHolds == Spec => []RecordInv
BY InitRecord, StepRecordInv, PTL DEF Spec

(* RecordedExact: the phrase Recorded holds every note and message that was  *)
(* played while Record was on, each once, and no other, through the copies   *)
(* ntrecord() makes and whatever finishoff() and phrmerge() do to the list.  *)
THEOREM RecordedCorrect == Spec => []RecordedExact
<1>1. RecordInv => RecordedExact
  BY DEF RecordInv, Known
<1> QED BY <1>1, RecordHolds, PTL

(* HeldUnchanged: no step of recording changes the notes of the phrase that  *)
(* a variable keeps, though it may be the phrase that is Recorded.           *)
THEOREM HeldKept == Spec => HeldUnchanged
<1>1. RecordInv /\ [Next]_vars =>
        [held # None /\ held' = held => NotesOf(held)' = NotesOf(held)]_vars
  <2> SUFFICES ASSUME RecordInv, [Next]_vars, held # None, held' = held
               PROVE  NotesOf(held)' = NotesOf(held)
    OBVIOUS
  <2>1. Elements(notes'[held]) = Elements(notes[held])
    BY StepRecord DEF Records, HeldSame
  <2>2. notes'[held'] = notes'[held]
    OBVIOUS
  <2> QED BY <2>1, <2>2 DEF NotesOf, Elements
<1> QED BY <1>1, RecordHolds, PTL DEF Spec, HeldUnchanged

(* TypeOK: the use counts of the two phrases are the variables that refer to *)
(* them, and Recmiddle points into Recorded.                                 *)
THEOREM RecordTypeCorrect == Spec => []TypeOK
<1>1. RecordInv => TypeOK
  <2> SUFFICES ASSUME RecordInv PROVE TypeOK
    OBVIOUS
  <2>1. Qbegin \in Slots /\ Qavail \in Slots /\ StoreInv
    BY DEF RecordInv, CurrentInv, QueueInv
  <2>2. ASSUME NEW p \in Phr
        PROVE  used[p] = Cardinality({r \in {"Recorded", "x"} :
                            p = IF r = "x" THEN held ELSE Recphr})
    <3> DEFINE R == {r \in {"Recorded", "x"} : p = IF r = "x" THEN held ELSE Recphr}
    <3>1. used[p] = (IF p = Recphr THEN 1 ELSE 0) + (IF p = held THEN 1 ELSE 0)
      BY <2>1 DEF StoreInv
    <3>2. /\ R = (IF p = Recphr THEN {"Recorded"} ELSE {})
                   \cup (IF p = held THEN {"x"} ELSE {})
          /\ "Recorded" # "x"
      OBVIOUS
    <3>3. \A r : Cardinality({r}) = 1
      BY FS_Singleton
    <3>4. Cardinality({}) = 0
      BY FS_EmptySet
    <3>5. Cardinality({"Recorded", "x"}) = 2
      <4> DEFINE S == {"Recorded"}
      <4>1. IsFiniteSet(S) /\ "x" \notin S /\ Cardinality(S) = 1
        BY <3>3, FS_Singleton
      <4>2. S \cup {"x"} = {"Recorded", "x"}
        OBVIOUS
      <4> HIDE DEF S
      <4>3. Cardinality(S \cup {"x"}) = Cardinality(S) + 1
        BY <4>1, FS_AddElement
      <4> QED BY <4>1, <4>2, <4>3
    <3>6. R = (IF p = Recphr
               THEN IF p = held THEN {"Recorded", "x"} ELSE {"Recorded"}
               ELSE IF p = held THEN {"x"} ELSE {})
      BY <3>2
    <3> HIDE DEF R
    <3>7. used[p] = Cardinality(R)
      <4>1. CASE p = Recphr /\ p = held
        BY <3>1, <3>5, <3>6, <4>1
      <4>2. CASE p = Recphr /\ p # held
        BY <3>1, <3>3, <3>6, <4>2
      <4>3. CASE p # Recphr /\ p = held
        <5>1. used[p] = 1 /\ R = {"x"}
          BY <3>1, <3>6, <4>3
        <5> QED BY <3>3, <5>1
      <4>4. CASE p # Recphr /\ p # held
        BY <3>1, <3>4, <3>6, <4>4
      <4> QED BY <4>1, <4>2, <4>3, <4>4
    <3> QED BY <3>7 DEF R
  <2>3. Recmiddle \in Ids(Recphr) \cup {None}
    <3>1. Ids(Recphr) = IdsOf(notes[Recphr])
      BY IdsAre DEF Ids, NotesOf, Elements
    <3> QED BY <2>1, <3>1 DEF StoreInv
  <2>4. ASSUME NEW n \in NotesOf(Recphr) PROVE n.dur >= 0
    <3>1. n \in Notes
      BY <2>1 DEF StoreInv, NotesOf
    <3> QED BY <3>1 DEF Notes
  <2> QED BY <2>1, <2>2, <2>3, <2>4 DEF TypeOK, StoreInv
<1> QED BY <1>1, RecordHolds, PTL
=============================================================================
