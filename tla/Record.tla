------------------------------- MODULE Record -------------------------------
(***************************************************************************)
(* MIDI recording in real.c.  The parser's callbacks put messages into the *)
(* ring Noteq; chkinput() takes them out: a note on goes to the front of   *)
(* the phrase Current, and the note off moves it from there to Recorded.   *)
(* finishoff() ends what is in Current.                                    *)
(*                                                                         *)
(* A program that keeps Recorded in a variable shares the phrase;          *)
(* ntrecord() copies it before the next note is added.                     *)
(*                                                                         *)
(* One channel and one port, with Recsysex on; Recfilter, Merge and the    *)
(* MIDI fifos are left out.                                                *)
(***************************************************************************)
EXTENDS NoteLists

CONSTANTS
  Pitches,
  Pedals,       (* what the MIDI input does to the pedal                   *)
  Noteqsize,
  None,         (* the NULL pointer                                        *)
  MaxClock,     (* bound: clicks                                           *)
  MaxCount      (* bound: messages, notes, finishoff()s, changes of Record *)

ASSUME RecordAssumption ==
  /\ Pitches \subseteq Nat \ {0, 1} /\ Pedals \subseteq {0, 1}
  /\ Noteqsize \in Nat \ {0, 1}
  /\ None \notin Nat
  /\ MaxClock \in Nat /\ MaxCount \in Nat

VARIABLES
  Noteq, Qbegin, Qavail,
  draining,    (* inside chkinput()                                         *)
  Current,     (* the notes that are on, latest first                       *)
  notes,       (* the notes of the two phrases                              *)
  Recphr,      (* the phrase that is Recorded                               *)
  held,        (* the phrase a variable of the program keeps                *)
  used,        (* the use counts of the phrases                             *)
  Recmiddle,   (* the note behind which the place of the next one is sought *)
  Earliest,    (* Earliestcurrent: the note noteoff() took last of Current  *)
  recording,   (* Record and Recinput                                       *)
  sustain,     (* Sustain[][]                                               *)
  clock,
  count,       (* steps of the kinds that MaxCount bounds                   *)
  sounding,    (* history: the notes that are on, and all that should be    *)
  heard        (* in Recorded                                               *)

queue == <<Noteq, Qbegin, Qavail>>
record == <<notes, used, Recphr, Recmiddle, Earliest>>
history == <<count, sounding, heard>>
vars == <<queue, draining, Current, record, held, recording, sustain, clock, history>>

Phr == {1, 2}
Up == 0
Down == 1
Slots == 0 .. Noteqsize - 1
Empty == [type |-> "none", pitch |-> 0, time |-> 0]

Init ==
  /\ Noteq = [i \in Slots |-> Empty] /\ Qbegin = 0 /\ Qavail = 0
  /\ draining = FALSE /\ Current = <<>>
  /\ notes = [p \in Phr |-> <<>>] /\ Recphr = 1 /\ held = None
  /\ used = [p \in Phr |-> IF p = 1 THEN 1 ELSE 0]
  /\ Recmiddle = None /\ Earliest = None
  /\ recording = TRUE /\ sustain = FALSE /\ clock = 0
  /\ count = 0 /\ sounding = {} /\ heard = {}
-----------------------------------------------------------------------------
(* Arrival: the callbacks of the parser, called by GRABMIDI in chkinput() and
   chkoutput().                                                              *)
NextSlot(i) == (i + 1) % Noteqsize

Pending == (Qavail - Qbegin + Noteqsize) % Noteqsize

(* Mutant of Qnote: the slot of Qbegin is used as well. *)
QnoteFull(type, pitch) ==
  /\ Noteq' = [Noteq EXCEPT ![Qavail] = [type |-> type, pitch |-> pitch, time |-> clock]]
  /\ Qavail' = NextSlot(Qavail)

(* qnote(): if Noteq is full, the message is dropped. *)
Qnote(type, pitch) ==
  IF NextSlot(Qavail) = Qbegin THEN UNCHANGED <<Noteq, Qavail>>
  ELSE /\ Noteq' = [Noteq EXCEPT ![Qavail] = [type |-> type, pitch |-> pitch, time |-> clock]]
       /\ Qavail' = NextSlot(Qavail)

(* rc_on(): of volume 0 it is a note off. *)
RcOn(pitch, volume) == Qnote(IF volume = 0 THEN "off" ELSE "on", pitch) /\ UNCHANGED sustain

RcOff(pitch) == Qnote("off", pitch) /\ UNCHANGED sustain

(* rc_control(): the pedal is noted whether or not the message finds room. *)
RcControl(pedal) == sustain' = (pedal = Down) /\ Qnote("bytes", pedal)

Arrive ==
  /\ ~draining /\ count + Pending < MaxCount
  /\ \/ \E p \in Pitches, v \in {0, 1} : RcOn(p, v)
     \/ \E p \in Pitches : RcOff(p)
     \/ \E pedal \in Pedals : RcControl(pedal)
  /\ UNCHANGED <<Qbegin, draining, Current, record, held, recording, clock, history>>
-----------------------------------------------------------------------------
(* ntrecord(): the place of n in Recorded is sought behind Recmiddle. *)
PositionOf(q, id) == CHOOSE i \in DOMAIN q : q[i].id = id

WithNote(q, middle, n) ==
  LET from == IF middle = None THEN 0 ELSE PositionOf(q, middle)
      later == {i \in from + 1 .. Len(q) : Before(n, q[i])}
  IN InsertAt(q, IF later = {} THEN Len(q) + 1 ELSE Min(later), n)

(* Recmiddle then is n, if n was the earliest note of Current, or else moves
   up to the last note before top, the time of the next scheduled event.     *)
Middles(q, middle, n, earliest) ==
  LET list == WithNote(q, middle, n)
      first == IF middle # None THEN middle ELSE IF q = <<>> THEN None ELSE q[1].id
      reach(top) == {i \in DOMAIN list :
        /\ i >= PositionOf(list, first)
        /\ \A k \in PositionOf(list, first) + 1 .. i : top = None \/ list[k].time < top}
  IN IF earliest # None THEN {IF earliest = n.id THEN n.id ELSE first}
     ELSE IF first = None THEN {None}
     ELSE {list[Max(reach(top))].id : top \in {None} \cup 0 .. MaxClock}

(* n into the phrase p, whose notes are q, to be put in order or not. *)
Add(p, q, n, middle, earliest, reorder) ==
  /\ Recphr' = p
  /\ LET list == WithNote(q, middle, n)
     IN notes' = [notes EXCEPT ![p] = IF reorder THEN Phreorder(list) ELSE list]
  /\ Recmiddle' \in Middles(q, middle, n, earliest)
  /\ Earliest' = IF earliest = n.id THEN None ELSE earliest

Other == CHOOSE p \in Phr : p # Recphr

(* A use of Recorded besides its own. *)
Shared == used[Recphr] > 1

(* Mutant of AddFresh: the phrase is not copied. *)
AddShared(n, earliest, reorder) ==
  Add(Recphr, notes[Recphr], n, Recmiddle, earliest, reorder) /\ UNCHANGED used

(* Mutant of AddFresh: the new phrase is left empty. *)
AddEmpty(n, earliest, reorder) ==
  IF Shared
  THEN /\ used' = [used EXCEPT ![Recphr] = @ - 1, ![Other] = 1]
       /\ Add(Other, <<>>, n, None, None, reorder)
  ELSE Add(Recphr, notes[Recphr], n, Recmiddle, earliest, reorder) /\ UNCHANGED used

(* Mutant of AddFresh: no phdecruse() of the old phrase. *)
AddLeaks(n, earliest, reorder) ==
  IF Shared
  THEN used' = [used EXCEPT ![Other] = 1] /\ Add(Other, notes[Recphr], n, None, None, reorder)
  ELSE Add(Recphr, notes[Recphr], n, Recmiddle, earliest, reorder) /\ UNCHANGED used

(* A shared phrase is copied, and the search begins at the start of it. *)
AddFresh(n, earliest, reorder) ==
  IF Shared
  THEN /\ used' = [used EXCEPT ![Recphr] = @ - 1, ![Other] = 1]
       /\ Add(Other, notes[Recphr], n, None, None, reorder)
  ELSE /\ Add(Recphr, notes[Recphr], n, Recmiddle, earliest, reorder)
       /\ UNCHANGED used

Ntrecord(n, earliest) ==
  IF recording THEN AddFresh(n, earliest, FALSE)
  ELSE Earliest' = earliest /\ UNCHANGED <<notes, used, Recphr, Recmiddle>>
-----------------------------------------------------------------------------
(* chkinput() *)
Id == count + 1
Note(type, pitch, time, dur, id) ==
  [type |-> type, pitch |-> pitch, time |-> time, dur |-> dur, id |-> id]

(* What should come of a message: a note off ends the latest note of its pitch
   and that note should be recorded, from its note on.                         *)
Hear(q) ==
  LET mine == {n \in sounding : n.pitch = q.pitch}
      ended == CHOOSE n \in mine : \A m \in mine : m.id <= n.id
      record1(n) == heard' = IF recording THEN heard \cup {n} ELSE heard
  IN /\ count' = Id
     /\ \/ /\ q.type = "on" /\ heard' = heard
           /\ sounding' = sounding \cup {[time |-> q.time, pitch |-> q.pitch, id |-> Id]}
        \/ /\ q.type = "off" /\ mine # {} /\ sounding' = sounding \ {ended}
           /\ record1(Note(NT_NOTE, q.pitch, ended.time, q.time - ended.time, ended.id))
        \/ q.type = "off" /\ mine = {} /\ UNCHANGED <<sounding, heard>>
        \/ /\ q.type = "bytes" /\ sounding' = sounding
           /\ record1(Note(NT_BYTES, q.pitch, q.time, 0, Id))

StartDrain ==
  /\ ~draining /\ Qavail # Qbegin /\ draining' = TRUE
  /\ UNCHANGED <<queue, Current, record, held, recording, sustain, clock, history>>

(* The message at Qbegin; Qbegin moves on when its handler returns. *)
Handling(type) ==
  /\ draining /\ Qavail # Qbegin /\ count < MaxCount
  /\ Noteq[Qbegin].type = type
  /\ Qbegin' = NextSlot(Qbegin)
  /\ UNCHANGED <<Noteq, Qavail, draining, held, recording, sustain, clock>>

HandleOn ==
  /\ Handling("on")
  /\ Current' = <<[time |-> Noteq[Qbegin].time, pitch |-> Noteq[Qbegin].pitch, id |-> Id]>>
                \o Current
  /\ UNCHANGED record

(* Mutant of Latest: the oldest note of the pitch. *)
Oldest(pitch) == Max({i \in DOMAIN Current : Current[i].pitch = pitch})

(* The note a note off of this pitch ends. *)
Latest(pitch) == Min({i \in DOMAIN Current : Current[i].pitch = pitch})

IsOn(pitch) == \E i \in DOMAIN Current : Current[i].pitch = pitch

(* What noteoff() and notemess() record. *)
Ended(n, q) == Note(NT_NOTE, n.pitch, n.time, q.time - n.time, n.id)
Sent(q) == Note(NT_BYTES, q.pitch, q.time, 0, Id)

EarliestAfter(i) == IF i = Len(Current) THEN Current[i].id ELSE None

HandleOff ==
  LET q == Noteq[Qbegin]
      i == Latest(q.pitch)
  IN /\ Handling("off") /\ IsOn(q.pitch)
     /\ Current' = RemoveAt(Current, i)
     /\ Ntrecord(Ended(Current[i], q), EarliestAfter(i))

(* The note on was lost, or finishoff() has ended the note. *)
HandleStrayOff ==
  /\ Handling("off")
  /\ ~IsOn(Noteq[Qbegin].pitch)
  /\ UNCHANGED <<Current, record>>

HandleBytes ==
  /\ Handling("bytes")
  /\ Ntrecord(Sent(Noteq[Qbegin]), Earliest)
  /\ UNCHANGED Current

Handle == HandleOn \/ HandleOff \/ HandleStrayOff \/ HandleBytes

EndDrain ==
  /\ draining /\ Qavail = Qbegin /\ draining' = FALSE
  /\ UNCHANGED <<queue, Current, record, held, recording, sustain, clock, history>>
-----------------------------------------------------------------------------
(* The rest of the program, between two calls of chkinput(). *)
Tick ==
  /\ ~draining /\ clock < MaxClock /\ clock' = clock + 1
  /\ UNCHANGED <<queue, draining, Current, record, held, recording, sustain, history>>

(* x = Recorded: a phrase that nothing uses any more is freed. *)
Keep ==
  /\ ~draining /\ held # Recphr /\ held' = Recphr
  /\ used' = [used EXCEPT ![Recphr] = 2, ![Other] = 0]
  /\ notes' = [notes EXCEPT ![Other] = <<>>]
  /\ UNCHANGED <<queue, draining, Current, Recphr, Recmiddle, Earliest, recording, sustain,
                 clock, history>>

Release ==
  /\ ~draining /\ held # None /\ held' = None
  /\ used' = [used EXCEPT ![Recphr] = 1, ![Other] = 0]
  /\ notes' = [notes EXCEPT ![Other] = <<>>]
  /\ UNCHANGED <<queue, draining, Current, Recphr, Recmiddle, Earliest, recording, sustain,
                 clock, history>>

(* Record = 0, Record = 1 *)
SetRecord ==
  /\ ~draining /\ count < MaxCount /\ recording' = ~recording /\ count' = Id
  /\ UNCHANGED <<queue, draining, Current, record, held, sustain, clock, sounding, heard>>

(* execnt(), with Recsched: a scheduled note that is due. *)
Play ==
  /\ ~draining /\ count < MaxCount
  /\ \E p \in Pitches :
       LET n == Note(NT_NOTE, p, clock, 1, Id) IN
       /\ Ntrecord(n, Earliest)
       /\ heard' = IF recording THEN heard \cup {n} ELSE heard
  /\ count' = Id
  /\ UNCHANGED <<queue, draining, Current, held, recording, sustain, clock, sounding>>

(* Recorded |= p, of a Recorded that nothing else uses: phrmerge() links the
   notes anew and Recmiddle stays where it is.                               *)
Merge ==
  /\ ~draining /\ ~Shared /\ count < MaxCount
  /\ \E p \in Pitches :
       LET n == Note(NT_NOTE, p, clock, 1, Id) IN
       /\ notes' = [notes EXCEPT ![Recphr] = Phrmerge(<<n>>, @, 0)]
       /\ heard' = heard \cup {n}
  /\ count' = Id
  /\ UNCHANGED <<queue, draining, Current, used, Recphr, Recmiddle, Earliest, held, recording,
                 sustain, clock, sounding>>

(* finishoff(): the notes of Current are dropped, a pedal that is down is
   released and recorded so, and Recorded is put in order.  resetreal() calls
   it with the time -1.                                                       *)
FinishOff ==
  /\ ~draining /\ count < MaxCount /\ Current' = <<>> /\ sustain' = FALSE
  /\ \E now \in {-1, clock} :
       LET n == Note(NT_BYTES, Up, now, 0, Id) IN
       IF sustain /\ recording
       THEN AddFresh(n, Earliest, TRUE) /\ heard' = heard \cup {n}
       ELSE /\ notes' = [notes EXCEPT ![Recphr] = Phreorder(@)]
            /\ UNCHANGED <<used, Recphr, Recmiddle, Earliest, heard>>
  /\ count' = Id /\ sounding' = {}
  /\ UNCHANGED <<queue, draining, held, recording, clock>>

Next ==
  \/ Arrive \/ StartDrain \/ (Handle /\ Hear(Noteq[Qbegin])) \/ EndDrain
  \/ Tick \/ Keep \/ Release \/ SetRecord \/ Play \/ Merge \/ FinishOff

Spec == Init /\ [][Next]_vars
-----------------------------------------------------------------------------
NotesOf(p) == {notes[p][i] : i \in DOMAIN notes[p]}
Ids(p) == {n.id : n \in NotesOf(p)}

(* Recmiddle points to a note of Recorded. *)
TypeOK ==
  /\ Qbegin \in Slots /\ Qavail \in Slots
  /\ Recphr \in Phr /\ held \in Phr \cup {None}
  /\ \A p \in Phr : used[p] = Cardinality({r \in {"Recorded", "x"} :
                                 p = IF r = "x" THEN held ELSE Recphr})
  /\ Recmiddle \in Ids(Recphr) \cup {None}
  /\ \A n \in NotesOf(Recphr) : n.dur >= 0

(* Recorded holds each note once that was played while Record was on, from its
   note on to its own note off, whichever other notes, copies and finishoff()s
   came in between, and each message; and nothing else.                        *)
RecordedExact ==
  NotesOf(Recphr) = heard /\ Cardinality(heard) = Len(notes[Recphr])

(* Current holds the notes that are on, latest first. *)
CurrentExact ==
  /\ {Current[i] : i \in DOMAIN Current} = sounding
  /\ \A i, k \in DOMAIN Current : i < k => Current[i].id > Current[k].id

(* Recording does not change the notes of a phrase that a variable keeps,
   although it is, until the next note, the same phrase as Recorded.        *)
HeldUnchanged ==
  [][held # None /\ held' = held => NotesOf(held)' = NotesOf(held)]_vars

(* Noteq is a queue of Noteqsize - 1 messages. *)
Waiting ==
  [k \in 1 .. Pending |-> Noteq[(Qbegin + k - 1) % Noteqsize]]

Queued == INSTANCE NoteQueue WITH
  Capacity <- Noteqsize - 1,
  Message <- [type : {"on", "off"}, pitch : Pitches, time : 0 .. MaxClock]
               \cup [type : {"bytes"}, pitch : Pedals, time : 0 .. MaxClock],
  waiting <- Waiting

ImplementsNoteQueue == Queued!Spec
=============================================================================
