---------------------------- MODULE RecordPolls ----------------------------
(***************************************************************************)
(* Record, when phcopy() polls.  For every Throttle2 notes it has copied   *)
(* it calls chkinput(), and ntrecord() calls it from inside chkinput(): a  *)
(* second chkinput() then takes messages out of Noteq from the one on that *)
(* the first has not finished, and records in the phrase being copied.     *)
(***************************************************************************)
EXTENDS Record

VARIABLE copying   (* the note to record, what has been copied so far, and *)
                   (* the slot of Noteq the note is from                   *)

InitPolls == Init /\ copying = None

(* noteoff() or notemess(), up to the poll in phcopy(): ntrecord() has given
   the use of Recorded back, and Recorded is still the old phrase.           *)
BeginCopy ==
  LET q == Noteq[Qbegin]
      i == Latest(q.pitch)
      poll(n) == \E k \in DOMAIN notes[Recphr] :
                   copying' = [note |-> n, done |-> SubSeq(notes[Recphr], 1, k), slot |-> Qbegin]
  IN /\ copying = None /\ draining /\ Qavail # Qbegin /\ recording /\ Shared
     /\ count < MaxCount /\ Hear(q)
     /\ \/ /\ q.type = "off" /\ IsOn(q.pitch)
           /\ poll(Ended(Current[i], q))
           /\ Current' = RemoveAt(Current, i) /\ Earliest' = EarliestAfter(i)
        \/ /\ q.type = "bytes" /\ poll(Sent(q))
           /\ UNCHANGED <<Current, Earliest>>
     /\ used' = [used EXCEPT ![Recphr] = @ - 1]
     /\ UNCHANGED <<queue, draining, notes, Recphr, Recmiddle, held, recording, sustain, clock>>

(* The second chkinput() is done: the rest is copied, the note recorded, and
   the first chkinput() goes on to the next message.                         *)
EndCopy ==
  LET source == notes[Recphr]
      at == PositionOf(source, Last(copying.done).id)
  IN /\ copying # None /\ Qavail = Qbegin
     /\ Add(Other, copying.done \o SubSeq(source, at + 1, Len(source)), copying.note,
            None, None, FALSE)
     /\ used' = [used EXCEPT ![Other] = 1]
     /\ copying' = None
     /\ Qbegin' = NextSlot(Qbegin)
     /\ UNCHANGED <<Noteq, Qavail, draining, Current, held, recording, sustain, clock, history>>

(* The history hears each message once. *)
HandleAgain ==
  /\ copying # None /\ Handle /\ UNCHANGED copying
  /\ IF Qbegin = copying.slot THEN count' = Id /\ UNCHANGED <<sounding, heard>>
     ELSE Hear(Noteq[Qbegin])

NextPolls ==
  \/ copying = None /\ Next /\ UNCHANGED copying
  \/ BeginCopy
  \/ HandleAgain
  \/ EndCopy

SpecPolls == InitPolls /\ [][NextPolls]_<<vars, copying>>

(* "Recorded ... contains a complete copy of all MIDI input" (language.xml):
   each note and message is there once, when nothing is being copied.       *)
RecordedComplete == copying = None => RecordedExact
=============================================================================
