------------------------------- MODULE Sched -------------------------------
(***************************************************************************)
(* The schedule of KeyKit: the list Topsched of phrases to play, notes to  *)
(* turn off and tasks to wake, in order of their clicks; realtime(),       *)
(* sleeptill() and kill() add to it and take away from it, and chkoutput() *)
(* walks over it whenever Now has advanced, playing with execnt() what is  *)
(* due.  The messages of one walk are kept in three buffers and sent       *)
(* together at its end.                                                    *)
(*                                                                         *)
(* The walk is unfolded into one action per note.  Times are relative to   *)
(* Now: due = clicks - Now.  Whether a task that is woken or ended had     *)
(* others waiting for it is in Tasks.tla.                                  *)
(***************************************************************************)
EXTENDS Integers, Sequences, FiniteSets, SequencesExt, Lists

CONSTANTS
  Task,          (* the Ktask structs of scheduled phrases                   *)
  Sleeper,       (* the tasks that call sleeptill()                          *)
  Pitch,
  Phrase,        (* the phrases that programs play: sequences of notes       *)
  Delay,         (* when they start, and sleepers wake, as seen from Now     *)
  Repeat,        (* the third argument of realtime(); 0: not repeated        *)
  Maxatonce,     (* how many messages a buffer holds                         *)
  Midithrottle,  (* how many entries, less one, a walk may handle            *)
  MaxJump,       (* bound: clicks between two walks                          *)
  MaxLate        (* bound: how late the first entry may be                   *)

Note == [time : Nat, type : {"note", "on", "off"}, pitch : Pitch, dur : Nat]

ASSUME SchedAssumption ==
  /\ Phrase \subseteq Seq(Note) \ {<<>>}
  /\ \A p \in Phrase : \A i, j \in DOMAIN p : i <= j => p[i].time <= p[j].time
  /\ Task \cap Sleeper = {} /\ "user" \notin Pitch
  /\ Delay \subseteq Int /\ Repeat \subseteq Nat
  /\ {Maxatonce, Midithrottle, MaxJump, MaxLate} \subseteq Nat

VARIABLES
  Topsched, schedcnt,
  Onmsg, Offmsg, Offmsg2,  (* the buffers; Numon and so on are their lengths *)
  s,                       (* the place of the walk in Topsched, 0 between  *)
  throttle, sametime,      (* ... and within one chord                      *)
  sounding,                (* notes of full length that are on, by pitch    *)
  cut                      (* an error cut a walk short, or finishoff() was called *)

buffers == <<Onmsg, Offmsg, Offmsg2>>
walk == <<s, throttle, sametime>>
vars == <<Topsched, schedcnt, buffers, walk, sounding, cut>>

Owners == Task \cup Sleeper
EntriesOf(x) == {i \in DOMAIN Topsched : Topsched[i].task = x}
OffsOf(q, p) ==
  {i \in DOMAIN q : q[i].type = "noteoff" /\ q[i].phr[1].pitch = p}

Init ==
  /\ Topsched = <<>> /\ schedcnt = [t \in Task |-> 0]
  /\ Onmsg = <<>> /\ Offmsg = <<>> /\ Offmsg2 = <<>>
  /\ s = 0 /\ throttle = 0 /\ sametime = FALSE
  /\ sounding = [p \in Pitch |-> 0] /\ cut = FALSE

-----------------------------------------------------------------------------
(* Entries, and their place in the list.                                    *)

PhraseEntry(t, p, due, rep) ==
  [type |-> "phrase", due |-> due, task |-> t, phr |-> p, note |-> 1, repeat |-> rep]

OffNote(p) == [time |-> 0, type |-> "off", pitch |-> p, dur |-> 0]
OffEntry(t, p, due) ==
  [type |-> "noteoff", due |-> due, task |-> t, phr |-> <<OffNote(p)>>, note |-> 1,
   repeat |-> 0]

WakeEntry(t, due) ==
  [type |-> "wake", due |-> due, task |-> t, phr |-> <<>>, note |-> 0, repeat |-> 0]

(* immsched(): after the entries of the same time *)
Place(q, due) ==
  LET k == SelectInSeq(q, LAMBDA e : due < e.due) IN IF k = 0 THEN Len(q) + 1 ELSE k

Insert(q, e) == LET k == Place(q, e.due) IN SubSeq(q, 1, k - 1) \o <<e>> \o SubSeq(q, k, Len(q))

-----------------------------------------------------------------------------
(* What programs do between two walks.                                      *)

Idle == s = 0

(* bi_realtime(), taskphr(), for a phrase that has notes *)
Realtime(t, p, d, r) ==
  /\ Idle /\ schedcnt[t] = 0
  /\ Topsched' = Insert(Topsched, PhraseEntry(t, p, d + p[1].time, r))
  /\ schedcnt' = [schedcnt EXCEPT ![t] = 1]
  /\ UNCHANGED <<buffers, walk, sounding, cut>>

(* bi_sleeptill(), schdwake() *)
SleepTill(t, d) ==
  /\ Idle /\ EntriesOf(t) = {} /\ d > 0
  /\ Topsched' = Insert(Topsched, WakeEntry(t, d))
  /\ UNCHANGED <<schedcnt, buffers, walk, sounding, cut>>

AfterOffs(n, p, k) == IF n[p] > k THEN n[p] - k ELSE 0

(* The schedule without the entries of dead *)
Without(q, dead) == Kept(q, {i \in DOMAIN q : q[i].task \notin dead})

(* unsched() of each of dead: the notes that are on are turned off. *)
Unscheduled(dead) ==
  /\ Topsched' = Without(Topsched, dead)
  /\ schedcnt' = [t \in Task |-> IF t \in dead THEN 0 ELSE schedcnt[t]]
  /\ sounding' = [p \in Pitch |->
       AfterOffs(sounding, p,
         Cardinality({i \in OffsOf(Topsched, p) : Topsched[i].task \in dead}))]

(* Mutant of Kill: unsched() takes the entries away and sends nothing. *)
KillSilently(x) ==
  /\ Idle /\ EntriesOf(x) # {}
  /\ Topsched' = Without(Topsched, {x})
  /\ schedcnt' = [t \in Task |-> IF t = x THEN 0 ELSE schedcnt[t]]
  /\ UNCHANGED <<sounding, buffers, walk, cut>>

(* taskbury() *)
Kill(x) ==
  /\ Idle /\ EntriesOf(x) # {}
  /\ Unscheduled({x})
  /\ UNCHANGED <<buffers, walk, cut>>

(* bi_finishoff(): the entries stay, and turn the notes off once more. *)
FinishOff ==
  /\ Idle
  /\ sounding' = [p \in Pitch |->
                    AfterOffs(sounding, p, Cardinality(OffsOf(Topsched, p)))]
  /\ cut' = TRUE
  /\ UNCHANGED <<Topsched, schedcnt, buffers, walk>>

(* resetreal(), on the way to a reboot: finishoff() and clrsched() *)
Reset ==
  /\ Idle
  /\ sounding' = [p \in Pitch |->
                    AfterOffs(sounding, p, Cardinality(OffsOf(Topsched, p)))]
  /\ Topsched' = <<>> /\ schedcnt' = [t \in Task |-> 0]
  /\ UNCHANGED <<buffers, walk, cut>>

-----------------------------------------------------------------------------
(* chkoutput()                                                              *)

(* Mutant of Throttle: not set again for each walk. *)
ThrottleKept == throttle

Throttle == IF Midithrottle > Maxatonce THEN Maxatonce - 1 ELSE Midithrottle

(* Now has advanced by d clicks. *)
Begin(d) ==
  /\ Idle
  /\ Topsched # <<>> => Topsched[1].due - d >= - MaxLate
  /\ Topsched' = [i \in DOMAIN Topsched |-> [Topsched[i] EXCEPT !.due = @ - d]]
  /\ s' = 1 /\ sametime' = FALSE
  /\ throttle' = Throttle
  /\ Onmsg' = <<>> /\ Offmsg' = <<>> /\ Offmsg2' = <<>>
  /\ UNCHANGED <<schedcnt, sounding, cut>>

(* The walk comes to an entry that it handles. *)
Handles ==
  s # 0 /\ (sametime \/ (s <= Len(Topsched) /\ Topsched[s].due <= 0 /\ throttle > 1))

CountOf(q, p) == Cardinality({i \in DOMAIN q : q[i] = p})

(* The messages are sent: note-offs, note-ons, and note-offs that follow them. *)
Send ==
  /\ s # 0 /\ ~Handles
  /\ sounding' = [p \in Pitch |->
       AfterOffs([sounding EXCEPT ![p] =
                    AfterOffs(sounding, p, CountOf(Offmsg, p)) + CountOf(Onmsg, p)],
                 p, CountOf(Offmsg2, p))]
  /\ s' = 0 /\ throttle' = 0 /\ Onmsg' = <<>> /\ Offmsg' = <<>> /\ Offmsg2' = <<>>
  /\ UNCHANGED <<Topsched, schedcnt, sametime, cut>>

WakeUp ==
  /\ Handles /\ Topsched[s].type = "wake"
  /\ Topsched' = RemoveAt(Topsched, s)
  /\ throttle' = throttle - 1
  /\ UNCHANGED <<schedcnt, buffers, s, sametime, sounding, cut>>

(* execnt(): the note it plays, and the entry it belongs to *)
Playing == Handles /\ Topsched[s].type # "wake"
Entry == Topsched[s]
TheNote == Entry.phr[Entry.note]

IsOn(n) == n.type \in {"note", "on"}
Full == Len(IF IsOn(TheNote) THEN Onmsg ELSE Offmsg) >= Maxatonce

(* What the buffers hold: the pitches of notes of full length; "user" for notes that
   programs turn on and off themselves.                                           *)
Message(e, n) == IF n.type = "note" \/ e.type = "noteoff" THEN n.pitch ELSE "user"

(* A note that is over by the time it starts: its end follows in Offmsg2. *)
Over(e, n) == n.type = "note" /\ (n.dur = 0 \/ e.due + n.dur <= 0)

Buffered(e, n) ==
  /\ Onmsg' = IF IsOn(n) THEN Append(Onmsg, Message(e, n)) ELSE Onmsg
  /\ Offmsg' = IF e.type = "noteoff" THEN Append(Offmsg, Message(e, n)) ELSE Offmsg
  /\ Offmsg2' = IF Over(e, n) \/ (~IsOn(n) /\ e.type # "noteoff")
                THEN Append(Offmsg2, Message(e, n)) ELSE Offmsg2

(* The schedule q with the end of n, and with the repetition of the phrase. *)
OffScheduled(q, e, n) ==
  IF n.type = "note" /\ ~Over(e, n)
  THEN Insert(q, OffEntry(e.task, n.pitch, e.due + n.dur)) ELSE q

RepeatScheduled(q, e) ==
  IF e.repeat > 0 /\ e.note = 1
  THEN Insert(q, PhraseEntry(e.task, e.phr, e.due + e.repeat + e.phr[1].time, e.repeat))
  ELSE q

(* Mutant of MoveOn: the entry keeps its place. *)
MoveOnNot(q, e) == ReplaceAt(q, s, e)

(* e, the entry at s, moves on in q. *)
MoveOn(q, e) == SubSeq(q, 1, s - 1) \o Insert(SubSeq(q, s + 1, Len(q)), e)

(* Mutant of Held: the end of a note is not counted. *)
HeldPhrases(t, q) ==
  Cardinality({i \in DOMAIN q : q[i].task = t /\ q[i].type = "phrase"})
    - Cardinality({i \in EntriesOf(t) : Topsched[i].type = "phrase"})

(* By how many entries of t the schedule q is longer than Topsched. *)
Held(t, q) == Len(q) - Len(Topsched)

(* The next note of the phrase is in the same chord. *)
SameTime(e) == e.note < Len(e.phr) /\ e.phr[e.note + 1].time = e.phr[e.note].time

(* The rest of execnt(), q is the schedule so far: on to the next note of the phrase,
   at once if it has the same time; otherwise the entry moves on in the list, and the
   walk goes on behind it.  After the last note freesch() frees the entry.          *)
GoOn(q) ==
  LET e == Entry
      last == e.note = Len(e.phr)
      gap == e.phr[e.note + 1].time - TheNote.time
      next == [e EXCEPT !.note = @ + 1, !.due = @ + gap]
  IN  /\ throttle' = IF sametime THEN throttle ELSE throttle - 1
      /\ sametime' = SameTime(e)
      /\ schedcnt' = [schedcnt EXCEPT ![e.task] =
                        @ + Held(e.task, q) - (IF last THEN 1 ELSE 0)]
      /\ IF last THEN Topsched' = RemoveAt(q, s) /\ s' = s
         ELSE IF SameTime(e) THEN Topsched' = ReplaceAt(q, s, next) /\ s' = s
         ELSE /\ Topsched' = MoveOn(q, next)
              /\ s' = s + Place(SubSeq(q, s + 1, Len(q)), next.due)

PlayNote ==
  /\ Playing /\ ~Full
  /\ Buffered(Entry, TheNote)
  /\ \E q \in {RepeatScheduled(OffScheduled(Topsched, Entry, TheNote), Entry)} : GoOn(q)
  /\ UNCHANGED <<sounding, cut>>

(* toomany(): execerror() leaves the walk for good, with nothing sent, and kills dead,
   the family of the task that was running, if any ...                             *)
TooMany(dead) ==
  /\ Playing /\ Full
  /\ Unscheduled(dead)
  /\ s' = 0 /\ throttle' = 0 /\ sametime' = FALSE /\ cut' = TRUE
  /\ Onmsg' = <<>> /\ Offmsg' = <<>> /\ Offmsg2' = <<>>

(* ... or, within two seconds from the start of the clock, it returns: the messages of
   one buffer and the note are dropped.                                             *)
TooManySoon ==
  /\ Playing /\ Full
  /\ Onmsg' = (IF IsOn(TheNote) THEN <<>> ELSE Onmsg)
  /\ Offmsg' = (IF IsOn(TheNote) THEN Offmsg ELSE <<>>)
  /\ \E q \in {RepeatScheduled(Topsched, Entry)} : GoOn(q)
  /\ cut' = TRUE
  /\ UNCHANGED <<Offmsg2, sounding>>

-----------------------------------------------------------------------------
Programs ==
  \/ \E t \in Task, p \in Phrase, d \in Delay, r \in Repeat : Realtime(t, p, d, r)
  \/ \E t \in Sleeper, d \in Delay : SleepTill(t, d)
  \/ \E x \in Owners : Kill(x)
  \/ FinishOff \/ Reset

Walk == Send \/ WakeUp \/ PlayNote \/ TooManySoon \/ \E dead \in SUBSET Owners : TooMany(dead)

Next == Programs \/ Walk \/ \E d \in 1 .. MaxJump : Begin(d)

Spec == Init /\ [][Next]_vars

(* chkoutput() is a C loop, and exectasks() calls it again after every pass over the
   tasks (that passes end is PassEnds of RunList.tla).                              *)
FairSpec == Spec /\ WF_vars(Walk \/ \E d \in 1 .. MaxJump : Begin(d))

-----------------------------------------------------------------------------
PhraseEntries ==
  {e \in [type : {"phrase"}, due : Int, task : Task, phr : Phrase, note : Nat, repeat : Repeat] :
     e.note \in DOMAIN e.phr}
OffEntries ==
  [type : {"noteoff"}, due : Int, task : Task, phr : {<<OffNote(p)>> : p \in Pitch},
   note : {1}, repeat : {0}]
WakeEntries ==
  [type : {"wake"}, due : Int, task : Sleeper, phr : {<<>>}, note : {0}, repeat : {0}]
Entries == PhraseEntries \cup OffEntries \cup WakeEntries

TypeOK ==
  /\ Topsched \in Seq(Entries) /\ schedcnt \in [Task -> Int]
  /\ {Onmsg, Offmsg, Offmsg2} \subseteq Seq(Pitch \cup {"user"})
  /\ s \in 0 .. Len(Topsched) + 1 /\ throttle \in Int /\ sametime \in BOOLEAN
  /\ sounding \in [Pitch -> Nat] /\ cut \in BOOLEAN

(* "Topsched list is sorted, so is safe to break early" (chkoutput): also while
   execnt() adds note-offs and repetitions and moves entries on, in the list that
   chkoutput() is walking over.                                                *)
Sorted == \A i, j \in DOMAIN Topsched : i < j => Topsched[i].due <= Topsched[j].due

(* A phrase's task is freed, and those that wait for it are woken, by freesch() when
   schedcnt says so: exactly with the last of its entries.                        *)
CountsExact == \A t \in Task : schedcnt[t] = Cardinality(EntriesOf(t))

(* Every note that is turned on is turned off once: its end is in the schedule or in a
   buffer, whatever is killed, repeated, chorded or late.  Only a walk cut short by
   "Too many note-ons", and finishoff(), break this.                              *)
NotesEnd ==
  ~cut => \A p \in Pitch :
    sounding[p] + CountOf(Onmsg, p) =
      Cardinality(OffsOf(Topsched, p)) + CountOf(Offmsg, p) + CountOf(Offmsg2, p)

(* A phrase that is not repeated ends: execnt() comes to its last note and freesch()
   frees its task, however entries are moved and skipped, whatever else is scheduled and
   whichever walks are cut short, as long as walks may handle what falls due.        *)
PhraseEnds ==
  \A t \in Task :
    schedcnt[t] > 0 /\ (\A i \in EntriesOf(t) : Topsched[i].repeat = 0) ~> schedcnt[t] = 0
=============================================================================
