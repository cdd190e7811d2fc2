----------------------------- MODULE MidiParser -----------------------------
(***************************************************************************)
(* midiparse(): the machine that cuts the bytes of a MIDI input port into  *)
(* messages and calls a function of the table Midi for each.  chkinput()   *)
(* feeds it one byte at a time; startrealtime() has reset it and has put   *)
(* in the table a function for every message but active sensing.           *)
(***************************************************************************)
EXTENDS Integers, Sequences, Lists

CONSTANTS
  Byte,         (* the bytes that may come in                                  *)
  MESSAGESIZE,  (* by how much the message buffer grows; 256 in the code       *)
  MaxInput      (* bound: bytes that come in                                   *)

ASSUME ParserAssumption ==
  Byte \subseteq 0 .. 255 /\ MESSAGESIZE \in Nat \ {0} /\ MaxInput \in Nat

VARIABLES
  State, Currfunc, Currchan, Runnable,
  Message,   (* Currmessage[0 .. Messindex - 1]                                *)
  Messleng,
  input,     (* the bytes so far                                               *)
  called     (* the calls that the last byte led to: function, message and,    *)
             (* if the function looks at it, Currchan                          *)

vars == <<State, Currfunc, Currchan, Runnable, Message, Messleng, input, called>>

IsData(b) == b < 128
IsChannel(b) == b \in 128 .. 239
IsSystem(b) == b \in 240 .. 247
IsRealTime(b) == b \in 248 .. 255 /\ b # 254

(* The channel and the system messages: which function of the table, and what
   State a status byte leads to.                                               *)
ChannelFunc == <<"off", "on", "pressure", "controller", "program", "chanpress",
                 "pitchbend">>
ChanFunc(b) == ChannelFunc[b \div 16 - 7]
ChanState(b) == IF b \div 16 \in {12, 13} THEN "NEEDONEBYTE" ELSE "NEEDTWOBYTES"

Defined == {240, 242, 243, 246, 247}
SysFunc(b) == CASE b = 240 -> "sysex" [] b = 242 -> "position" [] b = 243 -> "song"
                [] b = 246 -> "tune"  [] b = 247 -> "eox"
SysState(b) == CASE b = 240 -> "VARIABLELENGTH" [] b = 242 -> "NEEDTWOBYTES"
                 [] b = 243 -> "NEEDONEBYTE" [] OTHER -> "NEEDSTATUS"

(* realmess(); 249 and 253 mean nothing. *)
RealFunc == [b \in {248, 250, 251, 252, 255} |->
               CASE b = 248 -> "timing" [] b = 250 -> "start" [] b = 251 -> "continue"
                 [] b = 252 -> "stop" [] b = 255 -> "reset"]
RealCall(b) == IF b \in DOMAIN RealFunc THEN << <<RealFunc[b], <<b>>, 0>> >> ELSE <<>>

Call(f, mess, chan) ==
  << <<f, mess, IF \E i \in 1 .. 7 : f = ChannelFunc[i] THEN chan ELSE 0>> >>

(* midiparse(-1) *)
Init ==
  /\ Message = <<144>> /\ Messleng = MESSAGESIZE
  /\ State = "NEEDTWOBYTES" /\ Currfunc = "on" /\ Currchan = 0 /\ Runnable = TRUE
  /\ input = <<>> /\ called = <<>>

-----------------------------------------------------------------------------
(* Mutant of Grow: the buffer grows one byte too late. *)
GrowLate == IF Len(Message) > Messleng THEN Messleng + MESSAGESIZE ELSE Messleng

(* biggermess(), before anything is done with the byte *)
Grow == IF Len(Message) >= Messleng THEN Messleng + MESSAGESIZE ELSE Messleng

Receive(b) ==
  /\ b \in Byte /\ Len(input) < MaxInput
  /\ input' = Append(input, b) /\ Messleng' = Grow

(* Any byte with the high bit, but 254, ends a sysex. *)
InSysex == State = "VARIABLELENGTH"
SysexCall ==
  IF InSysex /\ Currfunc # "NULL" THEN Call(Currfunc, Message, Currchan) ELSE <<>>

ActiveSensing(b) ==
  /\ Receive(b) /\ b = 254
  /\ called' = <<>>
  /\ UNCHANGED <<State, Currfunc, Currchan, Runnable, Message>>

RealTime(b) ==
  /\ Receive(b) /\ IsRealTime(b)
  /\ called' = SysexCall \o RealCall(b)
  /\ State' = IF InSysex THEN "NEEDSTATUS" ELSE State
  /\ Currfunc' = IF InSysex THEN "NULL" ELSE Currfunc
  /\ UNCHANGED <<Currchan, Runnable, Message>>

(* chanmsg() *)
ChannelStatus(b) ==
  /\ Receive(b) /\ IsChannel(b)
  /\ called' = SysexCall
  /\ Message' = <<b>> /\ Currchan' = b % 16 /\ Runnable' = TRUE
  /\ Currfunc' = ChanFunc(b) /\ State' = ChanState(b)

(* sysmess(); tune requests and end-of-exclusives are over at once. *)
SystemStatus(b) ==
  /\ Receive(b) /\ b \in Defined
  /\ called' = SysexCall \o
                 (IF b \in {246, 247} THEN Call(SysFunc(b), <<b>>, 0) ELSE <<>>)
  /\ Message' = <<b>> /\ Runnable' = FALSE
  /\ Currfunc' = (IF b \in {246, 247} THEN "NULL" ELSE SysFunc(b))
  /\ State' = SysState(b)
  /\ UNCHANGED Currchan

(* sysmess() has no case for 241, 244 and 245. *)
UndefinedStatus(b) ==
  /\ Receive(b) /\ IsSystem(b) /\ b \notin Defined
  /\ called' = SysexCall
  /\ Message' = <<b>> /\ Runnable' = FALSE
  /\ Currfunc' = (IF InSysex THEN "NULL" ELSE Currfunc)
  /\ State' = (IF InSysex THEN "NEEDSTATUS" ELSE State)
  /\ UNCHANGED Currchan

(* A data byte that completes no message: one of a sysex, the first of two, or one
   that is not expected.                                                        *)
DataStored(b) ==
  /\ Receive(b) /\ IsData(b)
  /\ \/ State \in {"NEEDSTATUS", "VARIABLELENGTH"}
     \/ State = "NEEDTWOBYTES" /\ Len(Message) + 1 < 3
  /\ Message' = Append(Message, b) /\ called' = <<>>
  /\ UNCHANGED <<State, Currfunc, Currchan, Runnable>>

Completes(b) ==
  /\ Receive(b) /\ IsData(b)
  /\ \/ State = "NEEDONEBYTE"
     \/ State = "NEEDTWOBYTES" /\ Len(Message) + 1 >= 3
  /\ called' = IF Currfunc # "NULL"
               THEN Call(Currfunc, Append(Message, b), Currchan) ELSE <<>>
  /\ UNCHANGED <<Currchan, Runnable>>

(* Mutant of DataCompletes: the message is not cut back to its status byte. *)
DataCompletesKeeps(b) ==
  /\ Completes(b)
  /\ Message' = Append(Message, b)
  /\ State' = (IF Runnable THEN State ELSE "NEEDSTATUS")
  /\ Currfunc' = (IF Runnable THEN Currfunc ELSE "NULL")

(* Running status: the next message needs no status byte. *)
DataCompletes(b) ==
  /\ Completes(b)
  /\ Message' = (IF Runnable THEN <<Message[1]>> ELSE Append(Message, b))
  /\ State' = (IF Runnable THEN State ELSE "NEEDSTATUS")
  /\ Currfunc' = (IF Runnable THEN Currfunc ELSE "NULL")

Next ==
  \E b \in Byte :
    \/ ActiveSensing(b) \/ RealTime(b) \/ ChannelStatus(b) \/ SystemStatus(b)
    \/ UndefinedStatus(b) \/ DataStored(b) \/ DataCompletes(b)

Spec == Init /\ [][Next]_vars

-----------------------------------------------------------------------------
(* What the bytes mean, read off the whole input.                          *)

IsStatus(b) == IsChannel(b) \/ IsSystem(b)

(* The position of the last status byte before i; 0, the status of notes, if
   there is none.                                                             *)
LastStatus(i) ==
  LET P == {j \in 1 .. i - 1 : IsStatus(input[j])}
  IN  IF P = {} THEN 0 ELSE CHOOSE j \in P : \A k \in P : k <= j
StatusAt(j) == IF j = 0 THEN 144 ELSE input[j]

DataBetween(j, i) == Kept(input, {k \in j + 1 .. i : IsData(input[k])})

(* The sysex that began before i is not over yet. *)
SysexOpen(i) ==
  LET j == LastStatus(i)
  IN  StatusAt(j) = 240 /\ \A k \in j + 1 .. i - 1 : ~IsRealTime(input[k])

Needs(s) == IF s = 243 \/ s \div 16 \in {12, 13} THEN 1 ELSE 2
LastOf(q, n) == SubSeq(q, Len(q) - n + 1, Len(q))

(* The calls that the byte at i should lead to. *)
Expected(i) ==
  LET b == input[i]
      j == LastStatus(i)
      s == StatusAt(j)
      d == DataBetween(j, i)
      n == Needs(s)
      ended == IF ~IsData(b) /\ b # 254 /\ SysexOpen(i)
               THEN << <<"sysex", <<240>> \o d, 0>> >> ELSE <<>>
  IN  CASE IsRealTime(b) -> ended \o RealCall(b)
        [] b \in {246, 247} -> ended \o << <<SysFunc(b), <<b>>, 0>> >>
        [] IsData(b) /\ IsChannel(s) /\ Len(d) % n = 0 ->
             << <<ChanFunc(s), <<s>> \o LastOf(d, n), s % 16>> >>
        [] IsData(b) /\ s \in {242, 243} /\ Len(d) = n -> << <<SysFunc(s), <<s>> \o d, 0>> >>
        [] OTHER -> ended

-----------------------------------------------------------------------------
TypeOK ==
  /\ State \in {"NEEDSTATUS", "NEEDONEBYTE", "NEEDTWOBYTES", "VARIABLELENGTH"}
  /\ Currchan \in 0 .. 15 /\ Runnable \in BOOLEAN
  /\ Message \in Seq(0 .. 255) /\ Message # <<>> /\ Messleng \in Nat
  /\ input \in Seq(Byte)

(* midiparse() calls, at each byte, the functions of the messages that the byte
   completes, with their bytes and their channel: running status goes on through
   real-time messages, which are delivered at once, and ends with a system
   message; a sysex ends with the next byte that has the high bit.  Only data
   after one of the undefined status bytes is not what it should be.            *)
AfterUndefined(i) ==
  LET s == StatusAt(LastStatus(i)) IN IsData(input[i]) /\ IsSystem(s) /\ s \notin Defined

CallsRight ==
  input # <<>> => called = Expected(Len(input)) \/ AfterUndefined(Len(input))

(* The bytes of a message are never written beyond the buffer, which is looked at
   once per byte, and before it is known what the byte is.                     *)
BufferHolds == Len(Message) <= Messleng

(* "For multi-byte messages the 'Currfunc' is set to the proper MIDI function"
   (fsm.c:22): a function is called with messages of its own kind only.       *)
FuncOf(s) ==
  IF IsChannel(s) THEN ChanFunc(s)
  ELSE IF s \in Defined THEN SysFunc(s)
  ELSE IF s \in DOMAIN RealFunc THEN RealFunc[s] ELSE "NULL"
ProperFunction == \A i \in DOMAIN called : called[i][1] = FuncOf(called[i][2][1])
=============================================================================
