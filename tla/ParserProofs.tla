---------------------------- MODULE ParserProofs ----------------------------
(* Proofs about MidiParser for any input and any MESSAGESIZE. *)
EXTENDS MidiParser, ListsProofs

LEMMA InitType == Init => TypeOK
<1> SUFFICES ASSUME Init PROVE TypeOK
  OBVIOUS
<1>1. Message \in Seq(0 .. 255) /\ Message # <<>>
  BY DEF Init
<1>2. input \in Seq(Byte)
  BY DEF Init
<1> QED BY <1>1, <1>2, ParserAssumption DEF Init, TypeOK

(* What every byte does to the buffer's length and the input. *)
LEMMA ReceiveType ==
  ASSUME TypeOK, NEW b \in Byte, Receive(b)
  PROVE  /\ Messleng' \in Nat /\ input' \in Seq(Byte) /\ b \in 0 .. 255
         /\ Messleng' >= Messleng
         /\ Len(Message) <= Messleng => Len(Message) < Messleng'
BY ParserAssumption DEF TypeOK, Receive, Grow

LEMMA StepType == TypeOK /\ [Next]_vars => TypeOK' /\ (BufferHolds => BufferHolds')
<1> SUFFICES ASSUME TypeOK, [Next]_vars PROVE TypeOK' /\ (BufferHolds => BufferHolds')
  OBVIOUS
<1>1. ASSUME NEW b \in Byte, ActiveSensing(b)
      PROVE  TypeOK' /\ (BufferHolds => BufferHolds')
  BY <1>1, ReceiveType DEF ActiveSensing, TypeOK, BufferHolds
<1>2. ASSUME NEW b \in Byte, RealTime(b)
      PROVE  TypeOK' /\ (BufferHolds => BufferHolds')
  BY <1>2, ReceiveType DEF RealTime, TypeOK, BufferHolds
<1>3. ASSUME NEW b \in Byte, Receive(b), Message' = <<b>>
      PROVE  /\ Message' \in Seq(0 .. 255) /\ Message' # <<>>
             /\ BufferHolds => BufferHolds'
  BY <1>3, ReceiveType DEF TypeOK, BufferHolds
<1>4. ASSUME NEW b \in Byte, ChannelStatus(b)
      PROVE  TypeOK' /\ (BufferHolds => BufferHolds')
  <2>1. Receive(b) /\ Message' = <<b>>
    BY <1>4 DEF ChannelStatus
  <2>2. Currchan' \in 0 .. 15
    <3>1. b \in 0 .. 255 /\ Currchan' = b % 16
      BY <1>4, <2>1, ReceiveType DEF ChannelStatus
    <3> QED BY <3>1
  <2> QED BY <1>3, <1>4, <2>1, <2>2, ReceiveType DEF ChannelStatus, ChanState, TypeOK
<1>5. ASSUME NEW b \in Byte, SystemStatus(b)
      PROVE  TypeOK' /\ (BufferHolds => BufferHolds')
  <2>1. Receive(b) /\ Message' = <<b>>
    BY <1>5 DEF SystemStatus
  <2>2. SysState(b) \in {"NEEDSTATUS", "NEEDONEBYTE", "NEEDTWOBYTES", "VARIABLELENGTH"}
    BY DEF SysState
  <2> QED BY <1>3, <1>5, <2>1, <2>2, ReceiveType DEF SystemStatus, TypeOK
<1>6. ASSUME NEW b \in Byte, UndefinedStatus(b)
      PROVE  TypeOK' /\ (BufferHolds => BufferHolds')
  <2>1. Receive(b) /\ Message' = <<b>>
    BY <1>6 DEF UndefinedStatus
  <2>2. /\ State' \in {State, "NEEDSTATUS"} /\ UNCHANGED Currchan /\ Runnable' = FALSE
    BY <1>6 DEF UndefinedStatus
  <2> QED BY <1>3, <2>1, <2>2, ReceiveType DEF TypeOK
<1>7. ASSUME NEW b \in Byte, Receive(b)
      PROVE  /\ Append(Message, b) \in Seq(0 .. 255) /\ Append(Message, b) # <<>>
             /\ Len(Append(Message, b)) = Len(Message) + 1
             /\ <<Message[1]>> \in Seq(0 .. 255) /\ <<Message[1]>> # <<>>
             /\ Len(<<Message[1]>>) = 1 /\ Len(Message) \in Nat \ {0}
  <2>1. b \in 0 .. 255 /\ Message \in Seq(0 .. 255) /\ Message # <<>>
    BY <1>7, ReceiveType DEF TypeOK
  <2>2. Len(Message) \in Nat \ {0}
    BY <2>1
  <2>3. Message[1] \in 0 .. 255
    <3>1. 1 \in 1 .. Len(Message)
      BY <2>2
    <3> QED BY <2>1, <3>1, ElementOfSeq
  <2>4. Append(Message, b) \in Seq(0 .. 255) /\ Len(Append(Message, b)) = Len(Message) + 1
    BY <2>1
  <2>5. Append(Message, b) # <<>>
    BY <2>2, <2>4
  <2> QED BY <2>2, <2>3, <2>4, <2>5
<1>8. ASSUME NEW b \in Byte, DataStored(b)
      PROVE  TypeOK' /\ (BufferHolds => BufferHolds')
  <2>1. Receive(b) /\ Message' = Append(Message, b)
    BY <1>8 DEF DataStored
  <2> QED BY <1>7, <1>8, <2>1, ReceiveType DEF DataStored, TypeOK, BufferHolds
<1>9. ASSUME NEW b \in Byte, DataCompletes(b)
      PROVE  TypeOK' /\ (BufferHolds => BufferHolds')
  <2>1. Receive(b) /\ Message' \in {<<Message[1]>>, Append(Message, b)}
    BY <1>9 DEF DataCompletes, Completes
  <2>2. State' \in {State, "NEEDSTATUS"} /\ UNCHANGED <<Currchan, Runnable>>
    BY <1>9 DEF DataCompletes, Completes
  <2>3. /\ Message' \in Seq(0 .. 255) /\ Message' # <<>>
        /\ Len(Message') <= Len(Message) + 1 /\ Len(Message') \in Nat
    <3>1. CASE Message' = <<Message[1]>>
      BY <1>7, <2>1, <3>1
    <3>2. CASE Message' = Append(Message, b)
      BY <1>7, <2>1, <3>2
    <3> QED BY <2>1, <3>1, <3>2
  <2> QED BY <1>7, <2>1, <2>2, <2>3, ReceiveType DEF TypeOK, BufferHolds
<1>10. CASE UNCHANGED vars
  BY <1>10 DEF vars, TypeOK, BufferHolds
<1> QED BY <1>1, <1>2, <1>4, <1>5, <1>6, <1>8, <1>9, <1>10 DEF Next

(* The parser's state has its type, whatever bytes come in. *)
THEOREM ParserTypeCorrect == Spec => []TypeOK
<1>1. TypeOK /\ [Next]_vars => TypeOK'
  BY StepType
<1> QED BY InitType, <1>1, PTL DEF Spec

(* No byte is ever written beyond the message buffer: the one test at the start of
   midiparse() is enough, for messages and stray data of any length.            *)
THEOREM BufferSafe == Spec => []BufferHolds
<1>1. Init => TypeOK /\ BufferHolds
  <2> SUFFICES ASSUME Init PROVE BufferHolds
    BY InitType
  <2> QED BY ParserAssumption DEF Init, BufferHolds
<1>2. TypeOK /\ BufferHolds /\ [Next]_vars => (TypeOK /\ BufferHolds)'
  BY StepType
<1> QED BY <1>1, <1>2, PTL DEF Spec

-----------------------------------------------------------------------------
(* Which function is called with which message.                            *)

Proper(calls) == \A i \in 1 .. Len(calls) : calls[i][1] = FuncOf(calls[i][2][1])

LEMMA ProperConcat ==
  ASSUME NEW S, NEW p \in Seq(S), NEW q \in Seq(S), Proper(p), Proper(q)
  PROVE  Proper(p \o q)
<1> SUFFICES ASSUME NEW i \in 1 .. Len(p \o q)
             PROVE  (p \o q)[i][1] = FuncOf((p \o q)[i][2][1])
  BY DEF Proper
<1>1. CASE i \in 1 .. Len(p)
  BY <1>1 DEF Proper
<1>2. CASE i \notin 1 .. Len(p)
  <2>1. (p \o q)[i] = q[i - Len(p)] /\ i - Len(p) \in 1 .. Len(q)
    BY <1>2
  <2> QED BY <2>1 DEF Proper
<1> QED BY <1>1, <1>2

(* The function at hand is the one for the status byte at hand. *)
FunctionInv == Currfunc # "NULL" => Currfunc = FuncOf(Message[1])

LEMMA OneProper ==
  ASSUME NEW c, c[1] = FuncOf(c[2][1])
  PROVE  Proper(<<c>>) /\ \E S : <<c>> \in Seq(S)
<1>1. <<c>> \in Seq({c}) /\ Len(<<c>>) = 1 /\ <<c>>[1] = c
  OBVIOUS
<1>2. \A i \in 1 .. Len(<<c>>) : i = 1
  BY <1>1
<1>3. Proper(<<c>>)
  BY <1>1, <1>2 DEF Proper
<1> QED BY <1>1, <1>3

LEMMA CallProper ==
  ASSUME NEW f, NEW mess, NEW chan, f = FuncOf(mess[1])
  PROVE  Proper(Call(f, mess, chan)) /\ \E S : Call(f, mess, chan) \in Seq(S)
<1> DEFINE c == <<f, mess, IF \E i \in 1 .. 7 : f = ChannelFunc[i] THEN chan ELSE 0>>
<1>1. Call(f, mess, chan) = <<c>>
  BY DEF Call
<1>2. c[1] = f /\ c[2] = mess
  OBVIOUS
<1> HIDE DEF c
<1> QED BY <1>1, <1>2, OneProper

LEMMA NoCallProper == Proper(<<>>) /\ \E S : <<>> \in Seq(S)
<1>1. <<>> \in Seq({})
  OBVIOUS
<1> QED BY <1>1 DEF Proper

LEMMA SysexCallProper ==
  ASSUME FunctionInv
  PROVE  Proper(SysexCall) /\ \E S : SysexCall \in Seq(S)
<1>1. CASE SysexCall = <<>>
  BY <1>1, NoCallProper
<1>2. CASE SysexCall = Call(Currfunc, Message, Currchan) /\ Currfunc # "NULL"
  BY <1>2, CallProper DEF FunctionInv
<1> QED BY <1>1, <1>2 DEF SysexCall

LEMMA RealCallProper ==
  ASSUME NEW b \in 0 .. 255, IsRealTime(b)
  PROVE  Proper(RealCall(b)) /\ \E S : RealCall(b) \in Seq(S)
<1>1. CASE b \notin DOMAIN RealFunc
  BY <1>1, NoCallProper DEF RealCall
<1>2. CASE b \in DOMAIN RealFunc
  <2>1. FuncOf(b) = RealFunc[b]
    BY <1>2 DEF FuncOf, IsRealTime, IsChannel, Defined
  <2> DEFINE c == <<RealFunc[b], <<b>>, 0>>
  <2>2. RealCall(b) = <<c>>
    BY <1>2 DEF RealCall
  <2>3. c[1] = RealFunc[b] /\ c[2][1] = b
    OBVIOUS
  <2> HIDE DEF c
  <2> QED BY <2>1, <2>2, <2>3, OneProper
<1> QED BY <1>1, <1>2

(* Sequences of calls of different kinds. *)
LEMMA ProperBoth ==
  ASSUME NEW p, NEW q, Proper(p), Proper(q),
         \E S : p \in Seq(S), \E S : q \in Seq(S)
  PROVE  Proper(p \o q)
<1>1. PICK S : p \in Seq(S)
  OBVIOUS
<1>2. PICK R : q \in Seq(R)
  OBVIOUS
<1>3. p \in Seq(S \cup R) /\ q \in Seq(S \cup R)
  BY <1>1, <1>2, SeqMonotonic
<1> QED BY <1>3, ProperConcat

LEMMA FunctionStep ==
  ASSUME TypeOK, TypeOK', FunctionInv, [Next]_vars, Proper(called),
         \A b \in Byte : IsSystem(b) => b \in Defined
  PROVE  FunctionInv' /\ Proper(called')
<1>1. Proper(SysexCall) /\ \E S : SysexCall \in Seq(S)
  BY SysexCallProper
<1>2. Byte \subseteq 0 .. 255 /\ Message[1] = Head(Message)
  BY ParserAssumption DEF TypeOK
<1>3. ASSUME NEW b \in Byte, ActiveSensing(b) PROVE FunctionInv' /\ Proper(called')
  BY <1>3, NoCallProper DEF ActiveSensing, FunctionInv
<1>4. ASSUME NEW b \in Byte, RealTime(b) PROVE FunctionInv' /\ Proper(called')
  <2>1. Proper(RealCall(b)) /\ \E S : RealCall(b) \in Seq(S)
    BY <1>2, <1>4, RealCallProper DEF RealTime
  <2>2. Proper(SysexCall \o RealCall(b))
    BY <1>1, <2>1, ProperBoth
  <2> QED BY <1>4, <2>2 DEF RealTime, FunctionInv
<1>5. ASSUME NEW b \in Byte, ChannelStatus(b) PROVE FunctionInv' /\ Proper(called')
  BY <1>1, <1>5 DEF ChannelStatus, FunctionInv, FuncOf
<1>6. ASSUME NEW b \in Byte, SystemStatus(b) PROVE FunctionInv' /\ Proper(called')
  <2>1. b \in Defined /\ ~IsChannel(b) /\ FuncOf(b) = SysFunc(b) /\ <<b>>[1] = b
    BY <1>6 DEF SystemStatus, Defined, IsChannel, FuncOf
  <2> DEFINE own == IF b \in {246, 247} THEN Call(SysFunc(b), <<b>>, 0) ELSE <<>>
  <2>2. Proper(own) /\ \E S : own \in Seq(S)
    <3>1. Proper(Call(SysFunc(b), <<b>>, 0)) /\ \E S : Call(SysFunc(b), <<b>>, 0) \in Seq(S)
      BY <2>1, CallProper
    <3> QED BY <3>1, NoCallProper
  <2>3. called' = SysexCall \o own
    BY <1>6 DEF SystemStatus
  <2> HIDE DEF own
  <2>4. Proper(called')
    BY <1>1, <2>2, <2>3, ProperBoth
  <2>5. FunctionInv'
    BY <1>6, <2>1 DEF SystemStatus, FunctionInv
  <2> QED BY <2>4, <2>5
<1>7. ASSUME NEW b \in Byte, UndefinedStatus(b) PROVE FALSE
  BY <1>7 DEF UndefinedStatus
<1>8. ASSUME NEW b \in 0 .. 255 PROVE Append(Message, b)[1] = Message[1]
  BY <1>8 DEF TypeOK
<1>9. ASSUME NEW b \in Byte, DataStored(b) PROVE FunctionInv' /\ Proper(called')
  <2>1. Message'[1] = Message[1]
    BY <1>2, <1>8, <1>9 DEF DataStored
  <2> QED BY <1>9, <2>1, NoCallProper DEF DataStored, FunctionInv
<1>10. ASSUME NEW b \in Byte, DataCompletes(b) PROVE FunctionInv' /\ Proper(called')
  <2>1. Append(Message, b)[1] = Message[1]
    BY <1>2, <1>8
  <2>2. Proper(called')
    <3>1. CASE Currfunc = "NULL"
      BY <1>10, <3>1, NoCallProper DEF DataCompletes, Completes
    <3>2. CASE Currfunc # "NULL"
      <4>1. called' = Call(Currfunc, Append(Message, b), Currchan)
        BY <1>10, <3>2 DEF DataCompletes, Completes
      <4> QED BY <2>1, <3>2, <4>1, CallProper DEF FunctionInv
    <3> QED BY <3>1, <3>2
  <2>3. Message'[1] = Message[1]
    BY <1>10, <2>1 DEF DataCompletes
  <2>4. Currfunc' \in {Currfunc, "NULL"}
    BY <1>10 DEF DataCompletes
  <2> QED BY <2>2, <2>3, <2>4 DEF FunctionInv
<1>11. CASE UNCHANGED vars
  BY <1>11 DEF vars, FunctionInv, Proper
<1> QED BY <1>3, <1>4, <1>5, <1>6, <1>7, <1>9, <1>10, <1>11 DEF Next

(* As long as none of the undefined status bytes comes in, every function of the
   table Midi is called with messages of its own kind only.                     *)
THEOREM FunctionsProper ==
  ASSUME \A b \in Byte : IsSystem(b) => b \in Defined
  PROVE  Spec => []ProperFunction
<1>1. Init => TypeOK /\ FunctionInv /\ Proper(called)
  <2> SUFFICES ASSUME Init PROVE FunctionInv /\ Proper(called)
    BY InitType
  <2>1. Message[1] = 144 /\ Currfunc = "on"
    BY DEF Init
  <2>2. FuncOf(144) = "on"
    BY DEF FuncOf, IsChannel, ChanFunc, ChannelFunc
  <2> QED BY <2>1, <2>2, NoCallProper DEF Init, FunctionInv
<1>2. /\ TypeOK /\ FunctionInv /\ Proper(called) /\ [Next]_vars
      => (TypeOK /\ FunctionInv /\ Proper(called))'
  BY StepType, FunctionStep
<1>3. Proper(called) => ProperFunction
  BY DEF Proper, ProperFunction
<1> QED BY <1>1, <1>2, <1>3, PTL DEF Spec

-----------------------------------------------------------------------------
(* The calls, as the whole input wants them.  The same readings of the input as in
   MidiParser, of any sequence q of bytes that was received up to now.            *)

StatusPlaces(q) == {j \in 1 .. Len(q) : IsStatus(q[j])}
StatusPlace(q) ==
  IF StatusPlaces(q) = {} THEN 0
  ELSE CHOOSE j \in StatusPlaces(q) : \A k \in StatusPlaces(q) : k <= j
Status(q) == IF StatusPlace(q) = 0 THEN 144 ELSE q[StatusPlace(q)]
DataPlaces(q) == {k \in StatusPlace(q) + 1 .. Len(q) : IsData(q[k])}
Data(q) == Kept(q, DataPlaces(q))
Open(q) == Status(q) = 240 /\ \A k \in StatusPlace(q) + 1 .. Len(q) : ~IsRealTime(q[k])

LEMMA PlaceType ==
  ASSUME NEW q \in Seq(Byte)
  PROVE  /\ StatusPlace(q) \in 0 .. Len(q) /\ Len(q) \in Nat
         /\ StatusPlace(q) # 0 => IsStatus(q[StatusPlace(q)])
         /\ \A k \in StatusPlace(q) + 1 .. Len(q) : ~IsStatus(q[k])
<1> DEFINE P == StatusPlaces(q)
<1>1. Len(q) \in Nat
  OBVIOUS
<1>2. CASE P = {}
  BY <1>1, <1>2 DEF StatusPlace, StatusPlaces
<1>3. CASE P # {}
  <2>1. IsFiniteSet(P) /\ P \subseteq Nat
    <3>1. IsFiniteSet(1 .. Len(q)) /\ P \subseteq 1 .. Len(q)
      BY <1>1, FS_Interval DEF StatusPlaces
    <3> QED BY <1>1, <3>1, FS_Subset
  <2>2. \E m \in P : \A j \in P : j <= m
    <3> HIDE DEF P
    <3> QED BY <1>3, <2>1, Greatest
  <2>3. StatusPlace(q) \in P /\ \A j \in P : j <= StatusPlace(q)
    BY <1>3, <2>2 DEF StatusPlace
  <2> HIDE DEF StatusPlace
  <2> QED BY <1>1, <2>3 DEF StatusPlaces
<1> QED BY <1>2, <1>3

LEMMA PlaceIs ==
  ASSUME NEW q \in Seq(Byte), NEW m \in 0 .. Len(q), m # 0 => IsStatus(q[m]),
         \A k \in m + 1 .. Len(q) : ~IsStatus(q[k])
  PROVE  StatusPlace(q) = m
<1> DEFINE p == StatusPlace(q)
<1>1. /\ p \in 0 .. Len(q) /\ Len(q) \in Nat /\ (p # 0 => IsStatus(q[p]))
      /\ \A k \in p + 1 .. Len(q) : ~IsStatus(q[k])
  BY PlaceType
<1> HIDE DEF p
<1>2. ~(p < m)
  <2>1. p < m => m # 0 /\ m \in p + 1 .. Len(q)
    BY <1>1
  <2> QED BY <1>1, <2>1
<1>3. ~(m < p)
  <2>1. m < p => p # 0 /\ p \in m + 1 .. Len(q)
    BY <1>1
  <2> QED BY <1>1, <2>1
<1> QED BY <1>1, <1>2, <1>3 DEF p

LEMMA StatusType ==
  ASSUME NEW q \in Seq(Byte)
  PROVE  /\ Status(q) \in 128 .. 247 /\ Data(q) \in Seq(Byte) /\ Len(Data(q)) \in Nat
         /\ DataPlaces(q) \in SUBSET DOMAIN q
<1>1. DataPlaces(q) \in SUBSET DOMAIN q
  BY PlaceType DEF DataPlaces
<1>2. Data(q) \in Seq(Byte)
  BY <1>1, KeptList DEF Data
<1>3. Status(q) \in 128 .. 247
  <2>1. CASE StatusPlace(q) = 0
    BY <2>1 DEF Status
  <2>2. CASE StatusPlace(q) # 0
    BY <2>2, PlaceType DEF Status, IsStatus, IsChannel, IsSystem
  <2> QED BY <2>1, <2>2
<1> QED BY <1>1, <1>2, <1>3

(* One byte more *)
LEMMA OneMore ==
  ASSUME NEW q \in Seq(Byte), NEW b \in Byte, NEW r, r = Append(q, b)
  PROVE  /\ r \in Seq(Byte) /\ Len(r) = Len(q) + 1 /\ r[Len(r)] = b
         /\ Status(r) = IF IsStatus(b) THEN b ELSE Status(q)
         /\ Data(r) = IF IsStatus(b) THEN <<>> ELSE IF IsData(b) THEN Append(Data(q), b) ELSE Data(q)
         /\ Open(r) <=> IF IsStatus(b) THEN b = 240 ELSE Open(q) /\ ~IsRealTime(b)
<1> DEFINE m == StatusPlace(q)
           n == Len(q)
<1>1. /\ r \in Seq(Byte) /\ Len(r) = n + 1 /\ r[n + 1] = b /\ n \in Nat
      /\ \A i \in 1 .. n : r[i] = q[i]
  BY AppendProperties
<1>2. m \in 0 .. n /\ (m # 0 => IsStatus(q[m])) /\ \A k \in m + 1 .. n : ~IsStatus(q[k])
  BY PlaceType
<1>3. b \in 0 .. 255
  BY ParserAssumption
<1>4. CASE IsStatus(b)
  <2>1. StatusPlace(r) = n + 1
    <3>1. n + 1 \in 0 .. Len(r) /\ \A k \in (n + 1) + 1 .. Len(r) : FALSE
      BY <1>1
    <3> QED BY <1>1, <1>4, <3>1, PlaceIs
  <2>2. Status(r) = b
    BY <1>1, <2>1 DEF Status
  <2>3. DataPlaces(r) = {}
    BY <1>1, <2>1 DEF DataPlaces
  <2>4. Data(r) = <<>>
    BY <2>3, KeptNone DEF Data
  <2>5. Open(r) <=> b = 240
    <3>1. \A k \in StatusPlace(r) + 1 .. Len(r) : FALSE
      BY <1>1, <2>1
    <3> QED BY <2>2, <3>1 DEF Open
  <2> QED BY <1>1, <1>4, <2>2, <2>4, <2>5
<1>5. CASE ~IsStatus(b)
  <2>1. StatusPlace(r) = m
    <3>1. m \in 0 .. Len(r) /\ (m # 0 => IsStatus(r[m]))
      BY <1>1, <1>2
    <3>2. ASSUME NEW k \in m + 1 .. Len(r) PROVE ~IsStatus(r[k])
      <4>1. CASE k = n + 1
        BY <1>1, <1>5, <4>1
      <4>2. CASE k # n + 1
        <5>1. k \in m + 1 .. n /\ k \in 1 .. n
          BY <1>1, <1>2, <4>2
        <5> QED BY <1>1, <1>2, <5>1
      <4> QED BY <4>1, <4>2
    <3> QED BY <1>1, <3>1, <3>2, PlaceIs
  <2> HIDE DEF m
  <2>2. Status(r) = Status(q)
    BY <1>1, <1>2, <2>1 DEF Status, m
  <2>3. \A k \in m + 1 .. n : k \in 1 .. n /\ r[k] = q[k]
    BY <1>1, <1>2
  <2>4. /\ m + 1 .. Len(r) = (m + 1 .. n) \cup {n + 1} /\ r[n + 1] = b
    BY <1>1, <1>2
  <2>5. Open(r) <=> Open(q) /\ ~IsRealTime(b)
    BY <2>1, <2>2, <2>3, <2>4 DEF Open, m
  <2>6. DataPlaces(r) = IF IsData(b) THEN DataPlaces(q) \cup {n + 1} ELSE DataPlaces(q)
    BY <2>1, <2>3, <2>4 DEF DataPlaces, m
  <2>7. /\ DataPlaces(q) \in SUBSET DOMAIN r /\ n + 1 \in DOMAIN r
        /\ \A i \in DataPlaces(q) : i < n + 1 /\ r[i] = q[i]
    BY <1>1, StatusType DEF m
  <2>8. Kept(r, DataPlaces(q)) = Data(q)
    <3> DEFINE I == DataPlaces(q)
    <3>1. I \in SUBSET DOMAIN q /\ \A i \in I : r[i] = q[i]
      BY <2>7, StatusType
    <3>2. Data(q) = Kept(q, I)
      BY DEF Data
    <3> HIDE DEF I
    <3>3. Kept(r, I) = Kept(q, I)
      BY <3>1, KeptAgrees
    <3> QED BY <3>2, <3>3 DEF I
  <2>9. Data(r) = IF IsData(b) THEN Append(Data(q), b) ELSE Data(q)
    <3>1. CASE IsData(b)
      <4>1. Kept(r, DataPlaces(q) \cup {n + 1}) = Append(Kept(r, DataPlaces(q)), r[n + 1])
        BY <1>1, <2>7, KeptMore
      <4> QED BY <1>1, <2>6, <2>8, <3>1, <4>1 DEF Data
    <3>2. CASE ~IsData(b)
      BY <2>6, <2>8, <3>2 DEF Data
    <3> QED BY <3>1, <3>2
  <2> QED BY <1>1, <1>5, <2>2, <2>5, <2>9
<1> QED BY <1>4, <1>5

(* Expected(), with what came before given as the sequence q *)
ExpectedOf(q, b) ==
  LET s == Status(q)
      d == IF IsData(b) THEN Append(Data(q), b) ELSE Data(q)
      n == Needs(s)
      ended == IF ~IsData(b) /\ b # 254 /\ Open(q)
               THEN << <<"sysex", <<240>> \o d, 0>> >> ELSE <<>>
  IN  CASE IsRealTime(b) -> ended \o RealCall(b)
        [] b \in {246, 247} -> ended \o << <<SysFunc(b), <<b>>, 0>> >>
        [] IsData(b) /\ IsChannel(s) /\ Len(d) % n = 0 ->
             << <<ChanFunc(s), <<s>> \o LastOf(d, n), s % 16>> >>
        [] IsData(b) /\ s \in {242, 243} /\ Len(d) = n -> << <<SysFunc(s), <<s>> \o d, 0>> >>
        [] OTHER -> ended

LEMMA ExpectedIs ==
  ASSUME input \in Seq(Byte), NEW b \in Byte, input' = Append(input, b)
  PROVE  /\ Expected(Len(input))' = ExpectedOf(input, b)
         /\ AfterUndefined(Len(input))' <=>
              IsData(b) /\ IsSystem(Status(input)) /\ Status(input) \notin Defined
<1> DEFINE m == StatusPlace(input)
           n == Len(input)
<1>1. /\ input' \in Seq(Byte) /\ Len(input)' = n + 1 /\ input'[n + 1] = b /\ n \in Nat
      /\ \A i \in 1 .. n : input'[i] = input[i]
  BY AppendProperties
<1>2. m \in 0 .. n
  BY PlaceType
<1>3. LastStatus(Len(input))' = m
  <2>1. {j \in 1 .. (n + 1) - 1 : IsStatus(input'[j])} = StatusPlaces(input)
    BY <1>1 DEF StatusPlaces
  <2>2. LastStatus(Len(input))' =
          LET P == {j \in 1 .. (n + 1) - 1 : IsStatus(input'[j])}
          IN  IF P = {} THEN 0 ELSE CHOOSE j \in P : \A k \in P : k <= j
    BY <1>1 DEF LastStatus
  <2> QED BY <2>1, <2>2 DEF StatusPlace
<1>4. StatusAt(LastStatus(Len(input)))' = Status(input)
  BY <1>1, <1>2, <1>3 DEF StatusAt, Status
<1>5. SysexOpen(Len(input))' <=> Open(input)
  <2>1. m + 1 .. (n + 1) - 1 = m + 1 .. n /\ \A k \in m + 1 .. n : input'[k] = input[k]
    BY <1>1, <1>2
  <2>2. SysexOpen(Len(input))' <=>
          Status(input) = 240 /\ \A k \in m + 1 .. (n + 1) - 1 : ~IsRealTime(input'[k])
    BY <1>1, <1>3, <1>4 DEF SysexOpen
  <2> HIDE DEF m
  <2> QED BY <2>1, <2>2 DEF Open, m
<1>6. DataBetween(LastStatus(Len(input)), Len(input))'
        = IF IsData(b) THEN Append(Data(input), b) ELSE Data(input)
  <2> DEFINE I == DataPlaces(input)
             J == {k \in m + 1 .. n + 1 : IsData(input'[k])}
  <2>1. DataBetween(LastStatus(Len(input)), Len(input))' = Kept(input', J)
    BY <1>1, <1>3 DEF DataBetween
  <2>2. /\ I \in SUBSET DOMAIN input /\ \A i \in I : input'[i] = input[i] /\ i < n + 1
        /\ Data(input) = Kept(input, I)
    BY <1>1, <1>2, StatusType DEF Data
  <2>3. J = IF IsData(b) THEN I \cup {n + 1} ELSE I
    <3>1. m + 1 .. n + 1 = (m + 1 .. n) \cup {n + 1} /\ \A k \in m + 1 .. n : input'[k] = input[k]
      BY <1>1, <1>2
    <3> QED BY <1>1, <3>1 DEF DataPlaces
  <2> HIDE DEF I, J
  <2>4. Kept(input', I) = Data(input)
    BY <2>2, KeptAgrees
  <2>5. CASE IsData(b)
    <3>1. I \in SUBSET DOMAIN input' /\ n + 1 \in DOMAIN input'
      BY <1>1, <2>2
    <3>2. Kept(input', I \cup {n + 1}) = Append(Kept(input', I), input'[n + 1])
      BY <1>1, <2>2, <3>1, KeptMore
    <3> QED BY <1>1, <2>1, <2>3, <2>4, <2>5, <3>2
  <2>6. CASE ~IsData(b)
    BY <2>1, <2>3, <2>4, <2>6
  <2> QED BY <2>5, <2>6
<1>7. input'[Len(input)'] = b
  BY <1>1
<1>8. Expected(Len(input))' = ExpectedOf(input, b)
  BY <1>4, <1>5, <1>6, <1>7 DEF Expected, ExpectedOf
<1>9. AfterUndefined(Len(input))' <=>
        IsData(b) /\ IsSystem(Status(input)) /\ Status(input) \notin Defined
  BY <1>4, <1>7 DEF AfterUndefined
<1> QED BY <1>8, <1>9

-----------------------------------------------------------------------------
(* What the machine knows of the input: the last status byte s, the data d since, and
   whether a sysex is open.                                                         *)

KnowsChannel(s, d) ==
  /\ Runnable /\ Currfunc = ChanFunc(s) /\ Currchan = s % 16 /\ State = ChanState(s)
  /\ Len(d) % Needs(s) = 0 => Message = <<s>>
  /\ Len(d) % Needs(s) # 0 => Message = <<s, d[Len(d)]>>

KnowsSystem(s, d) ==
  ~Runnable /\ Currfunc = SysFunc(s) /\ State = SysState(s) /\ Message = <<s>> \o d

(* The message is over, and no other has begun. *)
MessageOver(s, d, open) ==
  \/ s = 240 /\ ~open
  \/ s \in {242, 243} /\ Len(d) >= Needs(s)
  \/ s \in {246, 247}

Parsed(s, d, open) ==
  /\ IsChannel(s) => KnowsChannel(s, d)
  /\ s \in {242, 243} /\ Len(d) < Needs(s) => KnowsSystem(s, d)
  /\ s = 240 /\ open => State = "VARIABLELENGTH" /\ Currfunc = "sysex" /\ Message = <<s>> \o d
  /\ MessageOver(s, d, open) => State = "NEEDSTATUS" /\ Currfunc = "NULL"
  /\ IsSystem(s) /\ s \notin Defined => State # "VARIABLELENGTH"

ParseInv == Parsed(Status(input), Data(input), Open(input))

(* Status bytes and the numbers of their data bytes *)
OfChannel(s) ==
  /\ s \notin 240 .. 247 /\ ~IsSystem(s) /\ Needs(s) \in {1, 2}
  /\ Needs(s) = 1 => ChanState(s) = "NEEDONEBYTE"
  /\ Needs(s) = 2 => ChanState(s) = "NEEDTWOBYTES"
  /\ \E i \in 1 .. 7 : ChanFunc(s) = ChannelFunc[i]
  /\ ChanFunc(s) # "NULL"

LEMMA ChannelStatuses == ASSUME NEW s \in 128 .. 247, IsChannel(s) PROVE OfChannel(s)
<1>1. s \notin 240 .. 247 /\ ~IsSystem(s) /\ s # 243 /\ s \div 16 \in 8 .. 14
  BY DEF IsChannel, IsSystem
<1>2. /\ Needs(s) \in {1, 2}
      /\ Needs(s) = 1 => ChanState(s) = "NEEDONEBYTE"
      /\ Needs(s) = 2 => ChanState(s) = "NEEDTWOBYTES"
  BY <1>1 DEF Needs, ChanState
<1>3. s \div 16 - 7 \in 1 .. 7
  BY <1>1
<1>4. \A i \in 1 .. 7 : ChannelFunc[i] # "NULL"
  BY DEF ChannelFunc
<1> QED BY <1>1, <1>2, <1>3, <1>4 DEF ChanFunc, OfChannel

LEMMA Statuses ==
  ASSUME NEW s \in 128 .. 247
  PROVE  /\ IsChannel(s) \/ s \in {240, 242, 243, 246, 247} \/ (IsSystem(s) /\ s \notin Defined)
         /\ IsChannel(s) => OfChannel(s)
         /\ Needs(242) = 2 /\ Needs(243) = 1 /\ Needs(240) = 2 /\ Needs(246) = 2 /\ Needs(247) = 2
         /\ SysState(242) = "NEEDTWOBYTES" /\ SysState(243) = "NEEDONEBYTE"
         /\ SysState(240) = "VARIABLELENGTH" /\ SysState(246) = "NEEDSTATUS" /\ SysState(247) = "NEEDSTATUS"
         /\ SysFunc(240) = "sysex" /\ SysFunc(242) = "position" /\ SysFunc(243) = "song"
         /\ SysFunc(246) = "tune" /\ SysFunc(247) = "eox"
<1>1. IsChannel(s) \/ s \in {240, 242, 243, 246, 247} \/ (IsSystem(s) /\ s \notin Defined)
  BY DEF IsChannel, IsSystem, Defined
<1>2. IsChannel(s) => OfChannel(s)
  BY ChannelStatuses
<1>3. Needs(242) = 2 /\ Needs(243) = 1 /\ Needs(240) = 2 /\ Needs(246) = 2 /\ Needs(247) = 2
  BY DEF Needs
<1>4. /\ SysState(242) = "NEEDTWOBYTES" /\ SysState(243) = "NEEDONEBYTE"
      /\ SysState(240) = "VARIABLELENGTH" /\ SysState(246) = "NEEDSTATUS" /\ SysState(247) = "NEEDSTATUS"
  BY DEF SysState
<1>5. /\ SysFunc(240) = "sysex" /\ SysFunc(242) = "position" /\ SysFunc(243) = "song"
      /\ SysFunc(246) = "tune" /\ SysFunc(247) = "eox"
  BY DEF SysFunc
<1> QED BY <1>1, <1>2, <1>3, <1>4, <1>5

(* The machine takes in a sysex just while one is open. *)
LEMMA SysexCalled ==
  ASSUME TypeOK, ParseInv
  PROVE  /\ InSysex <=> Open(input)
         /\ SysexCall = IF Open(input) THEN << <<"sysex", <<240>> \o Data(input), 0>> >> ELSE <<>>
<1>1. Status(input) \in 128 .. 247
  BY StatusType DEF TypeOK
<1> DEFINE s == Status(input)
           d == Data(input)
           open == Open(input)
<1>2. s \in 128 .. 247 /\ Parsed(s, d, open) /\ (open => s = 240)
  BY <1>1 DEF ParseInv, Open
<1>3. Len(d) \in Nat
  BY StatusType DEF TypeOK
<1> HIDE DEF s, d, open
<1>4. open => State = "VARIABLELENGTH" /\ Currfunc = "sysex" /\ Message = <<240>> \o d
  BY <1>2 DEF Parsed
<1>5. ~open => State # "VARIABLELENGTH"
  <2> SUFFICES ASSUME ~open PROVE State # "VARIABLELENGTH"
    OBVIOUS
  <2>1. CASE IsChannel(s)
    <3>1. State = ChanState(s)
      BY <1>2, <2>1 DEF Parsed, KnowsChannel
    <3> QED BY <3>1 DEF ChanState
  <2>2. CASE s \in {242, 243}
    <3>1. Needs(s) \in Nat /\ SysState(s) # "VARIABLELENGTH"
      BY <2>2, <1>2, Statuses
    <3>2. Len(d) < Needs(s) \/ Len(d) >= Needs(s)
      BY <1>3, <3>1
    <3>3. CASE Len(d) < Needs(s)
      BY <1>2, <2>2, <3>1, <3>3 DEF Parsed, KnowsSystem
    <3>4. CASE Len(d) >= Needs(s)
      BY <1>2, <2>2, <3>4 DEF Parsed, MessageOver
    <3> QED BY <3>2, <3>3, <3>4
  <2>3. CASE s \in {240, 246, 247}
    BY <1>2, <2>3 DEF Parsed, MessageOver
  <2>4. CASE IsSystem(s) /\ s \notin Defined
    BY <1>2, <2>4 DEF Parsed
  <2> QED BY <1>2, <2>1, <2>2, <2>3, <2>4, Statuses
<1>6. InSysex <=> open
  BY <1>4, <1>5 DEF InSysex
<1>7. Call("sysex", <<240>> \o d, Currchan) = << <<"sysex", <<240>> \o d, 0>> >>
  <2>1. \A i \in 1 .. 7 : "sysex" # ChannelFunc[i]
    BY DEF ChannelFunc
  <2> QED BY <2>1 DEF Call
<1>8. SysexCall = IF open THEN << <<"sysex", <<240>> \o d, 0>> >> ELSE <<>>
  BY <1>4, <1>6, <1>7 DEF SysexCall
<1> QED BY <1>6, <1>8 DEF open, d

(* The call that ends an open sysex *)
EndedCall(q) == IF Open(q) THEN << <<"sysex", <<240>> \o Data(q), 0>> >> ELSE <<>>

LEMMA ExpectedNoData ==
  ASSUME NEW q \in Seq(Byte), NEW b \in Byte
  PROVE  /\ IsRealTime(b) => ExpectedOf(q, b) = EndedCall(q) \o RealCall(b)
         /\ b \in {246, 247} => ExpectedOf(q, b) = EndedCall(q) \o << <<SysFunc(b), <<b>>, 0>> >>
         /\ IsStatus(b) /\ b \notin {246, 247} => ExpectedOf(q, b) = EndedCall(q)
         /\ b = 254 => ExpectedOf(q, b) = <<>>
<1>1. b \in 0 .. 255
  BY ParserAssumption
<1> DEFINE s == Status(q)
           d == IF IsData(b) THEN Append(Data(q), b) ELSE Data(q)
           ended == IF ~IsData(b) /\ b # 254 /\ Open(q)
                    THEN << <<"sysex", <<240>> \o d, 0>> >> ELSE <<>>
           now == << <<ChanFunc(s), <<s>> \o LastOf(d, Needs(s)), s % 16>> >>
           then == << <<SysFunc(s), <<s>> \o d, 0>> >>
           mine == << <<SysFunc(b), <<b>>, 0>> >>
<1>2. ExpectedOf(q, b) =
        CASE IsRealTime(b) -> ended \o RealCall(b)
          [] b \in {246, 247} -> ended \o mine
          [] IsData(b) /\ IsChannel(s) /\ Len(d) % Needs(s) = 0 -> now
          [] IsData(b) /\ s \in {242, 243} /\ Len(d) = Needs(s) -> then
          [] OTHER -> ended
  BY Zenon DEF ExpectedOf
<1>3. ~IsData(b) => d = Data(q)
  OBVIOUS
<1>4. ended = IF ~IsData(b) /\ b # 254 THEN EndedCall(q) ELSE <<>>
  BY <1>3 DEF EndedCall
<1> HIDE DEF ended, now, then, mine, d, s
<1>5. CASE IsRealTime(b)
  <2>1. ~IsData(b) /\ b # 254 /\ b \notin {246, 247} /\ ~IsStatus(b)
    BY <1>1, <1>5 DEF IsRealTime, IsData, IsStatus, IsChannel, IsSystem
  <2> QED BY <1>2, <1>4, <1>5, <2>1
<1>6. CASE b \in {246, 247}
  <2>1. ~IsData(b) /\ b # 254 /\ ~IsRealTime(b)
    BY <1>6 DEF IsRealTime, IsData
  <2> QED BY <1>2, <1>4, <1>6, <2>1 DEF mine
<1>7. CASE IsStatus(b) /\ b \notin {246, 247}
  <2>1. ~IsData(b) /\ b # 254 /\ ~IsRealTime(b)
    BY <1>1, <1>7 DEF IsRealTime, IsData, IsStatus, IsChannel, IsSystem
  <2> QED BY <1>2, <1>4, <1>7, <2>1
<1>8. CASE b = 254
  <2>1. ~IsData(b) /\ ~IsRealTime(b) /\ ~IsStatus(b)
    BY <1>8 DEF IsRealTime, IsData, IsStatus, IsChannel, IsSystem
  <2> QED BY <1>2, <1>4, <1>8, <2>1
<1> QED BY <1>5, <1>6, <1>7, <1>8

LEMMA ExpectedData ==
  ASSUME NEW q \in Seq(Byte), NEW b \in Byte, IsData(b),
         NEW s, s = Status(q), NEW d, d = Append(Data(q), b)
  PROVE  ExpectedOf(q, b) =
           IF IsChannel(s) /\ Len(d) % Needs(s) = 0
           THEN << <<ChanFunc(s), <<s>> \o LastOf(d, Needs(s)), s % 16>> >>
           ELSE IF s \in {242, 243} /\ Len(d) = Needs(s)
           THEN << <<SysFunc(s), <<s>> \o d, 0>> >> ELSE <<>>
<1>1. b \in 0 .. 255 /\ s \in 128 .. 247
  <2>1. Status(q) \in 128 .. 247
    BY StatusType
  <2>2. b \in 0 .. 255
    BY ParserAssumption
  <2> QED BY <2>1, <2>2
<1> DEFINE now == << <<ChanFunc(s), <<s>> \o LastOf(d, Needs(s)), s % 16>> >>
           then == << <<SysFunc(s), <<s>> \o d, 0>> >>
           ended == IF ~IsData(b) /\ b # 254 /\ Open(q)
                    THEN << <<"sysex", <<240>> \o d, 0>> >> ELSE <<>>
           mine == << <<SysFunc(b), <<b>>, 0>> >>
<1>2. ExpectedOf(q, b) =
        CASE IsRealTime(b) -> ended \o RealCall(b)
          [] b \in {246, 247} -> ended \o mine
          [] IsData(b) /\ IsChannel(s) /\ Len(d) % Needs(s) = 0 -> now
          [] IsData(b) /\ s \in {242, 243} /\ Len(d) = Needs(s) -> then
          [] OTHER -> ended
  BY Zenon DEF ExpectedOf
<1>3. ended = <<>>
  OBVIOUS
<1>4. ~IsChannel(s) \/ s \notin {242, 243}
  <2>1. \A x \in 128 .. 247 : ~IsChannel(x) \/ x \notin {242, 243}
    BY DEF IsChannel
  <2> HIDE DEF ended, now, then, mine
  <2> QED BY <1>1, <2>1
<1>5. ~IsRealTime(b) /\ b \notin {246, 247}
  BY <1>1 DEF IsRealTime, IsData
<1> HIDE DEF ended, now, then, mine
<1>6. ExpectedOf(q, b) = IF IsChannel(s) /\ Len(d) % Needs(s) = 0 THEN now
                         ELSE IF s \in {242, 243} /\ Len(d) = Needs(s) THEN then ELSE <<>>
  BY <1>2, <1>3, <1>4, <1>5
<1> QED BY <1>6 DEF now, then

(* What a step has to establish *)
LEMMA Enough ==
  ASSUME TypeOK, NEW b \in Byte, Receive(b),
         \/ called' = ExpectedOf(input, b)
         \/ IsData(b) /\ IsSystem(Status(input)) /\ Status(input) \notin Defined
  PROVE  CallsRight'
<1>1. input \in Seq(Byte) /\ input' = Append(input, b)
  BY DEF TypeOK, Receive
<1> QED BY <1>1, ExpectedIs DEF CallsRight

LEMMA StatusAfter ==
  ASSUME TypeOK, NEW b \in Byte, Receive(b)
  PROVE  /\ Status(input') = IF IsStatus(b) THEN b ELSE Status(input)
         /\ Data(input') = IF IsStatus(b) THEN <<>>
                           ELSE IF IsData(b) THEN Append(Data(input), b) ELSE Data(input)
         /\ Open(input') <=> IF IsStatus(b) THEN b = 240 ELSE Open(input) /\ ~IsRealTime(b)
         /\ Status(input) \in 128 .. 247 /\ Data(input) \in Seq(Byte) /\ Len(Data(input)) \in Nat
         /\ b \in 0 .. 255 /\ input \in Seq(Byte)
<1>1. input \in Seq(Byte) /\ input' = Append(input, b) /\ b \in 0 .. 255
  BY ParserAssumption DEF TypeOK, Receive
<1> QED BY <1>1, OneMore, StatusType, ZenonT(30)

(* 254 changes nothing. *)
LEMMA ActiveSensingStep ==
  ASSUME TypeOK, ParseInv, NEW b \in Byte, ActiveSensing(b) PROVE ParseInv' /\ CallsRight'
<1>1. /\ Receive(b) /\ b = 254 /\ called' = <<>>
      /\ State' = State /\ Currfunc' = Currfunc /\ Currchan' = Currchan
      /\ Runnable' = Runnable /\ Message' = Message
  BY DEF ActiveSensing
<1>2. ~IsStatus(b) /\ ~IsData(b) /\ ~IsRealTime(b)
  BY <1>1 DEF IsStatus, IsChannel, IsSystem, IsData, IsRealTime
<1>3. Status(input') = Status(input) /\ Data(input') = Data(input) /\ (Open(input') <=> Open(input))
  BY <1>1, <1>2, StatusAfter
<1>4. ParseInv'
  BY <1>1, <1>3 DEF ParseInv, Parsed, KnowsChannel, KnowsSystem, MessageOver
<1>5. input \in Seq(Byte)
  BY DEF TypeOK
<1>6. ExpectedOf(input, b) = <<>>
  BY <1>1, <1>5, ExpectedNoData, ZenonT(30)
<1> QED BY <1>1, <1>4, <1>6, Enough

(* A real-time byte is delivered at once; of the message at hand it changes nothing,
   unless that is a sysex.                                                         *)
LEMMA RealTimeStep ==
  ASSUME TypeOK, ParseInv, NEW b \in Byte, RealTime(b) PROVE ParseInv' /\ CallsRight'
<1>1. /\ Receive(b) /\ IsRealTime(b) /\ called' = SysexCall \o RealCall(b)
      /\ State' = (IF InSysex THEN "NEEDSTATUS" ELSE State)
      /\ Currfunc' = (IF InSysex THEN "NULL" ELSE Currfunc)
      /\ Currchan' = Currchan /\ Runnable' = Runnable /\ Message' = Message
  BY DEF RealTime
<1>2. ~IsStatus(b) /\ ~IsData(b)
  BY <1>1, StatusAfter DEF IsStatus, IsChannel, IsSystem, IsData, IsRealTime
<1>3. Status(input') = Status(input) /\ Data(input') = Data(input) /\ ~Open(input')
  BY <1>1, <1>2, StatusAfter
<1>4. InSysex <=> Open(input)
  BY SysexCalled
<1>5. SysexCall = EndedCall(input)
  BY SysexCalled DEF EndedCall
<1>6. CASE Open(input)
  <2>1. Status(input) = 240 /\ ~IsChannel(240)
    BY <1>6 DEF Open, IsChannel
  <2>2. State' = "NEEDSTATUS" /\ Currfunc' = "NULL"
    BY <1>1, <1>4, <1>6
  <2>3. ParseInv'
    BY <1>3, <2>1, <2>2 DEF ParseInv, Parsed, MessageOver
  <2> QED BY <1>1, <1>5, <2>3, ExpectedNoData, Enough, StatusAfter
<1>7. CASE ~Open(input)
  <2>1. State' = State /\ Currfunc' = Currfunc
    BY <1>1, <1>4, <1>7
  <2>2. ParseInv'
    BY <1>1, <1>3, <1>7, <2>1 DEF ParseInv, Parsed, KnowsChannel, KnowsSystem, MessageOver
  <2> QED BY <1>1, <1>5, <2>2, ExpectedNoData, Enough, StatusAfter
<1> QED BY <1>6, <1>7

LEMMA ChannelStatusStep ==
  ASSUME TypeOK, ParseInv, NEW b \in Byte, ChannelStatus(b) PROVE ParseInv' /\ CallsRight'
<1>1. /\ Receive(b) /\ IsChannel(b) /\ called' = SysexCall
      /\ Message' = <<b>> /\ Currchan' = b % 16 /\ Runnable' = TRUE
      /\ Currfunc' = ChanFunc(b) /\ State' = ChanState(b)
  BY DEF ChannelStatus
<1>2. IsStatus(b) /\ b \in 128 .. 239 /\ b \notin {246, 247}
  BY <1>1 DEF IsStatus, IsChannel
<1>3. Status(input') = b /\ Data(input') = <<>> /\ ~Open(input')
  BY <1>1, <1>2, StatusAfter
<1>4. b \notin 240 .. 247 /\ ~IsSystem(b) /\ Needs(b) \in {1, 2}
  <2>1. b \in 128 .. 247
    BY <1>2
  <2>2. OfChannel(b)
    BY <1>1, <2>1, ChannelStatuses, ZenonT(30)
  <2> QED BY <2>2 DEF OfChannel
<1>5. Len(<<>>) % Needs(b) = 0
  BY <1>4
<1>6. ParseInv'
  BY <1>1, <1>3, <1>4, <1>5 DEF ParseInv, Parsed, KnowsChannel, MessageOver
<1>7. SysexCall = EndedCall(input)
  BY SysexCalled DEF EndedCall
<1>8. ExpectedOf(input, b) = EndedCall(input)
  BY <1>1, <1>2, ExpectedNoData, StatusAfter
<1> QED BY <1>1, <1>6, <1>7, <1>8, Enough

LEMMA SystemStatusStep ==
  ASSUME TypeOK, ParseInv, NEW b \in Byte, SystemStatus(b) PROVE ParseInv' /\ CallsRight'
<1>1. /\ Receive(b) /\ b \in Defined /\ Message' = <<b>> /\ Runnable' = FALSE
      /\ called' = SysexCall \o (IF b \in {246, 247} THEN Call(SysFunc(b), <<b>>, 0) ELSE <<>>)
      /\ Currfunc' = (IF b \in {246, 247} THEN "NULL" ELSE SysFunc(b))
      /\ State' = SysState(b)
  BY DEF SystemStatus
<1>2. IsStatus(b) /\ ~IsChannel(b) /\ b \in {240, 242, 243, 246, 247}
  BY <1>1 DEF IsStatus, IsChannel, IsSystem, Defined
<1>3. Status(input') = b /\ Data(input') = <<>> /\ (Open(input') <=> b = 240)
  BY <1>1, <1>2, StatusAfter
<1>4. <<b>> \o <<>> = <<b>> /\ Len(<<>>) = 0
  OBVIOUS
<1>5. /\ Needs(242) = 2 /\ Needs(243) = 1 /\ SysState(240) = "VARIABLELENGTH"
      /\ SysFunc(240) = "sysex" /\ SysState(246) = "NEEDSTATUS" /\ SysState(247) = "NEEDSTATUS"
      /\ SysFunc(246) = "tune" /\ SysFunc(247) = "eox"
  BY Statuses
<1>6. ParseInv'
  <2>1. CASE b = 240
    BY <1>1, <1>2, <1>3, <1>4, <1>5, <2>1 DEF ParseInv, Parsed, MessageOver, Defined
  <2>2. CASE b \in {242, 243}
    <3>1. 0 < Needs(b) /\ ~(0 >= Needs(b))
      BY <1>5, <2>2
    <3> QED BY <1>1, <1>2, <1>3, <1>4, <2>2, <3>1
            DEF ParseInv, Parsed, MessageOver, KnowsSystem, Defined
  <2>3. CASE b \in {246, 247}
    BY <1>1, <1>2, <1>3, <1>5, <2>3 DEF ParseInv, Parsed, MessageOver, Defined
  <2> QED BY <1>2, <2>1, <2>2, <2>3
<1>7. SysexCall = EndedCall(input)
  BY SysexCalled DEF EndedCall
<1>8. called' = ExpectedOf(input, b)
  <2>1. CASE b \in {246, 247}
    <3>1. Call(SysFunc(b), <<b>>, 0) = << <<SysFunc(b), <<b>>, 0>> >>
      BY DEF Call
    <3>2. called' = EndedCall(input) \o << <<SysFunc(b), <<b>>, 0>> >>
      BY <1>1, <1>7, <2>1, <3>1
    <3> QED BY <1>1, <2>1, <3>2, ExpectedNoData, StatusAfter
  <2>2. CASE b \notin {246, 247}
    <3>1. SysexCall \o <<>> = EndedCall(input)
      BY <1>7 DEF EndedCall
    <3>2. called' = EndedCall(input)
      BY <1>1, <2>2, <3>1
    <3>3. IsStatus(b) /\ ~(b \in {246, 247}) /\ input \in Seq(Byte)
      BY <1>1, <1>2, <2>2, StatusAfter
    <3>4. ExpectedOf(input, b) = EndedCall(input)
      BY ONLY <3>3, b \in Byte, ExpectedNoData
    <3> QED BY <3>2, <3>4
  <2> QED BY <2>1, <2>2
<1> QED BY <1>1, <1>6, <1>8, Enough

(* 241, 244 and 245 end a sysex and say nothing of what comes after them. *)
LEMMA UndefinedStatusStep ==
  ASSUME TypeOK, ParseInv, NEW b \in Byte, UndefinedStatus(b) PROVE ParseInv' /\ CallsRight'
<1>1. /\ Receive(b) /\ IsSystem(b) /\ b \notin Defined /\ called' = SysexCall
      /\ State' = (IF InSysex THEN "NEEDSTATUS" ELSE State)
  BY DEF UndefinedStatus
<1>2. IsStatus(b) /\ ~IsChannel(b) /\ b \notin {240, 242, 243, 246, 247}
  BY <1>1 DEF IsStatus, IsChannel, IsSystem, Defined
<1>3. Status(input') = b /\ Data(input') = <<>> /\ ~Open(input')
  BY <1>1, <1>2, StatusAfter
<1>4. State' # "VARIABLELENGTH"
  BY <1>1 DEF InSysex
<1>5. ParseInv'
  BY <1>2, <1>3, <1>4 DEF ParseInv, Parsed, MessageOver
<1>6. SysexCall = EndedCall(input)
  BY SysexCalled DEF EndedCall
<1>7. ExpectedOf(input, b) = EndedCall(input)
  BY <1>1, <1>2, ExpectedNoData, StatusAfter
<1> QED BY <1>1, <1>5, <1>6, <1>7, Enough

(* The last data bytes, and a message's bytes put together *)
LEMMA Bytes ==
  ASSUME NEW d \in Seq(Byte), NEW b \in Byte, NEW s
  PROVE  /\ Append(d, b) \in Seq(Byte) /\ Len(Append(d, b)) = Len(d) + 1 /\ Len(d) \in Nat
         /\ Append(d, b)[Len(d) + 1] = b
         /\ LastOf(Append(d, b), 1) = <<b>>
         /\ Len(d) > 0 => LastOf(Append(d, b), 2) = <<d[Len(d)], b>>
         /\ Append(<<s>> \o d, b) = <<s>> \o Append(d, b)
         /\ Len(<<s>> \o d) = Len(d) + 1 /\ (<<s>> \o d)[1] = s
<1>1. /\ Append(d, b) \in Seq(Byte) /\ Len(Append(d, b)) = Len(d) + 1 /\ Len(d) \in Nat
      /\ Append(d, b)[Len(d) + 1] = b /\ \A i \in 1 .. Len(d) : Append(d, b)[i] = d[i]
  BY AppendProperties
<1> DEFINE e == Append(d, b)
           n == Len(d)
<1>2. e \in Seq(Byte) /\ Len(e) = n + 1 /\ n \in Nat /\ e[n + 1] = b /\ \A i \in 1 .. n : e[i] = d[i]
  BY <1>1
<1> HIDE DEF e, n
<1>3. LastOf(e, 1) = <<b>>
  <2>1. LastOf(e, 1) = SubSeq(e, n + 1, n + 1)
    BY <1>2 DEF LastOf
  <2>2. SubSeq(e, n + 1, n + 1) \in Seq(Byte) /\ Len(SubSeq(e, n + 1, n + 1)) = 1
    BY <1>2, SubSeqProperties
  <2>3. SubSeq(e, n + 1, n + 1)[1] = e[n + 1]
    BY <1>2
  <2> QED BY <1>2, <2>1, <2>2, <2>3
<1>4. ASSUME n > 0 PROVE LastOf(e, 2) = <<d[n], b>>
  <2>1. e[n] = d[n] /\ n \in Nat \ {0}
    BY <1>2, <1>4
  <2>2. LastOf(e, 2) = SubSeq(e, n, n + 1)
    BY <1>2 DEF LastOf
  <2>3. SubSeq(e, n, n + 1) \in Seq(Byte) /\ Len(SubSeq(e, n, n + 1)) = 2
    BY <1>2, <2>1, SubSeqProperties
  <2>4. SubSeq(e, n, n + 1)[1] = e[n] /\ SubSeq(e, n, n + 1)[2] = e[n + 1]
    BY <1>2, <2>1
  <2> QED BY <1>2, <2>1, <2>2, <2>3, <2>4
<1>5. /\ Append(<<s>> \o d, b) = <<s>> \o Append(d, b)
      /\ Len(<<s>> \o d) = n + 1 /\ (<<s>> \o d)[1] = s
  BY DEF n
<1> QED BY <1>1, <1>3, <1>4, <1>5 DEF e, n

LEMMA Tuples ==
  ASSUME NEW s, NEW x, NEW b
  PROVE  /\ Append(<<s>>, b) = <<s, b>> /\ <<s>> \o <<b>> = <<s, b>>
         /\ Append(<<s, x>>, b) = <<s, x, b>> /\ <<s>> \o <<x, b>> = <<s, x, b>>
<1> DEFINE S == {s, x, b}
<1>1. /\ <<s>> \in Seq(S) /\ <<b>> \in Seq(S) /\ <<s, b>> \in Seq(S) /\ <<x, b>> \in Seq(S)
      /\ <<s, x>> \in Seq(S) /\ <<s, x, b>> \in Seq(S) /\ b \in S
  OBVIOUS
<1> HIDE DEF S
<1>2. ASSUME NEW p \in Seq(S), NEW q \in Seq(S), Len(p) = Len(q), Len(q) \in {2, 3},
             p[1] = q[1], p[2] = q[2], Len(q) = 3 => p[3] = q[3]
      PROVE  p = q
  <2>1. \A i \in 1 .. Len(p) : p[i] = q[i]
    BY <1>2
  <2> QED BY <1>2, <2>1, SeqEqual
<1>3. Append(<<s>>, b) = <<s, b>>
  <2>1. /\ Append(<<s>>, b) \in Seq(S) /\ Len(Append(<<s>>, b)) = 2
        /\ Append(<<s>>, b)[1] = s /\ Append(<<s>>, b)[2] = b
    BY <1>1
  <2>2. <<s, b>> \in Seq(S) /\ Len(<<s, b>>) = 2 /\ <<s, b>>[1] = s /\ <<s, b>>[2] = b
    BY <1>1
  <2> QED BY <1>2, <2>1, <2>2
<1>4. <<s>> \o <<b>> = <<s, b>>
  <2>1. /\ <<s>> \o <<b>> \in Seq(S) /\ Len(<<s>> \o <<b>>) = 2
        /\ (<<s>> \o <<b>>)[1] = s /\ (<<s>> \o <<b>>)[2] = b
    BY <1>1
  <2>2. <<s, b>> \in Seq(S) /\ Len(<<s, b>>) = 2 /\ <<s, b>>[1] = s /\ <<s, b>>[2] = b
    BY <1>1
  <2> QED BY <1>2, <2>1, <2>2
<1>5. /\ <<s, x, b>> \in Seq(S) /\ Len(<<s, x, b>>) = 3
      /\ <<s, x, b>>[1] = s /\ <<s, x, b>>[2] = x /\ <<s, x, b>>[3] = b
  BY <1>1
<1>6. Append(<<s, x>>, b) = <<s, x, b>>
  <2>1. /\ Append(<<s, x>>, b) \in Seq(S) /\ Len(Append(<<s, x>>, b)) = 3
        /\ Append(<<s, x>>, b)[1] = s /\ Append(<<s, x>>, b)[2] = x
        /\ Append(<<s, x>>, b)[3] = b
    BY <1>1
  <2> QED BY <1>2, <1>5, <2>1
<1>7. <<s>> \o <<x, b>> = <<s, x, b>>
  <2>1. /\ <<s>> \o <<x, b>> \in Seq(S) /\ Len(<<s>> \o <<x, b>>) = 3
        /\ (<<s>> \o <<x, b>>)[1] = s /\ (<<s>> \o <<x, b>>)[2] = x
        /\ (<<s>> \o <<x, b>>)[3] = b
    BY <1>1
  <2> QED BY <1>2, <1>5, <2>1
<1> QED BY <1>3, <1>4, <1>6, <1>7

(* What a data byte leaves alone in the readings of the input *)
LEMMA DataAfter ==
  ASSUME TypeOK, ParseInv, NEW b \in Byte, DataStored(b) \/ DataCompletes(b)
  PROVE  /\ Receive(b) /\ IsData(b) /\ input \in Seq(Byte)
         /\ Status(input) \in 128 .. 247
         /\ Data(input) \in Seq(Byte) /\ Len(Data(input)) \in Nat
         /\ Status(input') = Status(input) /\ Data(input') = Append(Data(input), b)
         /\ (Open(input') <=> Open(input))
         /\ Parsed(Status(input), Data(input), Open(input))
<1>1. Receive(b) /\ IsData(b)
  BY DEF DataStored, DataCompletes, Completes
<1>2. ~IsStatus(b) /\ ~IsRealTime(b)
  <2>1. b \in 0 .. 255
    BY <1>1, StatusAfter
  <2> QED BY <1>1, <2>1 DEF IsStatus, IsChannel, IsSystem, IsData, IsRealTime
<1> QED BY <1>1, <1>2, StatusAfter DEF ParseInv

(* Data of a channel message: running status starts the message again and again. *)
LEMMA ChannelData ==
  ASSUME TypeOK, ParseInv, NEW b \in Byte, DataStored(b) \/ DataCompletes(b),
         IsChannel(Status(input))
  PROVE  ParseInv' /\ CallsRight'
<1> DEFINE s == Status(input)
           d == Data(input)
           e == Append(d, b)
<1>1. /\ Receive(b) /\ IsData(b) /\ input \in Seq(Byte)
      /\ s \in 128 .. 247 /\ d \in Seq(Byte) /\ Len(d) \in Nat
      /\ Status(input') = s /\ Data(input') = e /\ KnowsChannel(s, d)
  BY DataAfter, SMTT(30) DEF Parsed
<1>2. e \in Seq(Byte) /\ Len(e) = Len(d) + 1 /\ e[Len(e)] = b
  BY <1>1, Bytes
<1>2a. IsChannel(s)
  OBVIOUS
<1>3. /\ s \notin 240 .. 247 /\ ~IsSystem(s) /\ Needs(s) \in {1, 2}
      /\ Needs(s) = 1 => ChanState(s) = "NEEDONEBYTE"
      /\ Needs(s) = 2 => ChanState(s) = "NEEDTWOBYTES"
      /\ \E i \in 1 .. 7 : ChanFunc(s) = ChannelFunc[i]
      /\ ChanFunc(s) # "NULL"
  <2>1. OfChannel(s)
    BY <1>1, <1>2a, ChannelStatuses, Zenon
  <2> QED BY <2>1 DEF OfChannel
<1>4. /\ LastOf(e, 1) = <<b>>
      /\ Len(d) > 0 => LastOf(e, 2) = <<d[Len(d)], b>>
  BY <1>1, Bytes
<1>5. ExpectedOf(input, b) =
        IF IsChannel(s) /\ Len(e) % Needs(s) = 0
        THEN << <<ChanFunc(s), <<s>> \o LastOf(e, Needs(s)), s % 16>> >>
        ELSE IF s \in {242, 243} /\ Len(e) = Needs(s)
        THEN << <<SysFunc(s), <<s>> \o e, 0>> >> ELSE <<>>
  <2>1. s = Status(input) /\ e = Append(Data(input), b)
    OBVIOUS
  <2> HIDE DEF s, e
  <2> QED BY <1>1, <2>1, ExpectedData, ZenonT(30)
<1> HIDE DEF s, d, e
<1>6. /\ Runnable /\ Currfunc = ChanFunc(s) /\ Currchan = s % 16 /\ State = ChanState(s)
      /\ Len(d) % Needs(s) = 0 => Message = <<s>>
      /\ Len(d) % Needs(s) # 0 => Message = <<s, d[Len(d)]>>
  BY <1>1 DEF KnowsChannel
<1>7. \A m : Call(ChanFunc(s), m, s % 16) = << <<ChanFunc(s), m, s % 16>> >>
  BY <1>3 DEF Call
<1>8. CASE Needs(s) = 1
  <2>1. Len(d) % 1 = 0 /\ Len(e) % 1 = 0
    BY <1>1, <1>2
  <2>2. Message = <<s>> /\ State = "NEEDONEBYTE"
    BY <1>3, <1>6, <1>8, <2>1
  <2>3. DataCompletes(b)
    BY <2>2 DEF DataStored
  <2>4. /\ Message' = <<s>> /\ State' = State /\ Currfunc' = Currfunc
        /\ Currchan' = Currchan /\ Runnable' = Runnable
        /\ called' = Call(Currfunc, Append(Message, b), Currchan)
    BY <1>3, <1>6, <2>2, <2>3 DEF DataCompletes, Completes
  <2>5. ParseInv'
    BY <1>1, <1>3, <1>2a, <1>6, <1>8, <2>1, <2>4 DEF ParseInv, Parsed, KnowsChannel, MessageOver
  <2>6. called' = << <<ChanFunc(s), <<s, b>>, s % 16>> >>
    <3>1. Append(Message, b) = <<s, b>>
      BY <2>2, Tuples
    <3> QED BY <1>6, <1>7, <2>4, <3>1
  <2>7. ExpectedOf(input, b) = << <<ChanFunc(s), <<s, b>>, s % 16>> >>
    <3>1. <<s>> \o <<b>> = <<s, b>>
      BY Tuples
    <3> QED BY <1>2a, <1>4, <1>5, <1>8, <2>1, <3>1
  <2> QED BY <1>1, <2>5, <2>6, <2>7, Enough
<1>9. CASE Needs(s) = 2 /\ Len(d) % 2 = 0
  <2>1. Len(e) % 2 # 0
    BY <1>1, <1>2, <1>9
  <2>2. Message = <<s>> /\ State = "NEEDTWOBYTES"
    BY <1>3, <1>6, <1>9
  <2>3. DataStored(b)
    <3>1. ~(Len(Message) + 1 >= 3)
      BY <2>2
    <3> QED BY <2>2, <3>1 DEF DataCompletes, Completes
  <2>4. /\ Message' = <<s, e[Len(e)]>> /\ State' = State /\ Currfunc' = Currfunc
        /\ Currchan' = Currchan /\ Runnable' = Runnable /\ called' = <<>>
    <3>1. Append(Message, b) = <<s, b>>
      BY <2>2, Tuples
    <3> QED BY <1>2, <2>3, <3>1 DEF DataStored
  <2>5. ParseInv'
    BY <1>1, <1>3, <1>2a, <1>6, <1>9, <2>1, <2>4 DEF ParseInv, Parsed, KnowsChannel, MessageOver
  <2>6. ExpectedOf(input, b) = <<>>
    BY <1>3, <1>5, <1>9, <2>1
  <2> QED BY <1>1, <2>4, <2>5, <2>6, Enough
<1>10. CASE Needs(s) = 2 /\ Len(d) % 2 # 0
  <2>1. Len(e) % 2 = 0 /\ Len(d) > 0
    <3>1. \A k \in Nat : k % 2 # 0 => (k + 1) % 2 = 0 /\ k > 0
      OBVIOUS
    <3> QED BY <1>1, <1>2, <1>10, <3>1
  <2>2. Message = <<s, d[Len(d)]>> /\ State = "NEEDTWOBYTES"
    BY <1>3, <1>6, <1>10
  <2>3. DataCompletes(b)
    <3>1. ~(Len(Message) + 1 < 3)
      BY <2>2
    <3> QED BY <2>2, <3>1 DEF DataStored
  <2>4. /\ Message' = <<s>> /\ State' = State /\ Currfunc' = Currfunc
        /\ Currchan' = Currchan /\ Runnable' = Runnable
        /\ called' = Call(Currfunc, Append(Message, b), Currchan)
    BY <1>3, <1>6, <2>2, <2>3 DEF DataCompletes, Completes
  <2>5. ParseInv'
    BY <1>1, <1>3, <1>2a, <1>6, <1>10, <2>1, <2>4 DEF ParseInv, Parsed, KnowsChannel, MessageOver
  <2>6. called' = << <<ChanFunc(s), <<s, d[Len(d)], b>>, s % 16>> >>
    <3>1. Append(Message, b) = <<s, d[Len(d)], b>>
      BY <2>2, Tuples
    <3> QED BY <1>6, <1>7, <2>4, <3>1
  <2>7. ExpectedOf(input, b) = << <<ChanFunc(s), <<s, d[Len(d)], b>>, s % 16>> >>
    <3>1. <<s>> \o <<d[Len(d)], b>> = <<s, d[Len(d)], b>>
      BY Tuples
    <3> QED BY <1>2a, <1>4, <1>5, <1>10, <2>1, <3>1
  <2> QED BY <1>1, <2>5, <2>6, <2>7, Enough
<1> QED BY <1>3, <1>8, <1>9, <1>10

(* Data of a song position, a song selection or a sysex, and data nobody waits for *)
LEMMA SystemData ==
  ASSUME TypeOK, ParseInv, NEW b \in Byte, DataStored(b) \/ DataCompletes(b),
         ~IsChannel(Status(input))
  PROVE  ParseInv' /\ CallsRight'
<1> DEFINE s == Status(input)
           d == Data(input)
           e == Append(d, b)
           open == Open(input)
<1>1. /\ Receive(b) /\ IsData(b) /\ input \in Seq(Byte)
      /\ s \in 128 .. 247 /\ d \in Seq(Byte) /\ Len(d) \in Nat
      /\ Status(input') = s /\ Data(input') = e /\ (Open(input') <=> open)
      /\ Parsed(s, d, open)
  BY DataAfter
<1>2. e \in Seq(Byte) /\ Len(e) = Len(d) + 1 /\ ~IsChannel(s)
  BY <1>1, Bytes
<1>3. /\ Append(<<s>> \o d, b) = <<s>> \o e
      /\ Len(<<s>> \o d) = Len(d) + 1 /\ (<<s>> \o d)[1] = s
  BY <1>1, Bytes
<1>4. ExpectedOf(input, b) =
        IF IsChannel(s) /\ Len(e) % Needs(s) = 0
        THEN << <<ChanFunc(s), <<s>> \o LastOf(e, Needs(s)), s % 16>> >>
        ELSE IF s \in {242, 243} /\ Len(e) = Needs(s)
        THEN << <<SysFunc(s), <<s>> \o e, 0>> >> ELSE <<>>
  <2>1. s = Status(input) /\ e = Append(Data(input), b)
    OBVIOUS
  <2> HIDE DEF s, e
  <2> QED BY <1>1, <2>1, ExpectedData, ZenonT(30)
<1>5. open => s = 240
  BY DEF Open
<1>6. s \in {240, 242, 243, 246, 247} \/ (IsSystem(s) /\ s \notin Defined)
  <2>1. s \in 128 .. 247 /\ ~IsChannel(s)
    BY <1>1, <1>2
  <2> HIDE DEF s, d, e, open
  <2> QED BY <2>1 DEF IsChannel, IsSystem, Defined
<1> HIDE DEF s, d, e, open
<1>7. /\ s = 242 => Needs(s) = 2 /\ SysState(s) = "NEEDTWOBYTES" /\ SysFunc(s) = "position"
      /\ s = 243 => Needs(s) = 1 /\ SysState(s) = "NEEDONEBYTE" /\ SysFunc(s) = "song"
  BY DEF Needs, SysState, SysFunc
(* A song position or selection that is not complete *)
<1>8. CASE s \in {242, 243} /\ Len(d) < Needs(s)
  <2>1. /\ ~Runnable /\ Currfunc = SysFunc(s) /\ State = SysState(s) /\ Message = <<s>> \o d
    BY <1>1, <1>8 DEF Parsed, KnowsSystem
  <2>2. Append(Message, b) = <<s>> \o e /\ Len(Message) = Len(d) + 1
    BY <1>3, <2>1
  <2>3. CASE Len(e) = Needs(s)
    <3>1. DataCompletes(b)
      BY <1>1, <1>2, <1>7, <1>8, <2>1, <2>2, <2>3 DEF DataStored
    <3>2. /\ State' = "NEEDSTATUS" /\ Currfunc' = "NULL"
          /\ called' = Call(Currfunc, Append(Message, b), Currchan)
      BY <1>7, <1>8, <2>1, <3>1 DEF DataCompletes, Completes
    <3>3. ~(Len(e) < Needs(s))
      BY <1>1, <1>2, <2>3
    <3>4. s # 240 /\ s \notin {246, 247} /\ s \in Defined
      BY <1>8 DEF Defined
    <3>5. ParseInv'
      BY <1>1, <1>2, <3>2, <3>3, <3>4 DEF ParseInv, Parsed
    <3>6. \A m : Call(SysFunc(s), m, Currchan) = << <<SysFunc(s), m, 0>> >>
      BY <1>7, <1>8 DEF Call, ChannelFunc
    <3>7. called' = << <<SysFunc(s), <<s>> \o e, 0>> >>
      BY <2>1, <2>2, <3>2, <3>6
    <3>8. ExpectedOf(input, b) = << <<SysFunc(s), <<s>> \o e, 0>> >>
      BY <1>2, <1>4, <1>8, <2>3
    <3> QED BY <1>1, <3>5, <3>7, <3>8, Enough
  <2>4. CASE Len(e) # Needs(s)
    <3>1. s = 242 /\ Len(d) = 0
      BY <1>1, <1>2, <1>7, <1>8, <2>4
    <3>2. DataStored(b)
      BY <1>7, <2>1, <2>2, <3>1 DEF DataCompletes, Completes
    <3>3. /\ Message' = <<s>> \o e /\ State' = State /\ Currfunc' = Currfunc
          /\ Runnable' = Runnable /\ called' = <<>>
      BY <2>2, <3>2 DEF DataStored
    <3>4. ~(Len(e) >= Needs(s)) /\ s \notin {240, 246, 247} /\ s \in Defined
      BY <1>2, <1>7, <3>1 DEF Defined
    <3>5. ParseInv'
      BY <1>1, <1>2, <2>1, <3>3, <3>4 DEF ParseInv, Parsed, KnowsSystem, MessageOver
    <3>6. ExpectedOf(input, b) = <<>>
      BY <1>2, <1>4, <2>4
    <3> QED BY <1>1, <3>3, <3>5, <3>6, Enough
  <2> QED BY <2>3, <2>4
(* An open sysex *)
<1>9. CASE s = 240 /\ open
  <2>1. State = "VARIABLELENGTH" /\ Currfunc = "sysex" /\ Message = <<s>> \o d
    BY <1>1, <1>9 DEF Parsed
  <2>2. DataStored(b)
    BY <2>1 DEF DataCompletes, Completes
  <2>3. Message' = <<s>> \o e /\ State' = State /\ Currfunc' = Currfunc /\ called' = <<>>
    BY <1>3, <2>1, <2>2 DEF DataStored
  <2>4. ParseInv'
    BY <1>1, <1>2, <1>9, <2>1, <2>3 DEF ParseInv, Parsed, MessageOver, Defined
  <2>5. ExpectedOf(input, b) = <<>>
    BY <1>2, <1>4, <1>9
  <2> QED BY <1>1, <2>3, <2>4, <2>5, Enough
(* Data that belongs to nothing *)
<1>10. CASE MessageOver(s, d, open)
  <2>1. State = "NEEDSTATUS" /\ Currfunc = "NULL"
    BY <1>1, <1>10 DEF Parsed
  <2>2. DataStored(b)
    BY <2>1 DEF DataCompletes, Completes
  <2>3. State' = State /\ Currfunc' = Currfunc /\ called' = <<>>
    BY <2>2 DEF DataStored
  <2>4. /\ s \in Defined /\ ~(s = 240 /\ open)
        /\ s \in {242, 243} => ~(Len(e) < Needs(s)) /\ Len(e) # Needs(s)
    <3>1. s \in {242, 243} => Needs(s) \in Nat /\ Len(d) >= Needs(s)
      BY <1>7, <1>10 DEF MessageOver
    <3>2. s \in {242, 243} => ~(Len(e) < Needs(s)) /\ Len(e) # Needs(s)
      BY <1>1, <1>2, <3>1
    <3>3. s \in Defined /\ ~(s = 240 /\ open)
      BY <1>10 DEF MessageOver, Defined
    <3> QED BY <3>2, <3>3
  <2>5. ParseInv'
    BY <1>1, <1>2, <2>1, <2>3, <2>4 DEF ParseInv, Parsed, MessageOver
  <2>6. ExpectedOf(input, b) = <<>>
    BY <1>2, <1>4, <2>4
  <2> QED BY <1>1, <2>3, <2>5, <2>6, Enough
(* Data after an undefined status byte *)
<1>11. CASE IsSystem(s) /\ s \notin Defined
  <2>1. State # "VARIABLELENGTH"
    BY <1>1, <1>11 DEF Parsed
  <2>2. State' # "VARIABLELENGTH"
    BY <2>1 DEF DataStored, DataCompletes
  <2>3. s \notin {240, 242, 243, 246, 247}
    BY <1>11 DEF Defined
  <2>4. ParseInv'
    BY <1>1, <1>2, <2>2, <2>3 DEF ParseInv, Parsed, MessageOver
  <2> QED BY <1>1, <1>11, <2>4, Enough DEF s
<1>12. \/ s \in {242, 243} /\ Len(d) < Needs(s)
       \/ s = 240 /\ open
       \/ MessageOver(s, d, open)
       \/ IsSystem(s) /\ s \notin Defined
  <2>1. s \in {242, 243} => Len(d) < Needs(s) \/ Len(d) >= Needs(s)
    BY <1>1, <1>7
  <2> QED BY <1>6, <2>1 DEF MessageOver
<1> QED BY <1>8, <1>9, <1>10, <1>11, <1>12

(* midiparse() makes the calls the input wants, however the messages are mixed and
   cut short; only data after an undefined status byte may be passed on wrongly.  *)
THEOREM CallsCorrect == Spec => []CallsRight
<1>1. Init => TypeOK /\ ParseInv /\ CallsRight
  <2> SUFFICES ASSUME Init PROVE ParseInv /\ CallsRight
    BY InitType
  <2>1. input = <<>> /\ Len(input) = 0
    BY DEF Init
  <2>2. StatusPlaces(input) = {} /\ StatusPlace(input) = 0 /\ Status(input) = 144
    BY <2>1 DEF StatusPlaces, StatusPlace, Status
  <2>3. Data(input) = <<>>
    <3>1. DataPlaces(input) = {}
      BY <2>1, <2>2 DEF DataPlaces
    <3> QED BY <3>1, KeptNone DEF Data
  <2>4. IsChannel(144) /\ 144 \notin 240 .. 247 /\ ~IsSystem(144) /\ 144 % 16 = 0
    BY DEF IsChannel, IsSystem
  <2>5. ChanFunc(144) = "on" /\ ChanState(144) = "NEEDTWOBYTES" /\ Needs(144) = 2
    BY DEF ChanFunc, ChannelFunc, ChanState, Needs
  <2>6. Len(<<>>) % 2 = 0
    OBVIOUS
  <2>7. ParseInv
    BY <2>2, <2>3, <2>4, <2>5, <2>6 DEF Init, ParseInv, Parsed, KnowsChannel, MessageOver
  <2> QED BY <2>1, <2>7 DEF CallsRight
<1>2. TypeOK /\ ParseInv /\ CallsRight /\ [Next]_vars => (TypeOK /\ ParseInv /\ CallsRight)'
  <2> SUFFICES ASSUME TypeOK, ParseInv, CallsRight, [Next]_vars
               PROVE  ParseInv' /\ CallsRight'
    BY StepType
  <2>1. ASSUME NEW b \in Byte, DataStored(b) \/ DataCompletes(b)
        PROVE  ParseInv' /\ CallsRight'
    BY <2>1, ChannelData, SystemData
  <2>2. CASE UNCHANGED vars
    <3>1. ParseInv'
      BY <2>2 DEF vars, ParseInv, Parsed, KnowsChannel, KnowsSystem, MessageOver
    <3>2. CallsRight'
      <4>1. input' = input /\ called' = called
        BY <2>2 DEF vars
      <4>2. LastStatus(Len(input))' = LastStatus(Len(input))
        BY <4>1 DEF LastStatus
      <4>3. StatusAt(LastStatus(Len(input)))' = StatusAt(LastStatus(Len(input)))
        BY <4>1, <4>2 DEF StatusAt
      <4>4. SysexOpen(Len(input))' <=> SysexOpen(Len(input))
        BY <4>1, <4>2, <4>3 DEF SysexOpen
      <4>5. DataBetween(LastStatus(Len(input)), Len(input))'
              = DataBetween(LastStatus(Len(input)), Len(input))
        BY <4>1, <4>2 DEF DataBetween
      <4>6. Expected(Len(input))' = Expected(Len(input))
        BY <4>1, <4>3, <4>4, <4>5 DEF Expected
      <4>7. AfterUndefined(Len(input))' <=> AfterUndefined(Len(input))
        BY <4>1, <4>3 DEF AfterUndefined
      <4> QED BY <4>1, <4>6, <4>7 DEF CallsRight
    <3> QED BY <3>1, <3>2
  <2> QED BY <2>1, <2>2, ActiveSensingStep, RealTimeStep, ChannelStatusStep,
             SystemStatusStep, UndefinedStatusStep DEF Next
<1> QED BY <1>1, <1>2, PTL DEF Spec
=============================================================================
