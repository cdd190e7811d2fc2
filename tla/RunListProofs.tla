--------------------------- MODULE RunListProofs ---------------------------
(***************************************************************************)
(* For any number of tasks, the Running list links exactly the running     *)
(* tasks, each once, and the pass of exectasks() over it never reaches a   *)
(* task that was parked or freed meanwhile.                                *)
(***************************************************************************)
EXTENDS RunList, ListsProofs

Once(s) == \A i, j \in DOMAIN s : s[i] = s[j] => i = j

-----------------------------------------------------------------------------
(* The operators on lists.                                                 *)

(* Without() drops the tasks in gone and no other, and links none twice. *)
LEMMA WithoutList ==
  ASSUME NEW s \in Seq(Task), Once(s), NEW gone
  PROVE  /\ Without(s, gone) \in Seq(Task) /\ Once(Without(s, gone))
         /\ Members(Without(s, gone)) = Members(s) \ gone
<1> DEFINE kept == {i \in DOMAIN s : s[i] \notin gone}
           rest == Kept(s, kept)
<1>0. Without(s, gone) = rest
  BY DEF Without
<1>1. /\ rest \in Seq(Task) /\ IsFiniteSet(kept) /\ kept \subseteq Nat
      /\ DOMAIN rest = 1 .. Cardinality(kept)
      /\ \A k \in 1 .. Cardinality(kept) : Nth(kept, k) \in kept /\ rest[k] = s[Nth(kept, k)]
  <2>1. kept \in SUBSET DOMAIN s
    OBVIOUS
  <2> HIDE DEF kept
  <2> QED BY <2>1, KeptList
<1> HIDE DEF rest
<1>2. ASSUME NEW j \in 1 .. Cardinality(kept), NEW k \in 1 .. Cardinality(kept), rest[j] = rest[k]
      PROVE  j = k
  <2>1. Nth(kept, j) = Nth(kept, k)
    BY <1>1, <1>2 DEF Once
  <2> HIDE DEF kept
  <2>2. /\ Cardinality({m \in kept : m <= Nth(kept, j)}) = j
        /\ Cardinality({m \in kept : m <= Nth(kept, k)}) = k
    BY <1>1, NthPlace
  <2> QED BY <2>1, <2>2
<1>3. ASSUME NEW i \in kept PROVE \E k \in 1 .. Cardinality(kept) : Nth(kept, k) = i
  <2> HIDE DEF kept
  <2> QED BY <1>1, <1>3, PlaceOf
<1>4. Members(rest) = Members(s) \ gone
  <2>1. Members(rest) \subseteq Members(s) \ gone
    BY <1>1 DEF Members
  <2>2. ASSUME NEW x \in Members(s), x \notin gone PROVE x \in Members(rest)
    <3>1. PICK i \in kept : s[i] = x
      BY <2>2 DEF Members
    <3>2. PICK k \in 1 .. Cardinality(kept) : Nth(kept, k) = i
      BY <1>3
    <3> QED BY <1>1, <3>1, <3>2 DEF Members
  <2> QED BY <2>1, <2>2
<1> QED BY <1>0, <1>1, <1>2, <1>4 DEF Once

(* The list after the tasks of S, none of which it holds, went to its head. *)
LEMMA LinkedList ==
  ASSUME NEW s \in Seq(Task), Once(s), NEW q \in Seq(Task), Once(q),
         Members(s) \cap Members(q) = {}
  PROVE  /\ s \o q \in Seq(Task) /\ Once(s \o q)
         /\ Members(s \o q) = Members(s) \cup Members(q)
<1>1. /\ DOMAIN s = 1 .. Len(s) /\ DOMAIN q = 1 .. Len(q) /\ Len(s) \in Nat /\ Len(q) \in Nat
      /\ s \o q \in Seq(Task) /\ DOMAIN (s \o q) = 1 .. Len(s) + Len(q)
      /\ \A i \in 1 .. Len(s) + Len(q) :
           (s \o q)[i] = IF i <= Len(s) THEN s[i] ELSE q[i - Len(s)]
  BY ConcatProperties
<1>2. ASSUME NEW i \in 1 .. Len(s) PROVE i \in DOMAIN (s \o q) /\ (s \o q)[i] = s[i]
  BY <1>1
<1>3. ASSUME NEW i \in 1 .. Len(q)
      PROVE  i + Len(s) \in DOMAIN (s \o q) /\ (s \o q)[i + Len(s)] = q[i]
  BY <1>1
<1>4. ASSUME NEW i \in DOMAIN (s \o q)
      PROVE  \/ i \in DOMAIN s /\ (s \o q)[i] = s[i]
             \/ /\ i > Len(s) /\ i - Len(s) \in DOMAIN q
                /\ (s \o q)[i] = q[i - Len(s)]
  BY <1>1
<1>5. Members(s \o q) \subseteq Members(s) \cup Members(q)
  BY <1>4 DEF Members
<1>6. Members(s) \subseteq Members(s \o q) /\ Members(q) \subseteq Members(s \o q)
  <2>1. \A i \in DOMAIN s : s[i] \in Members(s \o q)
    BY <1>1, <1>2 DEF Members
  <2>2. \A i \in DOMAIN q : q[i] \in Members(s \o q)
    BY <1>1, <1>3 DEF Members
  <2> QED BY <2>1, <2>2 DEF Members
<1>7. ASSUME NEW i \in DOMAIN (s \o q), NEW j \in DOMAIN (s \o q), (s \o q)[i] = (s \o q)[j]
      PROVE  i = j
  <2>1. i \in Nat /\ j \in Nat
    BY <1>1
  <2>2. i \in DOMAIN s <=> j \in DOMAIN s
    <3>1. \A k \in DOMAIN s, m \in DOMAIN q : s[k] # q[m]
      BY DEF Members
    <3>2. \A k \in DOMAIN s : ~(k > Len(s))
      BY <1>1
    <3> QED BY <1>4, <1>7, <3>1, <3>2
  <2>3. CASE i \in DOMAIN s
    BY <1>1, <1>2, <1>7, <2>2, <2>3 DEF Once
  <2>4. CASE i \notin DOMAIN s
    <3>1. /\ i - Len(s) \in DOMAIN q /\ j - Len(s) \in DOMAIN q
          /\ q[i - Len(s)] = q[j - Len(s)]
      BY <1>4, <1>7, <2>2, <2>4
    <3>2. i - Len(s) = j - Len(s)
      BY <3>1 DEF Once
    <3> QED BY <1>1, <2>1, <3>2
  <2> QED BY <2>3, <2>4
<1> QED BY <1>1, <1>5, <1>6, <1>7 DEF Once

(* restarttask() and newtask(): one task goes to the head. *)
LEMMA OneLinked ==
  ASSUME NEW u \in Task, NEW q \in Seq(Task), Once(q), u \notin Members(q)
  PROVE  /\ <<u>> \o q \in Seq(Task) /\ Once(<<u>> \o q)
         /\ Members(<<u>> \o q) = {u} \cup Members(q)
<1>1. <<u>> \in Seq(Task) /\ Once(<<u>>) /\ Members(<<u>>) = {u}
  BY DEF Once, Members
<1>2. Members(<<u>>) \cap Members(q) = {}
  BY <1>1
<1> HIDE DEF Once, Members
<1> QED BY <1>1, <1>2, LinkedList

(* An order of a finite set of tasks holds each of them once. *)
LEMMA OrdersOnce ==
  ASSUME NEW S \in SUBSET Task, NEW s \in Orders(S)
  PROVE  s \in Seq(Task) /\ Once(s) /\ Members(s) = S
<1>1. IsFiniteSet(S) /\ Cardinality(S) \in Nat
  BY RunListAssumption, FS_Subset, FS_CardinalityType
<1>2. s \in [1 .. Cardinality(S) -> S] /\ Members(s) = S
  BY DEF Orders
<1>3. s \in Surjection(1 .. Cardinality(S), S)
  BY <1>2 DEF Surjection, Members
<1>4. IsFiniteSet(1 .. Cardinality(S)) /\ Cardinality(1 .. Cardinality(S)) = Cardinality(S)
  BY <1>1, FS_Interval
<1>5. s \in Injection(1 .. Cardinality(S), S)
  BY <1>3, <1>4, FS_Surjection
<1>6. s \in Seq(Task)
  BY <1>1, <1>2
<1> QED BY <1>2, <1>5, <1>6 DEF Injection, IsInjective, Once

(* The successor of a task in the list, if it has one, is another task of it. *)
LEMMA NextRunLinked ==
  ASSUME Running \in Seq(Task), Once(Running), NEW t, NextRun(t) # None
  PROVE  NextRun(t) \in Members(Running) /\ NextRun(t) # t
<1> DEFINE i == CHOOSE k \in 1 .. Len(Running) - 1 : Running[k] = t
<1>1. \E k \in 1 .. Len(Running) - 1 : Running[k] = t
  BY DEF NextRun
<1>2. i \in 1 .. Len(Running) - 1 /\ Running[i] = t /\ NextRun(t) = Running[i + 1]
  BY <1>1 DEF NextRun
<1> HIDE DEF i
<1>3. Len(Running) \in Nat /\ DOMAIN Running = 1 .. Len(Running)
  OBVIOUS
<1>4. i + 1 \in DOMAIN Running /\ i \in DOMAIN Running /\ i + 1 # i
  BY <1>2, <1>3
<1> QED BY <1>2, <1>4 DEF Members, Once

-----------------------------------------------------------------------------
(* The inductive invariant.                                                *)

Inv == TypeOK /\ ListExact /\ TurnIsRunning

LEMMA InvOnce ==
  ASSUME Inv
  PROVE  /\ Running \in Seq(Task) /\ Once(Running) /\ T \in Task \cup {None}
         /\ state \in [Task -> {"free", "running", "parked"}]
         /\ Members(Running) = {t \in Task : state[t] = "running"}
         /\ T # None => state[T] = "running"
BY DEF Inv, TypeOK, ListExact, TurnIsRunning, Once

LEMMA InvNext ==
  ASSUME Running' \in Seq(Task), Once(Running'), T' \in Task \cup {None},
         state' \in [Task -> {"free", "running", "parked"}],
         Members(Running') = {t \in Task : state'[t] = "running"},
         T' # None => state'[T'] = "running",
         limited' \subseteq Task, called' \subseteq Task, Gotanint' \in 0 .. MaxInts
  PROVE  Inv'
BY DEF Inv, TypeOK, ListExact, TurnIsRunning, Once

(* The pass goes on to the next task of a list that has lost at most T. *)
LEMMA TurnGoesOn ==
  ASSUME Inv, T' = NextRun(T), \A t \in Task : t # T /\ state[t] = "running" => state'[t] = "running"
  PROVE  T' \in Task \cup {None} /\ (T' # None => state'[T'] = "running")
<1>1. CASE NextRun(T) = None
  BY <1>1
<1>2. CASE NextRun(T) # None
  BY <1>2, InvOnce, NextRunLinked
<1> QED BY <1>1, <1>2

(* taskkill() and taskbury(), as far as the list goes. *)
LEMMA BuryList ==
  ASSUME Inv, NEW dead \in SUBSET Task, NEW woken \in SUBSET (Parked \ dead),
         NEW handled \in SUBSET (Live \ dead), Bury(dead, woken, handled)
  PROVE  /\ Running' \in Seq(Task) /\ Once(Running')
         /\ state' \in [Task -> {"free", "running", "parked"}]
         /\ Members(Running') = {t \in Task : state'[t] = "running"}
<1> DEFINE linked == woken \cup (handled \cap Parked)
<1>1. PICK s \in Orders(linked) : Running' = s \o Without(Running, dead)
  BY DEF Bury
<1>2. linked \in SUBSET Task
  BY DEF Parked
<1>3. s \in Seq(Task) /\ Once(s) /\ Members(s) = linked
  <2> HIDE DEF linked
  <2> QED BY <1>1, <1>2, OrdersOnce
<1>4. /\ Without(Running, dead) \in Seq(Task) /\ Once(Without(Running, dead))
      /\ Members(Without(Running, dead)) = Members(Running) \ dead
  BY InvOnce, WithoutList
<1>5. linked \cap (Members(Running) \ dead) = {}
  BY InvOnce DEF Parked
<1>6. /\ Running' \in Seq(Task) /\ Once(Running')
      /\ Members(Running') = linked \cup (Members(Running) \ dead)
  <2> HIDE DEF linked
  <2> QED BY <1>1, <1>3, <1>4, <1>5, LinkedList
<1>7. \A t \in Task : state'[t] = IF t \in dead THEN "free"
                                ELSE IF t \in woken \cup handled THEN "running" ELSE state[t]
  BY DEF Bury
<1>8. state' \in [Task -> {"free", "running", "parked"}]
  BY InvOnce DEF Bury
<1>9. \A t \in Task : state'[t] = "running" <=> t \in linked \cup (Members(Running) \ dead)
  <2> SUFFICES ASSUME NEW t \in Task
               PROVE  state'[t] = "running" <=> t \in linked \cup (Members(Running) \ dead)
    OBVIOUS
  <2>1. t \in Members(Running) <=> state[t] = "running"
    BY InvOnce
  <2>2. state[t] \in {"free", "running", "parked"}
    BY InvOnce
  <2> QED BY <1>7, <2>1, <2>2 DEF Parked, Live
<1>10. Members(Running') \subseteq Task
  BY <1>2, <1>6, InvOnce
<1> QED BY <1>6, <1>8, <1>9, <1>10

LEMMA InitInv == Init => Inv
<1> SUFFICES ASSUME NEW t \in Task,
                    state = [u \in Task |-> IF u = t THEN "running" ELSE "free"],
                    Running = <<t>>, T = None, limited = {}, called = {}, Gotanint = 0
             PROVE  Inv
  BY DEF Init
<1>1. Running \in Seq(Task) /\ Members(Running) = {t}
  BY DEF Members
<1> QED BY <1>1, RunListAssumption DEF Inv, TypeOK, ListExact, TurnIsRunning

(* One byte code, or a step over a task of low priority. *)
LEMMA TurnStep ==
  ASSUME Inv, Skip \/ Plain \/ \E S \in SUBSET Task : SetLimited(S)
  PROVE  Inv'
<1>1. UNCHANGED <<state, Running, Gotanint>> /\ T' = NextRun(T)
  BY DEF Skip, Plain, SetLimited
<1>2. T' \in Task \cup {None} /\ (T' # None => state'[T'] = "running")
  BY <1>1, TurnGoesOn
<1>3. limited' \subseteq Task /\ called' \subseteq Task /\ Gotanint' \in 0 .. MaxInts
  BY <1>1 DEF Skip, Plain, SetLimited, Calls, Turn, Inv, TypeOK
<1> QED BY <1>1, <1>2, <1>3, InvOnce, InvNext

(* The tasks that go to the head of the list were not in it. *)
LEMMA LinkStep ==
  ASSUME Inv, NEW u \in Task,
         Spawn(u) \/ Unpark(u) \/ Wake(u) \/ Interrupt(u)
  PROVE  Inv'
<1>1. /\ state[u] # "running" /\ state' = [state EXCEPT ![u] = "running"]
      /\ Running' = <<u>> \o Running /\ (T' = T \/ T' = NextRun(T))
  BY DEF Spawn, Unpark, Wake, Interrupt
<1>2. /\ Running' \in Seq(Task) /\ Once(Running')
      /\ Members(Running') = {u} \cup Members(Running)
  <2>1. u \notin Members(Running)
    BY <1>1, InvOnce
  <2> QED BY <1>1, <2>1, InvOnce, OneLinked
<1>3. /\ state' \in [Task -> {"free", "running", "parked"}]
      /\ \A t \in Task : state'[t] = "running" <=> t = u \/ state[t] = "running"
  BY <1>1, InvOnce
<1>4. T' \in Task \cup {None} /\ (T' # None => state'[T'] = "running")
  BY <1>1, <1>3, InvOnce, TurnGoesOn
<1>5. limited' \subseteq Task /\ called' \subseteq Task /\ Gotanint' \in 0 .. MaxInts
  <2>1. limited \subseteq Task /\ called \subseteq Task /\ Gotanint \in 0 .. MaxInts
        /\ T \in Task \cup {None} /\ MaxInts \in Nat
    BY RunListAssumption DEF Inv, TypeOK
  <2>2. CASE Spawn(u)
    <3>1. T \in Task /\ called' = called \cup {T, u} /\ Gotanint' = Gotanint
      BY <2>1, <2>2 DEF Spawn, Turn
    <3>2. limited' = limited \cup {u} \/ limited' = limited \ {u}
      BY <2>2 DEF Spawn
    <3> QED BY <2>1, <3>1, <3>2
  <2>3. CASE Unpark(u)
    BY <2>1, <2>3 DEF Unpark, Calls, Turn
  <2>4. CASE Wake(u)
    BY <2>1, <2>4 DEF Wake
  <2>5. CASE Interrupt(u)
    <3>1. called' = called \cup {u} /\ Gotanint' = Gotanint + 1 /\ Gotanint < MaxInts
      BY <2>5 DEF Interrupt
    <3>2. limited' = limited \cup {u} \/ limited' = limited \ {u}
      BY <2>5 DEF Interrupt
    <3>3. Gotanint' \in 0 .. MaxInts
      BY <2>1, <3>1
    <3> QED BY <2>1, <3>1, <3>2, <3>3
  <2> QED BY <2>2, <2>3, <2>4, <2>5
<1>6. Members(Running') = {t \in Task : state'[t] = "running"}
  BY <1>2, <1>3, InvOnce
<1> QED BY <1>2, <1>3, <1>4, <1>5, <1>6, InvNext

(* taskunrun(), in wait() and lock() or in get() and sleeptill(). *)
LEMMA ParkStep == ASSUME Inv, Park \/ ParkBack PROVE Inv'
<1>1. /\ T \in Task /\ T # None /\ state' = [state EXCEPT ![T] = "parked"]
      /\ Running' = Without(Running, {T})
  BY InvOnce DEF Park, ParkBack, Calls, Turn
<1>2. /\ Running' \in Seq(Task) /\ Once(Running')
      /\ Members(Running') = Members(Running) \ {T}
  BY <1>1, InvOnce, WithoutList
<1>3. /\ state' \in [Task -> {"free", "running", "parked"}]
      /\ \A t \in Task : state'[t] = "running" <=> t # T /\ state[t] = "running"
  BY <1>1, InvOnce
<1>4. Members(Running') = {t \in Task : state'[t] = "running"}
  BY <1>2, <1>3, InvOnce
<1>5. T' \in Task \cup {None} /\ (T' # None => state'[T'] = "running")
  <2>1. CASE Park
    BY <1>3, <2>1, TurnGoesOn DEF Park
  <2>2. CASE ParkBack
    <3>1. CASE Len(Running') > 1
      <4>1. 2 \in DOMAIN Running' /\ T' = Running'[2]
        BY <1>2, <2>2, <3>1 DEF ParkBack
      <4>2. T' \in Members(Running')
        BY <4>1 DEF Members
      <4> QED BY <1>4, <4>2
    <3>2. CASE ~(Len(Running') > 1)
      BY <2>2, <3>2 DEF ParkBack
    <3> QED BY <3>1, <3>2
  <2> QED BY <2>1, <2>2
<1>6. limited' \subseteq Task /\ called' \subseteq Task /\ Gotanint' \in 0 .. MaxInts
  BY <1>1 DEF Park, ParkBack, Calls, Inv, TypeOK
<1> QED BY <1>2, <1>3, <1>4, <1>5, <1>6, InvNext

LEMMA StepInv == Inv /\ [Next]_vars => Inv'
<1> SUFFICES ASSUME Inv, [Next]_vars PROVE Inv'
  OBVIOUS
<1>1. CASE Skip \/ Plain \/ \E S \in SUBSET Task : SetLimited(S)
  BY <1>1, TurnStep
<1>2. CASE \E u \in Task : Spawn(u) \/ Unpark(u) \/ Wake(u) \/ Interrupt(u)
  BY <1>2, LinkStep
<1>3. CASE Park \/ ParkBack
  BY <1>3, ParkStep
<1>4. CASE StartPass
  <2>1. Head(Running) \in Members(Running)
    <3>1. 1 \in DOMAIN Running /\ Head(Running) = Running[1]
      BY <1>4, InvOnce DEF StartPass
    <3> QED BY <3>1 DEF Members
  <2>2. limited' \subseteq Task /\ called' \subseteq Task /\ Gotanint' \in 0 .. MaxInts
    BY <1>4 DEF StartPass, Inv, TypeOK
  <2> QED BY <1>4, <2>1, <2>2, InvOnce, InvNext DEF StartPass
<1>5. ASSUME NEW D \in SUBSET Live, NEW W \in SUBSET (Parked \ D), NEW H \in SUBSET (Live \ D),
             Kill(D, W, H)
      PROVE  Inv'
  <2>1. D \in SUBSET Task
    BY DEF Live
  <2>2. limited' \subseteq Task /\ called' \subseteq Task /\ Gotanint' \in 0 .. MaxInts
    BY <1>5 DEF Kill, Calls, Turn, Inv, TypeOK
  <2>3. T' = None /\ Bury(D, W, H)
    BY <1>5 DEF Kill
  <2>4. /\ Running' \in Seq(Task) /\ Once(Running')
        /\ state' \in [Task -> {"free", "running", "parked"}]
        /\ Members(Running') = {t \in Task : state'[t] = "running"}
    BY <2>1, <2>3, BuryList
  <2> QED BY <2>2, <2>3, <2>4, InvNext
<1>6. ASSUME NEW W \in SUBSET Parked, NEW H \in SUBSET {T}, Stop(W, H) PROVE Inv'
  <2>1. T \in Task /\ state[T] = "running"
    BY <1>6, InvOnce DEF Stop, Calls, Turn
  <2>2. /\ {T} \ H \in SUBSET Task /\ W \in SUBSET (Parked \ ({T} \ H))
        /\ H \in SUBSET (Live \ ({T} \ H))
    BY <2>1 DEF Parked, Live
  <2>3. limited' \subseteq Task /\ called' \subseteq Task /\ Gotanint' \in 0 .. MaxInts
    BY <1>6, <2>1 DEF Stop, Calls, Inv, TypeOK
  <2>4. T' = None /\ Bury({T} \ H, W, H)
    BY <1>6 DEF Stop
  <2>5. /\ Running' \in Seq(Task) /\ Once(Running')
        /\ state' \in [Task -> {"free", "running", "parked"}]
        /\ Members(Running') = {t \in Task : state'[t] = "running"}
    BY <2>2, <2>4, BuryList
  <2> QED BY <2>3, <2>4, <2>5, InvNext
<1>7. CASE UNCHANGED vars
  BY <1>7 DEF vars, Inv, TypeOK, ListExact, TurnIsRunning
<1> QED BY <1>1, <1>2, <1>3, <1>4, <1>5, <1>6, <1>7 DEF Next, Pass

LEMMA AlwaysInv == Spec => []Inv
BY InitInv, StepInv, PTL DEF Spec

-----------------------------------------------------------------------------
(* The list holds tasks, and the pass stands on one or has ended. *)
THEOREM RunListTypeCorrect == Spec => []TypeOK
<1>1. Inv => TypeOK
  BY DEF Inv
<1> QED BY <1>1, AlwaysInv, PTL

(* The list and the states of the tasks agree, and no task is linked twice. *)
THEOREM ListCorrect == Spec => []ListExact
<1>1. Inv => ListExact
  BY DEF Inv
<1> QED BY <1>1, AlwaysInv, PTL

(* Only running tasks get byte codes. *)
THEOREM TurnCorrect == Spec => []TurnIsRunning
<1>1. Inv => TurnIsRunning
  BY DEF Inv
<1> QED BY <1>1, AlwaysInv, PTL
=============================================================================
