------------------------------ MODULE RunList ------------------------------
(***************************************************************************)
(* The Running list and the loop of exectasks() over it.  A pass gives one *)
(* byte code to each task of the list, from its head on; a task that is    *)
(* started or restarted goes to the head, behind the back of the pass.     *)
(* The byte code itself moves the pass about: get() and sleeptill() set T  *)
(* to Running, and the loop then steps over the head of the list; the end  *)
(* of a task, kill() and errors set T to NULL, which ends the pass.        *)
(* Between passes exectasks() sees to the console, the windows and, with   *)
(* chkoutput() and chkinput(), the MIDI, which only a few long byte codes  *)
(* see to themselves.                                                      *)
(*                                                                         *)
(* Tasks.tla says when a task stops and starts again; here any parked task *)
(* may be restarted by any other.                                          *)
(***************************************************************************)
EXTENDS Naturals, Sequences, FiniteSets, Lists

CONSTANTS
  Task,     (* the Ktask structs                                     *)
  None,     (* the NULL pointer                                      *)
  MaxInts   (* bound: interrupts from the console                    *)

ASSUME RunListAssumption ==
  IsFiniteSet(Task) /\ None \notin Task /\ MaxInts \in Nat

VARIABLES
  state,     (* "free", "running", or "parked" for all the other states *)
  Running,   (* the list, head first                                    *)
  T,         (* the task whose turn it is, None between passes          *)
  limited,   (* the tasks whose priority is below Currpriority          *)
  called,    (* the tasks whose last byte code called a built-in        *)
  Gotanint   (* interrupts so far                                       *)

vars == <<state, Running, T, limited, called, Gotanint>>

Members(s) == {s[i] : i \in DOMAIN s}
Parked == {t \in Task : state[t] = "parked"}
Live == {t \in Task : state[t] # "free"}

(* unlinktask() of the tasks in gone: the others keep their order.  T's own
   nextrun is left as it is.                                                *)
Without(s, gone) == Kept(s, {i \in DOMAIN s : s[i] \notin gone})

(* T->nextrun *)
NextRun(t) ==
  IF \E i \in 1 .. Len(Running) - 1 : Running[i] = t
  THEN Running[(CHOOSE i \in 1 .. Len(Running) - 1 : Running[i] = t) + 1]
  ELSE None

Init ==
  \E t \in Task :
    /\ state = [u \in Task |-> IF u = t THEN "running" ELSE "free"]
    /\ Running = <<t>> /\ T = None
    /\ limited = {} /\ called = {} /\ Gotanint = 0

-----------------------------------------------------------------------------
(* One byte code of T, or the pass steps over T.                            *)

Turn == T # None /\ T \notin limited

(* Mutants of Skip: the loop does not step; the pass ends ("break"). *)
SkipStays == T \in limited /\ UNCHANGED vars
SkipBreaks ==
  /\ T \in limited
  /\ T' = None
  /\ UNCHANGED <<state, Running, limited, called, Gotanint>>

Skip ==
  /\ T \in limited
  /\ T' = NextRun(T)
  /\ UNCHANGED <<state, Running, limited, called, Gotanint>>

(* A byte code that changes nothing here.  A call of a built-in is never the
   next byte code after another: its arguments have to be pushed.            *)
Plain ==
  /\ Turn
  /\ T' = NextRun(T) /\ called' = called \ {T}
  /\ UNCHANGED <<state, Running, limited, Gotanint>>

Calls == Turn /\ T \notin called /\ called' = called \cup {T}

(* newtask(): the first byte code of the task is not a call, either. *)
Spawn(u) ==
  /\ Turn /\ T \notin called /\ called' = called \cup {T, u}
  /\ state[u] = "free"
  /\ state' = [state EXCEPT ![u] = "running"]
  /\ Running' = <<u>> \o Running
  /\ T' = NextRun(T) /\ limited' = IF T \in limited THEN limited \cup {u} ELSE limited \ {u}
  /\ UNCHANGED Gotanint

(* wait(), lock(): taskunrun(), and the loop goes on from T. *)
Park ==
  /\ Calls
  /\ state' = [state EXCEPT ![T] = "parked"]
  /\ Running' = Without(Running, {T})
  /\ T' = NextRun(T)
  /\ UNCHANGED <<limited, Gotanint>>

(* blockfifo(), schdwake(): taskunrun() and T = Running, before the loop steps. *)
ParkBack ==
  /\ Calls
  /\ state' = [state EXCEPT ![T] = "parked"]
  /\ Running' = Without(Running, {T})
  /\ T' = IF Len(Running') > 1 THEN Running'[2] ELSE None
  /\ UNCHANGED <<limited, Gotanint>>

(* restarttask(u) by put(), unlock() or close() *)
Unpark(u) ==
  /\ Calls /\ state[u] = "parked"
  /\ state' = [state EXCEPT ![u] = "running"]
  /\ Running' = <<u>> \o Running
  /\ T' = NextRun(T)
  /\ UNCHANGED <<limited, Gotanint>>

(* priority() *)
SetLimited(low) ==
  /\ Calls
  /\ limited' = low /\ T' = NextRun(T)
  /\ UNCHANGED <<state, Running, Gotanint>>

(* The tasks of s are restarted from last to first: each goes to the head. *)
Orders(S) == {s \in [1 .. Cardinality(S) -> S] : Members(s) = S}

(* Mutant of Bury: the tasks that run a handler are all linked again, those
   that were running as well.                                              *)
BuryLinksAll(dead, woken, handled) ==
  /\ dead \cup handled = {} => woken = {}
  /\ state' = [t \in Task |-> IF t \in dead THEN "free"
                              ELSE IF t \in woken \cup handled THEN "running" ELSE state[t]]
  /\ \E s \in Orders(woken \cup handled) : Running' = s \o Without(Running, dead)

(* What the tasks that taskkill() buries come to: dead are unlinked and freed,
   handled run an onexit() or onerror() function, linked again unless they are
   running; woken were waiting for one of them, or for a lock they had.        *)
Bury(dead, woken, handled) ==
  /\ dead \cup handled = {} => woken = {}
  /\ state' = [t \in Task |-> IF t \in dead THEN "free"
                              ELSE IF t \in woken \cup handled THEN "running" ELSE state[t]]
  /\ \E s \in Orders(woken \cup (handled \cap Parked)) : Running' = s \o Without(Running, dead)

(* Mutant of Kill: T is not set to NULL. *)
KillKeepsTurn(dead, woken, handled) ==
  /\ Calls
  /\ Bury(dead, woken, handled)
  /\ T' = NextRun(T)
  /\ UNCHANGED <<limited, Gotanint>>

(* kill(), whether or not it buries a task, and execerror() *)
Kill(dead, woken, handled) ==
  /\ Calls
  /\ T' = None
  /\ Bury(dead, woken, handled)
  /\ UNCHANGED <<limited, Gotanint>>

(* i_stop, the end of T's code.  A handler is called by byte codes, too. *)
Stop(woken, handled) ==
  /\ Calls
  /\ T' = None
  /\ Bury({T} \ handled, woken, handled)
  /\ UNCHANGED <<limited, Gotanint>>

-----------------------------------------------------------------------------
(* Between two passes, and Wake also during a long byte code (chkrealoften()). *)

StartPass ==
  /\ T = None /\ Running # <<>>
  /\ T' = Head(Running)
  /\ UNCHANGED <<state, Running, limited, called, Gotanint>>

(* chkoutput(), chkinput(), handlewaitfor(): a task sleeps no longer, or there is
   input on the fifo it is blocked on.                                          *)
Wake(u) ==
  /\ state[u] = "parked"
  /\ state' = [state EXCEPT ![u] = "running"]
  /\ Running' = <<u>> \o Running
  /\ UNCHANGED <<T, limited, called, Gotanint>>

(* doanint() *)
Interrupt(u) ==
  /\ T = None /\ state[u] = "free" /\ Gotanint < MaxInts
  /\ state' = [state EXCEPT ![u] = "running"]
  /\ Running' = <<u>> \o Running
  /\ limited' \in {limited \cup {u}, limited \ {u}}
  /\ Gotanint' = Gotanint + 1 /\ called' = called \cup {u}
  /\ UNCHANGED T

Pass ==
  \/ StartPass \/ Skip \/ Plain \/ Park \/ ParkBack
  \/ \E u \in Task : Spawn(u) \/ Unpark(u)
  \/ \E S \in SUBSET Task : SetLimited(S)
  \/ \E D \in SUBSET Live : \E W \in SUBSET (Parked \ D), H \in SUBSET (Live \ D) :
       Kill(D, W, H)
  \/ \E W \in SUBSET Parked, H \in SUBSET {T} : Stop(W, H)

Next == Pass \/ \E u \in Task : Wake(u) \/ Interrupt(u)

(* The interpreter goes on with the pass. *)
Spec == Init /\ [][Next]_vars /\ WF_vars(Pass)

-----------------------------------------------------------------------------
TypeOK ==
  /\ state \in [Task -> {"free", "running", "parked"}]
  /\ Running \in Seq(Task) /\ T \in Task \cup {None}
  /\ limited \subseteq Task /\ called \subseteq Task /\ Gotanint \in 0 .. MaxInts

(* The list links every task in state T_RUNNING, no other, and none of them
   twice, which would make the list a ring: every taskunrun(), restarttask() and
   unlinktask() pairs the state with the link.                                  *)
ListExact ==
  /\ Members(Running) = {t \in Task : state[t] = "running"}
  /\ \A i, j \in DOMAIN Running : Running[i] = Running[j] => i = j

(* The loop never gives a byte code to a task that was parked or freed since the
   pass began, though it reads nextrun of tasks that it has just unlinked.       *)
TurnIsRunning == T # None => state[T] = "running"

(* A pass over the list ends, so the rest of the main loop gets its turn, once
   tasks stop calling get() and sleeptill().  As long as they do, a ring of tasks
   that put() and get() in step can keep a pass going for ever: every get() of
   the last task of the list sends T back to the head.                         *)
PassEnds == (<>[][~ParkBack]_vars) => []<>(T = None)

(* A task that runs and whose priority is high enough gets a byte code again,
   however often the others end the pass before its turn; on the same condition. *)
EveryoneRuns ==
  (<>[][~ParkBack]_vars) =>
    \A t \in Task : []<>(T = t \/ state[t] # "running" \/ t \in limited)
=============================================================================
