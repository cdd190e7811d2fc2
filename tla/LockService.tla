---------------------------- MODULE LockService ----------------------------
(***************************************************************************)
(* What lock(name) and unlock(name) promise to KeyKit programs: a lock has *)
(* at most one holder, a client that asks for a held lock is parked and    *)
(* stands in line, and a lock that is given up goes to the client first in *)
(* line, in the same step.  A parked client gets going again only with the *)
(* lock in its hands; a client that dies leaves its line.                  *)
(***************************************************************************)
EXTENDS Naturals, Sequences

CONSTANTS Client, Lock, None

VARIABLES
  holder,  (* the client that holds each lock, or None *)
  line,    (* the clients in line for each lock        *)
  parked   (* the clients that wait for a lock         *)

lockVars == <<holder, line, parked>>

Init ==
  /\ holder = [l \in Lock |-> None]
  /\ line = [l \in Lock |-> <<>>]
  /\ parked = {}

Acquire(c, l) ==
  /\ holder[l] = None /\ line[l] = <<>> /\ c \notin parked
  /\ holder' = [holder EXCEPT ![l] = c]
  /\ UNCHANGED <<line, parked>>

StandInLine(c, l) ==
  /\ holder[l] # None /\ c \notin parked
  /\ line' = [line EXCEPT ![l] = Append(@, c)]
  /\ parked' = parked \cup {c}
  /\ UNCHANGED holder

(* By unlock() or by the end of the holder. *)
HandOver(l) ==
  /\ holder[l] # None /\ line[l] # <<>> /\ Head(line[l]) \in parked
  /\ holder' = [holder EXCEPT ![l] = Head(line[l])]
  /\ line' = [line EXCEPT ![l] = Tail(@)]
  /\ parked' = parked \ {Head(line[l])}

GiveUp(l) ==
  /\ holder[l] # None /\ line[l] = <<>>
  /\ holder' = [holder EXCEPT ![l] = None]
  /\ UNCHANGED <<line, parked>>

(* The i-th client in line for l dies. *)
Leave(l, i) ==
  /\ line[l][i] \in parked
  /\ line' = [line EXCEPT ![l] =
                [j \in 1 .. Len(@) - 1 |-> IF j < i THEN @[j] ELSE @[j + 1]]]
  /\ parked' = parked \ {line[l][i]}
  /\ UNCHANGED holder

(* The program starts over. *)
Reset == holder' = [l \in Lock |-> None] /\ line' = [l \in Lock |-> <<>>] /\ parked' = {}

Next ==
  \/ \E l \in Lock :
       \/ \E c \in Client : Acquire(c, l) \/ StandInLine(c, l)
       \/ HandOver(l) \/ GiveUp(l)
       \/ \E i \in 1 .. Len(line[l]) : Leave(l, i)
  \/ Reset

Spec == Init /\ [][Next]_lockVars
=============================================================================
