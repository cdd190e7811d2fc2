------------------------------ MODULE MCTasks ------------------------------
(* Small instances of Tasks for TLC. *)
EXTENDS Tasks, TLC

CONSTANTS t1, t2, t3, l1, l2, f1

MCTask3 == {t1, t2, t3}

(* States that differ only in the names of tasks or locks, or in fields nothing
   reads before they are set again, are the same.  Such fields are those of a
   freed struct (newtp() and Wait set them; the killer's priority is still
   read) and twait of a task that does not wait.  The view of a state is the
   set of its images when the tasks are numbered, in every way that goes by
   their states.                                                              *)
Fresh(field, t, default) == IF state[t] = "FREE" /\ t # killer THEN default ELSE field[t]

N == Cardinality(Task)
Numberings ==
  {q \in [1 .. N -> Task] : \A i, j \in 1 .. N : q[i] = q[j] => i = j}
Numbered == {<< q, [t \in Task |-> CHOOSE i \in 1 .. N : q[i] = t] >> : q \in Numberings}

Rank == [FREE |-> 1, RUNNING |-> 2, BLOCKED |-> 3, SLEEPTILL |-> 4,
         WAITING |-> 5, SCHED |-> 6, LOCKWAIT |-> 7]
ByState(q) == \A i \in 1 .. N - 1 : Rank[state[q[i]]] <= Rank[state[q[i + 1]]]

Renamed(q, p) ==
  LET To(t) == IF t = None THEN 0 ELSE p[t]
      ToSeq(s) == [i \in DOMAIN s |-> p[s[i]]]
      LockState(l) == << To(owner[l]), ToSeq(notify[l]), l \in scan >>
  IN << {p[t] : t \in wakes}, Tid, Currpriority, open, size, countVars,
        {<< LockState(l), Cardinality({k \in Lock : LockState(k) = LockState(l)}) >> : l \in Lock},
        [f \in Fifo |-> To(reader[f])],
        << pc, ToSeq(todo), To(killer), Inerror >>,
        [i \in 1 .. N |-> LET t == q[i] IN
           << state[t], fifo[t], IF state[t] = "WAITING" THEN To(twait[t]) ELSE 0,
              Fresh(slot, t, 0), To(Fresh(parent, t, None)), Fresh(anychild, t, FALSE),
              Fresh(anywait, t, FALSE), Fresh(priority, t, 0),
              Fresh(onexit, t, FALSE), Fresh(ontaskerror, t, FALSE) >>] >>

MCView == {Renamed(r[1], r[2]) : r \in {n \in Numbered : ByState(n[1])}}
=============================================================================
