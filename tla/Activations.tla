---------------------------- MODULE Activations ----------------------------
(* What the calls of a KeyKit task promise: each call has an activation of its
   own, with its arguments, its local variables and the values its expressions
   and loops are still working with.  Only the newest activation changes; the
   ones below get back exactly one value, where the call stood.               *)
EXTENDS Integers, Sequences, FiniteSets

CONSTANTS
  Function,    (* the functions that can be called                           *)
  Params,      (* Params[f]: how many parameters f names                     *)
  Locals,      (* Locals[f]: how many local variables f has                  *)
  Noval,       (* the value of what has none yet                             *)
  Nullval,     (* the value of return()                                      *)
  Bottom       (* the value the code under the first call ends with          *)

VARIABLES
  acts,        (* the activations, oldest first                              *)
  over         (* the task is gone                                           *)

vars == <<acts, over>>

Top == acts[Len(acts)]
Below(n) == SubSeq(acts, 1, Len(acts) - n)

(* a is a new activation of f: missing arguments have no value, and neither
   have local variables - except the first one, which holds a number that has
   nothing to do with it.                                                     *)
IsFresh(a, f, passed) ==
  LET n == Len(passed) IN
    /\ Len(a.args) = IF n < Params[f] THEN Params[f] ELSE n
    /\ \A i \in DOMAIN a.args : a.args[i] = IF i <= n THEN passed[i] ELSE Noval
    /\ Len(a.locals) = Locals[f]
    /\ \A i \in DOMAIN a.locals : IF i = 1 THEN a.locals[i][1] = "num"
                                           ELSE a.locals[i] = Noval
    /\ a.temps = <<>>

(* A first call f(), below it code that drops its result. *)
IsFirst(as) ==
  /\ Len(as) = 2
  /\ as[1] = [args |-> <<>>, locals |-> <<>>, temps |-> <<Bottom>>]
  /\ \E f \in Function : IsFresh(as[2], f, <<>>)

Init == IsFirst(acts) /\ ~over

(* The newest activation computes: its temporary values change and at most one
   of its variables.                                                          *)
Work ==
  /\ Len(acts') = Len(acts) /\ Below(1) = SubSeq(acts', 1, Len(acts') - 1)
  /\ LET old == Top  new == acts'[Len(acts)] IN
       /\ Len(new.args) = Len(old.args) /\ Len(new.locals) = Len(old.locals)
       /\ Cardinality({i \in DOMAIN old.args : new.args[i] # old.args[i]})
            + Cardinality({i \in DOMAIN old.locals : new.locals[i] # old.locals[i]}) <= 1
  /\ UNCHANGED over

(* It calls the function under the n arguments and their number on its
   temporary values, which are the new activation's from now on.             *)
Call ==
  LET ts == Top.temps
      n  == ts[Len(ts)][2]
      d  == Len(ts) - 5 - n
  IN /\ Len(acts') = Len(acts) + 1 /\ d >= 0
     /\ SubSeq(acts', 1, Len(acts)) =
          Append(Below(1), [Top EXCEPT !.temps = SubSeq(ts, 1, d)])
     /\ ts[d + 1][2] \in Function
     /\ IsFresh(acts'[Len(acts')], ts[d + 1][2], SubSeq(ts, d + 5, d + 4 + n))
     /\ UNCHANGED over

(* It returns its last value, or the value of return(), to its caller and is
   gone with all it was working with.                                        *)
Return ==
  /\ Len(acts) > 1 /\ Len(acts') = Len(acts) - 1
  /\ LET ts == Top.temps
         caller == acts[Len(acts) - 1]
         resumed == acts'[Len(acts) - 1]
     IN \E result \in {Nullval} \cup {ts[i] : i \in {Len(ts)} \ {0}} :
          resumed = [caller EXCEPT !.temps = Append(@, result)]
  /\ SubSeq(acts', 1, Len(acts') - 1) = Below(2)
  /\ UNCHANGED over

(* The task is killed: its handler is called in its place. *)
Handle == IsFirst(acts') /\ UNCHANGED over

(* The task is killed for good, or the code under the first call comes to its
   end, and then nothing is left of what the calls worked with.              *)
End ==
  /\ over' = TRUE
  /\ acts' = acts \/ acts' = <<[args |-> <<>>, locals |-> <<>>, temps |-> <<>>]>>

Next == ~over /\ (Work \/ Call \/ Return \/ Handle \/ End)

Spec == Init /\ [][Next]_vars
=============================================================================
