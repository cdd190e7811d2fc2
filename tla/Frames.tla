------------------------------- MODULE Frames -------------------------------
(***************************************************************************)
(* The stack of one KeyKit task: the byte codes that call a function and   *)
(* return from it, give its variables values and read them, run for-in     *)
(* loops, select expressions and eval; the stack that moves when it grows, *)
(* and the handler that starts over on it when the task is killed.         *)
(*                                                                         *)
(* The stack is one array of cells.  A call finds on it the function, the  *)
(* objects and method it is called for and its arguments, adds the local   *)
(* variables and a header of ten cells, and points T->stackframe to the    *)
(* last of these, the saved stackframe.  Arguments and local variables are *)
(* found by their distance from it.                                        *)
(*                                                                         *)
(* One byte code is one action.  The byte codes a run executes are those   *)
(* of the constant Code; the conditions in it may go either way.           *)
(***************************************************************************)
EXTENDS Integers, Sequences, FiniteSets

CONSTANTS
  Code,           (* Code[c]: the compiled functions and eval strings, records
                     of params, locals and body, a sequence of byte codes     *)
  Main,           (* the function the task is started with                    *)
  Handler,        (* the function given to onexit()                           *)
  IPop,           (* the code under the first call, I_POPVAL and I_STOP       *)
  Phrases,        (* the phrases                                              *)
  Arrays,         (* the arrays                                               *)
  LoopLength,     (* the number of notes or elements of each of them          *)
  InitStackSize,  (* INITSTACKSIZE                                            *)
  MAXLONG,        (* the number Noval is                                      *)
  MaxFrames       (* bound: frames on the stack                               *)

FRAMEHEADER == 9
PREARGSIZE == 4
FORINJUNK == 4660

Counted == Phrases \cup Arrays

ASSUME FramesAssumption ==
  /\ DOMAIN Code \subseteq Nat \ {0} /\ {Main, Handler, IPop} \subseteq DOMAIN Code
  /\ Counted \subseteq Nat \ {0} /\ Phrases \cap Arrays = {}
  /\ LoopLength \in Nat /\ MaxFrames \in Nat /\ InitStackSize \in Nat
  /\ InitStackSize > FRAMEHEADER

VARIABLES
  mem,         (* the stack: its cells up to Stackp, the memory block they are
                  in, stacksize, and T->stackframe, T->arg0, T->qmarkframe    *)
  qmarknum,    (* T->qmarknum                                                 *)
  pc, first, nested, rminstruct, linenum, self,   (* fields of struct Ktask;
                  self holds realobj, obj and method                          *)
  onexit,      (* T->onexit                                                   *)
  isvar,       (* the local symbols whose stype is VAR                        *)
  uses,        (* p_used + p_tobe and h_used + h_tobe, as far as the stack and
                  the variables on it go                                      *)
  over         (* the task has been deleted                                   *)

streamVars == <<first, nested, rminstruct>>
vars == <<mem, qmarknum, pc, streamVars, linenum, self, onexit, isvar, uses, over>>

-----------------------------------------------------------------------------
(* Datums.  A cell is a type and two numbers: a place in the code or in memory,
   a symbol's function and its stackpos, or one number and 0.                 *)

Num(n) == <<"num", n, 0>>
Codep(place) == <<"codep", place[1], place[2]>>
Frm(p) == <<"frm", p[1], p[2]>>
Thing(t) == <<IF t \in Phrases THEN "phr" ELSE "arr", t, 0>>
Noval == Num(MAXLONG)
Nullval == <<"str", 0, 0>>
NULL == <<0, 0>>

(* self on the stack *)
Objects(me) == << <<"obj", me[1], 0>>, <<"obj", me[2], 0>>, <<"str", me[3], 0>> >>

(* A phrase made by a byte code, which nobody else has. *)
NewPhrase == <<"phr", 0, 0>>

Height(m) == Len(m.cells)
Peek(m, n) == m.cells[Len(m.cells) - n + 1]

(* The uses on top of the last n cells, and those among a sequence of cells. *)
UsesIn(cells, t) == Cardinality({i \in DOMAIN cells : cells[i] = Thing(t)})
Recounted(popped, pushed) ==
  [t \in Counted |-> uses[t] - UsesIn(popped, t) + UsesIn(pushed, t)]
TopCells(m, n) == SubSeq(m.cells, Height(m) - n + 1, Height(m))

(* redoarg0() *)
Arg0(cells, frame) ==
  IF frame = NULL THEN NULL
  ELSE <<frame[1], frame[2] - FRAMEHEADER - cells[frame[2] - 1][2]>>

(* Mutant of Expanded: the frame pointers among the cells are copied. *)
ExpandedCopies(m, needed) ==
  LET frame == IF m.frame = NULL THEN NULL ELSE <<m.block + 1, m.frame[2]>> IN
    [qmark |-> <<m.block + 1, m.qmark[2]>>, cells |-> m.cells, block |-> m.block + 1,
     size |-> m.size + (IF m.size \div 2 > needed THEN m.size \div 2 ELSE needed),
     frame |-> frame, arg0 |-> Arg0(m.cells, frame)]

(* expandstackatleast(): the cells are copied to a new block, and the pointers
   into the old one follow.  Old frame pointers of NULL stay, but T->qmarkframe
   becomes a pointer to nowhere, and what points there goes on doing so.      *)
Nowhere == <<0, 1>>

Expanded(m, needed) ==
  LET Moved(p) == IF p[1] = m.block THEN <<m.block + 1, p[2]>> ELSE Nowhere
      To(p) == IF p = NULL THEN NULL ELSE Moved(p)
      cells == [i \in DOMAIN m.cells |->
                  LET c == m.cells[i] IN
                    IF c[1] = "frm" THEN Frm(To(<<c[2], c[3]>>)) ELSE c]
  IN [cells |-> cells, block |-> m.block + 1,
      size |-> m.size + (IF m.size \div 2 > needed THEN m.size \div 2 ELSE needed),
      frame |-> To(m.frame), qmark |-> Moved(m.qmark),
      arg0 |-> IF m.frame = NULL THEN m.arg0 ELSE Arg0(cells, To(m.frame))]

(* Pushes, each after pushchk: a few cells make the stack grow once at most. *)
Pushed(m, cells) ==
  LET room == IF Height(m) + Len(cells) > m.size THEN Expanded(m, 1) ELSE m IN
    [room EXCEPT !.cells = @ \o cells]

Popped(m, n) == [m EXCEPT !.cells = SubSeq(@, 1, Len(@) - n)]

(* symdataptr(): parameters count from 1 up, local variables from -1 down. *)
Slot(m, pos) ==
  IF pos > 0 THEN m.arg0[2] + pos - 1 ELSE m.frame[2] - FRAMEHEADER + pos + 1

-----------------------------------------------------------------------------
(* callfuncd(), with the function, the objects, the method, the arguments and
   their number on the stack, and the fields it saves.                        *)

Callee(m) == Peek(m, Peek(m, 1)[2] + PREARGSIZE + 1)
CalleeSelf(m) ==
  LET d == Height(m) - Peek(m, 1)[2] - PREARGSIZE IN
    [i \in 1 .. 3 |-> m.cells[d + i][2]]

Called(m, line, from, me) ==
  LET f       == Code[Callee(m)[2]]
      given   == Peek(m, 1)[2]
      npassed == IF given < f.params THEN f.params ELSE given
      varsize == npassed + f.locals
      needed  == f.params + f.locals + FRAMEHEADER + 4
      popped  == Popped(m, 1)
      room    == IF Height(popped) + needed >= popped.size
                 THEN Expanded(popped, needed) ELSE popped
      noval   == [i \in 1 .. varsize - given |-> Noval]
      header  == <<Num(line), Nullval, Callee(m), Codep(from)>> \o Objects(me)
                   \o <<Num(npassed), Num(varsize), Frm(room.frame)>>
      cells   == room.cells \o noval \o header
  IN [room EXCEPT !.cells = cells,
                  !.frame = <<room.block, Len(cells)>>,
                  !.arg0 = <<room.block, Len(cells) - FRAMEHEADER - varsize>>]

(* initstack(), and the call of f without arguments that newtask()'s callers and
   taskbury() make on the stack; it will return to the code IPop.            *)
FirstCall(m, f, line, me, old) ==
  LET empty == [m EXCEPT !.cells = <<Codep(NULL)>>, !.frame = NULL]
      ready == Pushed(empty, <<Codep(<<f, 0>>)>> \o Objects(me) \o <<Num(0)>>)
  IN Called(ready, line, <<IPop, 1>>, old)

NoSelf == <<0, 0, 0>>

Init ==
  /\ pc = <<Main, 1>> /\ first = IPop /\ nested = 0 /\ rminstruct = 0
  /\ linenum = -1 /\ self = NoSelf /\ qmarknum = 0
  /\ onexit = Handler /\ isvar = {} /\ over = FALSE
  /\ uses = [t \in Counted |-> 0]
  /\ mem = FirstCall([cells |-> <<>>, block |-> 1, size |-> InitStackSize,
                      frame |-> NULL, arg0 |-> NULL, qmark |-> NULL],
                     Main, -1, NoSelf, NoSelf)

-----------------------------------------------------------------------------
(* The byte codes.                                                          *)

Instr == Code[pc[1]].body[pc[2]]
Doing(op) == ~over /\ Instr.op = op
AfterPc == <<pc[1], pc[2] + 1>>
GoOn == pc' = AfterPc
InCode(n) == <<pc[1], n>>

(* n cells are popped, and cells pushed. *)
Replace(n, cells) ==
  /\ Height(mem) >= n
  /\ mem' = Pushed(Popped(mem, n), cells)
  /\ uses' = Recounted(TopCells(mem, n), cells)

sameTask == UNCHANGED <<qmarknum, streamVars, linenum, self, onexit, isvar, over>>

(* i_constant(), i_phrasepush(), i_varpush() and others *)
Constant == Doing("constant") /\ Replace(0, <<Num(Instr.n)>>) /\ GoOn /\ sameTask
ThingPush == Doing("thing") /\ Replace(0, <<Thing(Instr.n)>>) /\ GoOn /\ sameTask
VarPush ==
  Doing("varpush") /\ Replace(0, << <<"sym", pc[1], Instr.n>> >>) /\ GoOn /\ sameTask
PopIgnore == Doing("popignore") /\ Replace(1, <<>>) /\ GoOn /\ sameTask

(* i_lvareval(); of a variable without value it is an error, see Killed. *)
VarEval ==
  /\ Doing("vareval") /\ mem.cells[Slot(mem, Instr.n)] # Noval
  /\ Replace(0, << mem.cells[Slot(mem, Instr.n)] >>) /\ GoOn /\ sameTask

(* The value of a variable is replaced.  clearsym() gives the use of the old one
   back, but only of a symbol that something was assigned to before.         *)
Assigned(m, s, value) == [m EXCEPT !.cells[Slot(m, s[3])] = value]
Cleared(s) ==
  IF s \in isvar THEN << mem.cells[Slot(mem, s[3])] >> ELSE <<>>

(* i_varassign(), of a statement: nothing is pushed *)
VarAssign ==
  LET s == Peek(mem, 2)  value == Peek(mem, 1) IN
    /\ Doing("varassign") /\ s[1] = "sym"
    /\ mem' = Assigned(Popped(mem, 2), s, value)
    /\ uses' = Recounted(TopCells(mem, 2) \o Cleared(s), <<value>>)
    /\ isvar' = isvar \cup {s}
    /\ GoOn /\ UNCHANGED <<qmarknum, streamVars, linenum, self, onexit, over>>

(* i_addcode() of numbers *)
AddCode ==
  /\ Doing("add") /\ Peek(mem, 1)[1] = "num" /\ Peek(mem, 2)[1] = "num"
  /\ Replace(2, <<Num(Peek(mem, 1)[2] + Peek(mem, 2)[2])>>) /\ GoOn /\ sameTask

(* i_linenum() *)
LineNum ==
  /\ Doing("linenum") /\ linenum' = Instr.n /\ GoOn
  /\ UNCHANGED <<qmarknum, mem, streamVars, self, onexit, isvar, uses, over>>

(* i_goto(), and i_tcondeval() with a condition that may be false *)
Goto == Doing("goto") /\ Replace(0, <<>>) /\ pc' = InCode(Instr.n) /\ sameTask
CondEval ==
  /\ Doing("tcond") /\ Replace(1, <<>>)
  /\ pc' \in {AfterPc, InCode(Instr.n)} /\ sameTask

(* The function, and what it is called for: i_currobjeval(), or
   i_objcallfuncpush() with the object n2.                                    *)
PreFunc ==
  /\ Doing("prefunc")
  /\ LET me == IF Instr.n2 = 0 THEN self ELSE <<Instr.n2, Instr.n2, Instr.n2>> IN
       Replace(0, <<Codep(<<Instr.n, 0>>)>> \o Objects(me))
  /\ GoOn /\ sameTask

(* i_dotdotarg(): "..." in a call passes on the arguments beyond the parameters. *)
DotDotArg ==
  /\ Doing("dotdotarg")
  /\ LET S == mem.frame[2]
         params == Code[mem.cells[S - 7][2]].params
         extra == mem.cells[S - 2][2] - params
     IN Replace(0, Append([i \in 1 .. extra |-> mem.cells[mem.arg0[2] + params + i - 1]],
                          Num(Instr.n + extra)))
  /\ GoOn /\ sameTask

(* i_nargs(): the arguments there are, up to the first that has no value *)
Given(m) ==
  LET npassed == m.cells[m.frame[2] - 2][2] IN
    CHOOSE n \in 0 .. npassed :
      /\ \A i \in 1 .. n : m.cells[Slot(m, i)] # Noval
      /\ n < npassed => m.cells[Slot(m, n + 1)] = Noval

Nargs == Doing("nargs") /\ Replace(0, <<Num(Given(mem))>>) /\ GoOn /\ sameTask

(* The last cells of the headers; a select expression keeps a pointer too. *)
IsHeader(i) == mem.cells[i][1] = "frm" /\ mem.cells[i - 1][1] = "num"
FrameCells == {i \in DOMAIN mem.cells : IsHeader(i)}
Depth == Cardinality(FrameCells)

(* i_callfunc() *)
CallFunc ==
  /\ Doing("callfunc") /\ Depth < MaxFrames
  /\ mem' = Called(mem, linenum, AfterPc, self)
  /\ self' = CalleeSelf(mem)
  /\ pc' = <<Callee(mem)[2], 1>>
  /\ UNCHANGED <<qmarknum, streamVars, linenum, onexit, isvar, uses, over>>

(* ret(), the value d popped from m already: what a for-in loop left on the
   stack is popped, or anything else; then the arguments and local variables
   give their uses back, and the saved fields are restored.                   *)
Leftover(m) ==
  LET n == Height(m) - m.frame[2] IN
    IF n > 0 /\ Peek(m, 1) = Num(FORINJUNK) THEN 5 ELSE n

(* Mutant of Variables: the local variables are forgotten. *)
VariablesArgs(m) ==
  [i \in 1 .. m.cells[m.frame[2] - 2][2] |-> m.cells[m.arg0[2] + i - 1]]

(* The local variables as ret() and symdataptr() find them: in the cells behind
   the ones callfuncd() pushed for them.                                      *)
Variables(m) ==
  LET S == m.frame[2]
      npassed == m.cells[S - 2][2]
      nlocals == m.cells[S - 1][2] - npassed
  IN [i \in 1 .. npassed |-> m.cells[m.arg0[2] + i - 1]]
       \o [i \in 1 .. nlocals |-> m.cells[S - FRAMEHEADER - i + 1]]

(* Mutant of Restored: the objects and the method stay on the stack. *)
RestoredShort(m, d) ==
  LET S == m.frame[2]
      rest == SubSeq(m.cells, 1, S - m.cells[S - 1][2] - FRAMEHEADER - 1)
      frame == <<m.cells[S][2], m.cells[S][3]>>
  IN Pushed([m EXCEPT !.cells = rest, !.frame = frame, !.arg0 = Arg0(rest, frame)], <<d>>)

Restored(m, d) ==
  LET S == m.frame[2]
      rest == SubSeq(m.cells, 1, S - m.cells[S - 1][2] - FRAMEHEADER - PREARGSIZE - 1)
      frame == <<m.cells[S][2], m.cells[S][3]>>
  IN Pushed([m EXCEPT !.cells = rest, !.frame = frame, !.arg0 = Arg0(rest, frame)], <<d>>)

Ret(m, d, popped) ==
  LET S == mem.frame[2]  left == Leftover(m) IN
    /\ Height(m) >= S
    /\ Height(m) > S => Peek(m, 1)[1] \in {"num", "str", "phr", "codep"}
    /\ mem' = Restored(m, d)
    /\ uses' = Recounted(popped \o TopCells(m, left) \o Variables(m), <<d>>)
    /\ pc' = <<mem.cells[S - 6][2], mem.cells[S - 6][3]>>
    /\ self' = [i \in 1 .. 3 |-> mem.cells[S - 6 + i][2]]
    /\ linenum' = mem.cells[S - 9][2]
    /\ UNCHANGED <<qmarknum, streamVars, onexit, isvar, over>>

(* i_returnv() and i_return() *)
ReturnV == Doing("returnv") /\ Ret(Popped(mem, 1), Peek(mem, 1), TopCells(mem, 1))
Return == Doing("return") /\ Ret(mem, Nullval, <<>>)

(* i_forin1(): a place after the loop, the variable, the first note and the
   phrase - or an index and a list of the array's elements, whose use is given
   back - and a number ret() knows the loop by.                               *)
ForIn1 ==
  /\ Doing("forin1") /\ Peek(mem, 1)[1] \in {"phr", "arr"}
  /\ LET d == Peek(mem, 1) IN
       Replace(1, << Codep(InCode(Instr.n2)), <<"sym", pc[1], Instr.n>> >>
                  \o (IF d[1] = "phr" THEN << <<"note", 1, 0>>, d >>
                      ELSE << Num(0), <<"datum", d[2], 0>> >>)
                  \o << Num(FORINJUNK) >>)
  /\ GoOn /\ sameTask

(* i_forin2(): the next note, in a phrase of its own, or the next element to the
   variable; after the last one the loop is left by forinjumptoend().         *)
AtEnd == Peek(mem, 3)[2] = IF Peek(mem, 2)[1] = "phr" THEN LoopLength + 1 ELSE LoopLength

ForIn2Jump ==
  /\ Doing("forin2") /\ AtEnd
  /\ pc' = <<Peek(mem, 5)[2], Peek(mem, 5)[3]>>
  /\ UNCHANGED <<mem, uses>> /\ sameTask

ForIn2 ==
  LET s == Peek(mem, 4)
      value == IF Peek(mem, 2)[1] = "phr" THEN NewPhrase ELSE Num(Peek(mem, 3)[2])
      moved == [mem EXCEPT !.cells[Height(mem) - 2][2] = @ + 1]
  IN
    /\ Doing("forin2") /\ ~AtEnd
    /\ mem' = Assigned(moved, s, value)
    /\ uses' = Recounted(Cleared(s), <<>>)
    /\ isvar' = isvar \cup {s}
    /\ GoOn /\ UNCHANGED <<qmarknum, streamVars, linenum, self, onexit, over>>

(* i_forinend() *)
ForInEnd == Doing("forinend") /\ Replace(5, <<>>) /\ GoOn /\ sameTask

(* i_select1(): on the phrase, the one to be made, the first note, and of what ??
   was till now its number and phrase, which is the new one's, and its frame. *)
Select1 ==
  /\ Doing("select1") /\ Peek(mem, 1)[1] = "phr"
  /\ LET pushed == Pushed(mem, << NewPhrase, <<"note", 1, 0>>, Num(qmarknum), NewPhrase,
                                  Frm(NULL) >>)
         top == Height(pushed)
     IN mem' = [pushed EXCEPT !.cells[top] = Frm(pushed.qmark),
                              !.qmark = <<pushed.block, top>>]
  /\ qmarknum' = 0 /\ GoOn
  /\ UNCHANGED <<streamVars, linenum, self, onexit, isvar, uses, over>>

(* i_select2(): the next note becomes ??; after the last one what ?? was is
   restored, and the new phrase takes the place of all.                       *)
InSelect == Peek(mem, 1)[1] = "frm" /\ Peek(mem, 2)[1] = "phr" /\ Peek(mem, 4)[1] = "note"

Select2 ==
  /\ Doing("select2") /\ InSelect /\ Peek(mem, 4)[2] <= LoopLength
  /\ mem' = [mem EXCEPT !.cells[Height(mem) - 3][2] = @ + 1]
  /\ qmarknum' = qmarknum + 1 /\ GoOn
  /\ UNCHANGED <<streamVars, linenum, self, onexit, isvar, uses, over>>

(* Mutant of Select2Jump: the number of the outer ?? is not restored. *)
Select2JumpCounts ==
  LET was == Peek(mem, 1) IN
    /\ Doing("select2") /\ InSelect /\ Peek(mem, 4)[2] = LoopLength + 1
    /\ mem' = [Pushed(Popped(mem, 6), <<NewPhrase>>) EXCEPT !.qmark = <<was[2], was[3]>>]
    /\ uses' = Recounted(TopCells(mem, 6), <<>>)
    /\ pc' = InCode(Instr.n) /\ sameTask

Select2Jump ==
  LET was == Peek(mem, 1) IN
    /\ Doing("select2") /\ InSelect /\ Peek(mem, 4)[2] = LoopLength + 1
    /\ mem' = [Pushed(Popped(mem, 6), <<NewPhrase>>) EXCEPT !.qmark = <<was[2], was[3]>>]
    /\ uses' = Recounted(TopCells(mem, 6), <<>>)
    /\ qmarknum' = Peek(mem, 3)[2] /\ pc' = InCode(Instr.n)
    /\ UNCHANGED <<streamVars, linenum, self, onexit, isvar, over>>

(* i_select3(): the note is taken or not, and on to i_select2() *)
Select3 ==
  Doing("select3") /\ Replace(1, <<>>) /\ pc' = InCode(Instr.n) /\ sameTask

(* i_qmark(), the phrase below qmarkframe, and i_dot() with NUMBER *)
QMark ==
  /\ Doing("qmark") /\ Replace(0, <<mem.cells[mem.qmark[2] - 1]>>) /\ GoOn /\ sameTask
DotNumber ==
  Doing("dotnumber") /\ Peek(mem, 1)[1] = "phr" /\ Replace(1, <<Num(qmarknum)>>)
    /\ GoOn /\ sameTask

(* i_eval(): the number of errors is pushed, and nestinstruct() saves where the
   task is, to be found by i_stop() under a NULL.                             *)
Eval ==
  /\ Doing("eval")
  /\ Replace(0, << Num(0), Codep(AfterPc), Codep(<<first, 0>>), Num(rminstruct),
                   Codep(NULL) >>)
  /\ nested' = nested + 1 /\ rminstruct' = 1 /\ first' = Instr.n
  /\ pc' = <<Instr.n, 1>>
  /\ UNCHANGED <<qmarknum, linenum, self, onexit, isvar, over>>

(* i_pushinfo() and i_popinfo(): the code of eval keeps the line of its caller. *)
PushInfo ==
  /\ Doing("pushinfo") /\ Replace(0, <<Num(linenum), Nullval>>)
  /\ linenum' = Instr.n /\ GoOn
  /\ UNCHANGED <<qmarknum, streamVars, self, onexit, isvar, over>>

(* Mutant of PopInfo: the line is taken off the stack but not restored. *)
PopInfoDrops ==
  Doing("popinfo") /\ Replace(2, <<>>) /\ GoOn /\ sameTask

PopInfo ==
  /\ Doing("popinfo") /\ Peek(mem, 1)[1] = "str" /\ Peek(mem, 2)[1] = "num"
  /\ Replace(2, <<>>) /\ linenum' = Peek(mem, 2)[2] /\ GoOn
  /\ UNCHANGED <<qmarknum, streamVars, self, onexit, isvar, over>>

(* i_stop(): the code under a NULL, of the eval or of the task, is at its end. *)
StopEval ==
  /\ Doing("stop") /\ Peek(mem, 1) = Codep(NULL) /\ nested > 0
  /\ Replace(4, <<>>)
  /\ rminstruct' = Peek(mem, 2)[2] /\ first' = Peek(mem, 3)[2]
  /\ pc' = <<Peek(mem, 4)[2], Peek(mem, 4)[3]>>
  /\ nested' = nested - 1
  /\ UNCHANGED <<qmarknum, linenum, self, onexit, isvar, over>>

(* taskkill(), by i_stop(), kill() or execerror(): the function given to onexit()
   starts over on the task's stack, whatever was on it, or the task is gone. *)
Bury(m, me) ==
  /\ UNCHANGED <<qmarknum, linenum, isvar, uses>>
  /\ IF onexit # 0
     THEN /\ mem' = FirstCall(m, onexit, linenum, me, self)
          /\ pc' = <<onexit, 1>> /\ self' = me /\ onexit' = 0
          /\ first' = IPop /\ nested' = 0 /\ rminstruct' = 0
          /\ UNCHANGED over
     ELSE /\ over' = TRUE /\ mem' = m
          /\ UNCHANGED <<pc, streamVars, self, onexit>>

StopTask ==
  /\ Doing("stop") /\ Peek(mem, 1) = Codep(NULL) /\ nested = 0
  /\ Bury(Popped(mem, 1), self)

(* At any time: the byte code is an error, or another task kills this one, in a
   program whose other tasks call no methods.                                 *)
Killed == ~over /\ \E killer \in {self, NoSelf} : Bury(mem, killer)

-----------------------------------------------------------------------------
ValueStep == Constant \/ ThingPush \/ VarPush \/ VarEval \/ VarAssign \/ AddCode \/ PopIgnore
FlowStep  == Goto \/ CondEval \/ LineNum \/ ForIn1 \/ ForIn2 \/ ForIn2Jump \/ ForInEnd
SelectStep == Select1 \/ Select2 \/ Select2Jump \/ Select3 \/ QMark \/ DotNumber
CallStep  == PreFunc \/ DotDotArg \/ Nargs \/ CallFunc \/ ReturnV \/ Return
EvalStep  == Eval \/ PushInfo \/ PopInfo \/ StopEval

Next == ValueStep \/ FlowStep \/ SelectStep \/ CallStep \/ EvalStep \/ StopTask \/ Killed

Spec == Init /\ [][Next]_vars

-----------------------------------------------------------------------------
(* Every pointer into the stack points into the block the stack is in now: the
   saved frames, each to the frame below it, and T->stackframe and T->arg0,
   which belong together.  The cells, pushed without a look at the size by
   callfuncd(), fit into the block.                                           *)
IsFrame(p) == p[1] = mem.block /\ p[2] \in FrameCells

PointersCurrent ==
  /\ Height(mem) <= mem.size
  /\ mem.frame # NULL => IsFrame(mem.frame) /\ mem.arg0 = Arg0(mem.cells, mem.frame)
  /\ \A i \in FrameCells :
       LET p == <<mem.cells[i][2], mem.cells[i][3]>> IN
         p # NULL => IsFrame(p) /\ p[2] < i

(* ?? is the note of the innermost select expression of the function that is
   executed, and ??.number its number, whatever the condition called before,
   select expressions of these functions and their errors included, and
   wherever the stack has moved.                                              *)
SelectCells == {i \in DOMAIN mem.cells : mem.cells[i][1] = "frm"} \ FrameCells

SelectExact ==
  Doing("qmark") =>
    /\ mem.qmark[1] = mem.block /\ mem.qmark[2] \in SelectCells
    /\ mem.qmark[2] > mem.frame[2]
    /\ \A i \in SelectCells : i <= mem.qmark[2]
    /\ mem.cells[mem.qmark[2] - 3][2] = qmarknum + 1

(* The uses counted of a phrase or array are those on the stack, and a step adds
   to what is counted too much only where uses are known to be lost: the stack
   of a killed task is dropped, a return leaves two for-in loops (or one that
   is not on top) of which ret() ends one, or a parameter is assigned to for the
   first time since its function was compiled.                                *)
Surplus(t) == uses[t] - UsesIn(mem.cells, t)

LosesUses ==
  \/ onexit' # onexit
  \/ Instr.op = "return" /\ Height(mem) > mem.frame[2] + 5
  \/ Instr.op = "returnv" /\ Height(mem) > mem.frame[2] + 6
  \/ \E s \in isvar' \ isvar : s[3] > 0

CountsKept ==
  [][\A t \in Counted :
       Surplus(t)' = Surplus(t) \/ (Surplus(t)' > Surplus(t) /\ LosesUses)]_vars

(* T->linenum, which error messages name, is the line the code is at, where it
   can be told: after an i_linenum() with no label and no call in between of a
   function with local variables.  (The first of them is kept in the cell where
   callfuncd() saved T->linenum, so ret() restores a value of it instead.)    *)
Jumps == {"goto", "tcond", "select2", "select3"}
Labels(c) ==
  {Code[c].body[i].n : i \in {j \in DOMAIN Code[c].body : Code[c].body[j].op \in Jumps}}
  \cup {Code[c].body[i].n2 : i \in {j \in DOMAIN Code[c].body : Code[c].body[j].op = "forin1"}}

LineSet(i) ==
  LET body == Code[pc[1]].body IN
    /\ body[i].op = "linenum"
    /\ \A j \in i + 1 .. pc[2] : j \notin Labels(pc[1])
    /\ \A j \in i + 1 .. pc[2] - 1 :
         /\ body[j].op # "linenum"
         /\ body[j].op = "prefunc" => Code[body[j].n].locals = 0

LineExact == ~over => \A i \in 1 .. pc[2] - 1 : LineSet(i) => linenum = Code[pc[1]].body[i].n

-----------------------------------------------------------------------------
(* The stack implements Activations.  From each saved stackframe an activation
   is found: its arguments and local variables at the places where the byte
   codes look for them, its temporary values above it up to the function of the
   next call.  Where a pointer among them points is not a value.              *)

Headers == SelectSeq([i \in DOMAIN mem.cells |-> i], IsHeader)

Start(S) == Arg0(mem.cells, <<mem.block, S>>)[2]
TempsEnd(S) ==
  LET above == {i \in FrameCells : i > S} IN
    IF above = {} THEN Height(mem)
    ELSE Start(CHOOSE i \in above : \A j \in above : i <= j) - PREARGSIZE - 1
Temps(S) ==
  [i \in 1 .. TempsEnd(S) - S |->
     LET cell == mem.cells[S + i] IN IF cell[1] = "frm" THEN Frm(NULL) ELSE cell]

Activation ==
  [S \in FrameCells |->
     LET npassed == mem.cells[S - 2][2]  varsize == mem.cells[S - 1][2] IN
       [args   |-> SubSeq(mem.cells, Start(S), Start(S) + npassed - 1),
        locals |-> [i \in 1 .. varsize - npassed |-> mem.cells[S - FRAMEHEADER - i + 1]],
        temps  |-> Temps(S)]]

(* Below the first call there is no frame, only what its code works with. *)
Ground == [args |-> <<>>, locals |-> <<>>, temps |-> Temps(0)]

A == INSTANCE Activations WITH
       Function <- DOMAIN Code,
       Params <- [f \in DOMAIN Code |-> Code[f].params],
       Locals <- [f \in DOMAIN Code |-> Code[f].locals],
       Bottom <- Codep(NULL),
       acts <- <<Ground>> \o [k \in DOMAIN Headers |-> Activation[Headers[k]]]

(* The byte codes, on one array of cells that moves, do what Activations says:
   a call changes nothing of the ones below it, it finds what it was passed, and
   its result takes the place of the call - out of loops and evals as well.   *)
ImplementsActivations == A!Spec
=============================================================================
