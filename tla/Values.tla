------------------------------- MODULE Values -------------------------------
(* Use counts: how KeyKit decides when a phrase or an array may be given     *)
(* back. Every copy of a value, in a symbol or on the stack of a task, is    *)
(* counted in p_used + p_tobe (h_used + h_tobe); a count that drops to zero  *)
(* puts the value on a list (Tobechecked, Htobechecked), and between two     *)
(* instructions the main loop sweeps the lists and frees what is still at    *)
(* zero. Sources: key.h, util.c, sym.c, code.c, code2.c, task.c.             *)
(*                                                                           *)
(* A stack item is a value or a pointer to a symbol (an "lvalue"), which is  *)
(* not counted: the symbol of an array element can be freed, and be given to *)
(* another element, while a pointer to it waits on a stack for its value.    *)
EXTENDS Integers, Sequences, FiniteSets, SequencesExt, FiniteSetsExt, Lists

CONSTANTS
  Task,        \* the tasks of the interpreter, each with a stack
  Phrase,      \* the phrases newph() can hand out
  Arr,         \* the arrays newht() can hand out
  Globals,     \* global variables
  ElemSym,     \* the symbols newsy() can hand out for array elements
  Keys,        \* how many subscripts there are
  Nil,         \* every value that is not counted (numbers, strings)
  NoSym,       \* an array has no element with this subscript
  MaxStack,    \* bound: items on one stack
  MaxItems,    \* bound: items on all the stacks together
  MaxLost      \* bound: references dropped without a decrement

Symbol == Globals \cup ElemSym
Counted == Phrase \cup Arr
Value == Counted \cup {Nil}

(* Subscripts, numbered as a walk over the hash table of an array meets them. *)
Key == 1 .. Keys

ASSUME ValuesAssumption ==
  /\ IsFiniteSet(Task) /\ IsFiniteSet(Symbol) /\ Keys \in Nat
  /\ Phrase \cap Arr = {} /\ Nil \notin Counted /\ NoSym \notin ElemSym
  /\ Symbol \cap Value = {}

VARIABLES
  heap,        \* symbols, arrays, phrases and their counts (see HeapType)
  stack        \* stack[t]: the items of task t, the top last

vars == <<heap, stack>>

HeapType ==
  [uses: [Counted -> Int],            \* p_used + p_tobe, h_used + h_tobe
   val: [Symbol -> Value],            \* s->sd
   elem: [Arr -> [Key -> ElemSym \cup {NoSym}]],
   phs: SUBSET Phrase,                \* Tobechecked
   hts: Seq(Arr),                     \* Htobechecked, the newest first
   marked: SUBSET Arr,                \* h_state = HT_TOBECHECKED
   chk: BOOLEAN,                      \* Chkstuff
   free: SUBSET Counted,              \* Freeph, Freeht
   content: [Phrase -> {0, 1}],       \* the notes: changed or not
   lost: [Counted -> Nat]]            \* history: references dropped uncounted

-----------------------------------------------------------------------------
(* phincruse, arrincruse *)
Incr(h, v) == IF v \in Counted THEN [h EXCEPT !.uses[v] = @ + 1] ELSE h

(* addtobechecked and httobechecked *)
Ask(h, v) ==
  IF v \in Phrase
  THEN [h EXCEPT !.phs = @ \cup {v}, !.chk = @ \/ v \notin h.phs]
  ELSE IF v \in h.marked THEN h
  ELSE [h EXCEPT !.hts = <<v>> \o @, !.marked = @ \cup {v}, !.chk = TRUE]

(* phdecruse, arrdecruse *)
Decr(h, v) ==
  LET less == [h EXCEPT !.uses[v] = @ - 1]
  IN IF v \notin Counted THEN h
     ELSE IF less.uses[v] <= 0 THEN Ask(less, v) ELSE less

ElemSyms(h, a) == {h.elem[a][k] : k \in Key} \ {NoSym}
InUse(h) == UNION {ElemSyms(h, a) : a \in Arr}
FreeSyms(h) == ElemSym \ InUse(h)

(* clearsym; the symbol is left with a null value *)
Clearsym(h, s) == Decr([h EXCEPT !.val[s] = Nil], h.val[s])

(* freehn: the node of an element and its symbol are given back *)
Freehn(h, a, k) ==
  Clearsym([h EXCEPT !.elem[a][k] = NoSym], h.elem[a][k])

(* clearht *)
Clearht(h, a) ==
  LET cleared[k \in 0 .. Keys] ==
        IF k = 0 THEN h
        ELSE IF cleared[k - 1].elem[a][k] = NoSym THEN cleared[k - 1]
        ELSE Freehn(cleared[k - 1], a, k)
  IN cleared[Keys]

(* unlinkht *)
Unlinkht(list, a) ==
  IF a \in ToSet(list) THEN Kept(list, {i \in DOMAIN list : list[i] # a}) ELSE list

(* freeht *)
Freeht(h, a) ==
  LET g == Clearht(h, a)
  IN [g EXCEPT !.free = @ \cup {a}, !.uses[a] = 0,
               !.marked = @ \ {a}, !.hts = Unlinkht(@, a)]

(* Mutant of Phcheck: what is on the list is freed, whatever its count. *)
PhcheckAll(h) ==
  [h EXCEPT !.phs = {}, !.free = @ \cup h.phs,
            !.uses = [v \in Counted |-> IF v \in h.phs THEN 0 ELSE h.uses[v]],
            !.content = [p \in Phrase |-> IF p \in h.phs THEN 0 ELSE h.content[p]]]

(* phcheck *)
Phcheck(h) ==
  LET gone == {p \in h.phs : h.uses[p] <= 0}
  IN [h EXCEPT !.phs = {}, !.free = @ \cup gone,
               !.uses = [v \in Counted |-> IF v \in gone THEN 0 ELSE h.uses[v]],
               !.content = [p \in Phrase |-> IF p \in gone THEN 0 ELSE h.content[p]]]

(* one turn of the loop of htcheck; a negative count ends it *)
HtcheckOne(acc, a) ==
  LET h == [acc.heap EXCEPT !.marked = @ \ {a}]
  IN IF acc.broken THEN acc
     ELSE IF h.uses[a] > 0 THEN [acc EXCEPT !.heap = h]
     ELSE IF h.uses[a] < 0 THEN [heap |-> h, broken |-> TRUE]
     ELSE [acc EXCEPT !.heap = Freeht(h, a)]

(* Its turns, for all of a list; h is what freeht may change. *)
Checked(h, list) ==
  LET turn[i \in 0 .. Len(list)] ==
        IF i = 0 THEN [heap |-> h, broken |-> FALSE] ELSE HtcheckOne(turn[i - 1], list[i])
  IN turn[Len(list)].heap

(* Mutant of Htcheck: the list is emptied last. *)
HtcheckLast(h) == [Checked(h, h.hts) EXCEPT !.hts = <<>>]

(* htcheck: the list is taken off first, since freeht may add to it *)
Htcheck(h) == Checked([h EXCEPT !.hts = <<>>], h.hts)

-----------------------------------------------------------------------------
(* A reference is overwritten or dropped, and its count is not told. *)
Lose(h, v) == IF v \in Counted THEN [h EXCEPT !.lost[v] = @ + 1] ELSE h

(* newsy() and arraysym() with H_INSERT: the heaps it may leave. Any free     *)
(* symbol is handed out; its first value overwrites what it still holds.      *)
Arraysym(h, a, k) ==
  IF h.elem[a][k] # NoSym THEN {h}
  ELSE {Lose([h EXCEPT !.elem[a][k] = s, !.val[s] = Nil], h.val[s])
          : s \in FreeSyms(h)}

(* setarraydata: the old value of the element is overwritten, not cleared *)
Stored(h, a, k, v) ==
  {Lose([g EXCEPT !.val[g.elem[a][k]] = v], g.val[g.elem[a][k]])
     : g \in Arraysym(h, a, k)}

(* newph and newht: a free value, with a count of its own *)
New(h, v, n) == [h EXCEPT !.free = @ \ {v}, !.uses[v] = n]
FreePhrases == Phrase \cap heap.free

(* the notes of p change; phcopy of p to q followed by a change of q *)
Change(h, p) == [h EXCEPT !.content[p] = 1 - @]
ChangeCopy(h, p, q) == [New(h, q, 0) EXCEPT !.content[q] = 1 - h.content[p]]

(* Mutant of Private: the phrase is taken for private one reference early. *)
PrivateEarly(h, p) == h.uses[p] <= 1

(* phreallyused(p) > 0 fails: nobody else can see the phrase *)
Private(h, p) == h.uses[p] <= 0

(* phresh and what is done with its result: pairs of the heap, the phrase *)
Changed(h, p) ==
  IF Private(h, p) THEN {<<Change(h, p), p>>}
  ELSE {<<ChangeCopy(h, p, q), q>> : q \in Phrase \cap h.free}

(* dadd and dpar: p is merged into a phresh of left. Into itself phrmerge()   *)
(* merges a copy, new with the count 1, and lets go of it.                   *)
Merged(h, left, p) ==
  UNION {IF r[2] # p THEN {r}
         ELSE {<<Decr(New(r[1], q, 1), q), p>> : q \in Phrase \cap r[1].free}
           : r \in Changed(h, left)}

-----------------------------------------------------------------------------
Init ==
  /\ heap = [uses |-> [v \in Counted |-> 0],
             val |-> [s \in Symbol |-> Nil],
             elem |-> [a \in Arr |-> [k \in Key |-> NoSym]],
             phs |-> {}, hts |-> <<>>, marked |-> {}, chk |-> FALSE,
             free |-> Counted, content |-> [p \in Phrase |-> 0],
             lost |-> [v \in Counted |-> 0]]
  /\ stack = [t \in Task |-> <<>>]

(* The n-th item from the top *)
Item(t, n) == stack[t][Len(stack[t]) - n + 1]
Top(t) == Item(t, 1)
Below(t) == Item(t, 2)
Holds(t, n) == Len(stack[t]) >= n

(* Bounds: deeper stacks, more items or more lost references, are left out. *)
WithinBounds(h, st) ==
  /\ \A t \in Task : Len(st[t]) <= MaxStack
  /\ MapThenSumSet(LAMBDA t : Len(st[t]), Task) <= MaxItems
  /\ MapThenSumSet(LAMBDA v : h.lost[v], Counted) <= MaxLost

Leave(t, h, items) ==
  /\ heap' = h /\ stack' = [stack EXCEPT ![t] = items]
  /\ WithinBounds(heap', stack')

Rest(t, n) == SubSeq(stack[t], 1, Len(stack[t]) - n)

(* pushexp, pushm: the value is counted; a symbol is not *)
Push(t, h, n, item) == Leave(t, Incr(h, item), Append(Rest(t, n), item))

(* pushing the result, or not: DONTPUSH *)
MayPush(t, h, n, item) == Leave(t, h, Rest(t, n)) \/ Push(t, h, n, item)

(* a new phrase: a constant, or what a function returns *)
NewPhrase(t) == \E p \in FreePhrases : Push(t, New(heap, p, 0), 0, p)

(* The n items on top become elements of the new array a, the last one first: *)
(* the heaps this may leave.                                                 *)
Filled(t, a, n, ks) ==
  LET filled[i \in 0 .. n] ==
        IF i = 0 THEN {New(heap, a, 0)}
        ELSE UNION {Stored(g, a, ks[i], Item(t, i)) : g \in filled[i - 1]}
  IN filled[n]

(* i_array: [k1 = v1, ...]; the items move from the stack to the elements,   *)
(* counts unchanged                                                          *)
Array(t) ==
  \E a \in Arr \cap heap.free, n \in 0 .. Len(stack[t]) : \E ks \in [1 .. n -> Key] :
    /\ \A i \in 1 .. n : Item(t, i) \in Value
    /\ \E h \in Filled(t, a, n, ks) : Push(t, h, n, a)

(* i_gvareval *)
VarEval(t) == \E s \in Globals : Push(t, heap, 0, heap.val[s])

(* i_varpush *)
VarPush(t) == \E s \in Globals : Push(t, heap, 0, s)

(* a number, the right side of an assignment of one *)
Constant(t) == Push(t, heap, 0, Nil)

(* i_arrend: the value of an element, made if it is missing *)
ArrEnd(t) ==
  \E k \in Key :
    /\ Holds(t, 1) /\ Top(t) \in Arr
    /\ \E h \in Arraysym(Decr(heap, Top(t)), Top(t), k) :
         Push(t, h, 1, h.val[h.elem[Top(t)][k]])

(* i_arraypush: a pointer to the element, made if it is missing *)
ArrayPush(t) ==
  \E k \in Key :
    /\ Holds(t, 1) /\ Top(t) \in Arr
    /\ \E h \in Arraysym(Decr(heap, Top(t)), Top(t), k) :
         Push(t, h, 1, h.elem[Top(t)][k])

(* i_addcode and i_par of two phrases: the right one is merged into the left *)
Operate(t) ==
  /\ Holds(t, 2) /\ {Top(t), Below(t)} \subseteq Phrase
  /\ \E r \in Merged(Decr(Decr(heap, Top(t)), Below(t)), Below(t), Top(t)) :
       Push(t, r[1], 2, r[2])

(* Mutant of Assign: the old value is told twice that it is gone. *)
AssignTwice(t) ==
  /\ Holds(t, 2) /\ Top(t) \in Value /\ Below(t) \in Symbol
  /\ LET v == Top(t)
         s == Below(t)
         h == [Clearsym(Decr(Decr(heap, v), heap.val[s]), s) EXCEPT !.val[s] = v]
     IN MayPush(t, Incr(h, v), 2, v)

(* assign(ASSIGN) with '=': the old value is cleared before the new is counted *)
Assign(t) ==
  /\ Holds(t, 2) /\ Top(t) \in Value /\ Below(t) \in Symbol
  /\ LET v == Top(t)
         s == Below(t)
         h == [Clearsym(Decr(heap, v), s) EXCEPT !.val[s] = v]
     IN MayPush(t, Incr(h, v), 2, v)

(* assign(ASSIGN) with '+=' or '|=' of two phrases *)
OpAssign(t) ==
  /\ Holds(t, 2) /\ Top(t) \in Phrase /\ Below(t) \in Symbol
  /\ heap.val[Below(t)] \in Phrase
  /\ LET s == Below(t)
         sd == heap.val[s]
     IN \E r \in Merged(Decr(Decr(heap, Top(t)), sd), sd, Top(t)) :
          MayPush(t, Incr([r[1] EXCEPT !.val[s] = r[2]], r[2]), 2, r[2])

(* assign(DOTASSIGN), assign(MODDOTASSIGN): the result is a number. A symbol *)
(* that holds no phrase is given one first, as x.length = n does.            *)
DotAssign(t) ==
  /\ Holds(t, 2) /\ Top(t) = Nil /\ Below(t) \in Symbol
  /\ LET s == Below(t)
         phrvarinit == {[New(Clearsym(heap, s), p, 1) EXCEPT !.val[s] = p] : p \in FreePhrases}
     IN \E h \in IF heap.val[s] \in Phrase THEN {heap} ELSE phrvarinit :
          \E r \in Changed(Decr(h, h.val[s]), h.val[s]) :
            MayPush(t, Incr([r[1] EXCEPT !.val[s] = r[2]], r[2]), 2, Nil)

(* assign(MODASSIGN): a%k = b, the result is b *)
ModAssign(t) ==
  /\ Holds(t, 2) /\ Top(t) \in Phrase /\ Below(t) \in Symbol
  /\ heap.val[Below(t)] \in Phrase
  /\ LET s == Below(t)
     IN \E r \in Changed(Decr(Decr(heap, Top(t)), heap.val[s]), heap.val[s]) :
          MayPush(t, Incr([r[1] EXCEPT !.val[s] = r[2]], r[2]), 2, Top(t))

(* i_popignore *)
PopIgnore(t) == Holds(t, 1) /\ Leave(t, Decr(heap, Top(t)), Rest(t, 1))

(* i_deletearritem: delete a[k] *)
DeleteArrItem(t) ==
  \E k \in Key :
    /\ Holds(t, 1) /\ Top(t) \in Arr
    /\ LET h == Decr(heap, Top(t))
       IN Leave(t, IF h.elem[Top(t)][k] = NoSym THEN h ELSE Freehn(h, Top(t), k),
                Rest(t, 1))

(* i_deleteit: delete a *)
DeleteIt(t) ==
  /\ Holds(t, 1) /\ Top(t) \in Arr
  /\ Leave(t, Clearht(Decr(heap, Top(t)), Top(t)), Rest(t, 1))

(* freetp: the stack of a killed task goes as it is *)
Kill(t) ==
  /\ stack[t] # <<>>
  /\ Leave(t, [heap EXCEPT !.lost = [v \in Counted |-> @[v] + Count(stack[t], {v})]], <<>>)

(* exectasks, between two instructions of any task *)
Sweep ==
  /\ heap.chk
  /\ heap' = [Htcheck(Phcheck(heap)) EXCEPT !.chk = FALSE]
  /\ UNCHANGED stack

Next ==
  \/ \E t \in Task :
       \/ NewPhrase(t) \/ Array(t) \/ Constant(t)
       \/ VarEval(t) \/ VarPush(t) \/ ArrEnd(t) \/ ArrayPush(t)
       \/ Operate(t) \/ Assign(t) \/ OpAssign(t) \/ DotAssign(t) \/ ModAssign(t)
       \/ PopIgnore(t) \/ DeleteArrItem(t) \/ DeleteIt(t) \/ Kill(t)
  \/ Sweep

Spec == Init /\ [][Next]_vars

-----------------------------------------------------------------------------
(* The places v is found in: symbols, in use or not, and stacks. *)
PlacesIn(val, st, v) ==
  {<<"symbol", s, 0>> : s \in {x \in Symbol : val[x] = v}}
  \cup UNION {{<<"stack", t, i>> : i \in {j \in DOMAIN st[t] : st[t][j] = v}} : t \in Task}
Places(v) == PlacesIn(heap.val, stack, v)
Refs(v) == Cardinality(Places(v))

(* The count of a value is the number of places it can be found in, and the  *)
(* references that were lost: no count is ever too small.                    *)
CountsExact == \A v \in Counted : heap.uses[v] = Refs(v) + heap.lost[v]

(* Nothing that can be found is on a free list, to be handed out again. *)
NoDangling == \A v \in heap.free : Refs(v) = 0

(* A value nobody counts on is free or is on the list of the next sweep,     *)
(* where an array is once at most, whatever put it there; the flag by which  *)
(* httobechecked() knows that agrees, and nothing on a list is free.         *)
NothingForgotten ==
  /\ \A v \in Counted \ heap.free :
       heap.uses[v] <= 0 => v \in heap.phs \cup ToSet(heap.hts)
  /\ heap.marked = ToSet(heap.hts) /\ IsInjective(heap.hts)
  /\ (heap.phs \cup heap.marked) \cap heap.free = {}

(* A phrase is a value: notes change only if at most one place saw them      *)
(* before and still does.                                                    *)
ContentsPrivate ==
  [][\A p \in Phrase \ heap.free :
       heap'.content[p] # heap.content[p] /\ p \notin heap'.free
         => Cardinality(Places(p) \cap Places(p)') <= 1]_vars
=============================================================================
