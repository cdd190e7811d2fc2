---------------------------- MODULE ValuesProofs ----------------------------
(* Use counts, for any programs, tasks, phrases and arrays: what is counted    *)
(* can be found, what can be found is counted, and nothing that can be found   *)
(* is handed out again.                                                        *)
EXTENDS Values, ListsProofs

-----------------------------------------------------------------------------
(* Heaps.  n[v] is how many references to v there are, in symbols, on stacks and *)
(* in the hands of the byte code.  Each step of a byte code changes the counts   *)
(* as it changes n.                                                              *)

More(n, x) == [v \in Counted |-> IF v = x THEN n[v] + 1 ELSE n[v]]
Less(n, x) == [v \in Counted |-> IF v = x THEN n[v] - 1 ELSE n[v]]

Books(h, n) ==
  /\ n \in [Counted -> Nat]
  /\ \A v \in Counted : h.uses[v] = n[v] + h.lost[v]
  /\ \A v \in h.free : n[v] = 0 /\ h.lost[v] = 0

(* Arrays of P are marked, but off the list; X may be left out of the lists. *)
Listed(h, X, P) ==
  /\ \A v \in Counted \ (h.free \cup X) : h.uses[v] <= 0 => v \in h.phs \cup h.marked
  /\ h.marked = ToSet(h.hts) \cup P /\ P \cap ToSet(h.hts) = {}
  /\ IsInjective(h.hts)
  /\ (h.phs \cup h.marked) \cap h.free = {}

Good(h, n, X, P) == h \in HeapType /\ Books(h, n) /\ Listed(h, X, P)

(* h and g differ in nothing but counts and lists. *)
Alike(h, g) ==
  /\ g.val = h.val /\ g.elem = h.elem /\ g.free = h.free
  /\ g.content = h.content /\ g.lost = h.lost

LEMMA HeapFields ==
  ASSUME NEW h \in HeapType
  PROVE  /\ h.uses \in [Counted -> Int] /\ h.val \in [Symbol -> Value]
         /\ h.elem \in [Arr -> [Key -> ElemSym \cup {NoSym}]]
         /\ h.phs \in SUBSET Phrase /\ h.hts \in Seq(Arr) /\ h.marked \in SUBSET Arr
         /\ h.chk \in BOOLEAN /\ h.free \in SUBSET Counted
         /\ h.content \in [Phrase -> {0, 1}] /\ h.lost \in [Counted -> Nat]
BY DEF HeapType

LEMMA IncrIs ==
  ASSUME NEW h \in HeapType, NEW v \in Counted
  PROVE  LET g == Incr(h, v) IN
           /\ g \in HeapType /\ Alike(h, g)
           /\ g.uses = [h.uses EXCEPT ![v] = h.uses[v] + 1]
           /\ g.phs = h.phs /\ g.hts = h.hts /\ g.marked = h.marked
<1> DEFINE u == [h.uses EXCEPT ![v] = h.uses[v] + 1]
<1>1. u \in [Counted -> Int]
  BY HeapFields
<1>2. Incr(h, v) = [h EXCEPT !.uses = u]
  BY DEF Incr
<1> HIDE DEF u
<1>3. [h EXCEPT !.uses = u] \in HeapType
  BY <1>1 DEF HeapType
<1>4. LET g == [h EXCEPT !.uses = u] IN
        /\ g.uses = u /\ Alike(h, g)
        /\ g.phs = h.phs /\ g.hts = h.hts /\ g.marked = h.marked
  BY DEF Alike, HeapType
<1> QED BY <1>2, <1>3, <1>4 DEF u

LEMMA AskIs ==
  ASSUME NEW h \in HeapType, NEW v \in Counted
  PROVE  LET g == Ask(h, v) IN
           /\ g \in HeapType /\ Alike(h, g) /\ g.uses = h.uses
           /\ v \in Phrase => g.phs = h.phs \cup {v} /\ g.hts = h.hts /\ g.marked = h.marked
           /\ v \notin Phrase => g.phs = h.phs /\ g.marked = h.marked \cup {v}
           /\ v \notin Phrase /\ v \in h.marked => g.hts = h.hts
           /\ v \notin Phrase /\ v \notin h.marked => g.hts = <<v>> \o h.hts
<1>1. CASE v \in Phrase
  <2>1. Ask(h, v) = [h EXCEPT !.phs = h.phs \cup {v}, !.chk = h.chk \/ v \notin h.phs]
    BY <1>1 DEF Ask
  <2>2. h.phs \cup {v} \in SUBSET Phrase /\ (h.chk \/ v \notin h.phs) \in BOOLEAN
    BY <1>1, HeapFields
  <2>3. Ask(h, v) \in HeapType
    BY <2>1, <2>2 DEF HeapType
  <2> QED BY <1>1, <2>1, <2>3 DEF Alike, HeapType
<1>2. CASE v \notin Phrase /\ v \in h.marked
  <2>1. Ask(h, v) = h
    BY <1>2 DEF Ask
  <2> QED BY <1>2, <2>1 DEF Alike
<1>3. CASE v \notin Phrase /\ v \notin h.marked
  <2> DEFINE q == <<v>> \o h.hts
             m == h.marked \cup {v}
  <2>1. Ask(h, v) = [h EXCEPT !.hts = q, !.marked = m, !.chk = TRUE]
    BY <1>3 DEF Ask
  <2>2. q \in Seq(Arr) /\ m \in SUBSET Arr
    BY <1>3, HeapFields DEF Counted
  <2> HIDE DEF q, m
  <2>3. Ask(h, v) \in HeapType
    BY <2>1, <2>2 DEF HeapType
  <2>4. LET g == [h EXCEPT !.hts = q, !.marked = m, !.chk = TRUE] IN
          /\ Alike(h, g) /\ g.uses = h.uses /\ g.phs = h.phs /\ g.hts = q /\ g.marked = m
    BY DEF Alike, HeapType
  <2> QED BY <1>3, <2>1, <2>3, <2>4 DEF q, m
<1> QED BY <1>1, <1>2, <1>3

LEMMA DecrIs ==
  ASSUME NEW h \in HeapType, NEW v \in Counted
  PROVE  \E less \in HeapType :
           /\ Alike(h, less)
           /\ less.uses = [h.uses EXCEPT ![v] = h.uses[v] - 1]
           /\ less.phs = h.phs /\ less.hts = h.hts /\ less.marked = h.marked
           /\ Decr(h, v) = IF less.uses[v] <= 0 THEN Ask(less, v) ELSE less
<1> DEFINE u == [h.uses EXCEPT ![v] = h.uses[v] - 1]
           less == [h EXCEPT !.uses = u]
<1>1. u \in [Counted -> Int]
  BY HeapFields
<1>2. [h EXCEPT !.uses[v] = @ - 1] = less
  OBVIOUS
<1>3. Decr(h, v) = IF less.uses[v] <= 0 THEN Ask(less, v) ELSE less
  <2> HIDE DEF less
  <2> QED BY <1>2 DEF Decr
<1> HIDE DEF u
<1>4. less \in HeapType
  BY <1>1 DEF HeapType
<1>5. /\ less.uses = u /\ Alike(h, less)
      /\ less.phs = h.phs /\ less.hts = h.hts /\ less.marked = h.marked
  BY DEF Alike, HeapType
<1> HIDE DEF less
<1> QED BY <1>3, <1>4, <1>5 DEF u

(* An element more at the front of a list *)
LEMMA AtFront ==
  ASSUME NEW E, NEW q \in Seq(E), NEW e \in E, e \notin ToSet(q), IsInjective(q)
  PROVE  ToSet(<<e>> \o q) = ToSet(q) \cup {e} /\ IsInjective(<<e>> \o q)
<1> DEFINE r == <<e>> \o q
<1>1. /\ Len(q) \in Nat /\ DOMAIN q = 1 .. Len(q)
      /\ r \in Seq(E) /\ Len(r) = Len(q) + 1 /\ DOMAIN r = 1 .. Len(q) + 1
      /\ r[1] = e /\ \A i \in 2 .. Len(q) + 1 : r[i] = q[i - 1]
  OBVIOUS
<1> HIDE DEF r
<1>2. ASSUME NEW i \in DOMAIN r PROVE i = 1 \/ (i # 1 /\ i - 1 \in DOMAIN q /\ r[i] = q[i - 1])
  BY <1>1
<1>3. ASSUME NEW i \in DOMAIN q PROVE i + 1 \in DOMAIN r /\ r[i + 1] = q[i]
  BY <1>1
<1>4. ToSet(r) = ToSet(q) \cup {e}
  <2>1. \A x \in ToSet(r) : x \in ToSet(q) \cup {e}
    BY <1>1, <1>2 DEF ToSet
  <2>2. \A x \in ToSet(q) : x \in ToSet(r)
    BY <1>3 DEF ToSet
  <2>3. e \in ToSet(r)
    BY <1>1 DEF ToSet
  <2> QED BY <2>1, <2>2, <2>3
<1>5. \A i \in DOMAIN q : q[i] # e
  BY DEF ToSet
<1>6. ASSUME NEW i \in DOMAIN r, NEW j \in DOMAIN r, r[i] = r[j] PROVE i = j
  <2>1. i \in Int /\ j \in Int
    BY <1>1
  <2>2. i = 1 <=> j = 1
    BY <1>1, <1>2, <1>5, <1>6
  <2>3. CASE i # 1
    <3>1. i - 1 \in DOMAIN q /\ j - 1 \in DOMAIN q /\ q[i - 1] = q[j - 1]
      BY <1>2, <1>6, <2>2, <2>3
    <3>2. i - 1 = j - 1
      BY <3>1 DEF IsInjective
    <3> QED BY <2>1, <3>2
  <2> QED BY <2>2, <2>3
<1> QED BY <1>4, <1>6 DEF IsInjective, r

-----------------------------------------------------------------------------
(* What these steps do to the counts and the lists.                             *)

LEMMA GoodTypes ==
  ASSUME NEW h, NEW n, NEW X, NEW P, Good(h, n, X, P)
  PROVE  /\ h \in HeapType /\ n \in [Counted -> Nat]
         /\ \A v \in Counted :
              /\ h.uses[v] = n[v] + h.lost[v] /\ n[v] \in Nat /\ h.lost[v] \in Nat
              /\ h.uses[v] \in Nat
              /\ v \in h.free => n[v] = 0 /\ h.uses[v] = 0 /\ v \notin h.phs \cup h.marked
              /\ n[v] # 0 => v \notin h.free
<1>1. h \in HeapType /\ n \in [Counted -> Nat]
  BY DEF Good, Books
<1>2. h.lost \in [Counted -> Nat] /\ h.free \in SUBSET Counted
  BY <1>1, HeapFields
<1> SUFFICES ASSUME NEW v \in Counted
    PROVE  /\ h.uses[v] = n[v] + h.lost[v] /\ n[v] \in Nat /\ h.lost[v] \in Nat
           /\ h.uses[v] \in Nat
           /\ v \in h.free => n[v] = 0 /\ h.uses[v] = 0 /\ v \notin h.phs \cup h.marked
           /\ n[v] # 0 => v \notin h.free
  BY <1>1
<1>3. h.uses[v] = n[v] + h.lost[v] /\ n[v] \in Nat /\ h.lost[v] \in Nat
  BY <1>1, <1>2 DEF Good, Books
<1>4. v \in h.free => n[v] = 0 /\ h.lost[v] = 0
  BY DEF Good, Books
<1>5. v \in h.free => v \notin h.phs \cup h.marked
  BY DEF Good, Listed
<1> QED BY <1>3, <1>4, <1>5

(* A reference more, and it is counted. *)
LEMMA GoodIncr ==
  ASSUME NEW h, NEW n, NEW X, NEW P, Good(h, n, X, P), NEW v \in Counted, v \notin h.free
  PROVE  Good(Incr(h, v), More(n, v), X \ {v}, P) /\ Alike(h, Incr(h, v))
<1> DEFINE g == Incr(h, v)
<1>1. h \in HeapType /\ n \in [Counted -> Nat]
  BY GoodTypes
<1>2. /\ g \in HeapType /\ Alike(h, g)
      /\ g.uses = [h.uses EXCEPT ![v] = h.uses[v] + 1]
      /\ g.phs = h.phs /\ g.hts = h.hts /\ g.marked = h.marked
  BY <1>1, IncrIs
<1>3. h.uses \in [Counted -> Int]
  BY <1>1, HeapFields
<1> HIDE DEF g
<1>4. \A w \in Counted : g.uses[w] = IF w = v THEN h.uses[w] + 1 ELSE h.uses[w]
  BY <1>2, <1>3
<1>5. Books(g, More(n, v))
  <2>1. More(n, v) \in [Counted -> Nat]
    BY <1>1 DEF More
  <2>2. \A w \in Counted : g.uses[w] = More(n, v)[w] + g.lost[w]
    <3> SUFFICES ASSUME NEW w \in Counted PROVE g.uses[w] = More(n, v)[w] + g.lost[w]
      OBVIOUS
    <3>1. h.uses[w] = n[w] + h.lost[w] /\ n[w] \in Nat /\ h.lost[w] \in Nat
      BY GoodTypes
    <3>2. More(n, v)[w] = IF w = v THEN n[w] + 1 ELSE n[w]
      BY DEF More
    <3>3. g.lost = h.lost
      BY <1>2 DEF Alike
    <3> QED BY <1>4, <3>1, <3>2, <3>3
  <2>3. \A w \in g.free : More(n, v)[w] = 0 /\ g.lost[w] = 0
    <3>1. g.free = h.free /\ g.lost = h.lost /\ h.free \in SUBSET Counted
      BY <1>1, <1>2, HeapFields DEF Alike
    <3>2. \A w \in h.free : n[w] = 0 /\ h.lost[w] = 0
      BY DEF Good, Books
    <3> QED BY <3>1, <3>2 DEF More
  <2> QED BY <2>1, <2>2, <2>3 DEF Books
<1>6. Listed(g, X \ {v}, P)
  <2>1. Listed(h, X, P)
    BY DEF Good
  <2>2. \A w \in Counted \ (g.free \cup (X \ {v})) : g.uses[w] <= 0 => w \in g.phs \cup g.marked
    <3> SUFFICES ASSUME NEW w \in Counted \ (g.free \cup (X \ {v})), g.uses[w] <= 0
                 PROVE  w \in g.phs \cup g.marked
      OBVIOUS
    <3>1. h.uses[w] \in Nat
      BY GoodTypes
    <3>2. w # v
      BY <1>4, <3>1
    <3>3. w \notin h.free /\ w \notin X
      BY <1>2, <3>2 DEF Alike
    <3>4. h.uses[w] <= 0
      BY <1>4, <3>2
    <3> QED BY <1>2, <2>1, <3>3, <3>4 DEF Listed
  <2> QED BY <1>2, <2>1, <2>2 DEF Listed, Alike
<1> QED BY <1>2, <1>5, <1>6 DEF Good, g

(* A reference less; at none v is listed. *)
LEMMA GoodDecr ==
  ASSUME NEW h, NEW n, NEW X, NEW P, Good(h, n, X, P), NEW v \in Counted, n[v] # 0
  PROVE  /\ Good(Decr(h, v), Less(n, v), X, P) /\ Alike(h, Decr(h, v))
         /\ \A w \in Counted : w # v => /\ w \in Decr(h, v).marked <=> w \in h.marked
                                        /\ w \in Decr(h, v).phs <=> w \in h.phs
<1> DEFINE g == Decr(h, v)
<1>1. h \in HeapType /\ n \in [Counted -> Nat] /\ v \notin h.free
  BY GoodTypes
<1>2. PICK less \in HeapType :
        /\ Alike(h, less)
        /\ less.uses = [h.uses EXCEPT ![v] = h.uses[v] - 1]
        /\ less.phs = h.phs /\ less.hts = h.hts /\ less.marked = h.marked
        /\ g = IF less.uses[v] <= 0 THEN Ask(less, v) ELSE less
  BY <1>1, DecrIs
<1>3. /\ h.uses \in [Counted -> Int] /\ h.hts \in Seq(Arr)
      /\ h.phs \in SUBSET Phrase /\ h.marked \in SUBSET Arr
  BY <1>1, HeapFields
<1> HIDE DEF g
<1>4. \A w \in Counted : less.uses[w] = IF w = v THEN h.uses[w] - 1 ELSE h.uses[w]
  BY <1>2, <1>3
<1>5. Listed(h, X, P)
  BY DEF Good
<1>6. /\ g \in HeapType /\ Alike(h, g) /\ g.uses = less.uses
      /\ IsInjective(g.hts) /\ g.marked = ToSet(g.hts) \cup P /\ P \cap ToSet(g.hts) = {}
      /\ h.phs \subseteq g.phs /\ g.phs \subseteq h.phs \cup {v}
      /\ h.marked \subseteq g.marked /\ g.marked \subseteq h.marked \cup {v}
      /\ g.uses[v] <= 0 => v \in g.phs \cup g.marked
  <2>1. CASE ~(less.uses[v] <= 0)
    <3>1. g = less
      BY <1>2, <2>1
    <3> QED BY <1>2, <1>5, <2>1, <3>1 DEF Listed
  <2>2. CASE less.uses[v] <= 0
    <3>1. g = Ask(less, v)
      BY <1>2, <2>2
    <3>2. /\ g \in HeapType /\ Alike(less, g) /\ g.uses = less.uses
          /\ v \in Phrase => g.phs = less.phs \cup {v} /\ g.hts = less.hts /\ g.marked = less.marked
          /\ v \notin Phrase => g.phs = less.phs /\ g.marked = less.marked \cup {v}
          /\ v \notin Phrase /\ v \in less.marked => g.hts = less.hts
          /\ v \notin Phrase /\ v \notin less.marked => g.hts = <<v>> \o less.hts
      BY <3>1, AskIs
    <3>3. Alike(h, g)
      BY <1>2, <3>2 DEF Alike
    <3>4. CASE v \in Phrase
      BY <1>2, <1>5, <3>2, <3>3, <3>4 DEF Listed
    <3>5. CASE v \notin Phrase /\ v \in h.marked
      <4>1. g.hts = h.hts /\ g.marked = h.marked /\ g.phs = h.phs
        BY <1>2, <3>2, <3>5
      <4> QED BY <1>5, <3>2, <3>3, <3>5, <4>1 DEF Listed
    <3>6. CASE v \notin Phrase /\ v \notin h.marked
      <4>1. g.hts = <<v>> \o h.hts /\ g.marked = h.marked \cup {v} /\ g.phs = h.phs
        BY <1>2, <3>2, <3>6
      <4>2. v \in Arr /\ v \notin ToSet(h.hts) /\ IsInjective(h.hts) /\ v \notin P
            /\ h.marked = ToSet(h.hts) \cup P /\ P \cap ToSet(h.hts) = {}
        BY <1>5, <3>6 DEF Listed, Counted
      <4>3. ToSet(g.hts) = ToSet(h.hts) \cup {v} /\ IsInjective(g.hts)
        BY <1>3, <4>1, <4>2, AtFront
      <4> QED BY <3>2, <3>3, <4>1, <4>2, <4>3
    <3> QED BY <3>4, <3>5, <3>6
  <2> QED BY <2>1, <2>2
<1>7. \A w \in Counted : /\ h.uses[w] = n[w] + h.lost[w] /\ n[w] \in Nat /\ h.lost[w] \in Nat
  BY GoodTypes
<1>8. g.lost = h.lost /\ g.free = h.free /\ h.free \in SUBSET Counted
  BY <1>1, <1>6, HeapFields DEF Alike
<1>9. Books(g, Less(n, v))
  <2>1. Less(n, v) \in [Counted -> Nat]
    BY <1>1, <1>7 DEF Less
  <2>2. ASSUME NEW w \in Counted PROVE g.uses[w] = Less(n, v)[w] + g.lost[w]
    <3>1. Less(n, v)[w] = IF w = v THEN n[w] - 1 ELSE n[w]
      BY DEF Less
    <3> QED BY <1>4, <1>6, <1>7, <1>8, <3>1
  <2>3. ASSUME NEW w \in g.free PROVE Less(n, v)[w] = 0 /\ g.lost[w] = 0
    <3>1. w # v /\ w \in Counted
      BY <1>1, <1>8
    <3>2. n[w] = 0 /\ h.lost[w] = 0
      BY <1>8 DEF Good, Books
    <3> QED BY <1>8, <3>1, <3>2 DEF Less
  <2> QED BY <2>1, <2>2, <2>3 DEF Books
<1>10. Listed(g, X, P)
  <2>1. ASSUME NEW w \in Counted \ (g.free \cup X), g.uses[w] <= 0 PROVE w \in g.phs \cup g.marked
    <3>1. CASE w = v
      BY <1>6, <2>1, <3>1
    <3>2. CASE w # v
      <4>1. h.uses[w] <= 0 /\ w \in Counted \ (h.free \cup X)
        BY <1>4, <1>6, <1>8, <2>1, <3>2
      <4> QED BY <1>5, <1>6, <4>1 DEF Listed
    <3> QED BY <3>1, <3>2
  <2>2. (g.phs \cup g.marked) \cap g.free = {}
    BY <1>1, <1>5, <1>6, <1>8 DEF Listed
  <2> QED BY <1>6, <2>1, <2>2 DEF Listed
<1> QED BY <1>6, <1>9, <1>10 DEF Good, g

(* What is not about counts and lists changes nothing in them. *)
LEMMA GoodSame ==
  ASSUME NEW h, NEW n, NEW X, NEW P, Good(h, n, X, P), NEW g \in HeapType,
         g.uses = h.uses, g.lost = h.lost, g.free = h.free,
         g.phs = h.phs, g.hts = h.hts, g.marked = h.marked
  PROVE  Good(g, n, X, P)
BY DEF Good, Books, Listed

LEMMA ValIs ==
  ASSUME NEW h \in HeapType, NEW s \in Symbol, NEW x \in Value
  PROVE  LET g == [h EXCEPT !.val[s] = x] IN
           /\ g \in HeapType /\ g.val = [h.val EXCEPT ![s] = x]
           /\ g.uses = h.uses /\ g.lost = h.lost /\ g.free = h.free
           /\ g.phs = h.phs /\ g.hts = h.hts /\ g.marked = h.marked
           /\ g.elem = h.elem /\ g.content = h.content
<1> DEFINE u == [h.val EXCEPT ![s] = x]
<1>1. u \in [Symbol -> Value]
  BY HeapFields
<1>2. [h EXCEPT !.val[s] = x] = [h EXCEPT !.val = u]
  OBVIOUS
<1> HIDE DEF u
<1>3. [h EXCEPT !.val = u] \in HeapType
  BY <1>1 DEF HeapType
<1>4. LET g == [h EXCEPT !.val = u] IN
        /\ g.val = u
        /\ g.uses = h.uses /\ g.lost = h.lost /\ g.free = h.free
        /\ g.phs = h.phs /\ g.hts = h.hts /\ g.marked = h.marked
        /\ g.elem = h.elem /\ g.content = h.content
  BY DEF HeapType
<1> QED BY <1>2, <1>3, <1>4 DEF u

LEMMA GoodVal ==
  ASSUME NEW h, NEW n, NEW X, NEW P, Good(h, n, X, P), NEW s \in Symbol, NEW x \in Value
  PROVE  LET g == [h EXCEPT !.val[s] = x] IN
           /\ Good(g, n, X, P) /\ g.val = [h.val EXCEPT ![s] = x]
           /\ g.elem = h.elem /\ g.content = h.content /\ g.free = h.free /\ g.lost = h.lost
           /\ g.phs = h.phs /\ g.marked = h.marked
<1> DEFINE g == [h EXCEPT !.val[s] = x]
<1>1. h \in HeapType
  BY DEF Good
<1>2. /\ g \in HeapType /\ g.val = [h.val EXCEPT ![s] = x]
      /\ g.uses = h.uses /\ g.lost = h.lost /\ g.free = h.free
      /\ g.phs = h.phs /\ g.hts = h.hts /\ g.marked = h.marked
      /\ g.elem = h.elem /\ g.content = h.content
  BY <1>1, ValIs
<1> HIDE DEF g
<1>3. Good(g, n, X, P)
  BY <1>2, GoodSame
<1> QED BY <1>2, <1>3 DEF g

LEMMA GoodElem ==
  ASSUME NEW h, NEW n, NEW X, NEW P, Good(h, n, X, P),
         NEW a \in Arr, NEW k \in Key, NEW s \in ElemSym \cup {NoSym}
  PROVE  LET g == [h EXCEPT !.elem[a][k] = s] IN
           /\ Good(g, n, X, P) /\ g.val = h.val /\ g.content = h.content
           /\ g.free = h.free /\ g.lost = h.lost /\ g.phs = h.phs /\ g.marked = h.marked
           /\ g.elem[a][k] = s
<1> DEFINE u == [h.elem EXCEPT ![a][k] = s]
           g == [h EXCEPT !.elem[a][k] = s]
<1>0. h \in HeapType
  BY DEF Good
<1>1. u \in [Arr -> [Key -> ElemSym \cup {NoSym}]] /\ u[a][k] = s
  BY <1>0, HeapFields
<1>2. g = [h EXCEPT !.elem = u]
  OBVIOUS
<1> HIDE DEF u
<1>3. [h EXCEPT !.elem = u] \in HeapType
  BY <1>0, <1>1 DEF HeapType
<1>4. LET f == [h EXCEPT !.elem = u] IN
        /\ f.val = h.val
        /\ f.uses = h.uses /\ f.lost = h.lost /\ f.free = h.free
        /\ f.phs = h.phs /\ f.hts = h.hts /\ f.marked = h.marked
        /\ f.elem = u /\ f.content = h.content
  BY <1>0 DEF HeapType
<1> HIDE DEF g
<1>5. Good(g, n, X, P)
  BY <1>2, <1>3, <1>4, GoodSame
<1> QED BY <1>1, <1>2, <1>4, <1>5 DEF g

LEMMA GoodContent ==
  ASSUME NEW h, NEW n, NEW X, NEW P, Good(h, n, X, P), NEW p \in Phrase, NEW c, c \in {0, 1}
  PROVE  LET g == [h EXCEPT !.content[p] = c] IN
           /\ Good(g, n, X, P) /\ g.val = h.val /\ g.elem = h.elem
           /\ g.free = h.free /\ g.lost = h.lost /\ g.phs = h.phs /\ g.marked = h.marked
           /\ g.content = [h.content EXCEPT ![p] = c]
<1> DEFINE u == [h.content EXCEPT ![p] = c]
           g == [h EXCEPT !.content[p] = c]
<1>0. h \in HeapType
  BY DEF Good
<1>1. u \in [Phrase -> {0, 1}]
  BY <1>0, HeapFields
<1>2. g = [h EXCEPT !.content = u]
  OBVIOUS
<1> HIDE DEF u
<1>3. [h EXCEPT !.content = u] \in HeapType
  BY <1>0, <1>1 DEF HeapType
<1>4. LET f == [h EXCEPT !.content = u] IN
        /\ f.val = h.val
        /\ f.uses = h.uses /\ f.lost = h.lost /\ f.free = h.free
        /\ f.phs = h.phs /\ f.hts = h.hts /\ f.marked = h.marked
        /\ f.elem = h.elem /\ f.content = u
  BY <1>0 DEF HeapType
<1> HIDE DEF g
<1>5. Good(g, n, X, P)
  BY <1>2, <1>3, <1>4, GoodSame
<1> QED BY <1>1, <1>2, <1>4, <1>5 DEF g, u

(* A reference goes and its count stays. *)
LEMMA GoodLose ==
  ASSUME NEW h, NEW n, NEW X, NEW P, Good(h, n, X, P), NEW v \in Counted, n[v] # 0
  PROVE  LET g == Lose(h, v) IN
           /\ Good(g, Less(n, v), X, P) /\ g.val = h.val /\ g.elem = h.elem
           /\ g.free = h.free /\ g.content = h.content /\ g.phs = h.phs /\ g.marked = h.marked
<1> DEFINE u == [h.lost EXCEPT ![v] = h.lost[v] + 1]
           g == Lose(h, v)
<1>0. h \in HeapType /\ n \in [Counted -> Nat] /\ v \notin h.free
  BY GoodTypes
<1>1. h.lost \in [Counted -> Nat] /\ h.free \in SUBSET Counted
  BY <1>0, HeapFields
<1>2. g = [h EXCEPT !.lost = u] /\ u \in [Counted -> Nat]
  BY <1>1 DEF Lose
<1>3. \A w \in Counted : u[w] = IF w = v THEN h.lost[w] + 1 ELSE h.lost[w]
  BY <1>1
<1> HIDE DEF u
<1>4. [h EXCEPT !.lost = u] \in HeapType
  BY <1>0, <1>2 DEF HeapType
<1>5. LET f == [h EXCEPT !.lost = u] IN
        /\ f.val = h.val
        /\ f.uses = h.uses /\ f.lost = u /\ f.free = h.free
        /\ f.phs = h.phs /\ f.hts = h.hts /\ f.marked = h.marked
        /\ f.elem = h.elem /\ f.content = h.content
  BY <1>0 DEF HeapType
<1> HIDE DEF g
<1>6. \A w \in Counted : /\ h.uses[w] = n[w] + h.lost[w] /\ n[w] \in Nat /\ h.lost[w] \in Nat
  BY GoodTypes
<1>7. /\ g \in HeapType /\ g.uses = h.uses /\ g.lost = u /\ g.free = h.free
      /\ g.phs = h.phs /\ g.hts = h.hts /\ g.marked = h.marked
  BY <1>2, <1>4, <1>5
<1>8. Books(g, Less(n, v))
  <2>1. Less(n, v) \in [Counted -> Nat]
    BY <1>0, <1>6 DEF Less
  <2>2. ASSUME NEW w \in Counted PROVE g.uses[w] = Less(n, v)[w] + g.lost[w]
    <3>1. Less(n, v)[w] = IF w = v THEN n[w] - 1 ELSE n[w]
      BY DEF Less
    <3> QED BY <1>3, <1>6, <1>7, <3>1
  <2>3. ASSUME NEW w \in g.free PROVE Less(n, v)[w] = 0 /\ g.lost[w] = 0
    <3>1. w # v /\ w \in Counted
      BY <1>0, <1>1, <1>7
    <3>2. n[w] = 0 /\ h.lost[w] = 0
      BY <1>7 DEF Good, Books
    <3> QED BY <1>3, <1>7, <3>1, <3>2 DEF Less
  <2> QED BY <2>1, <2>2, <2>3 DEF Books
<1>9. Listed(g, X, P)
  <2>1. Listed(h, X, P)
    BY DEF Good
  <2> QED BY <1>7, <2>1 DEF Listed
<1> QED BY <1>2, <1>5, <1>7, <1>8, <1>9 DEF Good, g

(* A free value is handed out, with the count m. *)
LEMMA NewIs ==
  ASSUME NEW h \in HeapType, NEW v \in Counted, NEW m \in Nat
  PROVE  LET g == New(h, v, m) IN
           /\ g \in HeapType /\ g.uses = [h.uses EXCEPT ![v] = m] /\ g.free = h.free \ {v}
           /\ g.val = h.val /\ g.elem = h.elem /\ g.content = h.content /\ g.lost = h.lost
           /\ g.phs = h.phs /\ g.hts = h.hts /\ g.marked = h.marked
<1> DEFINE u == [h.uses EXCEPT ![v] = m]
           f == h.free \ {v}
<1>1. u \in [Counted -> Int] /\ f \in SUBSET Counted
  BY HeapFields
<1>2. New(h, v, m) = [h EXCEPT !.free = f, !.uses = u]
  BY DEF New
<1> HIDE DEF u, f
<1>3. [h EXCEPT !.free = f, !.uses = u] \in HeapType
  BY <1>1 DEF HeapType
<1>4. LET g == [h EXCEPT !.free = f, !.uses = u] IN
        /\ g.uses = u /\ g.free = f
        /\ g.val = h.val /\ g.elem = h.elem /\ g.content = h.content /\ g.lost = h.lost
        /\ g.phs = h.phs /\ g.hts = h.hts /\ g.marked = h.marked
  BY DEF HeapType
<1> QED BY <1>2, <1>3, <1>4 DEF u, f

Made(h, v, g) ==
  g.free = h.free \ {v} /\ g.val = h.val /\ g.elem = h.elem /\ g.content = h.content

LEMMA GoodNew ==
  ASSUME NEW h, NEW n, NEW X, NEW P, Good(h, n, X, P), NEW v \in h.free, v \in Counted
  PROVE  /\ Good(New(h, v, 0), n, X \cup {v}, P) /\ Made(h, v, New(h, v, 0))
         /\ Good(New(h, v, 1), More(n, v), X, P) /\ Made(h, v, New(h, v, 1))
<1>0. h \in HeapType /\ n \in [Counted -> Nat] /\ h.free \in SUBSET Counted
      /\ h.uses \in [Counted -> Int]
  BY GoodTypes, HeapFields
<1>1. /\ \A w \in Counted : /\ h.uses[w] = n[w] + h.lost[w] /\ n[w] \in Nat /\ h.lost[w] \in Nat
                            /\ w \in h.free => n[w] = 0 /\ h.lost[w] = 0
      /\ Listed(h, X, P)
  BY GoodTypes DEF Good, Books
<1>2. ASSUME NEW m \in Nat, NEW k, NEW Y,
             k \in [Counted -> Nat], \A w \in Counted : k[w] = IF w = v THEN m ELSE n[w],
             X \subseteq Y, m = 0 => v \in Y
      PROVE  Good(New(h, v, m), k, Y, P) /\ Made(h, v, New(h, v, m))
  <2> DEFINE g == New(h, v, m)
  <2>1. /\ g \in HeapType /\ g.uses = [h.uses EXCEPT ![v] = m] /\ g.free = h.free \ {v}
        /\ g.lost = h.lost /\ g.phs = h.phs /\ g.hts = h.hts /\ g.marked = h.marked
        /\ g.val = h.val /\ g.elem = h.elem /\ g.content = h.content
    BY <1>0, NewIs
  <2> HIDE DEF g
  <2>2. \A w \in Counted : g.uses[w] = IF w = v THEN m ELSE h.uses[w]
    BY <1>0, <2>1
  <2>3. Books(g, k)
    <3>1. \A w \in Counted : g.uses[w] = k[w] + g.lost[w]
      BY <1>1, <1>2, <2>1, <2>2
    <3>2. \A w \in g.free : k[w] = 0 /\ g.lost[w] = 0
      BY <1>0, <1>1, <1>2, <2>1
    <3> QED BY <1>2, <3>1, <3>2 DEF Books
  <2>4. Listed(g, Y, P)
    <3>1. ASSUME NEW w \in Counted \ (g.free \cup Y), g.uses[w] <= 0 PROVE w \in g.phs \cup g.marked
      <4>1. w # v
        <5>1. CASE m = 0
          BY <1>2, <3>1, <5>1
        <5>2. CASE m # 0
          BY <1>2, <2>2, <3>1, <5>2
        <5> QED BY <5>1, <5>2
      <4>2. w \in Counted \ (h.free \cup X) /\ h.uses[w] <= 0
        BY <1>2, <2>1, <2>2, <3>1, <4>1
      <4> QED BY <1>1, <2>1, <4>2 DEF Listed
    <3> QED BY <1>1, <2>1, <3>1 DEF Listed
  <2> QED BY <2>1, <2>3, <2>4 DEF Good, Made, g
<1>3. Good(New(h, v, 0), n, X \cup {v}, P) /\ Made(h, v, New(h, v, 0))
  <2>1. \A w \in Counted : n[w] = IF w = v THEN 0 ELSE n[w]
    BY <1>1
  <2>2. 0 \in Nat /\ X \subseteq X \cup {v} /\ v \in X \cup {v}
    OBVIOUS
  <2> DEFINE Y == X \cup {v}
  <2> HIDE DEF Y
  <2>3. Good(New(h, v, 0), n, Y, P) /\ Made(h, v, New(h, v, 0))
    BY <1>0, <1>2, <2>1, <2>2 DEF Y
  <2> QED BY <2>3 DEF Y
<1>4. More(n, v) \in [Counted -> Nat] /\ \A w \in Counted : More(n, v)[w] = IF w = v THEN 1 ELSE n[w]
  BY <1>0, <1>1 DEF More
<1>5. Good(New(h, v, 1), More(n, v), X, P) /\ Made(h, v, New(h, v, 1))
  BY <1>2, <1>4
<1> QED BY <1>3, <1>5

-----------------------------------------------------------------------------
(* References are places: symbols and items on stacks.                          *)

Items == Value \cup Symbol
StacksType == [Task -> Seq(Items)]
(* One symbol, one stack changes. *)
Sets(val, s, x, val2) == val2 = [val EXCEPT ![s] = x]
Pushes(st, t, x, st2) == st2 = [st EXCEPT ![t] = Append(st[t], x)]
Pops(st, t, x, st2) ==
  /\ x = st[t][Len(st[t])] /\ st2 = [st EXCEPT ![t] = SubSeq(st[t], 1, Len(st[t]) - 1)]

N(val, st) == [v \in Counted |-> Cardinality(PlacesIn(val, st, v))]

LEMMA PlaceIs ==
  ASSUME NEW val, NEW st, NEW v, NEW p
  PROVE  p \in PlacesIn(val, st, v) <=>
           \/ \E s \in Symbol : val[s] = v /\ p = <<"symbol", s, 0>>
           \/ \E t \in Task : \E i \in DOMAIN st[t] : st[t][i] = v /\ p = <<"stack", t, i>>
BY DEF PlacesIn

LEMMA PlacesFinite ==
  ASSUME NEW val, NEW st \in StacksType, NEW v
  PROVE  IsFiniteSet(PlacesIn(val, st, v))
<1> DEFINE S == {x \in Symbol : val[x] = v}
           A == {<<"symbol", s, 0>> : s \in S}
           I(t) == {j \in DOMAIN st[t] : st[t][j] = v}
           B(t) == {<<"stack", t, i>> : i \in I(t)}
           C == {B(t) : t \in Task}
<1>1. IsFiniteSet(A)
  <2>1. IsFiniteSet(S)
    BY ValuesAssumption, FS_Subset
  <2>2. [s \in S |-> <<"symbol", s, 0>>] \in Surjection(S, A)
    BY DEF Surjection
  <2> HIDE DEF S, A
  <2> QED BY <2>1, <2>2, FS_Surjection
<1>2. ASSUME NEW t \in Task PROVE IsFiniteSet(B(t))
  <2>1. IsFiniteSet(I(t))
    <3>1. DOMAIN st[t] = 1 .. Len(st[t]) /\ Len(st[t]) \in Nat
      BY DEF StacksType
    <3>2. IsFiniteSet(DOMAIN st[t])
      BY <3>1, FS_Interval
    <3> QED BY <3>2, FS_Subset
  <2>2. [i \in I(t) |-> <<"stack", t, i>>] \in Surjection(I(t), B(t))
    BY DEF Surjection
  <2> HIDE DEF I, B
  <2> QED BY <2>1, <2>2, FS_Surjection
<1>3. IsFiniteSet(C)
  <2>1. [t \in Task |-> B(t)] \in Surjection(Task, C)
    <3> HIDE DEF B
    <3> QED BY DEF Surjection
  <2> HIDE DEF C
  <2> QED BY <2>1, ValuesAssumption, FS_Surjection
<1>4. IsFiniteSet(UNION C)
  <2> HIDE DEF B
  <2>1. \A T \in C : IsFiniteSet(T)
    BY <1>2
  <2> HIDE DEF C
  <2> QED BY <1>3, <2>1, FS_UNION
<1>5. PlacesIn(val, st, v) = A \cup UNION C
  BY DEF PlacesIn
<1> HIDE DEF A, C
<1> QED BY <1>1, <1>4, <1>5, FS_Union

LEMMA NType ==
  ASSUME NEW val, NEW st \in StacksType
  PROVE  N(val, st) \in [Counted -> Nat]
BY PlacesFinite, FS_CardinalityType DEF N

(* x is in one place more. *)
LEMMA OnePlace ==
  ASSUME NEW val, NEW st \in StacksType, NEW val2, NEW st2 \in StacksType, NEW p, NEW x,
         \A v \in Counted : PlacesIn(val2, st2, v) =
           IF v = x THEN PlacesIn(val, st, v) \cup {p} ELSE PlacesIn(val, st, v),
         p \notin PlacesIn(val, st, x)
  PROVE  /\ N(val2, st2) = More(N(val, st), x) /\ N(val, st) = Less(N(val2, st2), x)
         /\ x \in Counted => N(val2, st2)[x] # 0
<1> DEFINE n == N(val, st)
           n2 == N(val2, st2)
<1>1. n \in [Counted -> Nat] /\ n2 \in [Counted -> Nat]
  BY NType
<1>2. ASSUME NEW v \in Counted PROVE n2[v] = IF v = x THEN n[v] + 1 ELSE n[v]
  <2>1. n[v] = Cardinality(PlacesIn(val, st, v)) /\ n2[v] = Cardinality(PlacesIn(val2, st2, v))
    BY DEF N
  <2>2. IsFiniteSet(PlacesIn(val, st, v))
    BY PlacesFinite
  <2>3. v = x => Cardinality(PlacesIn(val, st, v) \cup {p}) = Cardinality(PlacesIn(val, st, v)) + 1
    BY <2>2, FS_AddElement
  <2> QED BY <2>1, <2>3
<1> HIDE DEF n, n2
<1>3. n2 = More(n, x)
  BY <1>1, <1>2 DEF More
<1>4. n = Less(n2, x)
  BY <1>1, <1>2 DEF Less
<1>5. x \in Counted => n2[x] # 0
  BY <1>1, <1>2
<1> QED BY <1>3, <1>4, <1>5 DEF n, n2

LEMMA SymbolSet ==
  ASSUME NEW val \in [Symbol -> Value], NEW st \in StacksType, NEW s \in Symbol, val[s] = Nil,
         NEW x \in Value, NEW val2, Sets(val, s, x, val2)
  PROVE  /\ N(val2, st) = More(N(val, st), x) /\ N(val, st) = Less(N(val2, st), x)
         /\ x \in Counted => N(val2, st)[x] # 0
<1> DEFINE p == <<"symbol", s, 0>>
<1>0. Nil \notin Counted
  BY ValuesAssumption
<1>1. CASE x \in Counted
  <2>1. ASSUME NEW v \in Counted
        PROVE  PlacesIn(val2, st, v) = IF v = x THEN PlacesIn(val, st, v) \cup {p} ELSE PlacesIn(val, st, v)
    <3>1. \A r \in Symbol : val2[r] = v <=> (val[r] = v \/ (r = s /\ v = x))
      BY <1>0 DEF Sets
    <3>2. \A q : q \in PlacesIn(val2, st, v) <=> q \in PlacesIn(val, st, v) \/ (q = p /\ v = x)
      <4> SUFFICES ASSUME NEW q
                   PROVE  q \in PlacesIn(val2, st, v) <=> q \in PlacesIn(val, st, v) \/ (q = p /\ v = x)
        OBVIOUS
      <4>1. (\E r \in Symbol : val2[r] = v /\ q = <<"symbol", r, 0>>) <=>
              (\E r \in Symbol : val[r] = v /\ q = <<"symbol", r, 0>>) \/ (q = p /\ v = x)
        BY <3>1
      <4>2. q \in PlacesIn(val2, st, v) <=>
              \/ \E r \in Symbol : val2[r] = v /\ q = <<"symbol", r, 0>>
              \/ \E t \in Task : \E i \in DOMAIN st[t] : st[t][i] = v /\ q = <<"stack", t, i>>
        BY PlaceIs
      <4>3. q \in PlacesIn(val, st, v) <=>
              \/ \E r \in Symbol : val[r] = v /\ q = <<"symbol", r, 0>>
              \/ \E t \in Task : \E i \in DOMAIN st[t] : st[t][i] = v /\ q = <<"stack", t, i>>
        BY PlaceIs
      <4> HIDE DEF p
      <4> QED BY <4>1, <4>2, <4>3
    <3> QED BY <3>2
  <2>2. p \notin PlacesIn(val, st, x)
    BY <1>0, <1>1 DEF PlacesIn
  <2> HIDE DEF p
  <2> QED BY <2>1, <2>2, OnePlace
<1>2. CASE x \notin Counted
  <2>1. x = Nil /\ val2 = val
    BY <1>2 DEF Value, Sets
  <2>2. N(val, st) \in [Counted -> Nat]
    BY NType
  <2>3. N(val, st) = More(N(val, st), x) /\ N(val, st) = Less(N(val, st), x)
    BY <1>2, <2>2 DEF More, Less
  <2> QED BY <1>2, <2>1, <2>3
<1> QED BY <1>1, <1>2

(* A symbol is left with no value. *)
LEMMA SymbolCleared ==
  ASSUME NEW val \in [Symbol -> Value], NEW st \in StacksType, NEW s \in Symbol,
         NEW none, Sets(val, s, Nil, none)
  PROVE  /\ N(none, st) = Less(N(val, st), val[s])
         /\ (val[s] \in Counted => N(val, st)[val[s]] # 0)
<1>1. none \in [Symbol -> Value] /\ none[s] = Nil /\ Sets(none, s, val[s], val) /\ val[s] \in Value
  BY DEF Value, Sets
<1>2. N(none, st) = Less(N(val, st), val[s]) /\ (val[s] \in Counted => N(val, st)[val[s]] # 0)
  BY <1>1, SymbolSet
<1> QED BY <1>2

(* The item on top of a stack *)
LEMMA StackPushed ==
  ASSUME NEW val, NEW st \in StacksType, NEW t \in Task, NEW x \in Items,
         NEW st2, Pushes(st, t, x, st2)
  PROVE  /\ st2 \in StacksType
         /\ N(val, st2) = More(N(val, st), x) /\ N(val, st) = Less(N(val, st2), x)
         /\ x \in Counted => N(val, st2)[x] # 0
<1> DEFINE q == Append(st[t], x)
           k == Len(st[t]) + 1
           p == <<"stack", t, k>>
<1>1. /\ st[t] \in Seq(Items) /\ Len(st[t]) \in Nat /\ DOMAIN st[t] = 1 .. Len(st[t])
      /\ q \in Seq(Items) /\ DOMAIN q = 1 .. k
      /\ q[k] = x /\ \A i \in 1 .. Len(st[t]) : q[i] = st[t][i]
  BY DEF StacksType
<1>2. st2 \in StacksType /\ st2[t] = q /\ \A u \in Task : u # t => st2[u] = st[u]
  BY <1>1 DEF StacksType, Pushes
<1> HIDE DEF q
<1>3. ASSUME NEW v
      PROVE  PlacesIn(val, st2, v) = IF v = x THEN PlacesIn(val, st, v) \cup {p} ELSE PlacesIn(val, st, v)
  <2>1. ASSUME NEW u \in Task, NEW i
        PROVE  i \in DOMAIN st2[u] /\ st2[u][i] = v <=>
                 (i \in DOMAIN st[u] /\ st[u][i] = v) \/ (u = t /\ i = k /\ v = x)
    BY <1>1, <1>2
  <2>2. \A r : r \in PlacesIn(val, st2, v) <=> r \in PlacesIn(val, st, v) \/ (r = p /\ v = x)
    <3> SUFFICES ASSUME NEW r
                 PROVE  r \in PlacesIn(val, st2, v) <=> r \in PlacesIn(val, st, v) \/ (r = p /\ v = x)
      OBVIOUS
    <3>1. (\E u \in Task : \E i \in DOMAIN st2[u] : st2[u][i] = v /\ r = <<"stack", u, i>>) <=>
            \/ \E u \in Task : \E i \in DOMAIN st[u] : st[u][i] = v /\ r = <<"stack", u, i>>
            \/ r = p /\ v = x
      BY <2>1
    <3>2. r \in PlacesIn(val, st2, v) <=>
            \/ \E s \in Symbol : val[s] = v /\ r = <<"symbol", s, 0>>
            \/ \E u \in Task : \E i \in DOMAIN st2[u] : st2[u][i] = v /\ r = <<"stack", u, i>>
      BY PlaceIs
    <3>3. r \in PlacesIn(val, st, v) <=>
            \/ \E s \in Symbol : val[s] = v /\ r = <<"symbol", s, 0>>
            \/ \E u \in Task : \E i \in DOMAIN st[u] : st[u][i] = v /\ r = <<"stack", u, i>>
      BY PlaceIs
    <3> HIDE DEF p
    <3> QED BY <3>1, <3>2, <3>3
  <2> QED BY <2>2
<1>4. p \notin PlacesIn(val, st, x)
  <2>1. k \notin DOMAIN st[t]
    BY <1>1
  <2> HIDE DEF k
  <2>2. \A i : p = <<"stack", t, i>> => i = k
    OBVIOUS
  <2> QED BY <2>1 DEF PlacesIn
<1> HIDE DEF p
<1>5. /\ N(val, st2) = More(N(val, st), x) /\ N(val, st) = Less(N(val, st2), x)
      /\ x \in Counted => N(val, st2)[x] # 0
  BY <1>2, <1>3, <1>4, OnePlace
<1> QED BY <1>2, <1>5

LEMMA StackPopped ==
  ASSUME NEW val, NEW st \in StacksType, NEW t \in Task, Len(st[t]) >= 1,
         NEW x, NEW st2, Pops(st, t, x, st2)
  PROVE  /\ st2 \in StacksType /\ x \in Items
         /\ N(val, st2) = Less(N(val, st), x)
         /\ x \in Counted => N(val, st)[x] # 0
<1> DEFINE q == SubSeq(st[t], 1, Len(st[t]) - 1)
<1>1. /\ st[t] \in Seq(Items) /\ q \in Seq(Items) /\ x \in Items /\ Append(q, x) = st[t]
  <2>1. st[t] \in Seq(Items) /\ Len(st[t]) \in Nat
    BY DEF StacksType
  <2>2. q \in Seq(Items) /\ x \in Items /\ Len(q) = Len(st[t]) - 1 /\ x = st[t][Len(st[t])]
        /\ \A i \in 1 .. Len(st[t]) - 1 : q[i] = st[t][i]
    BY <2>1 DEF Pops
  <2> QED BY <2>1, <2>2
<1>2. st2 \in StacksType /\ st2[t] = q /\ Pushes(st2, t, x, st)
  BY <1>1 DEF StacksType, Pops, Pushes
<1>3. N(val, st2) = Less(N(val, st), x) /\ (x \in Counted => N(val, st)[x] # 0)
  BY <1>1, <1>2, StackPushed
<1> QED BY <1>1, <1>2, <1>3

-----------------------------------------------------------------------------
(* Any value, counted or not                                                    *)

LEMMA NotCounted ==
  ASSUME NEW h, NEW n \in [Counted -> Nat], NEW x, x \notin Counted
  PROVE  /\ Incr(h, x) = h /\ Decr(h, x) = h /\ Lose(h, x) = h
         /\ More(n, x) = n /\ Less(n, x) = n
<1>1. More(n, x) = n /\ Less(n, x) = n
  BY DEF More, Less
<1> QED BY <1>1 DEF Incr, Decr, Lose

LEMMA LetGo ==
  ASSUME NEW h, NEW n, NEW X, NEW P, Good(h, n, X, P), NEW x, x \in Counted => n[x] # 0
  PROVE  /\ Good(Decr(h, x), Less(n, x), X, P) /\ Alike(h, Decr(h, x))
         /\ \A w \in Counted : w # x => /\ w \in Decr(h, x).marked <=> w \in h.marked
                                        /\ w \in Decr(h, x).phs <=> w \in h.phs
<1>1. CASE x \in Counted
  BY <1>1, GoodDecr
<1>2. CASE x \notin Counted
  <2>1. n \in [Counted -> Nat]
    BY GoodTypes
  <2>2. Decr(h, x) = h /\ Less(n, x) = n
    BY <1>2, <2>1, NotCounted
  <2> QED BY <2>2 DEF Alike
<1> QED BY <1>1, <1>2

LEMMA TakeUp ==
  ASSUME NEW h, NEW n, NEW X, NEW P, Good(h, n, X, P), X \subseteq Counted,
         NEW x, x \in Counted => x \notin h.free
  PROVE  Good(Incr(h, x), More(n, x), X \ {x}, P) /\ Alike(h, Incr(h, x))
<1>1. CASE x \in Counted
  BY <1>1, GoodIncr
<1>2. CASE x \notin Counted
  <2>1. n \in [Counted -> Nat]
    BY GoodTypes
  <2>2. Incr(h, x) = h /\ More(n, x) = n /\ X \ {x} = X
    BY <1>2, <2>1, NotCounted
  <2> QED BY <2>2 DEF Alike
<1> QED BY <1>1, <1>2

LEMMA Forget ==
  ASSUME NEW h, NEW n, NEW X, NEW P, Good(h, n, X, P), NEW x, x \in Counted => n[x] # 0
  PROVE  LET g == Lose(h, x) IN
           /\ Good(g, Less(n, x), X, P) /\ g.val = h.val /\ g.elem = h.elem
           /\ g.free = h.free /\ g.content = h.content
<1>1. CASE x \in Counted
  BY <1>1, GoodLose
<1>2. CASE x \notin Counted
  <2>1. n \in [Counted -> Nat]
    BY GoodTypes
  <2>2. Lose(h, x) = h /\ Less(n, x) = n
    BY <1>2, <2>1, NotCounted
  <2> QED BY <2>2
<1> QED BY <1>1, <1>2

(* Steps of n *)
LEMMA MoreLess ==
  ASSUME NEW n \in [Counted -> Nat], NEW x, NEW y
  PROVE  /\ Less(More(n, x), x) = n
         /\ (x \in Counted => n[x] # 0) => More(Less(n, x), x) = n
         /\ More(Less(n, x), y) = Less(More(n, y), x)
         /\ More(n, x) \in [Counted -> Nat]
         /\ (x \in Counted => n[x] # 0) => Less(n, x) \in [Counted -> Nat]
<1>0. \A v \in Counted : n[v] \in Nat
  OBVIOUS
<1>1. \A v \in Counted : /\ More(n, x)[v] = IF v = x THEN n[v] + 1 ELSE n[v]
                         /\ Less(n, x)[v] = IF v = x THEN n[v] - 1 ELSE n[v]
                         /\ More(n, y)[v] = IF v = y THEN n[v] + 1 ELSE n[v]
  BY DEF More, Less
<1>2. Less(More(n, x), x) = n
  <2>1. \A v \in Counted : (IF v = x THEN More(n, x)[v] - 1 ELSE More(n, x)[v]) = n[v]
    BY <1>0, <1>1
  <2> QED BY <2>1 DEF Less
<1>3. More(Less(n, x), x) = n
  <2>1. \A v \in Counted : (IF v = x THEN Less(n, x)[v] + 1 ELSE Less(n, x)[v]) = n[v]
    BY <1>0, <1>1
  <2> QED BY <2>1 DEF More
<1>4. More(Less(n, x), y) = Less(More(n, y), x)
  <2>1. \A v \in Counted : (IF v = y THEN Less(n, x)[v] + 1 ELSE Less(n, x)[v])
                             = (IF v = x THEN More(n, y)[v] - 1 ELSE More(n, y)[v])
    BY <1>0, <1>1
  <2> HIDE DEF Less, More
  <2>2. More(Less(n, x), y) = [v \in Counted |-> IF v = y THEN Less(n, x)[v] + 1 ELSE Less(n, x)[v]]
    BY DEF More
  <2>3. Less(More(n, y), x) = [v \in Counted |-> IF v = x THEN More(n, y)[v] - 1 ELSE More(n, y)[v]]
    BY DEF Less
  <2> QED BY <2>1, <2>2, <2>3
<1>5. More(n, x) \in [Counted -> Nat]
  BY <1>0 DEF More
<1>6. (x \in Counted => n[x] # 0) => Less(n, x) \in [Counted -> Nat]
  BY <1>0 DEF Less
<1> QED BY <1>2, <1>3, <1>4, <1>5, <1>6

-----------------------------------------------------------------------------
(* The heap of the byte codes: nothing is in hand.                              *)

Sound(h, st, X, P) == st \in StacksType /\ Good(h, N(h.val, st), X, P)

(* The notes, what is free and what was lost are as they were. *)
Tidy(h, g) == g.content = h.content /\ g.free = h.free /\ g.lost = h.lost

(* The arrays that nothing points to are marked, or not, as they were. *)
MarksKept(h, g, n) == \A w \in Counted : n[w] = 0 => (w \in g.marked <=> w \in h.marked)

LEMMA SoundTypes ==
  ASSUME NEW h, NEW st, NEW X, NEW P, Sound(h, st, X, P)
  PROVE  /\ st \in StacksType /\ h \in HeapType /\ h.val \in [Symbol -> Value]
         /\ h.elem \in [Arr -> [Key -> ElemSym \cup {NoSym}]]
         /\ N(h.val, st) \in [Counted -> Nat]
BY GoodTypes, HeapFields DEF Sound

(* A symbol that holds nothing is given a value, which is counted. *)
LEMMA Placed ==
  ASSUME NEW h, NEW st \in StacksType, NEW X, NEW P, X \subseteq Counted,
         NEW s \in Symbol, NEW none, Sets(h.val, s, Nil, none), Good(h, N(none, st), X, P),
         NEW x \in Value, x \in Counted => x \notin h.free
  PROVE  LET g == Incr([h EXCEPT !.val[s] = x], x) IN
           /\ Sound(g, st, X \ {x}, P) /\ g.val = [h.val EXCEPT ![s] = x] /\ Tidy(h, g)
<1> DEFINE f == [h EXCEPT !.val[s] = x]
           g == Incr(f, x)
<1>0. h \in HeapType /\ h.val \in [Symbol -> Value]
  BY GoodTypes, HeapFields
<1>1. /\ Good(f, N(none, st), X, P) /\ f.val = [h.val EXCEPT ![s] = x]
      /\ f.content = h.content /\ f.free = h.free /\ f.lost = h.lost
  BY GoodVal
<1> HIDE DEF f
<1>2. Good(g, More(N(none, st), x), X \ {x}, P) /\ Alike(f, g)
  BY <1>1, TakeUp
<1> HIDE DEF g
<1>3. g.val = [h.val EXCEPT ![s] = x] /\ Tidy(h, g)
  BY <1>1, <1>2 DEF Alike, Tidy
<1>4. none \in [Symbol -> Value] /\ none[s] = Nil /\ Sets(none, s, x, g.val)
  BY <1>0, <1>3 DEF Sets, Value
<1>5. N(g.val, st) = More(N(none, st), x)
  BY <1>4, SymbolSet
<1> QED BY <1>2, <1>3, <1>5 DEF Sound, f, g

(* clearsym *)
LEMMA Cleared ==
  ASSUME NEW h, NEW st, NEW X, NEW P, Sound(h, st, X, P), NEW s \in Symbol
  PROVE  LET g == Clearsym(h, s) IN
           /\ Sound(g, st, X, P) /\ Sets(h.val, s, Nil, g.val) /\ g.elem = h.elem
           /\ Tidy(h, g) /\ MarksKept(h, g, N(h.val, st))
<1> DEFINE x == h.val[s]
           f == [h EXCEPT !.val[s] = Nil]
           g == Decr(f, x)
           n == N(h.val, st)
<1>0. st \in StacksType /\ h.val \in [Symbol -> Value] /\ Nil \in Value
  BY SoundTypes DEF Value
<1>1. /\ Good(f, n, X, P) /\ f.val = [h.val EXCEPT ![s] = Nil] /\ f.elem = h.elem
      /\ f.content = h.content /\ f.free = h.free /\ f.lost = h.lost /\ f.marked = h.marked
  BY <1>0, GoodVal DEF Sound
<1> HIDE DEF f
<1>2. Sets(h.val, s, Nil, f.val)
  BY <1>1 DEF Sets
<1>3. N(f.val, st) = Less(n, x) /\ (x \in Counted => n[x] # 0)
  BY <1>0, <1>2, SymbolCleared
<1> HIDE DEF n, x
<1>4. /\ Good(g, Less(n, x), X, P) /\ Alike(f, g)
      /\ \A w \in Counted : w # x => (w \in g.marked <=> w \in f.marked)
  BY <1>1, <1>3, LetGo
<1> HIDE DEF g
<1>5. Sound(g, st, X, P) /\ Sets(h.val, s, Nil, g.val) /\ g.elem = h.elem /\ Tidy(h, g)
  BY <1>0, <1>1, <1>2, <1>3, <1>4 DEF Sound, Alike, Tidy
<1>6. MarksKept(h, g, n)
  BY <1>1, <1>3, <1>4 DEF MarksKept
<1>7. Clearsym(h, s) = g
  BY DEF Clearsym, g, f, x
<1> QED BY <1>5, <1>6, <1>7 DEF n

(* The value of a symbol is written over. *)
LEMMA SymbolOver ==
  ASSUME NEW val \in [Symbol -> Value], NEW st \in StacksType, NEW s \in Symbol, NEW x \in Value,
         NEW val2, Sets(val, s, x, val2)
  PROVE  /\ N(val2, st) = More(Less(N(val, st), val[s]), x)
         /\ val[s] \in Counted => N(val, st)[val[s]] # 0
<1> DEFINE none == [val EXCEPT ![s] = Nil]
<1>1. Sets(val, s, Nil, none) /\ none \in [Symbol -> Value] /\ none[s] = Nil /\ Sets(none, s, x, val2)
  BY DEF Sets, Value
<1> HIDE DEF none
<1>2. N(none, st) = Less(N(val, st), val[s]) /\ (val[s] \in Counted => N(val, st)[val[s]] # 0)
  BY <1>1, SymbolCleared
<1>3. N(val2, st) = More(N(none, st), x)
  BY <1>1, SymbolSet
<1> QED BY <1>2, <1>3

(* What a symbol or a stack holds is not free. *)
LEMMA HeldIsTaken ==
  ASSUME NEW h, NEW st, NEW X, NEW P, Sound(h, st, X, P)
  PROVE  /\ \A s \in Symbol : h.val[s] \in Counted => h.val[s] \notin h.free
         /\ \A v \in Counted : N(h.val, st)[v] # 0 => v \notin h.free
<1>1. st \in StacksType /\ h.val \in [Symbol -> Value] /\ N(h.val, st) \in [Counted -> Nat]
  BY SoundTypes
<1>2. \A v \in Counted : N(h.val, st)[v] # 0 => v \notin h.free
  BY GoodTypes DEF Sound
<1>3. ASSUME NEW s \in Symbol, h.val[s] \in Counted PROVE N(h.val, st)[h.val[s]] # 0
  <2> DEFINE none == [h.val EXCEPT ![s] = Nil]
  <2>1. Sets(h.val, s, Nil, none)
    BY DEF Sets
  <2> HIDE DEF none
  <2> QED BY <1>1, <1>3, <2>1, SymbolCleared
<1> QED BY <1>2, <1>3

(* freehn *)
LEMMA NodeFreed ==
  ASSUME NEW h, NEW st, NEW X, NEW P, Sound(h, st, X, P),
         NEW a \in Arr, NEW k \in Key, h.elem[a][k] # NoSym
  PROVE  LET g == Freehn(h, a, k) IN
           Sound(g, st, X, P) /\ Tidy(h, g) /\ MarksKept(h, g, N(h.val, st))
             /\ \A w \in Counted : N(h.val, st)[w] = 0 => N(g.val, st)[w] = 0
<1> DEFINE s == h.elem[a][k]
           f == [h EXCEPT !.elem[a][k] = NoSym]
           g == Clearsym(f, s)
<1>1. s \in Symbol
  BY SoundTypes DEF Symbol
<1>2. /\ Good(f, N(h.val, st), X, P) /\ f.val = h.val /\ f.content = h.content
      /\ f.free = h.free /\ f.lost = h.lost /\ f.marked = h.marked
  BY GoodElem DEF Sound
<1>3. Freehn(h, a, k) = g
  BY DEF Freehn
<1> HIDE DEF f, s
<1>4. Sound(f, st, X, P)
  BY <1>2 DEF Sound
<1>5. /\ Sound(g, st, X, P) /\ Sets(f.val, s, Nil, g.val)
      /\ Tidy(f, g) /\ MarksKept(f, g, N(f.val, st))
  BY <1>1, <1>4, Cleared
<1> HIDE DEF g
<1>6. /\ h.val \in [Symbol -> Value] /\ st \in StacksType /\ N(h.val, st) \in [Counted -> Nat]
  BY SoundTypes
<1>7. N(g.val, st) = Less(N(h.val, st), h.val[s]) /\ (h.val[s] \in Counted => N(h.val, st)[h.val[s]] # 0)
  BY <1>1, <1>2, <1>5, <1>6, SymbolCleared
<1>8. \A w \in Counted : N(h.val, st)[w] = 0 => N(g.val, st)[w] = 0
  BY <1>6, <1>7 DEF Less
<1> QED BY <1>2, <1>3, <1>5, <1>8 DEF Tidy, MarksKept

LEMMA FreehnType ==
  ASSUME NEW h \in HeapType, NEW a \in Arr, NEW k \in Key, h.elem[a][k] # NoSym
  PROVE  Freehn(h, a, k) \in HeapType
<1> DEFINE s == h.elem[a][k]
           u == [h.elem EXCEPT ![a][k] = NoSym]
           f == [h EXCEPT !.elem = u]
           g == [f EXCEPT !.val[s] = Nil]
           v == f.val[s]
<1>1. s \in Symbol /\ u \in [Arr -> [Key -> ElemSym \cup {NoSym}]]
  BY HeapFields DEF Symbol
<1>2. Freehn(h, a, k) = Decr(g, v)
  <2>1. [h EXCEPT !.elem[a][k] = NoSym] = f
    OBVIOUS
  <2> HIDE DEF f
  <2> QED BY <2>1 DEF Freehn, Clearsym
<1> HIDE DEF u, s
<1>3. f \in HeapType
  BY <1>1 DEF HeapType
<1> HIDE DEF f
<1>4. g \in HeapType
  <2>1. Nil \in Value
    BY DEF Value
  <2> QED BY <1>1, <1>3, <2>1, ValIs
<1> HIDE DEF g, v
<1>5. Decr(g, v) \in HeapType
  <2>1. CASE v \in Counted
    <3>1. PICK less \in HeapType : Decr(g, v) = IF less.uses[v] <= 0 THEN Ask(less, v) ELSE less
      BY <1>4, <2>1, DecrIs
    <3>2. Ask(less, v) \in HeapType
      BY <2>1, AskIs
    <3> QED BY <3>1, <3>2
  <2>2. CASE v \notin Counted
    BY <1>4, <2>2 DEF Decr
  <2> QED BY <2>1, <2>2
<1> QED BY <1>2, <1>5

(* clearht, as its loop *)
LEMMA ClearhtIs ==
  ASSUME NEW h \in HeapType, NEW a \in Arr
  PROVE  \E f \in [0 .. Keys -> HeapType] :
           /\ f[0] = h /\ Clearht(h, a) = f[Keys]
           /\ \A k \in Key : f[k] = IF f[k - 1].elem[a][k] = NoSym THEN f[k - 1]
                                  ELSE Freehn(f[k - 1], a, k)
<1> DEFINE Node(g, k) == IF g.elem[a][k] = NoSym THEN g ELSE Freehn(g, a, k)
           Step(c, k) == IF k = 0 THEN h
                         ELSE IF c[k - 1].elem[a][k] = NoSym THEN c[k - 1]
                         ELSE Freehn(c[k - 1], a, k)
           Is(c) == c = [k \in 0 .. Keys |-> Step(c, k)]
           f == CHOOSE c : Is(c)
           e == [x \in (1 .. Keys) \X HeapType |-> Node(x[2], x[1])]
<1>0. Keys \in Nat /\ Key = 1 .. Keys
  BY ValuesAssumption DEF Key
<1>1. \E c : Is(c)
  <2>1. IsStep(e, Keys, HeapType)
    <3>1. \A x \in (1 .. Keys) \X HeapType : Node(x[2], x[1]) \in HeapType
      BY <1>0, FreehnType
    <3> QED BY <3>1 DEF IsStep
  <2>2. PICK g : IsIterated(g, Keys, HeapType, h, e)
    <3> HIDE DEF e
    <3> QED BY <1>0, <2>1, Recursion, Zenon
  <2>3. /\ g \in [0 .. Keys -> HeapType]
        /\ g[0] = h /\ \A i \in 1 .. Keys : g[i] = e[<<i, g[i - 1]>>]
    <3> HIDE DEF e
    <3> QED BY <2>2, Zenon DEF IsIterated
  <2>4. ASSUME NEW i \in 0 .. Keys PROVE g[i] = Step(g, i)
    <3>1. CASE i = 0
      BY <2>3, <3>1
    <3>2. CASE i # 0
      <4>1. i \in 1 .. Keys /\ i - 1 \in 0 .. Keys
        BY <1>0, <3>2
      <4>2. g[i - 1] \in HeapType /\ <<i, g[i - 1]>> \in (1 .. Keys) \X HeapType
        BY <2>3, <4>1
      <4>3. e[<<i, g[i - 1]>>] = Node(g[i - 1], i)
        BY <4>2
      <4> QED BY <2>3, <3>2, <4>1, <4>3
    <3> QED BY <3>1, <3>2
  <2>5. Is(g)
    BY <2>3, <2>4
  <2> QED BY <2>5
<1>2. Is(f)
  <2> HIDE DEF Is
  <2> QED BY <1>1, Zenon
<1>3. Clearht(h, a) = f[Keys]
  BY Zenon DEF Clearht
<1>4. f[0] = h /\ DOMAIN f = 0 .. Keys /\ f = [k \in 0 .. Keys |-> f[k]]
  <2> HIDE DEF f
  <2> QED BY <1>0, <1>2
<1>5. ASSUME NEW i \in 1 .. Keys PROVE f[i] = Node(f[i - 1], i)
  <2>1. i \in 0 .. Keys /\ i # 0
    BY <1>0
  <2> HIDE DEF f
  <2> QED BY <1>2, <2>1
<1> HIDE DEF f
<1> DEFINE T == {i \in 0 .. Keys : f[i] \in HeapType}
<1>6. 0 \in T
  BY <1>0, <1>4
<1>7. ASSUME NEW i \in 1 .. Keys, i - 1 \in T PROVE i \in T
  BY <1>0, <1>5, <1>7, FreehnType
<1>8. \A i \in 0 .. Keys : i \in T
  <2> HIDE DEF T
  <2> QED BY <1>0, <1>6, <1>7, Upwards
<1>9. f \in [0 .. Keys -> HeapType]
  BY <1>4, <1>8
<1> QED BY <1>0, <1>3, <1>4, <1>5, <1>9

LEMMA ClearhtType ==
  ASSUME NEW h \in HeapType, NEW a \in Arr
  PROVE  Clearht(h, a) \in HeapType
<1>1. Keys \in 0 .. Keys
  BY ValuesAssumption
<1> QED BY <1>1, ClearhtIs

(* What its loop leaves *)
LEMMA Emptied ==
  ASSUME NEW h, NEW st, NEW X, NEW P, Sound(h, st, X, P), NEW a \in Arr
  PROVE  LET g == Clearht(h, a) IN
           Sound(g, st, X, P) /\ Tidy(h, g) /\ MarksKept(h, g, N(h.val, st))
             /\ \A w \in Counted : N(h.val, st)[w] = 0 => N(g.val, st)[w] = 0
<1>0. Keys \in Nat /\ Key = 1 .. Keys /\ h \in HeapType
  BY ValuesAssumption, SoundTypes DEF Key
<1>1. PICK f \in [0 .. Keys -> HeapType] :
        /\ f[0] = h /\ Clearht(h, a) = f[Keys]
        /\ \A k \in Key : f[k] = IF f[k - 1].elem[a][k] = NoSym THEN f[k - 1]
                               ELSE Freehn(f[k - 1], a, k)
  BY <1>0, ClearhtIs
<1> DEFINE Ok(g) == Sound(g, st, X, P) /\ Tidy(h, g) /\ MarksKept(h, g, N(h.val, st))
                      /\ \A w \in Counted : N(h.val, st)[w] = 0 => N(g.val, st)[w] = 0
<1>2. Ok(h)
  BY DEF Tidy, MarksKept
<1>3. ASSUME NEW g, Ok(g), NEW k \in Key, g.elem[a][k] # NoSym PROVE Ok(Freehn(g, a, k))
  <2>1. /\ Sound(Freehn(g, a, k), st, X, P) /\ Tidy(g, Freehn(g, a, k))
        /\ MarksKept(g, Freehn(g, a, k), N(g.val, st))
        /\ \A w \in Counted : N(g.val, st)[w] = 0 => N(Freehn(g, a, k).val, st)[w] = 0
    BY <1>3, NodeFreed
  <2> QED BY <1>3, <2>1 DEF Tidy, MarksKept
<1> DEFINE T == {i \in 0 .. Keys : Ok(f[i])}
<1>4. 0 \in T
  BY <1>0, <1>1, <1>2
<1>5. ASSUME NEW i \in 1 .. Keys, i - 1 \in T PROVE i \in T
  <2>1. Ok(f[i - 1]) /\ i \in Key /\ i \in 0 .. Keys
    BY <1>0, <1>5
  <2> HIDE DEF Ok
  <2>2. f[i] = IF f[i - 1].elem[a][i] = NoSym THEN f[i - 1] ELSE Freehn(f[i - 1], a, i)
    BY <1>1, <2>1
  <2>3. Ok(f[i])
    BY <1>3, <2>1, <2>2
  <2> QED BY <2>1, <2>3
<1>6. Keys \in T
  <2> HIDE DEF T
  <2>1. Keys \in 0 .. Keys
    BY <1>0
  <2>2. \A i \in 0 .. Keys : i \in T
    BY <1>0, <1>4, <1>5, Upwards
  <2> QED BY <2>1, <2>2
<1> QED BY <1>1, <1>6

(* freeht *)
LEMMA UnlinkType ==
  ASSUME NEW q \in Seq(Arr), NEW a
  PROVE  Unlinkht(q, a) \in Seq(Arr) /\ (a \notin ToSet(q) => Unlinkht(q, a) = q)
<1>1. {i \in DOMAIN q : q[i] # a} \in SUBSET DOMAIN q
  OBVIOUS
<1>2. Kept(q, {i \in DOMAIN q : q[i] # a}) \in Seq(Arr)
  BY <1>1, KeptList
<1> QED BY <1>2 DEF Unlinkht

LEMMA FreehtType ==
  ASSUME NEW h \in HeapType, NEW a \in Arr
  PROVE  LET g == Freeht(h, a)
             c == Clearht(h, a) IN
           /\ g \in HeapType /\ g.val = c.val /\ g.elem = c.elem /\ g.content = c.content
           /\ g.lost = c.lost /\ g.phs = c.phs /\ g.free = c.free \cup {a}
           /\ g.uses = [c.uses EXCEPT ![a] = 0] /\ g.marked = c.marked \ {a}
           /\ g.hts = Unlinkht(c.hts, a)
<1> DEFINE c == Clearht(h, a)
           f == c.free \cup {a}
           u == [c.uses EXCEPT ![a] = 0]
           m == c.marked \ {a}
           q == Unlinkht(c.hts, a)
           g == [c EXCEPT !.free = f, !.uses = u, !.marked = m, !.hts = q]
<1>1. c \in HeapType
  BY ClearhtType
<1>2. Freeht(h, a) = g
  BY DEF Freeht
<1> HIDE DEF c
<1>3. f \in SUBSET Counted /\ u \in [Counted -> Int] /\ m \in SUBSET Arr /\ q \in Seq(Arr)
  BY <1>1, HeapFields, UnlinkType DEF Counted
<1> HIDE DEF f, u, m, q
<1>4. g \in HeapType
  BY <1>1, <1>3 DEF HeapType
<1>5. /\ g.val = c.val /\ g.elem = c.elem /\ g.content = c.content
      /\ g.lost = c.lost /\ g.phs = c.phs /\ g.free = f /\ g.uses = u /\ g.marked = m /\ g.hts = q
  BY <1>1 DEF HeapType
<1> QED BY <1>2, <1>4, <1>5 DEF f, u, m, q, c

LEMMA ArrayFreed ==
  ASSUME NEW h, NEW st, NEW P, NEW a \in Arr, Sound(h, st, {a}, P),
         h.uses[a] = 0, a \notin h.marked
  PROVE  LET g == Freeht(h, a) IN
           Sound(g, st, {}, P) /\ g.content = h.content
<1> DEFINE c == Clearht(h, a)
           g == Freeht(h, a)
           n == N(c.val, st)
<1>0. st \in StacksType /\ h \in HeapType /\ a \in Counted
  BY SoundTypes DEF Counted
<1>1. N(h.val, st)[a] = 0 /\ h.lost[a] = 0
  <2>1. h.uses[a] = N(h.val, st)[a] + h.lost[a] /\ N(h.val, st)[a] \in Nat /\ h.lost[a] \in Nat
    BY <1>0, GoodTypes DEF Sound
  <2> QED BY <2>1
<1>2. Sound(c, st, {a}, P) /\ Tidy(h, c) /\ n[a] = 0 /\ a \notin c.marked
  BY <1>0, <1>1, Emptied DEF MarksKept
<1>3. /\ g \in HeapType /\ g.val = c.val /\ g.content = c.content
      /\ g.lost = c.lost /\ g.phs = c.phs /\ g.free = c.free \cup {a}
      /\ g.uses = [c.uses EXCEPT ![a] = 0] /\ g.marked = c.marked \ {a}
      /\ g.hts = Unlinkht(c.hts, a)
  BY <1>0, FreehtType
<1> HIDE DEF c, g
<1>4. /\ c.uses \in [Counted -> Int] /\ c.hts \in Seq(Arr) /\ c.phs \in SUBSET Phrase
      /\ Books(c, n) /\ Listed(c, {a}, P)
  BY <1>2, SoundTypes, HeapFields DEF Sound, Good
<1>5. c.uses[a] = 0 /\ c.lost[a] = 0
  BY <1>0, <1>1, <1>2, <1>4 DEF Books, Tidy
<1>6. g.uses = c.uses
  BY <1>3, <1>4, <1>5
<1>7. a \notin ToSet(c.hts) /\ g.hts = c.hts /\ g.marked = c.marked
  BY <1>2, <1>3, <1>4, UnlinkType DEF Listed
<1>8. Books(g, n)
  BY <1>2, <1>3, <1>4, <1>5, <1>6 DEF Books
<1>9. Listed(g, {}, P)
  <2>1. a \notin c.phs
    BY <1>4, ValuesAssumption
  <2> QED BY <1>2, <1>3, <1>4, <1>6, <1>7, <2>1 DEF Listed
<1>10. Sound(g, st, {}, P)
  BY <1>0, <1>3, <1>8, <1>9 DEF Sound, Good, n
<1> QED BY <1>2, <1>3, <1>10 DEF g, Tidy

-----------------------------------------------------------------------------
(* The sweep                                                                    *)

Acc == [heap : HeapType, broken : BOOLEAN]

(* A heap with other marks *)
LEMMA MarkedIs ==
  ASSUME NEW h \in HeapType, NEW m \in SUBSET Arr, NEW g, g = [h EXCEPT !.marked = m]
  PROVE  /\ g \in HeapType /\ g.uses = h.uses /\ g.val = h.val /\ g.elem = h.elem
         /\ g.phs = h.phs /\ g.hts = h.hts /\ g.marked = m /\ g.free = h.free
         /\ g.content = h.content /\ g.lost = h.lost
BY DEF HeapType

LEMMA TurnIs ==
  ASSUME NEW acc \in Acc, NEW a \in Arr
  PROVE  /\ HtcheckOne(acc, a) \in Acc
         /\ \E h \in HeapType :
              /\ h = [acc.heap EXCEPT !.marked = acc.heap.marked \ {a}]
              /\ ~acc.broken /\ h.uses[a] > 0 =>
                   HtcheckOne(acc, a).heap = h /\ HtcheckOne(acc, a).broken = FALSE
              /\ ~acc.broken /\ h.uses[a] = 0 =>
                   HtcheckOne(acc, a).heap = Freeht(h, a) /\ HtcheckOne(acc, a).broken = FALSE
<1> DEFINE h == [acc.heap EXCEPT !.marked = acc.heap.marked \ {a}]
           r == HtcheckOne(acc, a)
<1>0. acc.heap \in HeapType /\ acc.broken \in BOOLEAN /\ acc = [heap |-> acc.heap, broken |-> acc.broken]
  BY DEF Acc
<1>1. h \in HeapType
  <2>1. acc.heap.marked \ {a} \in SUBSET Arr
    BY <1>0, HeapFields
  <2> QED BY <1>0, <2>1, MarkedIs
<1>2. h.uses[a] \in Int
  BY <1>1, HeapFields DEF Counted
<1>3. Freeht(h, a) \in HeapType
  BY <1>1, FreehtType
<1>4. r = IF acc.broken THEN acc
          ELSE IF h.uses[a] > 0 THEN [acc EXCEPT !.heap = h]
          ELSE IF h.uses[a] < 0 THEN [heap |-> h, broken |-> TRUE]
          ELSE [acc EXCEPT !.heap = Freeht(h, a)]
  BY DEF HtcheckOne
<1>5. h = [acc.heap EXCEPT !.marked = acc.heap.marked \ {a}]
  OBVIOUS
<1> HIDE DEF h, r
<1>6. r \in Acc
  BY <1>0, <1>1, <1>3, <1>4 DEF Acc
<1>7. ~acc.broken /\ h.uses[a] > 0 => r.heap = h /\ r.broken = FALSE
  BY <1>0, <1>4
<1>8. ~acc.broken /\ h.uses[a] = 0 => r.heap = Freeht(h, a) /\ r.broken = FALSE
  BY <1>0, <1>2, <1>4
<1> QED BY <1>1, <1>5, <1>6, <1>7, <1>8 DEF r

(* An array that is marked, and off the list, is freed or let go. *)
LEMMA Turned ==
  ASSUME NEW acc \in Acc, acc.broken = FALSE, NEW st, NEW P, NEW a \in Arr, a \in P,
         Sound(acc.heap, st, {}, P)
  PROVE  LET r == HtcheckOne(acc, a) IN
           /\ r \in Acc /\ r.broken = FALSE /\ Sound(r.heap, st, {}, P \ {a})
           /\ r.heap.content = acc.heap.content /\ acc.heap.free \subseteq r.heap.free
<1> DEFINE r == HtcheckOne(acc, a)
           k == acc.heap
<1>0. st \in StacksType /\ k \in HeapType /\ a \in Counted
  BY SoundTypes DEF Counted
<1>1. PICK h \in HeapType :
        /\ h = [k EXCEPT !.marked = k.marked \ {a}]
        /\ ~acc.broken /\ h.uses[a] > 0 => r.heap = h /\ r.broken = FALSE
        /\ ~acc.broken /\ h.uses[a] = 0 => r.heap = Freeht(h, a) /\ r.broken = FALSE
  BY TurnIs
<1>2. r \in Acc
  BY TurnIs
<1> HIDE DEF r, k
<1>3. /\ h.uses = k.uses /\ h.val = k.val /\ h.elem = k.elem
      /\ h.phs = k.phs /\ h.hts = k.hts /\ h.marked = k.marked \ {a} /\ h.free = k.free
      /\ h.content = k.content /\ h.lost = k.lost
  <2>1. k.marked \ {a} \in SUBSET Arr
    BY <1>0, HeapFields
  <2> QED BY <1>0, <1>1, <2>1, MarkedIs
<1>4. Books(k, N(k.val, st)) /\ Listed(k, {}, P) /\ h.uses[a] \in Nat
  <2>1. k.uses[a] \in Nat
    BY <1>0, GoodTypes DEF Sound, k
  <2> QED BY <1>3, <2>1 DEF Sound, Good, k
<1>5. Sound(h, st, {a}, P \ {a})
  <2>1. Books(h, N(h.val, st))
    BY <1>3, <1>4 DEF Books
  <2>2. Listed(h, {a}, P \ {a})
    BY <1>3, <1>4 DEF Listed
  <2> QED BY <1>0, <1>1, <2>1, <2>2 DEF Sound, Good
<1>6. CASE h.uses[a] > 0
  <2>1. r.heap = h /\ r.broken = FALSE
    BY <1>1, <1>6
  <2>2. Listed(h, {}, P \ {a})
    <3>1. ~(h.uses[a] <= 0)
      BY <1>4, <1>6
    <3> QED BY <1>5, <3>1 DEF Sound, Good, Listed
  <2>3. Sound(h, st, {}, P \ {a})
    BY <1>5, <2>2 DEF Sound, Good
  <2> QED BY <1>2, <1>3, <2>1, <2>3 DEF r, k
<1>7. CASE h.uses[a] = 0
  <2>1. r.heap = Freeht(h, a) /\ r.broken = FALSE
    BY <1>1, <1>7
  <2>2. a \notin h.marked
    BY <1>3
  <2>3. Sound(r.heap, st, {}, P \ {a}) /\ r.heap.content = h.content
    BY <1>5, <1>7, <2>1, <2>2, ArrayFreed
  <2>4. h.free \subseteq r.heap.free
    <3>1. Freeht(h, a).free = Clearht(h, a).free \cup {a}
      BY <1>1, FreehtType
    <3>2. Clearht(h, a).free = h.free
      BY <1>5, Emptied DEF Tidy
    <3> QED BY <2>1, <3>1, <3>2
  <2> QED BY <1>2, <1>3, <2>1, <2>3, <2>4 DEF r, k
<1>8. h.uses[a] > 0 \/ h.uses[a] = 0
  BY <1>4
<1> QED BY <1>6, <1>7, <1>8

(* The loop of htcheck *)
LEMMA CheckedIs ==
  ASSUME NEW h \in HeapType, NEW list \in Seq(Arr)
  PROVE  \E f \in [0 .. Len(list) -> Acc] :
           /\ f[0] = [heap |-> h, broken |-> FALSE] /\ Checked(h, list) = f[Len(list)].heap
           /\ \A i \in 1 .. Len(list) : f[i] = HtcheckOne(f[i - 1], list[i])
<1> DEFINE n == Len(list)
           base == [heap |-> h, broken |-> FALSE]
           Step(c, i) == IF i = 0 THEN [heap |-> h, broken |-> FALSE] ELSE HtcheckOne(c[i - 1], list[i])
           Is(c) == c = [i \in 0 .. n |-> Step(c, i)]
           f == CHOOSE c : Is(c)
           e == [x \in (1 .. n) \X Acc |-> HtcheckOne(x[2], list[x[1]])]
<1>0. n \in Nat /\ base \in Acc /\ \A i \in 1 .. n : list[i] \in Arr
  BY DEF Acc
<1>1. \E c : Is(c)
  <2>1. IsStep(e, n, Acc)
    <3>1. \A x \in (1 .. n) \X Acc : HtcheckOne(x[2], list[x[1]]) \in Acc
      BY <1>0, TurnIs
    <3> QED BY <3>1 DEF IsStep
  <2>2. PICK g : IsIterated(g, n, Acc, base, e)
    <3> HIDE DEF e, n, base
    <3> QED BY <1>0, <2>1, Recursion, Zenon
  <2>3. /\ g \in [0 .. n -> Acc]
        /\ g[0] = base /\ \A i \in 1 .. n : g[i] = e[<<i, g[i - 1]>>]
    <3> HIDE DEF e, n, base
    <3> QED BY <2>2, Zenon DEF IsIterated
  <2>4. ASSUME NEW i \in 0 .. n PROVE g[i] = Step(g, i)
    <3>1. CASE i = 0
      BY <2>3, <3>1
    <3>2. CASE i # 0
      <4>1. i \in 1 .. n /\ i - 1 \in 0 .. n
        BY <1>0, <3>2
      <4>2. g[i - 1] \in Acc /\ <<i, g[i - 1]>> \in (1 .. n) \X Acc
        BY <2>3, <4>1
      <4>3. e[<<i, g[i - 1]>>] = HtcheckOne(g[i - 1], list[i])
        BY <4>2
      <4> QED BY <2>3, <3>2, <4>1, <4>3
    <3> QED BY <3>1, <3>2
  <2>5. Is(g)
    BY <2>3, <2>4
  <2> QED BY <2>5
<1>2. Is(f)
  <2> HIDE DEF Is
  <2> QED BY <1>1, Zenon
<1>3. Checked(h, list) = f[n].heap
  BY Zenon DEF Checked
<1>4. f[0] = base /\ f = [k \in 0 .. n |-> f[k]]
  <2> HIDE DEF f
  <2> QED BY <1>0, <1>2
<1>5. ASSUME NEW i \in 1 .. n PROVE f[i] = HtcheckOne(f[i - 1], list[i])
  <2>1. i \in 0 .. n /\ i # 0
    BY <1>0
  <2> HIDE DEF f
  <2> QED BY <1>2, <2>1
<1> HIDE DEF f
<1> DEFINE T == {i \in 0 .. n : f[i] \in Acc}
<1>6. 0 \in T
  <2> HIDE DEF base
  <2> QED BY <1>0, <1>4
<1>7. ASSUME NEW i \in 1 .. n, i - 1 \in T PROVE i \in T
  <2>1. f[i] = HtcheckOne(f[i - 1], list[i]) /\ f[i - 1] \in Acc /\ list[i] \in Arr /\ i \in 0 .. n
    BY <1>0, <1>5, <1>7
  <2> QED BY <2>1, TurnIs
<1>8. \A i \in 0 .. n : i \in T
  <2> HIDE DEF T
  <2> QED BY <1>0, <1>6, <1>7, Upwards
<1>9. f \in [0 .. n -> Acc]
  BY <1>4, <1>8
<1> QED BY <1>3, <1>4, <1>5, <1>9

LEMMA CheckedSound ==
  ASSUME NEW h, NEW st, NEW list \in Seq(Arr), IsInjective(list),
         Sound(h, st, {}, ToSet(list))
  PROVE  LET g == Checked(h, list) IN
           Sound(g, st, {}, {}) /\ g.content = h.content /\ h.free \subseteq g.free
<1> DEFINE n == Len(list)
           Rem(i) == {list[j] : j \in i + 1 .. n}
<1>0. /\ h \in HeapType /\ n \in Nat /\ DOMAIN list = 1 .. n
      /\ \A i \in 1 .. n : list[i] \in Arr
  BY SoundTypes
<1>1. PICK f \in [0 .. n -> Acc] :
        /\ f[0] = [heap |-> h, broken |-> FALSE] /\ Checked(h, list) = f[n].heap
        /\ \A i \in 1 .. n : f[i] = HtcheckOne(f[i - 1], list[i])
  BY <1>0, CheckedIs
<1>2. Rem(0) = ToSet(list) /\ Rem(n) = {}
  BY <1>0 DEF ToSet
<1>3. ASSUME NEW i \in 1 .. n PROVE list[i] \in Rem(i - 1) /\ Rem(i) = Rem(i - 1) \ {list[i]}
  <2>1. (i - 1) + 1 .. n = {i} \cup (i + 1 .. n) /\ i + 1 .. n \subseteq 1 .. n /\ i \notin i + 1 .. n
    BY <1>0
  <2>2. \A j \in i + 1 .. n : list[j] # list[i]
    BY <1>0, <2>1 DEF IsInjective
  <2> QED BY <2>1, <2>2
<1> DEFINE Ok(acc, R) == /\ acc \in Acc /\ acc.broken = FALSE /\ Sound(acc.heap, st, {}, R)
                         /\ acc.heap.content = h.content /\ h.free \subseteq acc.heap.free
           T == {i \in 0 .. n : Ok(f[i], Rem(i))}
<1>4. 0 \in T
  <2>1. 0 \in 0 .. n
    BY <1>0
  <2> HIDE DEF Rem
  <2> QED BY <1>0, <1>1, <1>2, <2>1 DEF Acc
<1>5. ASSUME NEW i \in 1 .. n, i - 1 \in T PROVE i \in T
  <2>1. Ok(f[i - 1], Rem(i - 1)) /\ i \in 0 .. n /\ f[i] = HtcheckOne(f[i - 1], list[i])
    BY <1>0, <1>1, <1>5
  <2>2. list[i] \in Arr /\ list[i] \in Rem(i - 1) /\ Rem(i) = Rem(i - 1) \ {list[i]}
    BY <1>0, <1>3
  <2> DEFINE acc == f[i - 1]
             a == list[i]
             R == Rem(i - 1)
  <2>3. Ok(HtcheckOne(acc, a), R \ {a})
    <3>1. Ok(acc, R) /\ a \in Arr /\ a \in R
      BY <2>1, <2>2
    <3> HIDE DEF acc, a, R
    <3>2. LET r == HtcheckOne(acc, a) IN
            /\ r \in Acc /\ r.broken = FALSE /\ Sound(r.heap, st, {}, R \ {a})
            /\ r.heap.content = acc.heap.content /\ acc.heap.free \subseteq r.heap.free
      BY <3>1, Turned
    <3> QED BY <3>1, <3>2
  <2> HIDE DEF Rem
  <2> HIDE DEF Ok
  <2> QED BY <2>1, <2>2, <2>3
<1>6. n \in T
  <2>1. n \in 0 .. n
    BY <1>0
  <2> HIDE DEF T
  <2>2. \A i \in 0 .. n : i \in T
    <3> HIDE DEF n
    <3> QED BY <1>0, <1>4, <1>5, Upwards
  <2> QED BY <2>1, <2>2
<1>7. Ok(f[n], {})
  <2> HIDE DEF Rem, Ok
  <2> QED BY <1>2, <1>6
<1> QED BY <1>1, <1>7

LEMMA HtcheckSound ==
  ASSUME NEW h, NEW st, Sound(h, st, {}, {})
  PROVE  LET g == Htcheck(h) IN
           Sound(g, st, {}, {}) /\ g.content = h.content /\ h.free \subseteq g.free
<1> DEFINE f == [h EXCEPT !.hts = <<>>]
<1>0. h \in HeapType /\ st \in StacksType
  BY SoundTypes
<1>1. h.hts \in Seq(Arr) /\ <<>> \in Seq(Arr)
  BY <1>0, HeapFields
<1>2. /\ f \in HeapType /\ f.uses = h.uses /\ f.val = h.val /\ f.phs = h.phs
      /\ f.hts = <<>> /\ f.marked = h.marked /\ f.free = h.free
      /\ f.content = h.content /\ f.lost = h.lost
  <2> DEFINE q == <<>>
  <2>1. q \in Seq(Arr) /\ f = [h EXCEPT !.hts = q]
    BY <1>1
  <2> HIDE DEF q, f
  <2>2. /\ [h EXCEPT !.hts = q] \in HeapType
        /\ LET g == [h EXCEPT !.hts = q] IN
             /\ g.uses = h.uses /\ g.val = h.val /\ g.phs = h.phs
             /\ g.hts = q /\ g.marked = h.marked /\ g.free = h.free
             /\ g.content = h.content /\ g.lost = h.lost
    BY <1>0, <2>1 DEF HeapType
  <2> QED BY <2>1, <2>2 DEF q
<1>3. Htcheck(h) = Checked(f, h.hts)
  BY DEF Htcheck
<1> HIDE DEF f
<1>4. Books(h, N(h.val, st)) /\ Listed(h, {}, {})
  BY DEF Sound, Good
<1>5. Books(f, N(f.val, st))
  BY <1>2, <1>4 DEF Books
<1>6. Listed(f, {}, ToSet(h.hts))
  <2>1. ToSet(<<>>) = {} /\ IsInjective(<<>>)
    BY DEF ToSet, IsInjective
  <2> QED BY <1>2, <1>4, <2>1 DEF Listed
<1>7. Sound(f, st, {}, ToSet(h.hts)) /\ IsInjective(h.hts)
  BY <1>0, <1>2, <1>4, <1>5, <1>6 DEF Sound, Good, Listed
<1> QED BY <1>1, <1>2, <1>3, <1>7, CheckedSound

(* phcheck *)
LEMMA PhcheckSound ==
  ASSUME NEW h, NEW st, Sound(h, st, {}, {})
  PROVE  LET g == Phcheck(h) IN
           /\ Sound(g, st, {}, {})
           /\ \A p \in Phrase : g.content[p] # h.content[p] => p \in g.free
<1> DEFINE gone == {p \in h.phs : h.uses[p] <= 0}
           f == h.free \cup gone
           u == [v \in Counted |-> IF v \in gone THEN 0 ELSE h.uses[v]]
           c == [p \in Phrase |-> IF p \in gone THEN 0 ELSE h.content[p]]
           g == [h EXCEPT !.phs = {}, !.free = f, !.uses = u, !.content = c]
<1>0. h \in HeapType /\ st \in StacksType
  BY SoundTypes
<1>1. Phcheck(h) = g
  BY DEF Phcheck
<1>2. /\ h.uses \in [Counted -> Int] /\ h.free \in SUBSET Counted /\ h.phs \in SUBSET Phrase
      /\ h.content \in [Phrase -> {0, 1}] /\ h.marked \in SUBSET Arr
  BY <1>0, HeapFields
<1>3. /\ f \in SUBSET Counted /\ u \in [Counted -> Int] /\ c \in [Phrase -> {0, 1}]
      /\ gone \in SUBSET Phrase /\ gone \subseteq f /\ f = h.free \cup gone
      /\ \A v \in Counted : u[v] = IF v \in gone THEN 0 ELSE h.uses[v]
      /\ \A p \in Phrase : p \notin gone => c[p] = h.content[p]
      /\ \A v \in Counted : v \in h.phs /\ h.uses[v] <= 0 => v \in gone
      /\ \A v \in gone : h.uses[v] <= 0
  BY <1>2 DEF Counted
<1> HIDE DEF gone, f, u, c
<1>4. /\ g \in HeapType /\ g.uses = u /\ g.val = h.val /\ g.phs = {} /\ g.hts = h.hts
      /\ g.marked = h.marked /\ g.free = f /\ g.content = c /\ g.lost = h.lost
  BY <1>0, <1>3 DEF HeapType
<1> HIDE DEF g
<1>5. Books(h, N(h.val, st)) /\ Listed(h, {}, {})
  BY DEF Sound, Good
<1>6. \A v \in Counted : /\ h.uses[v] = N(h.val, st)[v] + h.lost[v] /\ N(h.val, st)[v] \in Nat
                         /\ h.lost[v] \in Nat
  BY GoodTypes DEF Sound
<1>7. gone \subseteq Counted
  BY <1>3 DEF Counted
<1>8. ASSUME NEW v \in gone PROVE N(h.val, st)[v] = 0 /\ h.lost[v] = 0
  <2>1. v \in Counted /\ h.uses[v] <= 0
    BY <1>3, <1>7
  <2> DEFINE m == N(h.val, st)[v]
  <2>2. h.uses[v] = m + h.lost[v] /\ m \in Nat /\ h.lost[v] \in Nat
    BY <1>6, <2>1
  <2> HIDE DEF m
  <2>3. m = 0 /\ h.lost[v] = 0
    BY <2>1, <2>2
  <2> QED BY <2>3 DEF m
<1>9. Books(g, N(g.val, st))
  <2>1. \A v \in Counted : g.uses[v] = N(g.val, st)[v] + g.lost[v]
    BY <1>3, <1>4, <1>6, <1>8
  <2>2. \A v \in g.free : N(g.val, st)[v] = 0 /\ g.lost[v] = 0
    BY <1>3, <1>4, <1>5, <1>8 DEF Books
  <2> QED BY <1>4, <1>5, <2>1, <2>2 DEF Books
<1>10. Listed(g, {}, {})
  <2>1. \A v \in Counted \ (g.free \cup {}) : g.uses[v] <= 0 => v \in g.phs \cup g.marked
    BY <1>3, <1>4, <1>5 DEF Listed
  <2>2. (g.phs \cup g.marked) \cap g.free = {}
    BY <1>2, <1>3, <1>4, <1>5, ValuesAssumption DEF Listed
  <2> QED BY <1>4, <1>5, <2>1, <2>2 DEF Listed
<1>11. Sound(g, st, {}, {})
  BY <1>0, <1>4, <1>9, <1>10 DEF Sound, Good
<1>12. \A p \in Phrase : g.content[p] # h.content[p] => p \in g.free
  BY <1>3, <1>4
<1> QED BY <1>1, <1>11, <1>12

-----------------------------------------------------------------------------
(* Phrases changed in place, or copied *)

(* What changes is left if nothing counts on it, or is new. *)
IsChanged(h, n, X, P, p, r) ==
  /\ r[2] \in Phrase /\ r[2] \notin r[1].free
  /\ Good(r[1], n, X, P)
  /\ r[1].val = h.val /\ r[1].free \subseteq h.free
  /\ \A q \in Phrase : r[1].content[q] # h.content[q] => q \in h.free \/ (q = p /\ n[p] = 0)

LEMMA ChangedIs ==
  ASSUME NEW h, NEW n, NEW X, NEW P, Good(h, n, X, P), X \subseteq Counted,
         NEW p \in Phrase, p \notin h.free,
         NEW r \in Changed(h, p)
  PROVE  IsChanged(h, n, X \cup {r[2]}, P, p, r)
<1>0. /\ h \in HeapType /\ p \in Counted /\ h.content \in [Phrase -> {0, 1}]
      /\ h.uses[p] = n[p] + h.lost[p] /\ n[p] \in Nat /\ h.lost[p] \in Nat
  BY GoodTypes, HeapFields DEF Counted
<1>1. CASE Private(h, p)
  <2>1. r = <<Change(h, p), p>>
    BY <1>1 DEF Changed
  <2>2. n[p] = 0
    BY <1>0, <1>1 DEF Private
  <2> DEFINE c == 1 - h.content[p]
             g == [h EXCEPT !.content[p] = c]
  <2>3. c \in {0, 1} /\ Change(h, p) = g
    BY <1>0 DEF Change
  <2> HIDE DEF c, g
  <2>4. /\ Good(g, n, X, P) /\ g.val = h.val /\ g.free = h.free
        /\ g.content = [h.content EXCEPT ![p] = c]
    <3>1. LET k == [h EXCEPT !.content[p] = c] IN
            /\ Good(k, n, X, P) /\ k.val = h.val /\ k.free = h.free
            /\ k.content = [h.content EXCEPT ![p] = c]
      BY <2>3, GoodContent
    <3> QED BY <3>1 DEF g
  <2>5. Good(g, n, X \cup {p}, P)
    BY <2>4 DEF Good, Listed
  <2>6. \A q \in Phrase : g.content[q] # h.content[q] => q = p
    BY <1>0, <2>4
  <2>7. r[1] = g /\ r[2] = p
    BY <2>1, <2>3
  <2> QED BY <2>2, <2>4, <2>5, <2>6, <2>7 DEF IsChanged
<1>2. CASE ~Private(h, p)
  <2>1. PICK q \in Phrase \cap h.free : r = <<ChangeCopy(h, p, q), q>>
    BY <1>2 DEF Changed
  <2> DEFINE f == New(h, q, 0)
             c == 1 - h.content[p]
             g == [f EXCEPT !.content[q] = c]
  <2>2. c \in {0, 1} /\ ChangeCopy(h, p, q) = g /\ q \in Counted
    BY <1>0 DEF ChangeCopy, Counted
  <2>3. /\ Good(f, n, X \cup {q}, P) /\ f.free = h.free \ {q} /\ f.val = h.val
        /\ f.content = h.content
    <3>1. Good(f, n, X \cup {q}, P) /\ Made(h, q, f)
      BY <2>2, GoodNew
    <3> QED BY <3>1 DEF Made
  <2> HIDE DEF c, g, f
  <2>4. /\ Good(g, n, X \cup {q}, P) /\ g.val = f.val /\ g.free = f.free
        /\ g.content = [f.content EXCEPT ![q] = c]
    <3> DEFINE Y == X \cup {q}
    <3> HIDE DEF Y
    <3>0. Good(f, n, Y, P)
      BY <2>3 DEF Y
    <3>1. LET k == [f EXCEPT !.content[q] = c] IN
            /\ Good(k, n, Y, P) /\ k.val = f.val /\ k.free = f.free
            /\ k.content = [f.content EXCEPT ![q] = c]
      BY <2>2, <3>0, GoodContent
    <3> QED BY <3>1 DEF g, Y
  <2>5. \A o \in Phrase : g.content[o] # h.content[o] => o = q
    BY <1>0, <2>3, <2>4
  <2>6. r[1] = g /\ r[2] = q
    BY <2>1, <2>2
  <2> QED BY <2>3, <2>4, <2>5, <2>6 DEF IsChanged
<1> QED BY <1>1, <1>2

LEMMA MergedIs ==
  ASSUME NEW h, NEW n, NEW P, Good(h, n, {}, P),
         NEW left \in Phrase, left \notin h.free, NEW p \in Phrase, p \notin h.free,
         NEW r \in Merged(h, left, p)
  PROVE  IsChanged(h, n, {r[2]}, P, left, r)
<1>1. PICK c \in Changed(h, left) :
        r \in IF c[2] # p THEN {c}
              ELSE {<<Decr(New(c[1], q, 1), q), p>> : q \in Phrase \cap c[1].free}
  BY DEF Merged
<1> DEFINE X == {}
<1>2. X \subseteq Counted /\ X \cup {c[2]} = {c[2]} /\ Good(h, n, X, P)
  OBVIOUS
<1> HIDE DEF X
<1>3. IsChanged(h, n, {c[2]}, P, left, c)
  <2>1. IsChanged(h, n, X \cup {c[2]}, P, left, c)
    BY <1>2, ChangedIs
  <2> QED BY <1>2, <2>1
<1>4. /\ c[2] \in Phrase /\ c[2] \notin c[1].free
      /\ Good(c[1], n, {c[2]}, P)
      /\ c[1].val = h.val /\ c[1].free \subseteq h.free
      /\ \A q \in Phrase : c[1].content[q] # h.content[q] => q \in h.free \/ (q = left /\ n[left] = 0)
  BY <1>3 DEF IsChanged
<1>5. CASE c[2] # p
  BY <1>1, <1>5, <1>3
<1>6. CASE c[2] = p
  <2>1. PICK q \in Phrase \cap c[1].free : r = <<Decr(New(c[1], q, 1), q), p>>
    BY <1>1, <1>6
  <2> DEFINE k == c[1]
             f == New(k, q, 1)
             g == Decr(f, q)
  <2>2. q \in Counted /\ k \in HeapType /\ n \in [Counted -> Nat] /\ Good(k, n, {p}, P) /\ q \in k.free
    BY <1>4, <1>6, <2>1, GoodTypes DEF Counted
  <2> HIDE DEF k
  <2>3. /\ Good(f, More(n, q), {p}, P) /\ f.free = k.free \ {q} /\ f.val = k.val
        /\ f.content = k.content
    <3>1. Good(f, More(n, q), {p}, P) /\ Made(k, q, f)
      BY <2>2, GoodNew
    <3> QED BY <3>1 DEF Made
  <2> HIDE DEF f
  <2>4. More(n, q)[q] # 0 /\ Less(More(n, q), q) = n
    <3>1. More(n, q)[q] = n[q] + 1 /\ n[q] \in Nat
      BY <2>2 DEF More
    <3> QED BY <2>2, <3>1, MoreLess
  <2>5. Good(g, n, {p}, P) /\ Alike(f, g)
    BY <2>2, <2>3, <2>4, GoodDecr
  <2> HIDE DEF g
  <2>6. r[1] = g /\ r[2] = p
    BY <2>1 DEF g, f, k
  <2>7. g.free \subseteq k.free /\ g.val = k.val /\ g.content = k.content
    BY <2>3, <2>5 DEF Alike
  <2> QED BY <1>4, <1>6, <2>5, <2>6, <2>7 DEF k, IsChanged
<1> QED BY <1>5, <1>6

-----------------------------------------------------------------------------
(* Elements of arrays                                                           *)

(* arraysym with H_INSERT *)
LEMMA ArraysymIs ==
  ASSUME NEW h, NEW st, NEW X, NEW P, Sound(h, st, X, P), NEW a \in Arr, NEW k \in Key,
         NEW g \in Arraysym(h, a, k)
  PROVE  /\ Sound(g, st, X, P) /\ g.elem[a][k] \in ElemSym
         /\ g.free = h.free /\ g.content = h.content
<1>0. /\ st \in StacksType /\ h.val \in [Symbol -> Value]
      /\ h.elem[a][k] \in ElemSym \cup {NoSym} /\ Nil \in Value
  BY SoundTypes DEF Value
<1>1. CASE h.elem[a][k] # NoSym
  <2>1. g = h
    BY <1>1 DEF Arraysym
  <2> QED BY <1>0, <1>1, <2>1
<1>2. CASE h.elem[a][k] = NoSym
  <2>1. PICK s \in FreeSyms(h) :
          g = Lose([h EXCEPT !.elem[a][k] = s, !.val[s] = Nil], h.val[s])
    BY <1>2 DEF Arraysym
  <2>2. s \in ElemSym /\ s \in Symbol
    BY DEF FreeSyms, Symbol
  <2> DEFINE e == [h EXCEPT !.elem[a][k] = s]
             f == [e EXCEPT !.val[s] = Nil]
             x == h.val[s]
             n == N(h.val, st)
  <2>3. f = [h EXCEPT !.elem[a][k] = s, !.val[s] = Nil]
    OBVIOUS
  <2>4. /\ Good(e, n, X, P) /\ e.val = h.val /\ e.content = h.content /\ e.free = h.free
        /\ e.elem[a][k] = s
    BY <2>2, GoodElem DEF Sound
  <2> HIDE DEF e
  <2>5. /\ Good(f, n, X, P) /\ f.val = [h.val EXCEPT ![s] = Nil] /\ f.elem = e.elem
        /\ f.content = e.content /\ f.free = e.free
    BY <1>0, <2>2, <2>4, GoodVal
  <2> HIDE DEF f
  <2>6. Sets(h.val, s, Nil, f.val)
    BY <2>5 DEF Sets
  <2>7. N(f.val, st) = Less(n, x) /\ (x \in Counted => n[x] # 0)
    BY <1>0, <2>2, <2>6, SymbolCleared
  <2>8. g = Lose(f, x)
    BY <2>1, <2>3
  <2> HIDE DEF n, x
  <2>9. /\ Good(g, Less(n, x), X, P) /\ g.val = f.val /\ g.elem = f.elem
        /\ g.free = f.free /\ g.content = f.content
    BY <2>5, <2>7, <2>8, Forget
  <2>10. Sound(g, st, X, P)
    BY <1>0, <2>7, <2>9 DEF Sound
  <2> QED BY <2>2, <2>4, <2>5, <2>9, <2>10
<1> QED BY <1>1, <1>2

(* setarraydata: a value moves from the stack to an element. *)
LEMMA StoredIs ==
  ASSUME NEW h, NEW st, NEW X, NEW P, Sound(h, st, X, P), NEW a \in Arr, NEW k \in Key,
         NEW t \in Task, Len(st[t]) >= 1, NEW v \in Value, NEW st2, Pops(st, t, v, st2),
         NEW g \in Stored(h, a, k, v)
  PROVE  Sound(g, st2, X, P) /\ g.free = h.free /\ g.content = h.content
<1>1. PICK e \in Arraysym(h, a, k) :
        g = Lose([e EXCEPT !.val[e.elem[a][k]] = v], e.val[e.elem[a][k]])
  BY DEF Stored
<1>2. /\ Sound(e, st, X, P) /\ e.elem[a][k] \in ElemSym
      /\ e.free = h.free /\ e.content = h.content
  BY ArraysymIs
<1> DEFINE s == e.elem[a][k]
           f == [e EXCEPT !.val[s] = v]
           x == e.val[s]
           n == N(e.val, st)
           m == N(e.val, st2)
<1>3. s \in Symbol /\ g = Lose(f, x)
  BY <1>1, <1>2 DEF Symbol
<1> HIDE DEF s
<1>4. st \in StacksType /\ e.val \in [Symbol -> Value] /\ n \in [Counted -> Nat]
  BY <1>2, SoundTypes
<1>5. Good(f, n, X, P) /\ f.val = [e.val EXCEPT ![s] = v] /\ f.content = e.content /\ f.free = e.free
  <2>1. Good(e, n, X, P)
    BY <1>2 DEF Sound
  <2> HIDE DEF n, m, x
  <2> QED BY <1>3, <2>1, GoodVal
<1> HIDE DEF f
<1>6. Sets(e.val, s, v, f.val)
  BY <1>5 DEF Sets
<1>7. st2 \in StacksType /\ m = Less(n, v) /\ (v \in Counted => n[v] # 0)
  BY <1>4, StackPopped
<1>8. N(f.val, st2) = More(Less(m, x), v)
  BY <1>3, <1>4, <1>6, <1>7, SymbolOver
<1>9. x \in Counted => n[x] # 0
  BY <1>3, <1>4, <1>6, SymbolOver
<1> HIDE DEF n, x
<1>10. Good(g, Less(n, x), X, P) /\ g.val = f.val /\ g.free = f.free /\ g.content = f.content
  BY <1>3, <1>5, <1>9, Forget
<1>11. m \in [Counted -> Nat]
  BY <1>7, NType
<1> HIDE DEF m
<1>12. More(Less(m, x), v) = Less(n, x)
  <2>1. More(m, v) = n
    BY <1>4, <1>7, MoreLess
  <2>2. More(Less(m, x), v) = Less(More(m, v), x)
    BY <1>11, MoreLess
  <2> QED BY <2>1, <2>2
<1>13. Sound(g, st2, X, P)
  BY <1>7, <1>8, <1>10, <1>12 DEF Sound
<1> QED BY <1>2, <1>5, <1>10, <1>13

(* The stacks without the items on top of one *)
Dropped(st, t, n) == [st EXCEPT ![t] = SubSeq(st[t], 1, Len(st[t]) - n)]

LEMMA DroppedIs ==
  ASSUME NEW st \in StacksType, NEW t \in Task
  PROVE  /\ Dropped(st, t, 0) = st
         /\ \A i \in 1 .. Len(st[t]) :
              /\ Pops(Dropped(st, t, i - 1), t, st[t][Len(st[t]) - i + 1], Dropped(st, t, i))
              /\ Len(Dropped(st, t, i - 1)[t]) >= 1
         /\ \A i \in 0 .. Len(st[t]) :
              Dropped(st, t, i) \in StacksType /\ Dropped(st, t, i)[t] = SubSeq(st[t], 1, Len(st[t]) - i)
<1> DEFINE n == Len(st[t])
           q(i) == SubSeq(st[t], 1, n - i)
<1>1. st[t] \in Seq(Items) /\ n \in Nat /\ DOMAIN st = Task /\ st = [u \in Task |-> st[u]]
  BY DEF StacksType
<1>2. ASSUME NEW i \in 0 .. n
      PROVE  /\ q(i) \in Seq(Items) /\ Len(q(i)) = n - i /\ \A j \in 1 .. n - i : q(i)[j] = st[t][j]
  BY <1>1
<1>3. ASSUME NEW i \in 0 .. n PROVE Dropped(st, t, i)[t] = q(i)
  BY <1>1 DEF Dropped
<1>4. ASSUME NEW i \in 0 .. n PROVE Dropped(st, t, i) \in StacksType
  <2>1. q(i) \in Seq(Items)
    BY <1>2
  <2> HIDE DEF q
  <2>2. [st EXCEPT ![t] = q(i)] \in StacksType
    BY <1>1, <2>1 DEF StacksType
  <2> QED BY <2>2 DEF Dropped, q
<1>5. Dropped(st, t, 0) = st
  <2>1. q(0) = st[t]
    BY <1>1, <1>2
  <2> QED BY <1>1, <2>1 DEF Dropped
<1>6. ASSUME NEW i \in 1 .. n
      PROVE  /\ Pops(Dropped(st, t, i - 1), t, st[t][n - i + 1], Dropped(st, t, i))
             /\ Len(Dropped(st, t, i - 1)[t]) >= 1
  <2>1. i - 1 \in 0 .. n /\ i \in 0 .. n /\ n - (i - 1) = n - i + 1 /\ n - i + 1 >= 1
        /\ n - i + 1 - 1 = n - i
    BY <1>1
  <2>2. Dropped(st, t, i - 1)[t] = q(i - 1) /\ Len(q(i - 1)) = n - i + 1
    BY <1>2, <1>3, <2>1
  <2>3. q(i - 1)[n - i + 1] = st[t][n - i + 1]
    BY <1>2, <2>1
  <2>4. SubSeq(q(i - 1), 1, n - i) = q(i)
    <3>1. q(i - 1) \in Seq(Items) /\ q(i) \in Seq(Items) /\ Len(q(i)) = n - i
          /\ \A j \in 1 .. n - i : q(i)[j] = st[t][j] /\ q(i - 1)[j] = st[t][j]
      BY <1>1, <1>2, <2>1
    <3> HIDE DEF q
    <3>2. /\ SubSeq(q(i - 1), 1, n - i) \in Seq(Items) /\ Len(SubSeq(q(i - 1), 1, n - i)) = n - i
          /\ \A j \in 1 .. n - i : SubSeq(q(i - 1), 1, n - i)[j] = q(i - 1)[j]
      BY <1>1, <2>1, <2>2, <3>1
    <3> DEFINE A == SubSeq(q(i - 1), 1, n - i)
               B == q(i)
    <3>3. /\ A \in Seq(Items) /\ B \in Seq(Items) /\ Len(A) = Len(B)
          /\ \A j \in 1 .. Len(B) : A[j] = B[j]
      BY <3>1, <3>2
    <3> HIDE DEF A, B
    <3>4. A = B
      BY <3>3
    <3> QED BY <3>4 DEF A, B
  <2>5. Dropped(st, t, i) = [Dropped(st, t, i - 1) EXCEPT ![t] = q(i)]
    BY <1>1 DEF Dropped
  <2> DEFINE D == Dropped(st, t, i - 1)
             L == Len(D[t])
             E == Dropped(st, t, i)
             x == st[t][n - i + 1]
  <2>6. L = n - i + 1 /\ L >= 1 /\ L - 1 = n - i
    <3>1. L = n - i + 1
      <4> HIDE DEF q
      <4> QED BY <2>2
    <3> HIDE DEF L
    <3> QED BY <1>1, <2>1, <3>1
  <2>7. x = D[t][L] /\ E = [D EXCEPT ![t] = SubSeq(D[t], 1, L - 1)]
    <3> HIDE DEF q, L
    <3> QED BY <2>2, <2>3, <2>4, <2>5, <2>6
  <2>8. Pops(D, t, x, E)
    BY <2>7 DEF Pops
  <2> HIDE DEF D, E, x
  <2> QED BY <2>6, <2>8 DEF D, E, x
<1> QED BY <1>3, <1>4, <1>5, <1>6

(* i_array, as its loop: n values become the elements ks *)
Takes(t, n, ks) == ks \in [1 .. n -> Key] /\ \A i \in 1 .. n : Item(t, i) \in Value
IsFilled(h, st, a) ==
  Sound(h, st, {a}, {}) /\ h.free = heap.free \ {a} /\ h.content = heap.content

LEMMA FilledIs ==
  ASSUME Sound(heap, stack, {}, {}), NEW t \in Task, NEW a \in Arr, a \in heap.free,
         NEW n \in 0 .. Len(stack[t]), NEW ks, Takes(t, n, ks), NEW h \in Filled(t, a, n, ks)
  PROVE  IsFilled(h, Dropped(stack, t, n), a)
<1> DEFINE Next1(G, i) == UNION {Stored(g, a, ks[i], Item(t, i)) : g \in G}
           base == {New(heap, a, 0)}
           Step(c, i) == IF i = 0 THEN {New(heap, a, 0)}
                         ELSE UNION {Stored(g, a, ks[i], Item(t, i)) : g \in c[i - 1]}
           Is(c) == c = [i \in 0 .. n |-> Step(c, i)]
           f == CHOOSE c : Is(c)
           S == SUBSET HeapType
           e == [x \in (1 .. n) \X S |-> Next1(x[2], x[1]) \cap HeapType]
           Ok(g, i) == /\ Sound(g, Dropped(stack, t, i), {a}, {})
                       /\ g.free = heap.free \ {a} /\ g.content = heap.content
           All(G, i) == \A g \in G : Ok(g, i)
<1>0. /\ n \in Nat /\ stack \in StacksType /\ Len(stack[t]) \in Nat /\ n <= Len(stack[t])
      /\ \A i \in 1 .. n : ks[i] \in Key /\ i - 1 \in 0 .. n /\ i \in 0 .. n
  <2>1. stack \in StacksType
    BY SoundTypes
  <2>2. Len(stack[t]) \in Nat
    BY <2>1 DEF StacksType
  <2>3. ks \in [1 .. n -> Key]
    BY DEF Takes
  <2> QED BY <2>1, <2>2, <2>3
<1>1. All(base, 0)
  <2>1. Good(New(heap, a, 0), N(heap.val, stack), {} \cup {a}, {}) /\ Made(heap, a, New(heap, a, 0))
    <3>1. a \in Counted
      BY DEF Counted
    <3> QED BY <3>1, GoodNew DEF Sound
  <2>2. Dropped(stack, t, 0) = stack
    BY <1>0, DroppedIs
  <2>3. {} \cup {a} = {a}
    OBVIOUS
  <2> QED BY <1>0, <2>1, <2>2, <2>3 DEF Sound, Made
<1>2. ASSUME NEW G, NEW i \in 1 .. n, All(G, i - 1) PROVE All(Next1(G, i), i)
  <2> SUFFICES ASSUME NEW o \in Next1(G, i) PROVE Ok(o, i)
    OBVIOUS
  <2>1. PICK g \in G : o \in Stored(g, a, ks[i], Item(t, i))
    OBVIOUS
  <2>2. Ok(g, i - 1)
    BY <1>2
  <2> DEFINE v == Item(t, i)
             D == Dropped(stack, t, i - 1)
             E == Dropped(stack, t, i)
             k == ks[i]
  <2>3. Pops(D, t, v, E) /\ Len(D[t]) >= 1
    <3>1. i \in 1 .. Len(stack[t])
      BY <1>0
    <3> QED BY <1>0, <3>1, DroppedIs DEF Item
  <2>4. v \in Value /\ k \in Key
    BY <1>0 DEF Takes
  <2>5. Sound(g, D, {a}, {}) /\ o \in Stored(g, a, k, v)
    BY <2>1, <2>2
  <2> HIDE DEF v, D, E, k
  <2>6. Sound(o, E, {a}, {}) /\ o.free = g.free /\ o.content = g.content
    BY <2>3, <2>4, <2>5, StoredIs
  <2> QED BY <2>2, <2>6 DEF E
<1>3. ASSUME NEW G, NEW i, All(G, i) PROVE G \in S
  <2> SUFFICES ASSUME NEW g \in G PROVE g \in HeapType
    OBVIOUS
  <2>1. Sound(g, Dropped(stack, t, i), {a}, {})
    BY <1>3
  <2> QED BY <2>1, SoundTypes
<1>4. \E c : Is(c)
  <2>1. base \in S
    <3> HIDE DEF base, All, S
    <3> QED BY <1>1, <1>3
  <2>2. IsStep(e, n, S)
    BY DEF IsStep
  <2>3. PICK g : IsIterated(g, n, S, base, e)
    <3> HIDE DEF e, base, S
    <3> QED BY <1>0, <2>1, <2>2, Recursion, Zenon
  <2>4. /\ g \in [0 .. n -> S]
        /\ g[0] = base /\ \A i \in 1 .. n : g[i] = e[<<i, g[i - 1]>>]
    <3> HIDE DEF e, base, S
    <3> QED BY <2>3, Zenon DEF IsIterated
  <2>5. ASSUME NEW i \in 1 .. n, All(g[i - 1], i - 1)
        PROVE  g[i] = Next1(g[i - 1], i) /\ All(g[i], i)
    <3>1. g[i - 1] \in S /\ <<i, g[i - 1]>> \in (1 .. n) \X S
      BY <1>0, <2>4
    <3> DEFINE G == g[i - 1]
    <3>2. g[i] = Next1(G, i) \cap HeapType
      <4>1. g[i] = e[<<i, G>>] /\ <<i, G>> \in (1 .. n) \X S
        BY <2>4, <3>1
      <4> HIDE DEF Next1, G, S, All
      <4> QED BY <4>1
    <3>3. All(Next1(G, i), i)
      BY <1>2, <2>5
    <3>4. Next1(G, i) \in S
      <4> HIDE DEF Next1, All, G
      <4> QED BY <1>3, <3>3
    <3> HIDE DEF Next1, G
    <3>5. g[i] = Next1(G, i)
      BY <3>2, <3>4
    <3> HIDE DEF All
    <3> QED BY <3>3, <3>5 DEF G
  <2> DEFINE T == {i \in 0 .. n : All(g[i], i)}
  <2>6. 0 \in T
    <3> HIDE DEF All, base
    <3> QED BY <1>0, <1>1, <2>4
  <2>7. ASSUME NEW i \in 1 .. n, i - 1 \in T PROVE i \in T
    <3> HIDE DEF All, Next1
    <3> QED BY <1>0, <2>5, <2>7
  <2>8. \A i \in 0 .. n : i \in T
    <3> HIDE DEF T
    <3> QED BY <1>0, <2>6, <2>7, Upwards
  <2>9. ASSUME NEW i \in 0 .. n PROVE g[i] = Step(g, i)
    <3>1. CASE i = 0
      BY <2>4, <3>1
    <3>2. CASE i # 0
      <4>1. i \in 1 .. n /\ i - 1 \in 0 .. n
        BY <1>0, <3>2
      <4>2. All(g[i - 1], i - 1)
        <5> HIDE DEF All
        <5> QED BY <2>8, <4>1
      <4>3. g[i] = Next1(g[i - 1], i)
        <5> HIDE DEF All, Next1
        <5> QED BY <2>5, <4>1, <4>2
      <4> HIDE DEF All
      <4> QED BY <3>2, <4>3
    <3> QED BY <3>1, <3>2
  <2>10. Is(g)
    <3> HIDE DEF Step
    <3>1. g = [i \in 0 .. n |-> g[i]]
      BY <2>4
    <3> QED BY <2>9, <3>1
  <2> QED BY <2>10
<1>5. Is(f)
  <2> HIDE DEF Is
  <2> QED BY <1>4, Zenon
<1>6. Filled(t, a, n, ks) = f[n]
  BY Zenon DEF Filled
<1>7. f[0] = base
  <2> HIDE DEF f
  <2> QED BY <1>0, <1>5
<1>8. ASSUME NEW i \in 1 .. n PROVE f[i] = Next1(f[i - 1], i)
  <2>1. i \in 0 .. n /\ i # 0
    BY <1>0
  <2> HIDE DEF f
  <2> QED BY <1>5, <2>1
<1> HIDE DEF f
<1> DEFINE T == {i \in 0 .. n : All(f[i], i)}
<1>9. 0 \in T
  <2> HIDE DEF All, base
  <2> QED BY <1>0, <1>1, <1>7
<1>10. ASSUME NEW i \in 1 .. n, i - 1 \in T PROVE i \in T
  <2> HIDE DEF All, Next1
  <2>1. All(f[i - 1], i - 1)
    BY <1>10
  <2>2. All(Next1(f[i - 1], i), i)
    BY <1>2, <2>1
  <2> QED BY <1>0, <1>8, <2>2
<1>11. n \in T
  <2> HIDE DEF T
  <2>1. \A i \in 0 .. n : i \in T
    BY <1>0, <1>9, <1>10, Upwards
  <2> QED BY <1>0, <2>1
<1> QED BY <1>6, <1>11 DEF IsFilled

-----------------------------------------------------------------------------
(* Each byte code keeps the counts right.                                       *)

ValuesInv == Sound(heap, stack, {}, {})

LEMMA TopIs ==
  ASSUME stack \in StacksType, NEW t \in Task, Holds(t, 1)
  PROVE  /\ Pops(stack, t, Top(t), Dropped(stack, t, 1)) /\ Len(stack[t]) >= 1
         /\ Top(t) \in Items /\ 1 \in 0 .. Len(stack[t])
<1>1. Len(stack[t]) \in Nat /\ stack[t] \in Seq(Items) /\ Len(stack[t]) >= 1
  BY DEF StacksType, Holds
<1>2. 1 \in 1 .. Len(stack[t]) /\ Dropped(stack, t, 1 - 1) = stack
  BY <1>1, DroppedIs
<1>3. Pops(stack, t, Top(t), Dropped(stack, t, 1))
  BY <1>2, DroppedIs DEF Top, Item
<1>4. Top(t) \in Items
  BY <1>1 DEF Top, Item
<1> QED BY <1>1, <1>3, <1>4

LEMMA BelowIs ==
  ASSUME stack \in StacksType, NEW t \in Task, Holds(t, 2)
  PROVE  /\ Holds(t, 1)
         /\ Pops(Dropped(stack, t, 1), t, Below(t), Dropped(stack, t, 2))
         /\ Len(Dropped(stack, t, 1)[t]) >= 1
         /\ Below(t) \in Items /\ 2 \in 0 .. Len(stack[t])
<1>1. Len(stack[t]) \in Nat /\ stack[t] \in Seq(Items) /\ Len(stack[t]) >= 2
  BY DEF StacksType, Holds
<1>2. 2 \in 1 .. Len(stack[t]) /\ 2 - 1 = 1
  BY <1>1
<1>3. /\ Pops(Dropped(stack, t, 2 - 1), t, Below(t), Dropped(stack, t, 2))
      /\ Len(Dropped(stack, t, 2 - 1)[t]) >= 1
  BY <1>2, DroppedIs DEF Below, Item
<1>4. Below(t) \in Items
  BY <1>1 DEF Below, Item
<1> QED BY <1>1, <1>2, <1>3, <1>4 DEF Holds

LEMMA Popped ==
  ASSUME NEW h, NEW st, Sound(h, st, {}, {}), NEW t \in Task, Len(st[t]) >= 1,
         NEW x, NEW st2, Pops(st, t, x, st2)
  PROVE  /\ Sound(Decr(h, x), st2, {}, {}) /\ Alike(h, Decr(h, x))
         /\ x \in Counted => x \notin h.free
<1>1. st \in StacksType
  BY SoundTypes
<1>2. st2 \in StacksType /\ N(h.val, st2) = Less(N(h.val, st), x)
      /\ (x \in Counted => N(h.val, st)[x] # 0)
  BY <1>1, StackPopped
<1>3. Good(Decr(h, x), Less(N(h.val, st), x), {}, {}) /\ Alike(h, Decr(h, x))
  BY <1>2, LetGo DEF Sound
<1>4. x \in Counted => x \notin h.free
  BY <1>2, HeldIsTaken
<1> QED BY <1>2, <1>3, <1>4 DEF Sound, Alike

LEMMA Pushed ==
  ASSUME NEW h, NEW st, NEW X, Sound(h, st, X, {}), X \subseteq Counted, NEW t \in Task,
         NEW x \in Items, X \subseteq {x}, x \in Counted => x \notin h.free,
         NEW st2, Pushes(st, t, x, st2)
  PROVE  Sound(Incr(h, x), st2, {}, {}) /\ Alike(h, Incr(h, x))
<1>1. st \in StacksType
  BY SoundTypes
<1>2. st2 \in StacksType /\ N(h.val, st2) = More(N(h.val, st), x)
  BY <1>1, StackPushed
<1>3. X \ {x} = {}
  OBVIOUS
<1>4. Good(Incr(h, x), More(N(h.val, st), x), {}, {}) /\ Alike(h, Incr(h, x))
  BY <1>3, TakeUp DEF Sound
<1> QED BY <1>2, <1>4 DEF Sound, Alike

LEMMA PushIs ==
  ASSUME stack \in StacksType, NEW t \in Task, NEW n \in 0 .. Len(stack[t]), NEW h, NEW x,
         Push(t, h, n, x)
  PROVE  heap' = Incr(h, x) /\ Pushes(Dropped(stack, t, n), t, x, stack')
<1>1. heap' = Incr(h, x) /\ stack' = [stack EXCEPT ![t] = Append(Rest(t, n), x)]
  BY DEF Push, Leave
<1>2. Dropped(stack, t, n)[t] = Rest(t, n)
  BY DroppedIs DEF Rest
<1>3. [Dropped(stack, t, n) EXCEPT ![t] = Append(Rest(t, n), x)] = stack'
  BY <1>1 DEF Dropped
<1> QED BY <1>1, <1>2, <1>3 DEF Pushes

LEMMA LeaveIs ==
  ASSUME NEW t \in Task, NEW n, NEW h, Leave(t, h, Rest(t, n))
  PROVE  heap' = h /\ stack' = Dropped(stack, t, n)
BY DEF Leave, Rest, Dropped

(* Both items on top are popped; the one below first in the code of none. *)
LEMMA TwoPopped ==
  ASSUME ValuesInv, NEW t \in Task, Holds(t, 2)
  PROVE  LET h == Decr(heap, Top(t))
             g == Decr(h, Below(t)) IN
           /\ Sound(h, Dropped(stack, t, 1), {}, {}) /\ Alike(heap, h)
           /\ Sound(g, Dropped(stack, t, 2), {}, {}) /\ Alike(heap, g)
           /\ Top(t) \in Counted => Top(t) \notin heap.free
           /\ Below(t) \in Counted => Below(t) \notin heap.free
<1> DEFINE x == Top(t)
           y == Below(t)
           D == Dropped(stack, t, 1)
           E == Dropped(stack, t, 2)
           h == Decr(heap, x)
           g == Decr(h, y)
<1>1. /\ Pops(stack, t, x, D) /\ Len(stack[t]) >= 1
      /\ Pops(D, t, y, E) /\ Len(D[t]) >= 1
  BY SoundTypes, TopIs, BelowIs DEF ValuesInv
<1> HIDE DEF x, y, D, E
<1>2. Sound(h, D, {}, {}) /\ Alike(heap, h) /\ (x \in Counted => x \notin heap.free)
  BY <1>1, Popped DEF ValuesInv
<1> HIDE DEF h
<1>3. Sound(g, E, {}, {}) /\ Alike(h, g) /\ (y \in Counted => y \notin h.free)
  BY <1>1, <1>2, Popped
<1>4. Alike(heap, g) /\ (y \in Counted => y \notin heap.free)
  BY <1>2, <1>3 DEF Alike
<1> QED BY <1>2, <1>3, <1>4 DEF g, h, x, y, D, E

(* With the item on top popped *)
LEMMA OnePopped ==
  ASSUME ValuesInv, NEW t \in Task, Holds(t, 1)
  PROVE  LET h == Decr(heap, Top(t)) IN
           /\ Sound(h, Dropped(stack, t, 1), {}, {}) /\ Alike(heap, h)
           /\ Top(t) \in Counted => Top(t) \notin heap.free
<1> DEFINE x == Top(t)
           D == Dropped(stack, t, 1)
<1>1. Pops(stack, t, x, D) /\ Len(stack[t]) >= 1
  BY SoundTypes, TopIs DEF ValuesInv
<1> HIDE DEF x, D
<1> QED BY <1>1, Popped DEF ValuesInv, x, D

(* What is pushed, on what is left of the stack *)
LEMMA PushSound ==
  ASSUME stack \in StacksType, NEW t \in Task, NEW n \in 0 .. Len(stack[t]), NEW h, NEW X,
         Sound(h, Dropped(stack, t, n), X, {}), X \subseteq Counted,
         NEW x \in Items, X \subseteq {x}, x \in Counted => x \notin h.free,
         Push(t, h, n, x)
  PROVE  ValuesInv' /\ heap'.content = h.content /\ heap'.val = h.val /\ heap'.free = h.free
<1>1. heap' = Incr(h, x) /\ Pushes(Dropped(stack, t, n), t, x, stack')
  BY PushIs
<1> DEFINE D == Dropped(stack, t, n)
<1> HIDE DEF D
<1>2. Sound(Incr(h, x), stack', {}, {}) /\ Alike(h, Incr(h, x))
  <2>1. Sound(h, D, X, {}) /\ Pushes(D, t, x, stack')
    BY <1>1 DEF D
  <2> QED BY <2>1, Pushed
<1> QED BY <1>1, <1>2 DEF ValuesInv, Alike

LEMMA MayPushSound ==
  ASSUME stack \in StacksType, NEW t \in Task, NEW n \in 0 .. Len(stack[t]), NEW h,
         Sound(h, Dropped(stack, t, n), {}, {}),
         NEW x \in Items, x \in Counted => x \notin h.free,
         MayPush(t, h, n, x)
  PROVE  ValuesInv' /\ heap'.content = h.content /\ heap'.val = h.val /\ heap'.free = h.free
<1>1. CASE Push(t, h, n, x)
  BY <1>1, PushSound
<1>2. CASE Leave(t, h, Rest(t, n))
  BY <1>2, LeaveIs DEF ValuesInv
<1> QED BY <1>1, <1>2 DEF MayPush

(* No notes change. *)
Quiet == heap'.content = heap.content

LEMMA StackKept ==
  ASSUME ValuesInv, NEW t \in Task
  PROVE  /\ stack \in StacksType /\ 0 \in 0 .. Len(stack[t])
         /\ Sound(heap, Dropped(stack, t, 0), {}, {})
<1>1. stack \in StacksType
  BY SoundTypes DEF ValuesInv
<1>2. Len(stack[t]) \in Nat
  BY <1>1 DEF StacksType
<1>3. Dropped(stack, t, 0) = stack
  BY <1>1, DroppedIs
<1> QED BY <1>1, <1>2, <1>3 DEF ValuesInv

LEMMA NewPhraseStep ==
  ASSUME ValuesInv, NEW t \in Task, NewPhrase(t) PROVE ValuesInv' /\ Quiet
<1>1. PICK p \in FreePhrases : Push(t, New(heap, p, 0), 0, p)
  BY DEF NewPhrase
<1>2. p \in Phrase /\ p \in heap.free /\ p \in Counted /\ p \in Items
  BY DEF FreePhrases, Counted, Items, Value
<1>3. stack \in StacksType /\ 0 \in 0 .. Len(stack[t]) /\ Dropped(stack, t, 0) = stack
  BY StackKept, DroppedIs
<1> DEFINE g == New(heap, p, 0)
<1>4. Good(g, N(heap.val, stack), {p}, {}) /\ Made(heap, p, g)
  <2>1. {} \cup {p} = {p}
    OBVIOUS
  <2> QED BY <1>2, <2>1, GoodNew DEF ValuesInv, Sound
<1> HIDE DEF g
<1>5. Sound(g, Dropped(stack, t, 0), {p}, {}) /\ p \notin g.free
  BY <1>3, <1>4 DEF Sound, Made
<1>6. Push(t, g, 0, p)
  BY <1>1 DEF g
<1>7. ValuesInv' /\ heap'.content = g.content
  <2>1. {p} \subseteq Counted /\ {p} \subseteq {p}
    BY <1>2
  <2> QED BY <1>2, <1>3, <1>5, <1>6, <2>1, PushSound
<1> QED BY <1>4, <1>7 DEF Quiet, Made

LEMMA ArrayStep ==
  ASSUME ValuesInv, NEW t \in Task, Array(t) PROVE ValuesInv' /\ Quiet
<1>1. PICK a \in Arr \cap heap.free, n \in 0 .. Len(stack[t]) : \E ks \in [1 .. n -> Key] :
        /\ \A i \in 1 .. n : Item(t, i) \in Value
        /\ \E h \in Filled(t, a, n, ks) : Push(t, h, n, a)
  BY DEF Array
<1>2. PICK ks \in [1 .. n -> Key] :
        /\ \A i \in 1 .. n : Item(t, i) \in Value
        /\ \E h \in Filled(t, a, n, ks) : Push(t, h, n, a)
  BY <1>1
<1>3. PICK h \in Filled(t, a, n, ks) : Push(t, h, n, a)
  BY <1>2
<1>4. /\ Sound(h, Dropped(stack, t, n), {a}, {})
      /\ h.free = heap.free \ {a} /\ h.content = heap.content
  <2>1. Sound(heap, stack, {}, {}) /\ a \in Arr /\ a \in heap.free /\ h \in Filled(t, a, n, ks)
    BY DEF ValuesInv
  <2>2. Takes(t, n, ks)
    BY <1>2 DEF Takes
  <2>3. IsFilled(h, Dropped(stack, t, n), a)
    BY <2>1, <2>2, FilledIs
  <2> QED BY <2>3 DEF IsFilled
<1>5. a \in Counted /\ a \in Items /\ {a} \subseteq Counted
  BY DEF Counted, Items, Value
<1>6. stack \in StacksType
  BY StackKept
<1>7. ValuesInv' /\ heap'.content = h.content
  BY <1>3, <1>4, <1>5, <1>6, PushSound
<1> QED BY <1>4, <1>7 DEF Quiet

LEMMA ValueTypes ==
  ASSUME ValuesInv
  PROVE  /\ heap \in HeapType /\ \A s \in Symbol : heap.val[s] \in Value /\ heap.val[s] \in Items
         /\ Nil \in Items /\ Nil \in Value /\ Nil \notin Counted
         /\ \A s \in Symbol : s \in Items /\ s \notin Counted
         /\ \A v \in Value : v \in Items
BY SoundTypes, ValuesAssumption DEF ValuesInv, Items, Value

LEMMA VarEvalStep ==
  ASSUME ValuesInv, NEW t \in Task, VarEval(t) PROVE ValuesInv' /\ Quiet
<1>1. PICK s \in Globals : Push(t, heap, 0, heap.val[s])
  BY DEF VarEval
<1> DEFINE x == heap.val[s]
<1>2. s \in Symbol /\ x \in Items /\ (x \in Counted => x \notin heap.free)
  BY ValueTypes, HeldIsTaken DEF Symbol, ValuesInv
<1>3. Push(t, heap, 0, x)
  BY <1>1
<1> HIDE DEF x
<1> QED BY <1>2, <1>3, StackKept, PushSound DEF Quiet

LEMMA VarPushStep ==
  ASSUME ValuesInv, NEW t \in Task, VarPush(t) PROVE ValuesInv' /\ Quiet
<1>1. PICK s \in Globals : Push(t, heap, 0, s)
  BY DEF VarPush
<1>2. s \in Items /\ s \notin Counted
  BY ValueTypes DEF Symbol
<1> QED BY <1>1, <1>2, StackKept, PushSound DEF Quiet

LEMMA ConstantStep ==
  ASSUME ValuesInv, NEW t \in Task, Constant(t) PROVE ValuesInv' /\ Quiet
BY ValueTypes, StackKept, PushSound DEF Quiet, Constant

LEMMA ArrEndStep ==
  ASSUME ValuesInv, NEW t \in Task, ArrEnd(t) PROVE ValuesInv' /\ Quiet
<1> DEFINE a == Top(t)
           g == Decr(heap, a)
           D == Dropped(stack, t, 1)
<1>1. PICK k \in Key :
        /\ Holds(t, 1) /\ a \in Arr
        /\ \E h \in Arraysym(g, a, k) : Push(t, h, 1, h.val[h.elem[a][k]])
  BY DEF ArrEnd
<1>2. PICK h \in Arraysym(g, a, k) : Push(t, h, 1, h.val[h.elem[a][k]])
  BY <1>1
<1>3. Sound(g, D, {}, {}) /\ Alike(heap, g)
  BY <1>1, OnePopped
<1>4. stack \in StacksType /\ 1 \in 0 .. Len(stack[t]) /\ a \in Arr
  BY <1>1, StackKept, TopIs
<1> HIDE DEF g, a, D
<1>5. Sound(h, D, {}, {}) /\ h.elem[a][k] \in ElemSym /\ h.free = g.free /\ h.content = g.content
  BY <1>2, <1>3, <1>4, ArraysymIs
<1> DEFINE s == h.elem[a][k]
           x == h.val[s]
<1>6. s \in Symbol /\ Push(t, h, 1, x)
  BY <1>2, <1>5 DEF Symbol
<1> HIDE DEF s
<1>7. x \in Items /\ (x \in Counted => x \notin h.free)
  <2>1. h.val \in [Symbol -> Value] /\ (h.val[s] \in Counted => h.val[s] \notin h.free)
    BY <1>5, <1>6, SoundTypes, HeldIsTaken
  <2> QED BY <1>6, <2>1 DEF Items
<1> HIDE DEF x
<1>8. ValuesInv' /\ heap'.content = h.content
  BY <1>4, <1>5, <1>6, <1>7, PushSound DEF D
<1> QED BY <1>3, <1>5, <1>8 DEF Quiet, Alike

LEMMA ArrayPushStep ==
  ASSUME ValuesInv, NEW t \in Task, ArrayPush(t) PROVE ValuesInv' /\ Quiet
<1> DEFINE a == Top(t)
           g == Decr(heap, a)
           D == Dropped(stack, t, 1)
<1>1. PICK k \in Key :
        /\ Holds(t, 1) /\ a \in Arr
        /\ \E h \in Arraysym(g, a, k) : Push(t, h, 1, h.elem[a][k])
  BY DEF ArrayPush
<1>2. PICK h \in Arraysym(g, a, k) : Push(t, h, 1, h.elem[a][k])
  BY <1>1
<1>3. Sound(g, D, {}, {}) /\ Alike(heap, g)
  BY <1>1, OnePopped
<1>4. stack \in StacksType /\ 1 \in 0 .. Len(stack[t]) /\ a \in Arr
  BY <1>1, StackKept, TopIs
<1> HIDE DEF g, a, D
<1>5. Sound(h, D, {}, {}) /\ h.elem[a][k] \in ElemSym /\ h.free = g.free /\ h.content = g.content
  BY <1>2, <1>3, <1>4, ArraysymIs
<1> DEFINE s == h.elem[a][k]
<1>6. s \in Items /\ s \notin Counted /\ Push(t, h, 1, s)
  BY <1>2, <1>5, ValueTypes DEF Symbol
<1> HIDE DEF s
<1>7. ValuesInv' /\ heap'.content = h.content
  BY <1>4, <1>5, <1>6, PushSound DEF D
<1> QED BY <1>3, <1>5, <1>7 DEF Quiet, Alike

LEMMA PopIgnoreStep ==
  ASSUME ValuesInv, NEW t \in Task, PopIgnore(t) PROVE ValuesInv' /\ Quiet
<1>1. Holds(t, 1) /\ Leave(t, Decr(heap, Top(t)), Rest(t, 1))
  BY DEF PopIgnore
<1>2. heap' = Decr(heap, Top(t)) /\ stack' = Dropped(stack, t, 1)
  BY <1>1, LeaveIs
<1> QED BY <1>1, <1>2, OnePopped DEF ValuesInv, Quiet, Alike

LEMMA DeleteArrItemStep ==
  ASSUME ValuesInv, NEW t \in Task, DeleteArrItem(t) PROVE ValuesInv' /\ Quiet
<1> DEFINE a == Top(t)
           h == Decr(heap, a)
           D == Dropped(stack, t, 1)
           g(k) == IF h.elem[a][k] = NoSym THEN h ELSE Freehn(h, a, k)
<1>1. PICK k \in Key : Holds(t, 1) /\ a \in Arr /\ Leave(t, g(k), Rest(t, 1))
  BY DEF DeleteArrItem
<1>2. heap' = g(k) /\ stack' = D
  BY <1>1, LeaveIs
<1>3. Sound(h, D, {}, {}) /\ Alike(heap, h) /\ a \in Arr
  BY <1>1, OnePopped
<1> HIDE DEF a, h, D
<1>4. h.elem[a][k] # NoSym =>
        Sound(Freehn(h, a, k), D, {}, {}) /\ Freehn(h, a, k).content = h.content
  BY <1>3, NodeFreed DEF Tidy
<1> QED BY <1>2, <1>3, <1>4 DEF ValuesInv, Quiet, Alike

LEMMA DeleteItStep ==
  ASSUME ValuesInv, NEW t \in Task, DeleteIt(t) PROVE ValuesInv' /\ Quiet
<1> DEFINE a == Top(t)
           h == Decr(heap, a)
           D == Dropped(stack, t, 1)
<1>1. Holds(t, 1) /\ a \in Arr /\ Leave(t, Clearht(h, a), Rest(t, 1))
  BY DEF DeleteIt
<1>2. heap' = Clearht(h, a) /\ stack' = D
  BY <1>1, LeaveIs
<1>3. Sound(h, D, {}, {}) /\ Alike(heap, h) /\ a \in Arr
  BY <1>1, OnePopped
<1> HIDE DEF a, h, D
<1>4. Sound(Clearht(h, a), D, {}, {}) /\ Clearht(h, a).content = h.content
  BY <1>3, Emptied DEF Tidy
<1> QED BY <1>2, <1>3, <1>4 DEF ValuesInv, Quiet, Alike

LEMMA AssignStep ==
  ASSUME ValuesInv, NEW t \in Task, Assign(t) PROVE ValuesInv' /\ Quiet
<1> DEFINE v == Top(t)
           s == Below(t)
           k == Decr(heap, v)
           c == Clearsym(k, s)
           h == [c EXCEPT !.val[s] = v]
           E == Dropped(stack, t, 2)
<1>1. Holds(t, 2) /\ v \in Value /\ s \in Symbol /\ MayPush(t, Incr(h, v), 2, v)
  BY DEF Assign
<1>2. s \notin Counted /\ v \in Items
  BY <1>1, ValueTypes
<1>3. /\ Sound(k, E, {}, {}) /\ Alike(heap, k) /\ (v \in Counted => v \notin heap.free)
  <2>1. Decr(k, s) = k
    BY <1>2 DEF Decr
  <2> QED BY <1>1, <2>1, TwoPopped
<1>4. stack \in StacksType /\ 2 \in 0 .. Len(stack[t])
  BY <1>1, StackKept, BelowIs
<1> HIDE DEF v, s, k, E
<1>5. Sound(c, E, {}, {}) /\ Sets(k.val, s, Nil, c.val) /\ Tidy(k, c)
  BY <1>1, <1>3, Cleared
<1> HIDE DEF c
<1>6. /\ Sound(Incr(h, v), E, {}, {}) /\ Tidy(c, Incr(h, v))
  <2>1. k.val \in [Symbol -> Value] /\ Nil \in Value
    BY <1>3, SoundTypes DEF Value
  <2>2. Sets(c.val, s, Nil, c.val)
    BY <1>1, <1>5, <2>1 DEF Sets
  <2>3. v \in Counted => v \notin c.free
    BY <1>3, <1>5 DEF Tidy, Alike
  <2> DEFINE X == {}
  <2>4. E \in StacksType /\ Good(c, N(c.val, E), X, {}) /\ X \subseteq Counted /\ X \ {v} = {}
    BY <1>5 DEF Sound
  <2> HIDE DEF X
  <2>5. Sound(Incr(h, v), E, X \ {v}, {}) /\ Tidy(c, Incr(h, v))
    BY <1>1, <2>2, <2>3, <2>4, Placed
  <2> QED BY <2>4, <2>5
<1> DEFINE g == Incr(h, v)
<1>7. MayPush(t, g, 2, v)
  BY <1>1
<1> HIDE DEF h, g
<1>8. v \in Counted => v \notin g.free
  BY <1>3, <1>5, <1>6 DEF Tidy, Alike, g
<1>9. ValuesInv' /\ heap'.content = g.content
  BY <1>2, <1>4, <1>6, <1>7, <1>8, MayPushSound DEF E, g
<1> QED BY <1>3, <1>5, <1>6, <1>9 DEF Quiet, Alike, Tidy, g

(* freetp: a stack goes, and its counts stay. *)
Empties(st, t, st2) == st2 = [st EXCEPT ![t] = <<>>]

AreGone(val, st, t, st2) ==
  \A v \in Counted : /\ Count(st[t], {v}) \in Nat
                     /\ N(val, st)[v] = N(val, st2)[v] + Count(st[t], {v})

LEMMA StackGone ==
  ASSUME NEW val, NEW st \in StacksType, NEW t \in Task, NEW st2, Empties(st, t, st2)
  PROVE  st2 \in StacksType /\ AreGone(val, st, t, st2)
<1>1. /\ st[t] \in Seq(Items) /\ <<>> \in Seq(Items) /\ DOMAIN <<>> = {}
      /\ st2[t] = <<>> /\ (\A u \in Task : u # t => st2[u] = st[u])
  BY DEF StacksType, Empties
<1>2. st2 \in StacksType
  BY <1>1 DEF StacksType, Empties
<1>3. ASSUME NEW v \in Counted
      PROVE  /\ Count(st[t], {v}) \in Nat
             /\ N(val, st)[v] = N(val, st2)[v] + Count(st[t], {v})
  <2> DEFINE I == {i \in DOMAIN st[t] : st[t][i] \in {v}}
             J == {<<"stack", t, i>> : i \in I}
             A == PlacesIn(val, st, v)
             B == PlacesIn(val, st2, v)
             f == [i \in I |-> <<"stack", t, i>>]
  <2>1. IsFiniteSet(I) /\ Count(st[t], {v}) = Cardinality(I) /\ Cardinality(I) \in Nat
    BY <1>1, CountType DEF Count
  <2>2. IsFiniteSet(J) /\ Cardinality(J) = Cardinality(I)
    <3>1. f \in Surjection(I, J)
      BY DEF Surjection
    <3>2. f \in Injection(I, J)
      BY DEF Injection, IsInjective
    <3> HIDE DEF I, J, f
    <3>3. f \in Bijection(I, J)
      BY <3>1, <3>2 DEF Bijection
    <3> QED BY <2>1, <3>3, FS_Bijection DEF ExistsBijection
  <2>3. A = B \cup J
    <3>1. \A p : p \in J <=> \E i \in DOMAIN st[t] : st[t][i] = v /\ p = <<"stack", t, i>>
      OBVIOUS
    <3>2. ASSUME NEW p PROVE p \in A <=> p \in B \/ p \in J
      <4>1. p \in A <=> \/ \E s \in Symbol : val[s] = v /\ p = <<"symbol", s, 0>>
                        \/ \E u \in Task : \E i \in DOMAIN st[u] : st[u][i] = v /\ p = <<"stack", u, i>>
        BY PlaceIs
      <4>2. p \in B <=> \/ \E s \in Symbol : val[s] = v /\ p = <<"symbol", s, 0>>
                        \/ \E u \in Task : \E i \in DOMAIN st2[u] : st2[u][i] = v /\ p = <<"stack", u, i>>
        BY PlaceIs
      <4> HIDE DEF A, B, J
      <4> QED BY <1>1, <3>1, <4>1, <4>2
    <3> HIDE DEF A, B, J
    <3> QED BY <3>2
  <2>4. B \cap J = {}
    <3>1. ASSUME NEW p \in B, p \in J PROVE FALSE
      <4>1. PICK j \in DOMAIN st[t] : p = <<"stack", t, j>>
        BY <3>1
      <4>2. \/ \E s \in Symbol : val[s] = v /\ p = <<"symbol", s, 0>>
            \/ \E u \in Task : \E i \in DOMAIN st2[u] : st2[u][i] = v /\ p = <<"stack", u, i>>
        BY <3>1, PlaceIs
      <4> QED BY <1>1, <4>1, <4>2
    <3> HIDE DEF B, J
    <3> QED BY <3>1
  <2>5. N(val, st)[v] = Cardinality(A) /\ N(val, st2)[v] = Cardinality(B)
    BY DEF N
  <2>6. IsFiniteSet(B) /\ Cardinality(B) \in Nat
    BY <1>2, PlacesFinite, FS_CardinalityType
  <2> HIDE DEF A, B, J, I
  <2>7. Cardinality(A) = Cardinality(B) + Cardinality(J)
    <3>1. Cardinality(B \cup J) = Cardinality(B) + Cardinality(J) - Cardinality(B \cap J)
      BY <2>2, <2>6, FS_Union
    <3>2. Cardinality(B \cap J) = 0
      BY <2>4, FS_EmptySet
    <3> QED BY <2>1, <2>2, <2>3, <2>6, <3>1, <3>2
  <2> QED BY <2>1, <2>2, <2>5, <2>7
<1> QED BY <1>2, <1>3 DEF AreGone

LEMMA KillStep ==
  ASSUME ValuesInv, NEW t \in Task, Kill(t) PROVE ValuesInv' /\ Quiet
<1> DEFINE k == [v \in Counted |-> heap.lost[v] + Count(stack[t], {v})]
           g == [heap EXCEPT !.lost = k]
<1>0. heap \in HeapType /\ stack \in StacksType
  BY SoundTypes DEF ValuesInv
<1>1. heap' = g /\ stack' = [stack EXCEPT ![t] = <<>>]
  BY DEF Kill, Leave
<1>2. Empties(stack, t, stack')
  BY <1>1 DEF Empties
<1> DEFINE m == N(heap.val, stack')
           n == N(heap.val, stack)
           gone(v) == Count(stack[t], {v})
<1>3. /\ stack' \in StacksType
      /\ \A v \in Counted : gone(v) \in Nat /\ n[v] = m[v] + gone(v)
  <2>1. stack' \in StacksType /\ AreGone(heap.val, stack, t, stack')
    BY <1>0, <1>2, StackGone
  <2> QED BY <2>1 DEF AreGone
<1>4. heap.lost \in [Counted -> Nat] /\ heap.free \in SUBSET Counted
  BY <1>0, HeapFields
<1>5. m \in [Counted -> Nat] /\ n \in [Counted -> Nat]
  BY <1>0, <1>3, NType
<1> HIDE DEF m, n, gone
<1>6. k \in [Counted -> Nat] /\ \A v \in Counted : k[v] = heap.lost[v] + gone(v)
  BY <1>3, <1>4 DEF gone
<1> HIDE DEF k
<1>7. /\ g \in HeapType /\ g.uses = heap.uses /\ g.val = heap.val /\ g.elem = heap.elem
      /\ g.phs = heap.phs /\ g.hts = heap.hts /\ g.marked = heap.marked /\ g.free = heap.free
      /\ g.content = heap.content /\ g.lost = k
  BY <1>0, <1>6 DEF HeapType
<1> HIDE DEF g
<1>8. Books(heap, n) /\ Listed(heap, {}, {})
  BY DEF ValuesInv, Sound, Good, n
<1>9. Books(g, m)
  <2>1. ASSUME NEW v \in Counted PROVE g.uses[v] = m[v] + g.lost[v]
    <3>1. heap.uses[v] = n[v] + heap.lost[v]
      BY <1>8 DEF Books
    <3>2. heap.lost[v] \in Nat /\ m[v] \in Nat
      BY <1>4, <1>5
    <3> QED BY <1>3, <1>6, <1>7, <3>1, <3>2
  <2>2. ASSUME NEW v \in g.free PROVE m[v] = 0 /\ g.lost[v] = 0
    <3>1. v \in Counted /\ n[v] = 0 /\ heap.lost[v] = 0
      BY <1>4, <1>7, <1>8 DEF Books
    <3>2. m[v] \in Nat
      BY <1>5, <3>1
    <3> QED BY <1>3, <1>6, <1>7, <3>1, <3>2
  <2> QED BY <1>5, <2>1, <2>2 DEF Books
<1>10. Listed(g, {}, {})
  BY <1>7, <1>8 DEF Listed
<1>11. Sound(g, stack', {}, {})
  BY <1>3, <1>7, <1>9, <1>10 DEF Sound, Good, m
<1> QED BY <1>1, <1>7, <1>11 DEF ValuesInv, Quiet

(* exectasks: only the notes of what is given back change. *)
LEMMA SweepStep ==
  ASSUME ValuesInv, Sweep
  PROVE  /\ ValuesInv'
         /\ \A p \in Phrase : heap'.content[p] # heap.content[p] => p \in heap'.free
<1> DEFINE f == Phcheck(heap)
           g == Htcheck(f)
<1>1. heap' = [g EXCEPT !.chk = FALSE] /\ stack' = stack
  BY DEF Sweep
<1>2. Sound(f, stack, {}, {}) /\ \A p \in Phrase : f.content[p] # heap.content[p] => p \in f.free
  BY PhcheckSound DEF ValuesInv
<1> HIDE DEF f
<1>3. Sound(g, stack, {}, {}) /\ g.content = f.content /\ f.free \subseteq g.free
  BY <1>2, HtcheckSound
<1> HIDE DEF g
<1> DEFINE h == [g EXCEPT !.chk = FALSE]
<1>4. /\ h \in HeapType /\ h.uses = g.uses /\ h.val = g.val
      /\ h.phs = g.phs /\ h.hts = g.hts /\ h.marked = g.marked /\ h.free = g.free
      /\ h.content = g.content /\ h.lost = g.lost
  <2>1. g \in HeapType
    BY <1>3, SoundTypes
  <2> QED BY <2>1 DEF HeapType
<1> HIDE DEF h
<1>5. Sound(h, stack, {}, {})
  BY <1>3, <1>4, GoodSame DEF Sound
<1>6. heap' = h
  BY <1>1 DEF h
<1> QED BY <1>1, <1>2, <1>3, <1>4, <1>5, <1>6 DEF ValuesInv

-----------------------------------------------------------------------------
(* The notes of a phrase change only if one place at most saw them, and does.   *)

Changes(p) == heap'.content[p] # heap.content[p] /\ p \notin heap'.free
ChangesPrivate ==
  \A p \in Phrase \ heap.free : Changes(p) => Cardinality(Places(p) \cap Places(p)') <= 1

LEMMA NoPlace ==
  ASSUME NEW val, NEW st \in StacksType, NEW v \in Counted, N(val, st)[v] = 0
  PROVE  /\ \A s \in Symbol : val[s] # v
         /\ \A t \in Task : \A i \in DOMAIN st[t] : st[t][i] # v
<1>1. Cardinality(PlacesIn(val, st, v)) = 0
  BY DEF N
<1>2. PlacesIn(val, st, v) = {}
  BY <1>1, PlacesFinite, FS_EmptySet
<1>3. ASSUME NEW s \in Symbol, val[s] = v PROVE FALSE
  <2>1. <<"symbol", s, 0>> \in PlacesIn(val, st, v)
    BY <1>3, PlaceIs
  <2> QED BY <1>2, <2>1
<1>4. ASSUME NEW t \in Task, NEW i \in DOMAIN st[t], st[t][i] = v PROVE FALSE
  <2>1. <<"stack", t, i>> \in PlacesIn(val, st, v)
    BY <1>4, PlaceIs
  <2> QED BY <1>2, <2>1
<1> QED BY <1>3, <1>4

(* The stack t, with its two items on top replaced by one or none *)
Lowered(st, t, st2) ==
  \/ st2 = Dropped(st, t, 2)
  \/ \E x \in Items : Pushes(Dropped(st, t, 2), t, x, st2)

LEMMA LoweredIs ==
  ASSUME NEW st \in StacksType, NEW t \in Task, Len(st[t]) >= 2, NEW st2, Lowered(st, t, st2)
  PROVE  /\ \A u \in Task : u # t => Dropped(st, t, 2)[u] = st[u]
         /\ \A i \in DOMAIN st[t] : i # Len(st[t]) /\ i # Len(st[t]) - 1 =>
              i \in DOMAIN Dropped(st, t, 2)[t] /\ Dropped(st, t, 2)[t][i] = st[t][i]
         /\ Len(st[t]) \notin DOMAIN st2[t]
<1> DEFINE D == Dropped(st, t, 2)
           n == Len(st[t])
<1>1. st[t] \in Seq(Items) /\ n \in Nat /\ n >= 2 /\ DOMAIN st[t] = 1 .. n /\ 2 \in 0 .. n
  BY DEF StacksType
<1>2. D \in StacksType /\ D[t] = SubSeq(st[t], 1, n - 2)
  BY <1>1, DroppedIs
<1>3. /\ D[t] \in Seq(Items) /\ Len(D[t]) = n - 2 /\ DOMAIN D[t] = 1 .. n - 2
      /\ \A i \in 1 .. n - 2 : D[t][i] = st[t][i]
  <2>1. SubSeq(st[t], 1, n - 2) \in Seq(Items) /\ Len(SubSeq(st[t], 1, n - 2)) = n - 2
        /\ DOMAIN SubSeq(st[t], 1, n - 2) = 1 .. n - 2
        /\ \A i \in 1 .. n - 2 : SubSeq(st[t], 1, n - 2)[i] = st[t][i]
    BY <1>1
  <2> HIDE DEF D
  <2> QED BY <1>2, <2>1
<1>4. \A u \in Task : u # t => D[u] = st[u]
  BY DEF Dropped, StacksType
<1> HIDE DEF D
<1>5. n \notin DOMAIN st2[t]
  <2>1. CASE st2 = D
    BY <1>1, <1>3, <2>1
  <2>2. CASE \E x \in Items : Pushes(D, t, x, st2)
    <3>1. PICK x \in Items : st2 = [D EXCEPT ![t] = Append(D[t], x)]
      BY <2>2 DEF Pushes
    <3>2. st2[t] = Append(D[t], x)
      BY <1>2, <3>1 DEF StacksType
    <3>3. DOMAIN Append(D[t], x) = 1 .. (n - 2) + 1
      BY <1>1, <1>3
    <3> QED BY <1>1, <3>2, <3>3
  <2> QED BY <2>1, <2>2 DEF Lowered, D
<1>6. \A i \in DOMAIN st[t] : i # n /\ i # n - 1 => i \in DOMAIN D[t] /\ D[t][i] = st[t][i]
  BY <1>1, <1>3
<1> QED BY <1>4, <1>5, <1>6 DEF D

LEMMA OneAtMost ==
  ASSUME NEW S, NEW p, S \subseteq {p}
  PROVE  Cardinality(S) <= 1
<1>1. IsFiniteSet({p}) /\ Cardinality({p}) = 1
  BY FS_Singleton
<1> QED BY <1>1, FS_Subset

(* Nothing but the two items on top was p. *)
LEMMA OnStack ==
  ASSUME NEW st \in StacksType, NEW t \in Task, Len(st[t]) >= 2, NEW st2, Lowered(st, t, st2),
         NEW val, NEW val2, NEW p \in Counted, N(val, Dropped(st, t, 2))[p] = 0
  PROVE  Cardinality(PlacesIn(val, st, p) \cap PlacesIn(val2, st2, p)) <= 1
<1> DEFINE n == Len(st[t])
           D == Dropped(st, t, 2)
           x == <<"stack", t, n - 1>>
<1>1. n \in Nat /\ n >= 2 /\ 2 \in 0 .. n /\ DOMAIN st[t] = 1 .. n
  BY DEF StacksType
<1>2. D \in StacksType
  BY <1>1, DroppedIs
<1>3. (\A s \in Symbol : val[s] # p) /\ \A u \in Task : \A i \in DOMAIN D[u] : D[u][i] # p
  BY <1>2, NoPlace
<1>4. /\ \A u \in Task : u # t => D[u] = st[u]
      /\ \A i \in DOMAIN st[t] : i # n /\ i # n - 1 => i \in DOMAIN D[t] /\ D[t][i] = st[t][i]
      /\ n \notin DOMAIN st2[t]
  BY LoweredIs
<1> HIDE DEF D, n
<1>5. ASSUME NEW q \in PlacesIn(val, st, p), q \in PlacesIn(val2, st2, p) PROVE q = x
  <2>1. PICK u \in Task : \E i \in DOMAIN st[u] : st[u][i] = p /\ q = <<"stack", u, i>>
    BY <1>3, PlaceIs
  <2>2. PICK i \in DOMAIN st[u] : st[u][i] = p /\ q = <<"stack", u, i>>
    BY <2>1
  <2>3. u = t
    BY <1>3, <1>4, <2>2
  <2>4. i = n \/ i = n - 1
    BY <1>3, <1>4, <2>2, <2>3
  <2>5. \/ \E s \in Symbol : val2[s] = p /\ q = <<"symbol", s, 0>>
        \/ \E w \in Task : \E j \in DOMAIN st2[w] : st2[w][j] = p /\ q = <<"stack", w, j>>
    BY <1>5, PlaceIs
  <2>6. i \in DOMAIN st2[u]
    BY <2>2, <2>5
  <2> QED BY <1>4, <2>2, <2>3, <2>4, <2>6
<1> QED BY <1>5, OneAtMost

(* Nothing but the item on top and the symbol s was p. *)
LEMMA InSymbol ==
  ASSUME NEW st \in StacksType, NEW t \in Task, Len(st[t]) >= 2, NEW st2, Lowered(st, t, st2),
         NEW val, NEW val2, NEW s \in Symbol, st[t][Len(st[t]) - 1] = s,
         NEW none, Sets(val, s, Nil, none), val \in [Symbol -> Value],
         NEW p \in Counted, N(none, Dropped(st, t, 2))[p] = 0
  PROVE  Cardinality(PlacesIn(val, st, p) \cap PlacesIn(val2, st2, p)) <= 1
<1> DEFINE n == Len(st[t])
           D == Dropped(st, t, 2)
           x == <<"symbol", s, 0>>
<1>1. n \in Nat /\ n >= 2 /\ 2 \in 0 .. n /\ DOMAIN st[t] = 1 .. n
  BY DEF StacksType
<1>2. D \in StacksType /\ s # p
  <2>1. p \in Value
    BY DEF Value
  <2> QED BY <1>1, <2>1, DroppedIs, ValuesAssumption
<1>3. (\A r \in Symbol : none[r] # p) /\ \A u \in Task : \A i \in DOMAIN D[u] : D[u][i] # p
  BY <1>2, NoPlace
<1>4. /\ \A u \in Task : u # t => D[u] = st[u]
      /\ \A i \in DOMAIN st[t] : i # n /\ i # n - 1 => i \in DOMAIN D[t] /\ D[t][i] = st[t][i]
      /\ n \notin DOMAIN st2[t]
  BY LoweredIs
<1>5. \A r \in Symbol : r # s => none[r] = val[r]
  BY DEF Sets
<1>6. st[t][n - 1] = s
  OBVIOUS
<1> HIDE DEF D, n
<1>7. ASSUME NEW q \in PlacesIn(val, st, p), q \in PlacesIn(val2, st2, p) PROVE q = x
  <2>1. \/ \E r \in Symbol : val[r] = p /\ q = <<"symbol", r, 0>>
        \/ \E u \in Task : \E i \in DOMAIN st[u] : st[u][i] = p /\ q = <<"stack", u, i>>
    BY PlaceIs
  <2>2. CASE \E r \in Symbol : val[r] = p /\ q = <<"symbol", r, 0>>
    BY <1>3, <1>5, <2>2
  <2>3. ASSUME NEW u \in Task, NEW i \in DOMAIN st[u], st[u][i] = p, q = <<"stack", u, i>> PROVE FALSE
    <3>1. u = t
      BY <1>3, <1>4, <2>3
    <3>2. i = n
      BY <1>2, <1>3, <1>4, <1>6, <2>3, <3>1
    <3>3. \/ \E r \in Symbol : val2[r] = p /\ q = <<"symbol", r, 0>>
          \/ \E w \in Task : \E j \in DOMAIN st2[w] : st2[w][j] = p /\ q = <<"stack", w, j>>
      BY <1>7, PlaceIs
    <3>4. i \in DOMAIN st2[u]
      BY <2>3, <3>3
    <3> QED BY <1>4, <3>1, <3>2, <3>4
  <2> QED BY <2>1, <2>2, <2>3
<1> QED BY <1>7, OneAtMost

(* The value of a symbol is in hand: it is still there, but no longer counted. *)
LEMMA InHand ==
  ASSUME NEW h, NEW st, Sound(h, st, {}, {}), NEW s \in Symbol, NEW none, Sets(h.val, s, Nil, none)
  PROVE  /\ Good(Decr(h, h.val[s]), N(none, st), {}, {}) /\ Alike(h, Decr(h, h.val[s]))
         /\ h.val[s] \in Counted => h.val[s] \notin h.free
<1> DEFINE x == h.val[s]
           n == N(h.val, st)
<1>1. h.val \in [Symbol -> Value] /\ st \in StacksType
  BY SoundTypes
<1>2. N(none, st) = Less(n, x) /\ (x \in Counted => n[x] # 0)
  BY <1>1, SymbolCleared
<1>3. Good(h, n, {}, {})
  BY DEF Sound
<1>4. x \in Counted => x \notin h.free
  BY HeldIsTaken
<1> HIDE DEF x, n
<1>5. Good(Decr(h, x), Less(n, x), {}, {}) /\ Alike(h, Decr(h, x))
  BY <1>2, <1>3, LetGo
<1> QED BY <1>2, <1>4, <1>5 DEF x

(* Lowered, by what the byte codes do *)
LEMMA LoweredBy ==
  ASSUME stack \in StacksType, NEW t \in Task, Holds(t, 2), NEW h, NEW x \in Items,
         MayPush(t, h, 2, x)
  PROVE  Lowered(stack, t, stack') /\ Len(stack[t]) >= 2
           /\ stack[t][Len(stack[t]) - 1] = Below(t)
<1>1. 2 \in 0 .. Len(stack[t]) /\ Len(stack[t]) >= 2 /\ Len(stack[t]) \in Nat
  BY BelowIs DEF Holds, StacksType
<1>2. Len(stack[t]) - 2 + 1 = Len(stack[t]) - 1
  BY <1>1
<1>3. Below(t) = stack[t][Len(stack[t]) - 1]
  BY <1>2 DEF Below, Item
<1>4. CASE Push(t, h, 2, x)
  BY <1>1, <1>3, <1>4, PushIs DEF Lowered
<1>5. CASE Leave(t, h, Rest(t, 2))
  BY <1>1, <1>3, <1>5, LeaveIs DEF Lowered
<1> QED BY <1>4, <1>5 DEF MayPush

(* assign: q becomes the value of s, and x may be the result. *)
LEMMA Assigned ==
  ASSUME stack \in StacksType, NEW t \in Task, Holds(t, 2), Below(t) \in Symbol,
         NEW g, NEW none, Sets(g.val, Below(t), Nil, none),
         NEW q \in Phrase, q \notin g.free, Good(g, N(none, Dropped(stack, t, 2)), {q}, {}),
         NEW x \in Items, x \in Counted => x \notin g.free,
         MayPush(t, Incr([g EXCEPT !.val[Below(t)] = q], q), 2, x)
  PROVE  ValuesInv' /\ heap'.content = g.content
<1> DEFINE s == Below(t)
           E == Dropped(stack, t, 2)
           h == Incr([g EXCEPT !.val[s] = q], q)
           X == {q}
<1>1. E \in StacksType /\ 2 \in 0 .. Len(stack[t])
  BY BelowIs, DroppedIs
<1>2. q \in Counted /\ q \in Value /\ X \subseteq Counted /\ X \ {q} = {}
  BY DEF Counted, Value
<1>3. s \in Symbol /\ Sets(g.val, s, Nil, none) /\ Good(g, N(none, E), X, {}) /\ MayPush(t, h, 2, x)
  OBVIOUS
<1> HIDE DEF s, E, X
<1>4. Sound(h, E, X \ {q}, {}) /\ Tidy(g, h)
  BY <1>1, <1>2, <1>3, Placed
<1> HIDE DEF h
<1>5. Sound(h, E, {}, {}) /\ h.free = g.free /\ h.content = g.content
  BY <1>2, <1>4 DEF Tidy
<1>6. ValuesInv' /\ heap'.content = h.content
  BY <1>1, <1>3, <1>5, MayPushSound DEF E
<1> QED BY <1>5, <1>6

(* Whose notes change: nothing but the two items popped and s had them. *)
LEMMA AssignedPrivate ==
  ASSUME ValuesInv, NEW t \in Task, Holds(t, 2), Below(t) \in Symbol,
         NEW h, NEW x \in Items, MayPush(t, h, 2, x),
         NEW none, Sets(heap.val, Below(t), Nil, none),
         \A p \in Phrase : heap'.content[p] # heap.content[p] =>
           p \in heap.free \/ N(none, Dropped(stack, t, 2))[p] = 0
  PROVE  ChangesPrivate
<1> SUFFICES ASSUME NEW p \in Phrase, p \notin heap.free, Changes(p)
             PROVE  Cardinality(Places(p) \cap Places(p)') <= 1
  BY DEF ChangesPrivate
<1>1. N(none, Dropped(stack, t, 2))[p] = 0 /\ p \in Counted
  BY DEF Changes, Counted
<1>2. stack \in StacksType /\ heap.val \in [Symbol -> Value]
  BY SoundTypes DEF ValuesInv
<1>3. /\ Lowered(stack, t, stack') /\ Len(stack[t]) >= 2
      /\ stack[t][Len(stack[t]) - 1] = Below(t)
  BY <1>2, LoweredBy
<1> DEFINE s == Below(t)
           val == heap.val
           val2 == heap'.val
           st2 == stack'
<1>4. Places(p) = PlacesIn(val, stack, p) /\ Places(p)' = PlacesIn(val2, st2, p)
  BY DEF Places
<1>5. /\ s \in Symbol /\ Sets(val, s, Nil, none) /\ stack[t][Len(stack[t]) - 1] = s
      /\ val \in [Symbol -> Value] /\ Lowered(stack, t, st2)
  BY <1>2, <1>3
<1> HIDE DEF s, val, val2, st2
<1>6. Cardinality(PlacesIn(val, stack, p) \cap PlacesIn(val2, st2, p)) <= 1
  BY <1>1, <1>2, <1>3, <1>5, InSymbol
<1> QED BY <1>4, <1>6

LEMMA OperateStep ==
  ASSUME ValuesInv, NEW t \in Task, Operate(t) PROVE ValuesInv' /\ ChangesPrivate
<1> DEFINE x == Top(t)
           y == Below(t)
           h == Decr(Decr(heap, x), y)
           E == Dropped(stack, t, 2)
           n == N(h.val, E)
<1>1. Holds(t, 2) /\ {x, y} \subseteq Phrase /\ \E r \in Merged(h, y, x) : Push(t, r[1], 2, r[2])
  BY DEF Operate
<1>2. PICK r \in Merged(h, y, x) : Push(t, r[1], 2, r[2])
  BY <1>1
<1>3. x \in Phrase /\ y \in Phrase /\ x \in Counted /\ y \in Counted
  BY <1>1 DEF Counted
<1>4. /\ Sound(h, E, {}, {}) /\ Alike(heap, h) /\ x \notin heap.free /\ y \notin heap.free
  BY <1>1, <1>3, TwoPopped
<1>5. stack \in StacksType /\ 2 \in 0 .. Len(stack[t]) /\ heap.val \in [Symbol -> Value]
  BY <1>1, BelowIs, SoundTypes DEF ValuesInv
<1> HIDE DEF x, y, h, E
<1>6. Good(h, n, {}, {}) /\ E \in StacksType /\ x \notin h.free /\ y \notin h.free /\ h.val = heap.val
      /\ h.free = heap.free /\ h.content = heap.content
  BY <1>4 DEF Sound, Alike
<1> HIDE DEF n
<1>7. IsChanged(h, n, {r[2]}, {}, y, r)
  BY <1>2, <1>3, <1>6, MergedIs
<1> DEFINE q == r[2]
           g == r[1]
<1>8. /\ q \in Phrase /\ q \notin g.free /\ Good(g, n, {q}, {}) /\ g.val = h.val
      /\ \A p \in Phrase : g.content[p] # h.content[p] => p \in h.free \/ (p = y /\ n[y] = 0)
  BY <1>7 DEF IsChanged
<1> HIDE DEF q, g
<1>9. Sound(g, E, {q}, {}) /\ {q} \subseteq Counted /\ q \in Items /\ {q} \subseteq {q}
  BY <1>6, <1>8 DEF Sound, n, Counted, Items, Value
<1>10. Push(t, g, 2, q) /\ Sound(g, Dropped(stack, t, 2), {q}, {})
  BY <1>2, <1>9 DEF g, q, E
<1>11. ValuesInv' /\ heap'.content = g.content
  BY <1>5, <1>8, <1>9, <1>10, PushSound
<1>12. ChangesPrivate
  <2> SUFFICES ASSUME NEW p \in Phrase, p \notin heap.free, Changes(p)
               PROVE  Cardinality(Places(p) \cap Places(p)') <= 1
    BY DEF ChangesPrivate
  <2>1. N(heap.val, Dropped(stack, t, 2))[p] = 0 /\ p \in Counted
    BY <1>6, <1>8, <1>11 DEF Changes, Counted, n, E
  <2>2. Lowered(stack, t, stack') /\ Len(stack[t]) >= 2
    BY <1>1, <1>5, <1>9, <1>10, LoweredBy DEF MayPush
  <2> DEFINE val == heap.val
             val2 == heap'.val
             st2 == stack'
  <2>3. Places(p) = PlacesIn(val, stack, p) /\ Places(p)' = PlacesIn(val2, st2, p)
    BY DEF Places
  <2>4. N(val, Dropped(stack, t, 2))[p] = 0 /\ Lowered(stack, t, st2)
    BY <2>1, <2>2
  <2> HIDE DEF val, val2, st2
  <2>5. Cardinality(PlacesIn(val, stack, p) \cap PlacesIn(val2, st2, p)) <= 1
    BY <1>5, <2>1, <2>2, <2>4, OnStack
  <2> QED BY <2>3, <2>5
<1> QED BY <1>11, <1>12

LEMMA OpAssignStep ==
  ASSUME ValuesInv, NEW t \in Task, OpAssign(t) PROVE ValuesInv' /\ ChangesPrivate
<1> DEFINE v == Top(t)
           s == Below(t)
           sd == heap.val[s]
           k == Decr(heap, v)
           h == Decr(k, sd)
           E == Dropped(stack, t, 2)
           none == [heap.val EXCEPT ![s] = Nil]
           n == N(none, E)
           After(r) == Incr([r[1] EXCEPT !.val[s] = r[2]], r[2])
<1>1. /\ Holds(t, 2) /\ v \in Phrase /\ s \in Symbol /\ sd \in Phrase
      /\ \E r \in Merged(h, sd, v) : MayPush(t, After(r), 2, r[2])
  BY DEF OpAssign
<1>2. PICK r \in Merged(h, sd, v) : MayPush(t, After(r), 2, r[2])
  BY <1>1
<1>3. v \in Counted /\ sd \in Counted /\ s \notin Counted
  BY <1>1, ValueTypes DEF Counted
<1>4. Sound(k, E, {}, {}) /\ Alike(heap, k) /\ v \notin heap.free
  <2>1. Decr(k, s) = k
    BY <1>3 DEF Decr
  <2> QED BY <1>1, <1>3, <2>1, TwoPopped
<1>5. stack \in StacksType
  BY StackKept
<1>6. sd = k.val[s] /\ Sets(k.val, s, Nil, none) /\ Sets(heap.val, s, Nil, none)
  BY <1>4 DEF Alike, Sets
<1> HIDE DEF v, s, sd, k, E, none
<1>7. Good(h, n, {}, {}) /\ Alike(k, h) /\ sd \notin k.free
  BY <1>1, <1>3, <1>4, <1>6, InHand
<1> HIDE DEF h
<1>8. v \notin h.free /\ sd \notin h.free /\ h.val = heap.val /\ h.free = heap.free
      /\ h.content = heap.content
  BY <1>4, <1>7 DEF Alike
<1> HIDE DEF n
<1>9. IsChanged(h, n, {r[2]}, {}, sd, r)
  BY <1>1, <1>2, <1>7, <1>8, MergedIs
<1> DEFINE q == r[2]
           g == r[1]
<1>10. /\ q \in Phrase /\ q \notin g.free /\ Good(g, n, {q}, {}) /\ g.val = h.val
      /\ \A p \in Phrase : g.content[p] # h.content[p] => p \in h.free \/ (p = sd /\ n[sd] = 0)
  BY <1>9 DEF IsChanged
<1>11. MayPush(t, Incr([g EXCEPT !.val[s] = q], q), 2, q)
  BY <1>2
<1> HIDE DEF q, g
<1>12. q \in Items /\ Good(g, N(none, E), {q}, {}) /\ Sets(g.val, s, Nil, none)
  BY <1>6, <1>8, <1>10 DEF Items, Value, Counted, n
<1>13. ValuesInv' /\ heap'.content = g.content
  BY <1>1, <1>5, <1>10, <1>11, <1>12, Assigned DEF s, E
<1>14. \A p \in Phrase : heap'.content[p] # heap.content[p] => p \in heap.free \/ N(none, E)[p] = 0
  BY <1>8, <1>10, <1>13 DEF n
<1>15. ChangesPrivate
  BY <1>1, <1>6, <1>11, <1>12, <1>14, AssignedPrivate DEF s, E
<1> QED BY <1>13, <1>15

LEMMA ModAssignStep ==
  ASSUME ValuesInv, NEW t \in Task, ModAssign(t) PROVE ValuesInv' /\ ChangesPrivate
<1> DEFINE v == Top(t)
           s == Below(t)
           sd == heap.val[s]
           k == Decr(heap, v)
           h == Decr(k, sd)
           E == Dropped(stack, t, 2)
           none == [heap.val EXCEPT ![s] = Nil]
           n == N(none, E)
           After(r) == Incr([r[1] EXCEPT !.val[s] = r[2]], r[2])
<1>1. /\ Holds(t, 2) /\ v \in Phrase /\ s \in Symbol /\ sd \in Phrase
      /\ \E r \in Changed(h, sd) : MayPush(t, After(r), 2, v)
  BY DEF ModAssign
<1>2. PICK r \in Changed(h, sd) : MayPush(t, After(r), 2, v)
  BY <1>1
<1>3. v \in Counted /\ sd \in Counted /\ s \notin Counted
  BY <1>1, ValueTypes DEF Counted
<1>4. Sound(k, E, {}, {}) /\ Alike(heap, k) /\ v \notin heap.free
  <2>1. Decr(k, s) = k
    BY <1>3 DEF Decr
  <2> QED BY <1>1, <1>3, <2>1, TwoPopped
<1>5. stack \in StacksType
  BY StackKept
<1>6. sd = k.val[s] /\ Sets(k.val, s, Nil, none) /\ Sets(heap.val, s, Nil, none)
  BY <1>4 DEF Alike, Sets
<1> HIDE DEF v, s, sd, k, E, none
<1>7. Good(h, n, {}, {}) /\ Alike(k, h) /\ sd \notin k.free
  BY <1>1, <1>3, <1>4, <1>6, InHand
<1> HIDE DEF h
<1>8. v \notin h.free /\ sd \notin h.free /\ h.val = heap.val /\ h.free = heap.free
      /\ h.content = heap.content
  BY <1>4, <1>7 DEF Alike
<1> HIDE DEF n
<1>9. IsChanged(h, n, {r[2]}, {}, sd, r)
  <2> DEFINE X == {}
  <2>1. Good(h, n, X, {}) /\ X \subseteq Counted /\ X \cup {r[2]} = {r[2]}
    BY <1>7
  <2> HIDE DEF X
  <2>2. IsChanged(h, n, X \cup {r[2]}, {}, sd, r)
    BY <1>1, <1>2, <1>8, <2>1, ChangedIs
  <2> QED BY <2>1, <2>2
<1> DEFINE q == r[2]
           g == r[1]
<1>10. /\ q \in Phrase /\ q \notin g.free /\ Good(g, n, {q}, {}) /\ g.val = h.val
      /\ g.free \subseteq h.free
      /\ \A p \in Phrase : g.content[p] # h.content[p] => p \in h.free \/ (p = sd /\ n[sd] = 0)
  BY <1>9 DEF IsChanged
<1>11. MayPush(t, Incr([g EXCEPT !.val[s] = q], q), 2, v)
  BY <1>2
<1> HIDE DEF q, g
<1>12. v \in Items /\ v \notin g.free /\ Good(g, N(none, E), {q}, {}) /\ Sets(g.val, s, Nil, none)
  BY <1>3, <1>6, <1>8, <1>10 DEF Items, Value, n
<1>13. ValuesInv' /\ heap'.content = g.content
  BY <1>1, <1>5, <1>10, <1>11, <1>12, Assigned DEF s, E
<1>14. \A p \in Phrase : heap'.content[p] # heap.content[p] => p \in heap.free \/ N(none, E)[p] = 0
  BY <1>8, <1>10, <1>13 DEF n
<1>15. ChangesPrivate
  BY <1>1, <1>6, <1>11, <1>12, <1>14, AssignedPrivate DEF s, E
<1> QED BY <1>13, <1>15

(* phrvarinit: a symbol that held something else holds a new phrase. *)
HoldsNew(k, s, p, h) == h = [New(Clearsym(k, s), p, 1) EXCEPT !.val[s] = p]

LEMMA PhraseMade ==
  ASSUME NEW k, NEW st, Sound(k, st, {}, {}), NEW s \in Symbol,
         NEW p \in Phrase, p \in k.free,
         NEW h, HoldsNew(k, s, p, h)
  PROVE  /\ Sound(h, st, {}, {}) /\ h.val = [k.val EXCEPT ![s] = p]
         /\ h.content = k.content /\ h.free \subseteq k.free
<1> DEFINE c == Clearsym(k, s)
           f == New(c, p, 1)
           g == [f EXCEPT !.val[s] = p]
<1>1. Sound(c, st, {}, {}) /\ Sets(k.val, s, Nil, c.val) /\ Tidy(k, c)
  BY Cleared
<1>2. g = h
  BY DEF HoldsNew
<1> HIDE DEF c
<1>3. st \in StacksType /\ k.val \in [Symbol -> Value] /\ p \in Counted /\ p \in Value
  BY SoundTypes DEF Counted, Value
<1>4. Good(f, More(N(c.val, st), p), {}, {}) /\ Made(c, p, f)
  <2>1. Good(c, N(c.val, st), {}, {}) /\ p \in c.free
    BY <1>1 DEF Sound, Tidy
  <2> QED BY <1>3, <2>1, GoodNew
<1> HIDE DEF f
<1>5. /\ Good(g, More(N(c.val, st), p), {}, {}) /\ g.val = [f.val EXCEPT ![s] = p]
      /\ g.content = f.content /\ g.free = f.free
  <2> DEFINE n == More(N(c.val, st), p)
  <2> HIDE DEF n
  <2>1. Good(f, n, {}, {})
    BY <1>4 DEF n
  <2>2. /\ Good(g, n, {}, {}) /\ g.val = [f.val EXCEPT ![s] = p]
        /\ g.content = f.content /\ g.free = f.free
    BY <1>3, <2>1, GoodVal
  <2> QED BY <2>2 DEF n
<1> HIDE DEF g
<1>6. c.val \in [Symbol -> Value] /\ c.val[s] = Nil /\ Sets(c.val, s, p, g.val)
      /\ g.val = [k.val EXCEPT ![s] = p]
  BY <1>1, <1>3, <1>4, <1>5 DEF Sets, Made, Value
<1>7. N(g.val, st) = More(N(c.val, st), p)
  BY <1>3, <1>6, SymbolSet
<1>8. Sound(g, st, {}, {})
  BY <1>3, <1>5, <1>7 DEF Sound
<1>9. g.content = k.content /\ g.free \subseteq k.free
  BY <1>1, <1>4, <1>5 DEF Made, Tidy
<1> QED BY <1>2, <1>6, <1>8, <1>9

LEMMA DotAssignStep ==
  ASSUME ValuesInv, NEW t \in Task, DotAssign(t) PROVE ValuesInv' /\ ChangesPrivate
<1> DEFINE s == Below(t)
           E == Dropped(stack, t, 2)
           none == [heap.val EXCEPT ![s] = Nil]
           n == N(none, E)
           After(r) == Incr([r[1] EXCEPT !.val[s] = r[2]], r[2])
           phrvarinit == {[New(Clearsym(heap, s), p, 1) EXCEPT !.val[s] = p] : p \in FreePhrases}
           heaps == IF heap.val[s] \in Phrase THEN {heap} ELSE phrvarinit
<1>1. /\ Holds(t, 2) /\ Top(t) = Nil /\ s \in Symbol
      /\ \E k \in heaps : \E r \in Changed(Decr(k, k.val[s]), k.val[s]) :
           MayPush(t, After(r), 2, Nil)
  BY DEF DotAssign
<1>2. PICK k \in heaps : \E r \in Changed(Decr(k, k.val[s]), k.val[s]) : MayPush(t, After(r), 2, Nil)
  BY <1>1
<1> DEFINE sd == k.val[s]
           h == Decr(k, sd)
<1>3. PICK r \in Changed(h, sd) : MayPush(t, After(r), 2, Nil)
  BY <1>2
<1>4. s \notin Counted /\ Nil \notin Counted /\ Nil \in Items
  BY <1>1, ValueTypes
<1>5. Sound(heap, E, {}, {})
  <2>1. Decr(Decr(heap, Nil), s) = heap
    BY <1>4 DEF Decr
  <2> QED BY <1>1, <2>1, TwoPopped
<1>6. stack \in StacksType /\ heap.val \in [Symbol -> Value]
  BY StackKept, SoundTypes DEF ValuesInv
<1> HIDE DEF s, E
<1>7. /\ Sound(k, E, {}, {}) /\ k.content = heap.content /\ k.free \subseteq heap.free
      /\ sd \in Phrase /\ Sets(k.val, s, Nil, none)
  <2>1. CASE heap.val[s] \in Phrase
    <3>1. k = heap
      BY <2>1
    <3> QED BY <1>5, <2>1, <3>1 DEF Sets
  <2>2. CASE heap.val[s] \notin Phrase
    <3>1. PICK p \in FreePhrases : HoldsNew(heap, s, p, k)
      BY <2>2 DEF HoldsNew
    <3>2. p \in Phrase /\ p \in heap.free
      BY DEF FreePhrases
    <3>3. /\ Sound(k, E, {}, {}) /\ k.val = [heap.val EXCEPT ![s] = p]
          /\ k.content = heap.content /\ k.free \subseteq heap.free
      BY <1>1, <1>5, <3>1, <3>2, PhraseMade
    <3>4. k.val[s] = p /\ Sets(k.val, s, Nil, none)
      BY <1>1, <1>6, <3>3 DEF Sets
    <3> QED BY <3>2, <3>3, <3>4
  <2> QED BY <2>1, <2>2
<1>8. Sets(heap.val, s, Nil, none)
  BY DEF Sets
<1> HIDE DEF none, heaps
<1>9. Good(h, n, {}, {}) /\ Alike(k, h) /\ (sd \in Counted => sd \notin k.free)
  BY <1>1, <1>7, InHand
<1> HIDE DEF sd, h
<1>10. sd \notin h.free /\ h.val = k.val /\ h.free = k.free /\ h.content = k.content
  BY <1>7, <1>9 DEF Alike, Counted
<1> HIDE DEF n
<1>11. IsChanged(h, n, {r[2]}, {}, sd, r)
  <2> DEFINE X == {}
  <2>1. Good(h, n, X, {}) /\ X \subseteq Counted /\ X \cup {r[2]} = {r[2]}
    BY <1>9
  <2> HIDE DEF X
  <2>2. IsChanged(h, n, X \cup {r[2]}, {}, sd, r)
    BY <1>3, <1>7, <1>10, <2>1, ChangedIs
  <2> QED BY <2>1, <2>2
<1> DEFINE q == r[2]
           g == r[1]
<1>12. /\ q \in Phrase /\ q \notin g.free /\ Good(g, n, {q}, {}) /\ g.val = h.val
       /\ \A p \in Phrase : g.content[p] # h.content[p] => p \in h.free \/ (p = sd /\ n[sd] = 0)
  BY <1>11 DEF IsChanged
<1>13. MayPush(t, Incr([g EXCEPT !.val[s] = q], q), 2, Nil)
  BY <1>3
<1> HIDE DEF q, g
<1>14. Good(g, N(none, E), {q}, {}) /\ Sets(g.val, s, Nil, none)
  BY <1>7, <1>10, <1>12 DEF n
<1>15. ValuesInv' /\ heap'.content = g.content
  BY <1>1, <1>4, <1>6, <1>12, <1>13, <1>14, Assigned DEF s, E
<1>16. \A p \in Phrase : heap'.content[p] # heap.content[p] => p \in heap.free \/ N(none, E)[p] = 0
  BY <1>7, <1>10, <1>12, <1>15 DEF n
<1>17. ChangesPrivate
  BY <1>1, <1>4, <1>8, <1>13, <1>16, AssignedPrivate DEF s, E
<1> QED BY <1>15, <1>17

-----------------------------------------------------------------------------
(* The invariant of the specification, and what it says                         *)

LEMMA InitInv == Init => ValuesInv
<1> SUFFICES ASSUME Init PROVE ValuesInv
  OBVIOUS
<1> DEFINE h == heap
           n == N(h.val, stack)
<1>1. h \in HeapType
  <2>1. 0 \in {0, 1} /\ Nil \in Value /\ <<>> \in Seq(Arr) /\ Counted \subseteq Counted
    BY DEF Value
  <2> QED BY <2>1 DEF Init, HeapType
<1>2. stack \in StacksType
  BY DEF Init, StacksType
<1>3. ASSUME NEW v \in Counted PROVE n[v] = 0
  <2>1. \A s \in Symbol : h.val[s] # v
    BY ValuesAssumption DEF Init
  <2>2. \A t \in Task : DOMAIN stack[t] = {}
    BY DEF Init
  <2>3. PlacesIn(h.val, stack, v) = {}
    BY <2>1, <2>2, PlaceIs
  <2> QED BY <2>3, FS_EmptySet DEF N
<1>4. n \in [Counted -> Nat]
  BY <1>2, NType
<1>5. /\ \A v \in Counted : h.uses[v] = 0 /\ h.lost[v] = 0
      /\ h.free = Counted /\ h.phs = {} /\ h.marked = {} /\ h.hts = <<>>
  BY DEF Init
<1> HIDE DEF h, n
<1>6. Books(h, n)
  BY <1>3, <1>4, <1>5 DEF Books
<1>7. Listed(h, {}, {})
  <2>1. ToSet(h.hts) = {} /\ IsInjective(h.hts)
    BY <1>5 DEF ToSet, IsInjective
  <2> QED BY <1>5, <2>1 DEF Listed
<1> QED BY <1>1, <1>2, <1>6, <1>7 DEF ValuesInv, Sound, Good, h, n

LEMMA QuietPrivate ==
  ASSUME Quiet PROVE ChangesPrivate
BY DEF Quiet, ChangesPrivate, Changes

(* Every step keeps the invariant, and changes the notes of private phrases only. *)
LEMMA NextStep ==
  ASSUME ValuesInv, Next PROVE ValuesInv' /\ ChangesPrivate
<1>1. CASE Sweep
  BY <1>1, SweepStep DEF ChangesPrivate, Changes
<1>2. ASSUME NEW t \in Task,
             NewPhrase(t) \/ Array(t) \/ Constant(t) \/ VarEval(t) \/ VarPush(t)
      PROVE  ValuesInv' /\ ChangesPrivate
  BY <1>2, QuietPrivate, NewPhraseStep, ArrayStep, ConstantStep, VarEvalStep, VarPushStep
<1>3. ASSUME NEW t \in Task, ArrEnd(t) \/ ArrayPush(t) \/ Assign(t) \/ PopIgnore(t)
      PROVE  ValuesInv' /\ ChangesPrivate
  BY <1>3, QuietPrivate, ArrEndStep, ArrayPushStep, AssignStep, PopIgnoreStep
<1>4. ASSUME NEW t \in Task, DeleteArrItem(t) \/ DeleteIt(t) \/ Kill(t)
      PROVE  ValuesInv' /\ ChangesPrivate
  BY <1>4, QuietPrivate, DeleteArrItemStep, DeleteItStep, KillStep
<1>5. ASSUME NEW t \in Task, Operate(t) \/ OpAssign(t) \/ DotAssign(t) \/ ModAssign(t)
      PROVE  ValuesInv' /\ ChangesPrivate
  BY <1>5, OperateStep, OpAssignStep, DotAssignStep, ModAssignStep
<1> QED BY <1>1, <1>2, <1>3, <1>4, <1>5 DEF Next

LEMMA AlwaysInv == Spec => []ValuesInv
<1>1. ValuesInv /\ [Next]_vars => ValuesInv'
  <2> SUFFICES ASSUME ValuesInv, [Next]_vars PROVE ValuesInv'
    OBVIOUS
  <2>1. CASE Next
    BY <2>1, NextStep
  <2>2. CASE UNCHANGED vars
    BY <2>2 DEF vars, ValuesInv
  <2> QED BY <2>1, <2>2
<1> QED BY <1>1, InitInv, PTL DEF Spec

LEMMA InvGives ==
  ASSUME ValuesInv
  PROVE  /\ heap \in HeapType /\ stack \in StacksType
         /\ CountsExact /\ NoDangling /\ NothingForgotten
<1> DEFINE n == N(heap.val, stack)
<1>1. Good(heap, n, {}, {}) /\ heap \in HeapType /\ stack \in StacksType
  BY SoundTypes DEF ValuesInv, Sound
<1>2. Books(heap, n) /\ Listed(heap, {}, {}) /\ heap.free \subseteq Counted
  BY <1>1, HeapFields DEF Good
<1>3. \A v \in Counted : Refs(v) = n[v]
  BY DEF Refs, Places, N
<1> HIDE DEF n
<1>4. CountsExact
  BY <1>2, <1>3 DEF CountsExact, Books
<1>5. NoDangling
  BY <1>2, <1>3 DEF NoDangling, Books
<1>6. NothingForgotten
  BY <1>2 DEF NothingForgotten, Listed
<1> QED BY <1>1, <1>4, <1>5, <1>6

-----------------------------------------------------------------------------
(* The lists hold arrays and phrases, a stack holds values and pointers to
   symbols, and what a symbol holds is always a value.                          *)
THEOREM ValuesTypeCorrect == Spec => [](heap \in HeapType /\ stack \in StacksType)
<1> QED BY InvGives, AlwaysInv, PTL

(* phincruse(), phdecruse(), arrincruse() and arrdecruse() keep count: p_used + p_tobe
   is the number of symbols and stack items the phrase is in, and the references
   that were overwritten or dropped without a decrement; it is never too small.  *)
THEOREM CountsCorrect == Spec => []CountsExact
<1> QED BY InvGives, AlwaysInv, PTL

(* phcheck() and htcheck() give back nothing that a symbol or a stack still holds, so
   newph() and newht() never hand it out a second time.                         *)
THEOREM NoneDangling == Spec => []NoDangling
<1> QED BY InvGives, AlwaysInv, PTL

(* What nobody counts on any more is free or on Tobechecked or Htobechecked, and h_state
   tells httobechecked() the truth: freeht(), called from the loop of htcheck(), puts
   nothing on the list twice and leaves nothing out.                             *)
THEOREM NoneForgotten == Spec => []NothingForgotten
<1> QED BY InvGives, AlwaysInv, PTL

(* phresh() copies a phrase that anybody else can see: no operator changes the notes
   of a phrase through one variable while another variable or a stack holds it.   *)
THEOREM ContentsSafe == Spec => ContentsPrivate
<1> DEFINE A == \A p \in Phrase \ heap.free :
                  heap'.content[p] # heap.content[p] /\ p \notin heap'.free
                    => Cardinality(Places(p) \cap Places(p)') <= 1
<1>1. ValuesInv /\ [Next]_vars => [A]_vars
  <2> SUFFICES ASSUME ValuesInv, Next PROVE A
    OBVIOUS
  <2>1. ChangesPrivate
    BY NextStep
  <2> QED BY <2>1 DEF ChangesPrivate, Changes
<1>2. [][A]_vars => ContentsPrivate
  BY DEF ContentsPrivate
<1> HIDE DEF A
<1> QED BY <1>1, <1>2, AlwaysInv, PTL DEF Spec
=============================================================================
