------------------------------ MODULE MCFrames ------------------------------
(* A program for Frames: calls with arguments missing and to spare, recursion,
   loops in loops, returns and a break from inside them, eval, select expressions
   within each other.                                                         *)
EXTENDS Frames

I(op, n)      == [op |-> op, n |-> n, n2 |-> 0]
I2(op, n, n2) == [op |-> op, n |-> n, n2 |-> n2]
Fn(params, locals, body) == [params |-> params, locals |-> locals, body |-> body]

(* function main() { x = 'a'; y = f(x);  $1.g([..], x, 3) } *)
main == Fn(0, 2, <<
  I("linenum", 1), I("varpush", -1), I("thing", 1), I("varassign", 0),
  I("linenum", 2), I("varpush", -2), I("prefunc", 2), I("vareval", -1),
  I("constant", 1), I("callfunc", 0), I("varassign", 0),
  I("linenum", 3), I2("prefunc", 3, 1), I("thing", 2), I("vareval", -1),
  I("constant", 3), I("constant", 3), I("callfunc", 0), I("popignore", 0),
  I("return", 0) >>)

(* function f(p) { if (..) p = 5
     for ( i in 'a' ) {
       for ( j in [..] ) if (..) return(j)
       3 + { if (..) break } }
     if (..) return(f(p)) }                                                   *)
f == Fn(1, 2, <<
  I("linenum", 11), I("constant", 1), I("tcond", 7),
  I("varpush", 1), I("constant", 5), I("varassign", 0),
  I("thing", 1), I2("forin1", -1, 25), I("forin2", 0),
  I("thing", 2), I2("forin1", -2, 18), I("forin2", 0),
  I("constant", 1), I("tcond", 17), I("vareval", -2), I("returnv", 0),
  I("goto", 12), I("forinend", 0),
  I("constant", 3), I("constant", 1), I("tcond", 23), I("goto", 25), I("popignore", 0),
  I("goto", 9), I("forinend", 0),
  I("constant", 1), I("tcond", 33),
  I("linenum", 12), I("prefunc", 2), I("vareval", 1), I("constant", 1), I("callfunc", 0),
  I("returnv", 0) >>)

(* function g(a, ...) { return(h(...)) } *)
g == Fn(1, 0, <<
  I("linenum", 21), I("prefunc", 4), I("dotdotarg", 0), I("callfunc", 0), I("returnv", 0) >>)

(* function h(u, v, w) { t = nargs(); eval "k()"; return(v) } *)
h == Fn(3, 1, <<
  I("linenum", 31), I("varpush", -1), I("nargs", 0), I("varassign", 0),
  I("eval", 5), I("popignore", 0), I("vareval", 2), I("returnv", 0) >>)

k_eval == Fn(0, 0, <<
  I("pushinfo", 41), I("prefunc", 6), I("constant", 0), I("callfunc", 0), I("popignore", 0),
  I("popinfo", 0), I("stop", 0) >>)

(* function k(a) { 'a'{ ??.number }  return() } *)
k == Fn(1, 0, <<
  I("linenum", 51), I("thing", 1), I("select1", 0), I("select2", 8),
  I("qmark", 0), I("dotnumber", 0), I("select3", 4),
  I("popignore", 0), I("return", 0) >>)

ipop == Fn(0, 0, << I("popignore", 0), I("stop", 0) >>)

(* onexit: function e(a) { return('a'{ g(1, 'a', 5) + ??.number }) } *)
e == Fn(1, 0, <<
  I("linenum", 61), I("thing", 1), I("select1", 0), I("select2", 15),
  I("prefunc", 3), I("constant", 1), I("thing", 1), I("constant", 5), I("constant", 3),
  I("callfunc", 0), I("qmark", 0), I("dotnumber", 0), I("add", 0), I("select3", 4),
  I("returnv", 0) >>)

MCCode == << main, f, g, h, k_eval, k, ipop, e >>
=============================================================================
