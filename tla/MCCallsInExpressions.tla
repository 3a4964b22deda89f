------------------------ MODULE MCCallsInExpressions ------------------------
EXTENDS CallsInExpressions

(* h calls nothing, an f may call h, a g takes two arguments and may call  *)
(* one of the f.                                                           *)
Fs == {"f1", "f2", "f3", "f4"}
CallingF == [f1 |-> {"g1", "g2", "g3"}, f2 |-> {"g1", "g4", "g5"},
             f3 |-> {"g1", "g6", "g7"}, f4 |-> {"g1", "g8", "g9"}]
Gs == UNION {CallingF[f] : f \in Fs}
SomeFunctions == {"h"} \union Fs \union Gs

Parameters == [f \in SomeFunctions |-> IF f \in Gs THEN 2 ELSE 1]

P == Param(1)
Q == Param(2)
H(a) == Call("h", <<a>>)
Plainly(f) == Binary(Call(f, <<P>>), Q)
Crossed(f) == Binary(H(Q), Call(f, <<P>>))
Returned ==
    [h  |-> Binary(P, Literal(1)),
     f1 |-> Binary(P, P), f2 |-> Binary(H(P), P),
     f3 |-> H(H(P)),      f4 |-> Binary(H(P), H(Literal(2))),
     g1 |-> Binary(P, Q),
     g2 |-> Plainly("f1"), g3 |-> Crossed("f1"), g4 |-> Plainly("f2"), g5 |-> Crossed("f2"),
     g6 |-> Plainly("f3"), g7 |-> Crossed("f3"), g8 |-> Plainly("f4"), g9 |-> Crossed("f4")]

Once(f, g, small) ==
    {Call(k, <<a>>) : k \in {f, "h"}, a \in small}
    \union {Call(g, <<a, b>>) : a, b \in small}
    \union {Binary(a, b) : a, b \in small}

(* Two levels of calls, and three along one argument.                      *)
Shallow(f, g) == Once(f, g, {Literal(1)}) \union {Literal(2), Text(H(Literal(1)))}
Deep(f, g) == Once(f, g, Shallow(f, g)) \union {Text(e) : e \in Shallow(f, g)}
Deeper(f, g) ==
    {Call(g, <<a, Call(g, <<Literal(2), b>>)>>) : a, b \in Shallow(f, g)}
    \union {Binary(H(a), b) : a, b \in Once(f, g, {Literal(2), Call(f, <<Literal(1)>>)})}

Using(f, g) ==
    [statement : {"let"}, e : Deep(f, g) \union Deeper(f, g), raising : {{}, {"h"}, {f}}]
    \union [statement : {"if"}, e : Shallow(f, g), raising : {{}, {"h"}}]
SmallCallPrograms == UNION {UNION {Using(f, g) : g \in CallingF[f]} : f \in Fs}
=============================================================================
