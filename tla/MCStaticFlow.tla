---------------------------- MODULE MCStaticFlow ----------------------------
EXTENDS StaticFlow, SequencesExt

UpTo(S, n) == BoundedSeq(S, n)
Doing == {Plain(k) : k \in Effects}
Ending == {Plain(k) : k \in Ends}
Short == UpTo(Doing, 1)
Arms == UpTo(Doing, 2) \union {<<e>> : e \in Ending}
         \union {<<s, e>> : s \in Doing, e \in {Plain("raise")}}

(* One branching statement, of arms without one. *)
Branches(conds, arms, small) ==
    {Node("if", c, <<a>>) : c \in conds, a \in arms}
    \union {Node("if", c, <<a, b>>) : c \in conds, a \in small, b \in small}
    \union {Node("while", c, <<a>>) : c \in conds, a \in arms}
    \union {Node("each", "other", <<a>>) : a \in arms}
    \union {Node("switch", c, <<a, b>>) : c \in {"status", "other"}, a \in small, b \in small}

(* Two levels of them. *)
Inner == Branches({"status", "present"}, Short, {<< >>, <<Plain("raise")>>})
Outer == {Node("if", "present", <<pre \o <<b>> >>) : pre \in Short, b \in Inner}
         \union {Node("while", c, << <<b>> \o post >>) : c \in {"status", "other"}, b \in Inner, post \in Short}
         \union {Node("if", "other", << <<b>>, <<e>> >>) : b \in Inner, e \in Ending}

Endings == Short \union {<<e>> : e \in Ending}
Bodies == { p \o <<b>> \o q : p \in Short, b \in Branches(Conditions, Arms, Endings) \union Outer, q \in Endings }

(* A record read and tested, then used in a loop that goes on to something *)
(* else, another read among others.                                        *)
Primed == <<Plain("read"), Node("if", "status", << <<Plain("raise")>> >>)>>
PrimedLoops ==
    { Primed \o <<Node("while", "other", << <<Plain("use"), s>> >>), e>> : s \in Doing, e \in Ending }
=============================================================================
