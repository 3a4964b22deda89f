---------------------------- MODULE MCCursorLoop ----------------------------
(* Instances of CursorLoop: result sets of at most four rows, bounds below, *)
(* at and above that size, rowsets that divide it and that do not.          *)
EXTENDS CursorLoop

Plain(limit, rowset) ==
    [limit |-> limit, rowset |-> rowset, start |-> 1, backward |-> FALSE,
     executes |-> FALSE, commits |-> FALSE, raises |-> FALSE, warns |-> FALSE]

Variants(l) == { [l EXCEPT !.commits = c, !.raises = r] : c \in BOOLEAN, r \in BOOLEAN }

OneByOne == UNION { Variants(Plain(limit, 0)) : limit \in 1..5 }
Scrolled == { [Plain(limit, 0) EXCEPT !.start = start, !.backward = backward] :
                limit \in {2, 5}, start \in -5..5, backward \in BOOLEAN }
Rowsets  == { [l EXCEPT !.warns = w] :
                l \in UNION { Variants(Plain(limit, rowset)) : limit \in 1..5, rowset \in 2..3 },
                w \in BOOLEAN }
Touched  == { [l EXCEPT !.executes = TRUE] : l \in OneByOne \union Rowsets }
Warned   == { [l EXCEPT !.warns = TRUE] : l \in OneByOne }

AllLoops == OneByOne \union Scrolled \union Rowsets \union Touched \union Warned
Unwarned == { l \in Rowsets : ~ l.warns }
=============================================================================
