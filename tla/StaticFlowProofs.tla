-------------------------- MODULE StaticFlowProofs --------------------------
(***************************************************************************)
(* That a program the walks accept does not go wrong when it is run: for   *)
(* every set of bodies, of any height and any length, run along any path,  *)
(* as often round its loops as it likes.                                   *)
(*                                                                         *)
(* First the trees.  A walk is a recursive function over them; that there  *)
(* is one follows from their heights (WalksExist), and what holds of a     *)
(* tree if it holds of all lower ones holds of all (TreeInduction).        *)
(*                                                                         *)
(* Then the runs.  What is left to run is a stack of blocks of the tree,   *)
(* and each invariant says of that stack what the walk said of the body:   *)
(* every block on it is Covered, every one that takes a value is proven    *)
(* (ValuesCovered), some one of them ends the function (SomeEnds), and     *)
(* walking them one after another accounts for the outcome that is owed    *)
(* (Settles).                                                              *)
(***************************************************************************)
EXTENDS StaticFlow, NaturalSets

-----------------------------------------------------------------------------
(* Trees.                                                                  *)
LEMMA BlocksExist ==
    \A n \in 0..FlowHeight : Blocks[n] = IF n = 0 THEN {<< >>} ELSE Higher(Blocks[n - 1])
<1> DEFINE Of(g, m) == g = [n \in 0..m |-> IF n = 0 THEN {<< >>} ELSE Higher(g[n - 1])]
           I == {m \in Nat : \E g : Of(g, m)}
<1>1. 0 \in I
  <2>1. Of([n \in 0..0 |-> {<< >>}], 0)
      OBVIOUS
  <2> QED
      BY <2>1
<1>2. ASSUME NEW m \in I PROVE m + 1 \in I
  <2>1. PICK g : Of(g, m)
      OBVIOUS
  <2> DEFINE h == [n \in 0..m + 1 |-> IF n = m + 1 THEN Higher(g[m]) ELSE g[n]]
  <2>2. \A n \in 0..m + 1 : h[n] = IF n = 0 THEN {<< >>} ELSE Higher(h[n - 1])
    <3> TAKE n \in 0..m + 1
    <3>1. CASE n = m + 1
        BY <3>1
    <3>2. CASE n # m + 1
      <4>1. n \in 0..m /\ (n # 0 => n - 1 \in 0..m + 1 /\ n - 1 # m + 1)
          BY <3>2
      <4>2. g[n] = IF n = 0 THEN {<< >>} ELSE Higher(g[n - 1])
          BY <2>1, <4>1
      <4> QED
          BY <3>2, <4>1, <4>2
    <3> QED
        BY <3>1, <3>2
  <2>3. Of(h, m + 1)
      BY <2>2
  <2>4. \E f : Of(f, m + 1)
    <3> HIDE DEF h
    <3> QED
        BY Zenon, <2>3
  <2>5. m + 1 \in Nat
      OBVIOUS
  <2> QED
      BY <2>4, <2>5
<1>3. FlowHeight \in I
    BY <1>1, <1>2, InductionOfSets, FlowAssumption
<1>4. \E g : g = [n \in 0..FlowHeight |-> IF n = 0 THEN {<< >>} ELSE Higher(g[n - 1])]
    BY <1>3
<1>5. Blocks = [n \in 0..FlowHeight |-> IF n = 0 THEN {<< >>} ELSE Higher(Blocks[n - 1])]
    BY Zenon, <1>4 DEF Blocks
<1> QED
    BY <1>5

LEMMA Highers ==
    ASSUME NEW S, NEW block \in Higher(S), block # << >>
    PROVE  /\ block \in Seq(Nodes(S))
           /\ Head(block) \in Nodes(S)
           /\ Formed(Head(block))
           /\ Tail(block) \in S
<1>1. block \in Seq(Nodes(S)) /\ Formed(Head(block)) /\ Tail(block) \in S
    BY DEF Higher
<1> QED
    BY <1>1

LEMMA HigherGrows ==
    ASSUME NEW S, NEW T, S \subseteq T
    PROVE  Higher(S) \subseteq Higher(T)
<1>1. Nodes(S) \subseteq Nodes(T)
    BY DEF Nodes
<1>2. Seq(Nodes(S)) \subseteq Seq(Nodes(T))
    BY <1>1
<1> QED
    BY <1>2 DEF Higher

LEMMA LevelsGrow ==
    ASSUME NEW n \in 0..FlowHeight, NEW m \in 0..n
    PROVE  Blocks[m] \subseteq Blocks[n]
<1> DEFINE I == {k \in Nat : k + 1 <= FlowHeight => Blocks[k] \subseteq Blocks[k + 1]}
<1> USE FlowAssumption
<1>1. 0 \in I
  <2> SUFFICES ASSUME 1 <= FlowHeight PROVE Blocks[0] \subseteq Blocks[1]
      OBVIOUS
  <2>1. Blocks[0] = {<< >>} /\ Blocks[1] = Higher({<< >>})
      BY BlocksExist
  <2>2. << >> \in Higher({<< >>})
      BY DEF Higher
  <2> QED
      BY <2>1, <2>2
<1>2. ASSUME NEW k \in I PROVE k + 1 \in I
  <2> SUFFICES ASSUME k + 2 <= FlowHeight PROVE Blocks[k + 1] \subseteq Blocks[k + 2]
      OBVIOUS
  <2>1. k + 1 \in 0..FlowHeight /\ k + 1 # 0 /\ (k + 1) - 1 = k
      OBVIOUS
  <2>2. k + 2 \in 0..FlowHeight /\ k + 2 # 0 /\ (k + 2) - 1 = k + 1
      OBVIOUS
  <2>3. Blocks[k + 1] = Higher(Blocks[k])
      BY <2>1, BlocksExist
  <2>4. Blocks[k + 2] = Higher(Blocks[k + 1])
      BY <2>2, BlocksExist
  <2>5. Blocks[k] \subseteq Blocks[k + 1]
      BY <2>1
  <2> QED
      BY <2>3, <2>4, <2>5, HigherGrows
<1>3. I = Nat
    BY <1>1, <1>2, InductionOfSets
<1> DEFINE J == {j \in Nat : m + j <= FlowHeight => Blocks[m] \subseteq Blocks[m + j]}
<1>4. 0 \in J
    OBVIOUS
<1>5. ASSUME NEW j \in J PROVE j + 1 \in J
  <2>1. m + j \in I
      BY <1>3
  <2>2. m + (j + 1) = (m + j) + 1
      OBVIOUS
  <2> QED
      BY <2>1, <2>2
<1>6. J = Nat
  <2> HIDE DEF J
  <2>1. J \in SUBSET Nat
      BY DEF J
  <2> QED
      BY <1>4, <1>5, <2>1, InductionOfSets
<1>7. n - m \in Nat /\ m + (n - m) = n /\ n <= FlowHeight
    OBVIOUS
<1>8. n - m \in J
    BY <1>6, <1>7
<1> QED
    BY <1>7, <1>8

(* How high a tree is, and what it is made of: lower trees.                *)
Height == [block \in FlowBlocks |->
    CHOOSE n \in 0..FlowHeight :
        block \in Blocks[n] /\ \A m \in 0..FlowHeight : block \in Blocks[m] => n <= m]

Lower(block) == {other \in FlowBlocks : Height[other] < Height[block]}

LEMMA Heights ==
    /\ Height \in [FlowBlocks -> Nat]
    /\ \A block \in FlowBlocks :
          /\ Height[block] \in 0..FlowHeight
          /\ block \in Blocks[Height[block]]
          /\ \A m \in 0..FlowHeight : block \in Blocks[m] => Height[block] <= m
<1>1. ASSUME NEW block \in FlowBlocks
      PROVE  \E n \in 0..FlowHeight :
                 block \in Blocks[n] /\ \A m \in 0..FlowHeight : block \in Blocks[m] => n <= m
  <2> DEFINE I == {n \in 0..FlowHeight : block \in Blocks[n]}
  <2>1. FlowHeight \in I /\ I \in SUBSET Nat
      BY FlowAssumption DEF FlowBlocks
  <2>2. \E n \in I : \A m \in I : n <= m
    <3> HIDE DEF I
    <3> QED
        BY <2>1, LeastNatural
  <2> QED
      BY <2>2
<1>2. ASSUME NEW block \in FlowBlocks
      PROVE  /\ Height[block] \in 0..FlowHeight
             /\ block \in Blocks[Height[block]]
             /\ \A m \in 0..FlowHeight : block \in Blocks[m] => Height[block] <= m
    BY <1>1 DEF Height
<1>3. Height = [block \in FlowBlocks |-> Height[block]]
    BY DEF Height
<1> QED
    BY <1>2, <1>3, FlowAssumption

LEMMA Parts ==
    ASSUME NEW block \in FlowBlocks, block # << >>
    PROVE  /\ block \in Seq(Nodes(FlowBlocks))
           /\ Head(block) \in Nodes(FlowBlocks)
           /\ Formed(Head(block))
           /\ Tail(block) \in Lower(block)
           /\ \A k \in 1..Len(Head(block).arms) : Head(block).arms[k] \in Lower(block)
<1> DEFINE n == Height[block]
<1> USE FlowAssumption
<1>1. n \in 0..FlowHeight /\ block \in Blocks[n]
    BY Heights
<1>2. n # 0
  <2>1. Blocks[0] = {<< >>}
      BY BlocksExist
  <2> QED
      BY <1>1, <2>1
<1> DEFINE S == Blocks[n - 1]
<1>3. Blocks[n] = Higher(S)
    BY <1>1, <1>2, BlocksExist
<1>4. n - 1 \in 0..FlowHeight /\ n - 1 < n
    BY <1>1, <1>2
<1>5. S \subseteq FlowBlocks
  <2>1. FlowHeight \in 0..FlowHeight /\ n - 1 \in 0..FlowHeight
      BY <1>4
  <2> HIDE DEF n
  <2> QED
      BY <2>1, LevelsGrow DEF FlowBlocks
<1>6. S \subseteq Lower(block)
  <2> SUFFICES ASSUME NEW other \in S PROVE Height[other] < Height[block]
      BY <1>5 DEF Lower
  <2>1. other \in FlowBlocks /\ other \in Blocks[n - 1]
      BY <1>5
  <2>2. Height[other] <= n - 1 /\ Height[other] \in 0..FlowHeight
    <3> HIDE DEF n
    <3> QED
        BY <1>4, <2>1, Heights
  <2> QED
      BY <1>1, <1>4, <2>2
<1>7. /\ block \in Seq(Nodes(S)) /\ Head(block) \in Nodes(S)
      /\ Formed(Head(block)) /\ Tail(block) \in S
  <2> HIDE DEF S
  <2> QED
      BY <1>1, <1>3, Highers
<1> HIDE DEF S
<1>8. Nodes(S) \subseteq Nodes(FlowBlocks)
    BY <1>5 DEF Nodes
<1>9. Seq(Nodes(S)) \subseteq Seq(Nodes(FlowBlocks))
    BY <1>8
<1>10. \A k \in 1..Len(Head(block).arms) : Head(block).arms[k] \in S
  <2>1. Head(block).arms \in Seq(S)
      BY <1>7 DEF Nodes
  <2> QED
      BY <2>1
<1> QED
    BY <1>6, <1>7, <1>8, <1>9, <1>10

(* A walk of trees that looks at a block's parts is well defined.          *)
Walks(Phi, V) ==
    /\ Phi \in [[FlowBlocks -> V] -> [FlowBlocks -> V]]
    /\ \A block \in FlowBlocks : \A f, g \in [FlowBlocks -> V] :
          (\A other \in Lower(block) : f[other] = g[other]) => Phi[f][block] = Phi[g][block]

LEMMA WalksExist ==
    ASSUME NEW V, NEW a \in V, NEW Phi, Walks(Phi, V)
    PROVE  \E f \in [FlowBlocks -> V] : f = Phi[f]
<1>1. Height \in [FlowBlocks -> 0..FlowHeight] /\ FlowHeight \in Nat
    BY Heights, FlowAssumption
<1>2. LooksBelow(Phi, FlowBlocks, V, Height)
    BY DEF Walks, Lower, LooksBelow
<1> QED
    BY <1>1, <1>2, RecursionExists

(* Two functions that are alike at a block when they are alike below it    *)
(* are alike.                                                              *)
LEMMA WalksAgree ==
    ASSUME NEW f, NEW g,
           \A block \in FlowBlocks :
               (\A other \in Lower(block) : f[other] = g[other]) => f[block] = g[block]
    PROVE  \A block \in FlowBlocks : f[block] = g[block]
<1> DEFINE I == {Height[block] : block \in {b \in FlowBlocks : f[b] # g[b]}}
<1>1. SUFFICES ASSUME I # {} PROVE FALSE
    OBVIOUS
<1>2. I \in SUBSET Nat
    BY Heights
<1>3. PICK n \in I : \A m \in I : n <= m
  <2> HIDE DEF I
  <2> QED
      BY <1>1, <1>2, LeastNatural
<1>4. PICK block \in FlowBlocks : f[block] # g[block] /\ Height[block] = n
    BY <1>3
<1>5. \A other \in Lower(block) : f[other] = g[other]
  <2> SUFFICES ASSUME NEW other \in FlowBlocks, Height[other] < n, f[other] # g[other]
               PROVE  FALSE
      BY <1>4 DEF Lower
  <2>1. Height[other] \in I
      OBVIOUS
  <2>2. n <= Height[other]
      BY <1>3, <2>1
  <2>3. n \in Nat /\ Height[other] \in Nat
      BY <1>2, <1>3, <2>1
  <2> QED
      BY <2>2, <2>3
<1> QED
    BY <1>4, <1>5

(* What holds of a tree when it holds of lower ones holds of all.          *)
LEMMA TreeInduction ==
    ASSUME NEW S, \A block \in FlowBlocks : Lower(block) \subseteq S => block \in S
    PROVE  FlowBlocks \subseteq S
<1> DEFINE f == [block \in FlowBlocks |-> block \in S]
           g == [block \in FlowBlocks |-> TRUE]
<1>1. ASSUME NEW block \in FlowBlocks, \A other \in Lower(block) : f[other] = g[other]
      PROVE  f[block] = g[block]
    BY <1>1 DEF Lower
<1> HIDE DEF f, g
<1>2. \A block \in FlowBlocks : f[block] = g[block]
    BY <1>1, WalksAgree
<1> QED
    BY <1>2 DEF f, g

LEMMA ReadsBefore ==
    /\ ReadBeforeUpdate \in [FlowBlocks -> BOOLEAN]
    /\ \A block \in FlowBlocks :
          ReadBeforeUpdate[block] /\ block # << >> /\ ~ Covers(Head(block)) =>
              /\ Head(block).kind # "rewrite"
              /\ \A k \in 1..Len(Head(block).arms) : ReadBeforeUpdate[Head(block).arms[k]]
              /\ ReadBeforeUpdate[Tail(block)]
<1> DEFINE Body(f, block) ==
               block # << >> =>
                   \/ Covers(Head(block))
                   \/ /\ Head(block).kind # "rewrite"
                      /\ \A k \in 1..Len(Head(block).arms) : f[Head(block).arms[k]]
                      /\ f[Tail(block)]
           Phi == [f \in [FlowBlocks -> BOOLEAN] |-> [block \in FlowBlocks |-> Body(f, block)]]
<1>1. \A block \in FlowBlocks : \A f, g \in [FlowBlocks -> BOOLEAN] :
          (\A other \in Lower(block) : f[other] = g[other]) => Body(f, block) = Body(g, block)
    BY Parts
<1>2. PICK r \in [FlowBlocks -> BOOLEAN] : r = Phi[r]
  <2>1. Phi \in [[FlowBlocks -> BOOLEAN] -> [FlowBlocks -> BOOLEAN]]
      OBVIOUS
  <2>2. \A block \in FlowBlocks : \A f, g \in [FlowBlocks -> BOOLEAN] :
            (\A other \in Lower(block) : f[other] = g[other]) => Phi[f][block] = Phi[g][block]
      BY <1>1
  <2> HIDE DEF Phi
  <2>3. Walks(Phi, BOOLEAN)
      BY <2>1, <2>2 DEF Walks
  <2> QED
      BY <2>3, WalksExist
<1>3. r = [block \in FlowBlocks |-> Body(r, block)]
    BY <1>2
<1>4. ReadBeforeUpdate = [block \in FlowBlocks |-> Body(ReadBeforeUpdate, block)]
    BY Zenon, <1>3 DEF ReadBeforeUpdate
<1> QED
    BY <1>4

LEMMA GuardedValues ==
    /\ ValuesGuarded \in [FlowBlocks -> BOOLEAN]
    /\ \A block \in FlowBlocks :
          ValuesGuarded[block] /\ block # << >> =>
              /\ Head(block).kind # "value"
              /\ \A k \in 1..Len(Head(block).arms) :
                    Proven(Head(block), k) \/ ValuesGuarded[Head(block).arms[k]]
              /\ ValuesGuarded[Tail(block)]
<1> DEFINE Body(f, block) ==
               block # << >> =>
                   /\ Head(block).kind # "value"
                   /\ \A k \in 1..Len(Head(block).arms) :
                         Proven(Head(block), k) \/ f[Head(block).arms[k]]
                   /\ f[Tail(block)]
           Phi == [f \in [FlowBlocks -> BOOLEAN] |-> [block \in FlowBlocks |-> Body(f, block)]]
<1>1. \A block \in FlowBlocks : \A f, g \in [FlowBlocks -> BOOLEAN] :
          (\A other \in Lower(block) : f[other] = g[other]) => Body(f, block) = Body(g, block)
    BY Parts
<1>2. PICK r \in [FlowBlocks -> BOOLEAN] : r = Phi[r]
  <2>1. Phi \in [[FlowBlocks -> BOOLEAN] -> [FlowBlocks -> BOOLEAN]]
      OBVIOUS
  <2>2. \A block \in FlowBlocks : \A f, g \in [FlowBlocks -> BOOLEAN] :
            (\A other \in Lower(block) : f[other] = g[other]) => Phi[f][block] = Phi[g][block]
      BY <1>1
  <2> HIDE DEF Phi
  <2>3. Walks(Phi, BOOLEAN)
      BY <2>1, <2>2 DEF Walks
  <2> QED
      BY <2>3, WalksExist
<1>3. r = [block \in FlowBlocks |-> Body(r, block)]
    BY <1>2
<1>4. ValuesGuarded = [block \in FlowBlocks |-> Body(ValuesGuarded, block)]
    BY Zenon, <1>3 DEF ValuesGuarded
<1> QED
    BY <1>4

LEMMA PathsEnd ==
    /\ EndsOnEveryPath \in [FlowBlocks -> BOOLEAN]
    /\ \A block \in FlowBlocks :
          EndsOnEveryPath[block] =>
              /\ block # << >>
              /\ \/ /\ Head(block).kind = "if" /\ Len(Head(block).arms) = 1
                    /\ EndsOnEveryPath[Head(block).arms[1]] /\ EndsOnEveryPath[Tail(block)]
                 \/ Head(block).kind \notin {"if"} \union Ends /\ EndsOnEveryPath[Tail(block)]
                 \/ Head(block).kind \in Ends
                 \/ /\ HasElse(Head(block))
                    /\ \A k \in 1..Len(Head(block).arms) : EndsOnEveryPath[Head(block).arms[k]]
<1> DEFINE Body(f, block) ==
               /\ block # << >>
               /\ LET st   == Head(block)
                      last == Tail(block) = << >>
                  IN  \/ IsGuardClause(st) /\ f[st.arms[1]] /\ f[Tail(block)]
                      \/ IsEffect(st) /\ f[Tail(block)]
                      \/ last /\ st.kind \in Ends
                      \/ /\ last /\ HasElse(st)
                         /\ \A k \in 1..Len(st.arms) : f[st.arms[k]]
           Phi == [f \in [FlowBlocks -> BOOLEAN] |-> [block \in FlowBlocks |-> Body(f, block)]]
<1>1. \A block \in FlowBlocks : \A f, g \in [FlowBlocks -> BOOLEAN] :
          (\A other \in Lower(block) : f[other] = g[other]) => Body(f, block) = Body(g, block)
    BY Parts DEF IsGuardClause
<1>2. PICK r \in [FlowBlocks -> BOOLEAN] : r = Phi[r]
  <2>1. Phi \in [[FlowBlocks -> BOOLEAN] -> [FlowBlocks -> BOOLEAN]]
      OBVIOUS
  <2>2. \A block \in FlowBlocks : \A f, g \in [FlowBlocks -> BOOLEAN] :
            (\A other \in Lower(block) : f[other] = g[other]) => Phi[f][block] = Phi[g][block]
      BY <1>1
  <2> HIDE DEF Phi
  <2>3. Walks(Phi, BOOLEAN)
      BY <2>1, <2>2 DEF Walks
  <2> QED
      BY <2>3, WalksExist
<1>3. r = [block \in FlowBlocks |-> Body(r, block)]
    BY <1>2
<1>4. EndsOnEveryPath = [block \in FlowBlocks |-> Body(EndsOnEveryPath, block)]
    BY Zenon, <1>3 DEF EndsOnEveryPath
<1>5. \A block \in FlowBlocks : EndsOnEveryPath[block] = Body(EndsOnEveryPath, block)
    BY <1>4
<1>6. EndsOnEveryPath \in [FlowBlocks -> BOOLEAN]
    BY <1>4
<1> QED
    BY <1>5, <1>6 DEF IsGuardClause, IsEffect

Parsed == SUBSET Nodes(FlowBlocks)

LEMMA Insides ==
    /\ Inside \in [FlowBlocks -> Parsed]
    /\ \A block \in FlowBlocks :
          /\ block = << >> => Inside[block] = {}
          /\ block # << >> => Inside[block] =
                {Head(block)} \union Inside[Tail(block)]
                   \union UNION {Inside[Head(block).arms[k]] : k \in 1..Len(Head(block).arms)}
<1> DEFINE Body(f, block) ==
               IF block = << >> THEN {}
               ELSE {Head(block)} \union f[Tail(block)]
                       \union UNION {f[Head(block).arms[k]] : k \in 1..Len(Head(block).arms)}
           Phi == [f \in [FlowBlocks -> Parsed] |-> [block \in FlowBlocks |-> Body(f, block)]]
<1>1. ASSUME NEW block \in FlowBlocks, NEW f, NEW g, \A other \in Lower(block) : f[other] = g[other]
      PROVE  Body(f, block) = Body(g, block)
  <2> SUFFICES ASSUME block # << >> PROVE Body(f, block) = Body(g, block)
      OBVIOUS
  <2>1. f[Tail(block)] = g[Tail(block)]
      BY <1>1, Parts
  <2>2. \A k \in 1..Len(Head(block).arms) : f[Head(block).arms[k]] = g[Head(block).arms[k]]
      BY <1>1, Parts
  <2>3. {f[Head(block).arms[k]] : k \in 1..Len(Head(block).arms)}
             = {g[Head(block).arms[k]] : k \in 1..Len(Head(block).arms)}
      BY <2>2
  <2> QED
      BY <2>1, <2>3
<1>2. ASSUME NEW block \in FlowBlocks, NEW f \in [FlowBlocks -> Parsed]
      PROVE  Body(f, block) \in Parsed
  <2> SUFFICES ASSUME block # << >> PROVE Body(f, block) \subseteq Nodes(FlowBlocks)
      BY DEF Parsed
  <2>1. Head(block) \in Nodes(FlowBlocks) /\ f[Tail(block)] \subseteq Nodes(FlowBlocks)
      BY Parts DEF Lower, Parsed
  <2>2. \A k \in 1..Len(Head(block).arms) : f[Head(block).arms[k]] \subseteq Nodes(FlowBlocks)
      BY Parts DEF Lower, Parsed
  <2> QED
      BY <2>1, <2>2
<1> HIDE DEF Body
<1>3. PICK r \in [FlowBlocks -> Parsed] : r = Phi[r]
  <2>1. Phi \in [[FlowBlocks -> Parsed] -> [FlowBlocks -> Parsed]]
      BY <1>2
  <2>2. \A block \in FlowBlocks : \A f, g \in [FlowBlocks -> Parsed] :
            (\A other \in Lower(block) : f[other] = g[other]) => Phi[f][block] = Phi[g][block]
      BY <1>1
  <2>3. {} \in Parsed
      BY DEF Parsed
  <2> HIDE DEF Phi
  <2>4. Walks(Phi, Parsed)
      BY <2>1, <2>2 DEF Walks
  <2> QED
      BY <2>3, <2>4, WalksExist
<1>4. r = [block \in FlowBlocks |-> Body(r, block)]
    BY <1>3
<1>5. Inside = [block \in FlowBlocks |-> Body(Inside, block)]
  <2>1. Inside = CHOOSE f : f = [block \in FlowBlocks |-> Body(f, block)]
      BY Zenon DEF Inside, Body
  <2> QED
      BY Zenon, <1>4, <2>1
<1>6. \A block \in FlowBlocks : Inside[block] = Body(Inside, block) /\ r[block] = Body(r, block)
    BY <1>4, <1>5
<1>7. \A block \in FlowBlocks : Inside[block] = r[block]
    BY <1>1, <1>6, WalksAgree
<1>8. Inside \in [FlowBlocks -> Parsed]
    BY <1>5, <1>7
<1> QED
    BY Zenon, <1>6, <1>8 DEF Body

-----------------------------------------------------------------------------
(* The walk of outcomes.                                                   *)
LEMMA Observing ==
    ASSUME NEW s \in Facts, NEW cond \in Conditions
    PROVE  /\ Observe(s, cond) \in Facts
           /\ cond = "status" => Observe(s, cond) = [owed |-> FALSE, reported |-> s.reported]
           /\ Compares(cond) => Observe(s, cond) = [owed |-> FALSE, reported |-> s.reported \/ s.owed]
           /\ cond = "other" => Observe(s, cond) = s
BY DEF Facts, Conditions, Observe, Compares, Report

LEMMA StatementsAlike ==
    ASSUME NEW st, Formed(st), NEW s, NEW f, NEW g,
           \A k \in 1..Len(st.arms) : f[st.arms[k]] = g[st.arms[k]]
    PROVE  WalkStatement(f, st, s) = WalkStatement(g, st, s)
<1>1. \A seen : {f[st.arms[k]][seen] : k \in 1..Len(st.arms)} = {g[st.arms[k]][seen] : k \in 1..Len(st.arms)}
    OBVIOUS
<1>2. CASE st.kind \in {"each", "switch"}
    BY <1>1, <1>2 DEF WalkStatement, ReadsRecord
<1>3. CASE st.kind \in {"if", "while"}
    BY <1>3 DEF WalkStatement, ReadsRecord, Formed
<1>4. CASE st.kind \notin {"if", "while", "each", "switch"}
    BY <1>4 DEF WalkStatement, ReadsRecord
<1> QED
    BY <1>2, <1>3, <1>4

LEMMA StatementsKeepFacts ==
    ASSUME NEW st \in Nodes(FlowBlocks), Formed(st), NEW s \in Facts,
           NEW f \in [FlowBlocks -> [Facts -> Facts]]
    PROVE  WalkStatement(f, st, s) \in Facts
<1> DEFINE seen == Observe(s, st.cond)
<1>1. st.kind \in Kinds /\ st.cond \in Conditions /\ st.arms \in Seq(FlowBlocks)
    BY DEF Nodes
<1>2. seen \in Facts
    BY <1>1, Observing
<1>3. \A k \in 1..Len(st.arms) : f[st.arms[k]][seen] \in Facts
    BY <1>1, <1>2
<1>4. Report(s) \in Facts
    BY DEF Report, Facts
<1>5. \A t, u \in Facts : Join(t, u) \in Facts
    BY DEF Join, Facts
<1> HIDE DEF seen
<1>6. CASE st.kind = "if"
    BY <1>2, <1>3, <1>5, <1>6 DEF WalkStatement, ReadsRecord, Formed, seen
<1>7. CASE st.kind = "while"
  <2>1. Observe(f[st.arms[1]][seen], st.cond) \in Facts
      BY <1>1, <1>3, <1>7, Observing DEF Formed
  <2> QED
      BY <1>2, <1>5, <1>7, <2>1 DEF WalkStatement, ReadsRecord, seen
<1>8. CASE st.kind \in {"each", "switch"}
    BY <1>2, <1>3, <1>8 DEF WalkStatement, ReadsRecord, seen, Facts
<1>9. CASE st.kind \notin {"if", "while", "each", "switch"}
    BY <1>4, <1>9 DEF WalkStatement, ReadsRecord, Facts
<1> QED
    BY <1>6, <1>7, <1>8, <1>9

LEMMA BlocksWalk ==
    /\ WalkBlock \in [FlowBlocks -> [Facts -> Facts]]
    /\ \A block \in FlowBlocks : \A s \in Facts :
          WalkBlock[block][s] =
              IF block = << >> THEN s
              ELSE IF Head(block).kind \in Ends THEN [s EXCEPT !.owed = FALSE]
              ELSE WalkBlock[Tail(block)][WalkStatement(WalkBlock, Head(block), s)]
<1> DEFINE Body(f, block) ==
               [s \in Facts |->
                   IF block = << >> THEN s
                   ELSE IF Head(block).kind \in Ends THEN [s EXCEPT !.owed = FALSE]
                   ELSE f[Tail(block)][WalkStatement(f, Head(block), s)]]
           V == [Facts -> Facts]
           Phi == [f \in [FlowBlocks -> V] |-> [block \in FlowBlocks |-> Body(f, block)]]
<1>1. ASSUME NEW block \in FlowBlocks, NEW f, NEW g, \A other \in Lower(block) : f[other] = g[other]
      PROVE  Body(f, block) = Body(g, block)
  <2> SUFFICES ASSUME block # << >> PROVE Body(f, block) = Body(g, block)
      OBVIOUS
  <2>1. f[Tail(block)] = g[Tail(block)]
      BY <1>1, Parts
  <2>2. \A s : WalkStatement(f, Head(block), s) = WalkStatement(g, Head(block), s)
    <3>1. Formed(Head(block)) /\ \A k \in 1..Len(Head(block).arms) : f[Head(block).arms[k]] = g[Head(block).arms[k]]
        BY <1>1, Parts
    <3> QED
        BY <3>1, StatementsAlike
  <2> QED
      BY <2>1, <2>2
<1>2. ASSUME NEW block \in FlowBlocks, NEW f \in [FlowBlocks -> V]
      PROVE  Body(f, block) \in V
  <2> SUFFICES ASSUME block # << >>, NEW s \in Facts, Head(block).kind \notin Ends
               PROVE  f[Tail(block)][WalkStatement(f, Head(block), s)] \in Facts
      BY DEF Facts
  <2>1. WalkStatement(f, Head(block), s) \in Facts
      BY Parts, StatementsKeepFacts
  <2>2. Tail(block) \in FlowBlocks
      BY Parts DEF Lower
  <2> QED
      BY <2>1, <2>2
<1> HIDE DEF Body, V
<1>3. PICK r \in [FlowBlocks -> V] : r = Phi[r]
  <2>1. Phi \in [[FlowBlocks -> V] -> [FlowBlocks -> V]]
      BY <1>2
  <2>2. \A block \in FlowBlocks : \A f, g \in [FlowBlocks -> V] :
            (\A other \in Lower(block) : f[other] = g[other]) => Phi[f][block] = Phi[g][block]
      BY <1>1
  <2>3. [s \in Facts |-> s] \in V
      BY DEF V
  <2> HIDE DEF Phi
  <2>4. Walks(Phi, V)
      BY <2>1, <2>2 DEF Walks
  <2> QED
      BY <2>3, <2>4, WalksExist
<1>4. r = [block \in FlowBlocks |-> Body(r, block)]
    BY <1>3
<1>5. WalkBlock = [block \in FlowBlocks |-> Body(WalkBlock, block)]
    BY Zenon, <1>4 DEF WalkBlock, Body
<1>6. \A block \in FlowBlocks : WalkBlock[block] = Body(WalkBlock, block) /\ r[block] = Body(r, block)
    BY <1>4, <1>5
<1>7. \A block \in FlowBlocks : WalkBlock[block] = r[block]
    BY <1>1, <1>6, WalksAgree
<1>8. WalkBlock \in [FlowBlocks -> [Facts -> Facts]]
    BY <1>5, <1>7 DEF V
<1>9. ASSUME NEW block \in FlowBlocks, NEW s \in Facts
      PROVE  WalkBlock[block][s] =
                 IF block = << >> THEN s
                 ELSE IF Head(block).kind \in Ends THEN [s EXCEPT !.owed = FALSE]
                 ELSE WalkBlock[Tail(block)][WalkStatement(WalkBlock, Head(block), s)]
  <2>1. WalkBlock[block][s] = Body(WalkBlock, block)[s]
      BY <1>6
  <2> QED
      BY <2>1 DEF Body
<1> QED
    BY <1>8, <1>9

(* A walk never takes a report back.                                       *)
KeepsReports(block) == \A s \in Facts : s.reported => WalkBlock[block][s].reported

(* What a branching statement leaves, of what its condition left and what  *)
(* its arms leave from there.                                              *)
LEMMA Branching ==
    ASSUME NEW st \in Nodes(FlowBlocks), Formed(st), NEW s \in Facts,
           st.kind \in {"if", "while", "each", "switch"},
           \A k \in 1..Len(st.arms) : KeepsReports(st.arms[k])
    PROVE  LET seen   == Observe(s, st.cond)
               arm(k) == WalkBlock[st.arms[k]][seen]
               left   == WalkStatement(WalkBlock, st, s)
           IN  /\ seen \in Facts /\ left \in Facts /\ \A k \in 1..Len(st.arms) : arm(k) \in Facts
               /\ seen.reported => left.reported
               /\ MayPass(st) /\ seen.owed => left.owed
               /\ \A k \in 1..Len(st.arms) :
                     /\ arm(k).reported => left.reported
                     /\ st.kind \in {"if", "switch"} /\ arm(k).owed => left.owed
               /\ left.owed => seen.owed \/ \E k \in 1..Len(st.arms) : arm(k).owed
<1> DEFINE seen   == Observe(s, st.cond)
           arm(k) == WalkBlock[st.arms[k]][seen]
           left   == WalkStatement(WalkBlock, st, s)
<1>1. st.cond \in Conditions /\ st.arms \in Seq(FlowBlocks)
    BY DEF Nodes
<1>2. seen \in Facts
    BY <1>1, Observing
<1>3. \A k \in 1..Len(st.arms) : arm(k) \in Facts /\ (seen.reported => arm(k).reported)
    BY <1>1, <1>2, BlocksWalk DEF KeepsReports
<1>4. left \in Facts
    BY StatementsKeepFacts, BlocksWalk
<1>5. \A k \in 1..Len(st.arms) :
          LET after == Observe(arm(k), st.cond)
          IN  (arm(k).reported => after.reported) /\ (after.owed => arm(k).owed)
  <2> TAKE k \in 1..Len(st.arms)
  <2>1. arm(k) \in Facts
      BY <1>3
  <2> HIDE DEF arm
  <2> QED
      BY <1>1, <2>1 DEF Observe, Report, Facts
<1> SUFFICES
        /\ seen.reported => left.reported
        /\ MayPass(st) /\ seen.owed => left.owed
        /\ \A k \in 1..Len(st.arms) :
              /\ arm(k).reported => left.reported
              /\ st.kind \in {"if", "switch"} /\ arm(k).owed => left.owed
        /\ left.owed => seen.owed \/ \E k \in 1..Len(st.arms) : arm(k).owed
    BY <1>2, <1>3, <1>4
<1>6. CASE st.kind = "if"
  <2>1. left = Join(arm(1), IF Len(st.arms) = 2 THEN arm(2) ELSE seen)
      BY <1>6 DEF WalkStatement, ReadsRecord
  <2>2. Len(st.arms) = 1 \/ Len(st.arms) = 2
      BY <1>6 DEF Formed
  <2> HIDE DEF seen, arm, left
  <2>3. CASE Len(st.arms) = 1
    <3>1. arm(1) \in Facts /\ (seen.reported => arm(1).reported)
        BY <1>3, <2>3
    <3>2. left = [owed |-> arm(1).owed \/ seen.owed, reported |-> arm(1).reported \/ seen.reported]
        BY <2>1, <2>3 DEF Join
    <3>3. left.reported = (arm(1).reported \/ seen.reported) /\ left.owed = (arm(1).owed \/ seen.owed)
        BY <3>2
    <3>4. 1 \in 1..Len(st.arms) /\ \A k \in 1..Len(st.arms) : k = 1
        BY <2>3
    <3>5. \A k \in 1..Len(st.arms) : (arm(k).reported => left.reported) /\ (arm(k).owed => left.owed)
        BY <3>3, <3>4
    <3>6. left.owed => seen.owed \/ \E k \in 1..Len(st.arms) : arm(k).owed
        BY <3>3, <3>4
    <3> QED
        BY <3>3, <3>5, <3>6
  <2>4. CASE Len(st.arms) = 2
    <3>1. arm(1) \in Facts /\ arm(2) \in Facts /\ (seen.reported => arm(1).reported)
        BY <1>3, <2>4
    <3>2. left = [owed |-> arm(1).owed \/ arm(2).owed, reported |-> arm(1).reported \/ arm(2).reported]
        BY <2>1, <2>4 DEF Join
    <3>3. ~ MayPass(st)
        BY <1>6, <2>4 DEF MayPass
    <3>4. \A k \in 1..Len(st.arms) : k = 1 \/ k = 2
        BY <2>4
    <3>5. left.reported = (arm(1).reported \/ arm(2).reported) /\ left.owed = (arm(1).owed \/ arm(2).owed)
        BY <3>2
    <3>6. 1 \in 1..Len(st.arms) /\ 2 \in 1..Len(st.arms)
        BY <2>4
    <3>7. \A k \in 1..Len(st.arms) : (arm(k).reported => left.reported) /\ (arm(k).owed => left.owed)
        BY <3>4, <3>5
    <3>8. left.owed => seen.owed \/ \E k \in 1..Len(st.arms) : arm(k).owed
        BY <3>5, <3>6
    <3> QED
        BY <3>1, <3>3, <3>5, <3>7, <3>8
  <2> QED
      BY <2>2, <2>3, <2>4
<1>7. CASE st.kind = "while"
  <2>1. left = Join(seen, Observe(arm(1), st.cond))
      BY <1>7 DEF WalkStatement, ReadsRecord
  <2>2. Len(st.arms) = 1
      BY <1>7 DEF Formed
  <2> HIDE DEF seen, arm, left
  <2> QED
      BY <1>2, <1>3, <1>5, <1>7, <2>1, <2>2 DEF Join, Facts
<1>8. CASE st.kind \in {"each", "switch"}
  <2>1. left = LET arms == {arm(k) : k \in 1..Len(st.arms)}
               IN  [owed     |-> seen.owed \/ \E t \in arms : t.owed,
                    reported |-> seen.reported \/ \E t \in arms : t.reported]
      BY <1>8 DEF WalkStatement, ReadsRecord
  <2> HIDE DEF seen, arm, left
  <2> QED
      BY <1>2, <1>3, <1>8, <2>1 DEF Facts
<1> QED
    BY <1>6, <1>7, <1>8

LEMMA OtherStatements ==
    ASSUME NEW st, NEW s \in Facts
    PROVE  LET left == WalkStatement(WalkBlock, st, s)
           IN  /\ st.kind = "read" => left = [owed |-> TRUE, reported |-> s.reported \/ s.owed]
               /\ ReadsRecord(st) => left = [owed |-> FALSE, reported |-> s.reported \/ s.owed]
BY DEF WalkStatement, ReadsRecord, Report, Facts

LEMMA ReportsStay == \A block \in FlowBlocks : KeepsReports(block)
<1> DEFINE S == {block \in FlowBlocks : KeepsReports(block)}
<1>1. ASSUME NEW block \in FlowBlocks, Lower(block) \subseteq S PROVE block \in S
  <2> SUFFICES ASSUME NEW s \in Facts, s.reported PROVE WalkBlock[block][s].reported
      BY DEF KeepsReports
  <2>1. CASE block = << >>
      BY <2>1, BlocksWalk
  <2>2. CASE block # << >> /\ Head(block).kind \in Ends
      BY <2>2, BlocksWalk DEF Facts
  <2>3. CASE block # << >> /\ Head(block).kind \notin Ends
    <3> DEFINE st == Head(block)
               left == WalkStatement(WalkBlock, st, s)
    <3>1. /\ st \in Nodes(FlowBlocks) /\ Formed(st)
          /\ KeepsReports(Tail(block)) /\ Tail(block) \in FlowBlocks
          /\ \A k \in 1..Len(st.arms) : KeepsReports(st.arms[k])
        BY <1>1, <2>3, Parts DEF Lower
    <3>2. left \in Facts
        BY <3>1, StatementsKeepFacts, BlocksWalk
    <3>3. left.reported
      <4>1. CASE st.kind \in {"if", "while", "each", "switch"}
        <5>1. Observe(s, st.cond).reported
            BY <3>1 DEF Nodes, Observe, Report, Facts
        <5> QED
            BY <3>1, <4>1, <5>1, Branching
      <4>2. CASE st.kind \in Effects
          BY <4>2, OtherStatements DEF Effects, ReadsRecord, Facts
      <4> QED
          BY <2>3, <3>1, <4>1, <4>2 DEF Nodes, Kinds
    <3> QED
        BY <2>3, <3>1, <3>2, <3>3, BlocksWalk DEF KeepsReports
  <2> QED
      BY <2>1, <2>2, <2>3
<1>2. FlowBlocks \subseteq S
  <2> HIDE DEF S
  <2> QED
      BY <1>1, TreeInduction
<1> QED
    BY <1>2

-----------------------------------------------------------------------------
(* What is inside a block.                                                 *)
LEMMA InsideParts ==
    ASSUME NEW block \in FlowBlocks, block # << >>
    PROVE  /\ Head(block) \in Inside[block]
           /\ Inside[Tail(block)] \subseteq Inside[block]
           /\ \A k \in 1..Len(Head(block).arms) : Inside[Head(block).arms[k]] \subseteq Inside[block]
<1>1. Inside[block] = {Head(block)} \union Inside[Tail(block)]
          \union UNION {Inside[Head(block).arms[k]] : k \in 1..Len(Head(block).arms)}
    BY Insides
<1> QED
    BY <1>1

LEMMA FillParts ==
    ASSUME NEW block \in FlowBlocks, block # << >>, ~ Fills(block)
    PROVE  /\ Head(block).kind # "read"
           /\ ~ Fills(Tail(block))
           /\ \A k \in 1..Len(Head(block).arms) : ~ Fills(Head(block).arms[k])
BY InsideParts DEF Fills

LEMMA GuardParts ==
    ASSUME NEW block \in FlowBlocks, block # << >>, GuardsLast(block)
    PROVE  /\ GuardsLast(Tail(block))
           /\ \A k \in 1..Len(Head(block).arms) : GuardsLast(Head(block).arms[k])
           /\ Head(block).kind = "if" /\ Head(block).cond = "present" => ~ Fills(Head(block).arms[1])
BY InsideParts DEF GuardsLast

LEMMA LoopParts ==
    ASSUME NEW block \in FlowBlocks, block # << >>, LoopsTest(block)
    PROVE  /\ LoopsTest(Tail(block))
           /\ \A k \in 1..Len(Head(block).arms) : LoopsTest(Head(block).arms[k])
           /\ \/ Head(block).kind = "each"
              \/ Head(block).kind = "while" /\ Head(block).cond # "status"
              => ~ Fills(Head(block).arms[1])
BY InsideParts DEF LoopsTest

(* A block that does not read leaves no outcome that was not there.        *)
Quiet(block) == \A s \in Facts : WalkBlock[block][s].owed => s.owed

LEMMA OnlyReadsOwe == \A block \in FlowBlocks : ~ Fills(block) => Quiet(block)
<1> DEFINE S == {block \in FlowBlocks : ~ Fills(block) => Quiet(block)}
<1>1. ASSUME NEW block \in FlowBlocks, Lower(block) \subseteq S PROVE block \in S
  <2> SUFFICES ASSUME ~ Fills(block), NEW s \in Facts, WalkBlock[block][s].owed PROVE s.owed
      BY DEF Quiet
  <2>1. CASE block = << >>
      BY <2>1, BlocksWalk
  <2>2. CASE block # << >> /\ Head(block).kind \in Ends
      BY <2>2, BlocksWalk DEF Facts
  <2>3. CASE block # << >> /\ Head(block).kind \notin Ends
    <3> DEFINE st == Head(block)
               left == WalkStatement(WalkBlock, st, s)
    <3>1. /\ st \in Nodes(FlowBlocks) /\ Formed(st)
          /\ Quiet(Tail(block)) /\ Tail(block) \in FlowBlocks
          /\ st.kind # "read"
          /\ \A k \in 1..Len(st.arms) : Quiet(st.arms[k])
        BY <1>1, <2>3, Parts, FillParts DEF Lower
    <3>2. left \in Facts
        BY <3>1, StatementsKeepFacts, BlocksWalk
    <3>3. left.owed
        BY <2>3, <3>1, <3>2, BlocksWalk DEF Quiet
    <3>4. CASE st.kind \in {"if", "while", "each", "switch"}
      <4>1. \A k \in 1..Len(st.arms) : KeepsReports(st.arms[k])
          BY <2>3, Parts, ReportsStay DEF Lower
      <4>2. Observe(s, st.cond) \in Facts /\ (Observe(s, st.cond).owed => s.owed)
          BY <3>1, Observing DEF Nodes, Observe, Report, Facts
      <4>3. Observe(s, st.cond).owed
          BY <3>1, <3>3, <3>4, <4>1, <4>2, Branching DEF Quiet
      <4> QED
          BY <4>2, <4>3
    <3>5. CASE st.kind \in Effects
        BY <3>1, <3>3, <3>5, OtherStatements DEF Effects, ReadsRecord
    <3> QED
        BY <2>3, <3>1, <3>4, <3>5 DEF Nodes, Kinds
  <2> QED
      BY <2>1, <2>2, <2>3
<1>2. FlowBlocks \subseteq S
  <2> HIDE DEF S
  <2> QED
      BY <1>1, TreeInduction
<1> QED
    BY <1>2

-----------------------------------------------------------------------------
(* What is left to run.                                                    *)
Stacks == {bs \in Seq(FlowBlocks) : \A i \in 1..Len(bs) : bs[i] # << >>}

LEMMA NothingStacked ==
    ASSUME NEW blocks PROVE Onto(<< >>, blocks) = blocks
BY DEF Onto

LEMMA Stacked ==
    ASSUME NEW block \in FlowBlocks, block # << >>, NEW blocks \in Stacks, NEW put, put = Onto(block, blocks)
    PROVE  /\ put \in Stacks
           /\ Len(blocks) \in Nat /\ Len(put) = Len(blocks) + 1
           /\ put[1] = block
           /\ \A i \in 1..Len(blocks) : put[i + 1] = blocks[i]
           /\ \A i \in 1..Len(put) : i = 1 \/ (i - 1 \in 1..Len(blocks) /\ put[i] = blocks[i - 1])
<1>1. blocks \in Seq(FlowBlocks)
    BY DEF Stacks
<1>2. put = <<block>> \o blocks
    BY DEF Onto
<1>3. /\ put \in Seq(FlowBlocks) /\ Len(blocks) \in Nat /\ Len(put) = Len(blocks) + 1 /\ put[1] = block
      /\ \A i \in 1..Len(blocks) : put[i + 1] = blocks[i]
    BY <1>1, <1>2
<1>4. \A i \in 1..Len(put) : i = 1 \/ (i - 1 \in 1..Len(blocks) /\ put[i] = blocks[i - 1])
  <2> TAKE i \in 1..Len(put)
  <2>1. CASE i # 1
    <3>1. i - 1 \in 1..Len(blocks) /\ (i - 1) + 1 = i
        BY <1>1, <1>3, <2>1
    <3> QED
        BY <1>3, <3>1
  <2> QED
      BY <2>1
<1>5. put \in Stacks
    BY <1>3, <1>4 DEF Stacks
<1> QED
    BY <1>3, <1>4, <1>5

LEMMA Unstacked ==
    ASSUME NEW blocks \in Stacks, blocks # << >>, NEW rest, rest = Tail(blocks)
    PROVE  /\ Len(blocks) \in Nat /\ Len(blocks) >= 1
           /\ Head(blocks) = blocks[1] /\ Head(blocks) \in FlowBlocks /\ Head(blocks) # << >>
           /\ rest \in Stacks /\ Len(rest) = Len(blocks) - 1
           /\ \A i \in 1..Len(rest) : i + 1 \in 1..Len(blocks) /\ rest[i] = blocks[i + 1]
<1>1. blocks \in Seq(FlowBlocks) /\ \A i \in 1..Len(blocks) : blocks[i] # << >>
    BY DEF Stacks
<1>2. /\ Len(blocks) \in Nat /\ Len(blocks) >= 1 /\ Head(blocks) = blocks[1]
      /\ rest \in Seq(FlowBlocks) /\ Len(rest) = Len(blocks) - 1
      /\ \A i \in 1..Len(rest) : i + 1 \in 1..Len(blocks) /\ rest[i] = blocks[i + 1]
    BY <1>1
<1>3. 1 \in 1..Len(blocks)
    BY <1>2
<1>4. Head(blocks) \in FlowBlocks /\ Head(blocks) # << >>
    BY <1>1, <1>2, <1>3
<1>5. rest \in Stacks
    BY <1>1, <1>2 DEF Stacks
<1> QED
    BY <1>2, <1>4, <1>5

LEMMA StackedBack ==
    ASSUME NEW blocks \in Stacks, blocks # << >>
    PROVE  Onto(Head(blocks), Tail(blocks)) = blocks
<1>1. Head(blocks) # << >>
    BY Unstacked
<1>2. blocks \in Seq(FlowBlocks)
    BY DEF Stacks
<1>3. <<Head(blocks)>> \o Tail(blocks) = blocks
    BY <1>2
<1> QED
    BY <1>1, <1>3 DEF Onto

(* Something that holds of each block that is left.                        *)
EachIn(blocks, S) == \A i \in 1..Len(blocks) : blocks[i] \in S

LEMMA EachOnto ==
    ASSUME NEW S, NEW block \in FlowBlocks, NEW blocks \in Stacks,
           block # << >> => block \in S, EachIn(blocks, S)
    PROVE  Onto(block, blocks) \in Stacks /\ EachIn(Onto(block, blocks), S)
<1>1. CASE block = << >>
    BY <1>1, NothingStacked
<1>2. CASE block # << >>
  <2> DEFINE put == Onto(block, blocks)
  <2> HIDE DEF put
  <2>1. /\ put \in Stacks /\ put[1] = block
        /\ \A i \in 1..Len(put) : i = 1 \/ (i - 1 \in 1..Len(blocks) /\ put[i] = blocks[i - 1])
      BY <1>2, Stacked DEF put
  <2>2. EachIn(put, S)
      BY <1>2, <2>1 DEF EachIn
  <2> QED
      BY <2>1, <2>2 DEF put
<1> QED
    BY <1>1, <1>2

LEMMA EachRest ==
    ASSUME NEW S, NEW blocks \in Stacks, blocks # << >>, EachIn(blocks, S),
           Head(blocks) \in S => Tail(Head(blocks)) \in S
    PROVE  /\ Head(blocks) \in S
           /\ Onto(Tail(Head(blocks)), Tail(blocks)) \in Stacks
           /\ EachIn(Onto(Tail(Head(blocks)), Tail(blocks)), S)
<1> DEFINE rest == Tail(blocks)
<1> HIDE DEF rest
<1>1. /\ Len(blocks) \in Nat /\ Len(blocks) >= 1 /\ Head(blocks) = blocks[1]
      /\ Head(blocks) \in FlowBlocks /\ Head(blocks) # << >> /\ rest \in Stacks
      /\ \A i \in 1..Len(rest) : i + 1 \in 1..Len(blocks) /\ rest[i] = blocks[i + 1]
    BY Unstacked DEF rest
<1>2. Head(blocks) \in S
    BY <1>1 DEF EachIn
<1>3. EachIn(rest, S)
    BY <1>1 DEF EachIn
<1>4. Tail(Head(blocks)) \in FlowBlocks
    BY <1>1, Parts DEF Lower
<1> QED
    BY <1>1, <1>2, <1>3, <1>4, EachOnto DEF rest

Guarded == {block \in FlowBlocks : ValuesGuarded[block]}

(* What may still take a value without a test of its own is not stale: the *)
(* value is there, and nothing fills the record before.                    *)
ValuesCovered(blocks, value) ==
    \A i \in 1..Len(blocks) :
        blocks[i] \in Guarded \/ (value /\ \A j \in 1..i : ~ Fills(blocks[j]))

LEMMA ValuesOnto ==
    ASSUME NEW block \in FlowBlocks, NEW blocks \in Stacks, NEW value, ValuesCovered(blocks, value),
           block \in Guarded \/ (value /\ ~ Fills(block)),
           Fills(block) => EachIn(blocks, Guarded)
    PROVE  ValuesCovered(Onto(block, blocks), value)
<1>1. CASE block = << >>
    BY <1>1, NothingStacked
<1>2. CASE block # << >>
  <2> DEFINE put == Onto(block, blocks)
  <2> HIDE DEF put
  <2>1. /\ Len(blocks) \in Nat /\ put[1] = block
        /\ \A i \in 1..Len(blocks) : put[i + 1] = blocks[i]
        /\ \A i \in 1..Len(put) : i = 1 \/ (i - 1 \in 1..Len(blocks) /\ put[i] = blocks[i - 1])
      BY <1>2, Stacked DEF put
  <2> SUFFICES ASSUME NEW i \in 1..Len(put), put[i] \notin Guarded
               PROVE  value /\ \A j \in 1..i : ~ Fills(put[j])
      BY DEF ValuesCovered, put
  <2>2. CASE i = 1
      BY <2>1, <2>2
  <2>3. CASE i # 1
    <3>1. i - 1 \in 1..Len(blocks) /\ blocks[i - 1] \notin Guarded
        BY <2>1, <2>3
    <3>2. value /\ \A j \in 1..(i - 1) : ~ Fills(blocks[j])
        BY <3>1 DEF ValuesCovered
    <3>3. ~ Fills(block)
        BY <3>1 DEF EachIn
    <3>4. ASSUME NEW j \in 1..i PROVE ~ Fills(put[j])
      <4>1. CASE j = 1
          BY <2>1, <3>3, <4>1
      <4>2. CASE j # 1
        <5>1. j - 1 \in 1..(i - 1) /\ j - 1 \in 1..Len(blocks) /\ (j - 1) + 1 = j
            BY <2>1, <3>1, <4>2
        <5> QED
            BY <2>1, <3>2, <5>1
      <4> QED
          BY <4>1, <4>2
    <3> QED
        BY <3>2, <3>4
  <2> QED
      BY <2>2, <2>3
<1> QED
    BY <1>1, <1>2

LEMMA ValuesRest ==
    ASSUME NEW blocks \in Stacks, blocks # << >>, NEW value, ValuesCovered(blocks, value)
    PROVE  /\ Head(blocks) \in Guarded \/ (value /\ ~ Fills(Head(blocks)))
           /\ Fills(Head(blocks)) => EachIn(blocks, Guarded)
           /\ ValuesCovered(Onto(Tail(Head(blocks)), Tail(blocks)), value)
           /\ Fills(Head(blocks)) => EachIn(Onto(Tail(Head(blocks)), Tail(blocks)), Guarded)
<1> DEFINE rest == Tail(blocks)
           left == Tail(Head(blocks))
<1> HIDE DEF rest
<1>1. /\ Len(blocks) \in Nat /\ Len(blocks) >= 1 /\ Head(blocks) = blocks[1]
      /\ Head(blocks) \in FlowBlocks /\ Head(blocks) # << >> /\ rest \in Stacks
      /\ \A i \in 1..Len(rest) : i + 1 \in 1..Len(blocks) /\ rest[i] = blocks[i + 1]
    BY Unstacked DEF rest
<1>2. left \in FlowBlocks
    BY <1>1, Parts DEF Lower
<1>3. Head(blocks) \in Guarded => left \in Guarded
    BY <1>1, <1>2, GuardedValues DEF Guarded
<1>4. ~ Fills(Head(blocks)) => ~ Fills(left)
    BY <1>1, FillParts
<1>5. Head(blocks) \in Guarded \/ (value /\ ~ Fills(Head(blocks)))
    BY <1>1 DEF ValuesCovered
<1>6. Fills(Head(blocks)) => EachIn(blocks, Guarded)
    BY <1>1 DEF ValuesCovered, EachIn
<1>7. Fills(Head(blocks)) => EachIn(rest, Guarded)
    BY <1>1, <1>6 DEF EachIn
<1>8. ValuesCovered(rest, value)
  <2> SUFFICES ASSUME NEW i \in 1..Len(rest), rest[i] \notin Guarded
               PROVE  value /\ \A j \in 1..i : ~ Fills(rest[j])
      BY DEF ValuesCovered
  <2>1. value /\ \A j \in 1..(i + 1) : ~ Fills(blocks[j])
      BY <1>1 DEF ValuesCovered
  <2>2. ASSUME NEW j \in 1..i PROVE ~ Fills(rest[j])
    <3>1. j + 1 \in 1..(i + 1) /\ j \in 1..Len(rest)
        BY <1>1
    <3> QED
        BY <1>1, <2>1, <3>1
  <2> QED
      BY <2>1, <2>2
<1>9. ValuesCovered(Onto(left, rest), value)
    BY <1>1, <1>2, <1>3, <1>4, <1>5, <1>7, <1>8, ValuesOnto
<1>10. Fills(Head(blocks)) => EachIn(Onto(left, rest), Guarded)
    BY <1>1, <1>2, <1>3, <1>5, <1>7, EachOnto
<1> QED
    BY <1>5, <1>6, <1>9, <1>10 DEF rest

Ending == {block \in FlowBlocks : EndsOnEveryPath[block]}
SomeEnds(blocks) == \E i \in 1..Len(blocks) : blocks[i] \in Ending

LEMMA EndsOnto ==
    ASSUME NEW block \in FlowBlocks, NEW blocks \in Stacks, block \in Ending \/ SomeEnds(blocks)
    PROVE  SomeEnds(Onto(block, blocks))
<1>1. CASE block = << >>
  <2>1. block \notin Ending
      BY <1>1, PathsEnd DEF Ending
  <2> QED
      BY <1>1, <2>1, NothingStacked
<1>2. CASE block # << >>
  <2> DEFINE put == Onto(block, blocks)
  <2> HIDE DEF put
  <2>1. /\ Len(blocks) \in Nat /\ Len(put) = Len(blocks) + 1 /\ put[1] = block
        /\ \A i \in 1..Len(blocks) : put[i + 1] = blocks[i]
      BY <1>2, Stacked DEF put
  <2>2. CASE block \in Ending
    <3>1. 1 \in 1..Len(put)
        BY <2>1
    <3> QED
        BY <2>1, <2>2, <3>1 DEF SomeEnds, put
  <2>3. CASE SomeEnds(blocks)
    <3>1. PICK i \in 1..Len(blocks) : blocks[i] \in Ending
        BY <2>3 DEF SomeEnds
    <3>2. i + 1 \in 1..Len(put)
        BY <2>1
    <3> QED
        BY <2>1, <3>1, <3>2 DEF SomeEnds, put
  <2> QED
      BY <2>2, <2>3
<1> QED
    BY <1>1, <1>2

LEMMA EndsRest ==
    ASSUME NEW blocks \in Stacks, SomeEnds(blocks)
    PROVE  blocks # << >> /\ (Head(blocks) \in Ending \/ SomeEnds(Tail(blocks)))
<1>1. PICK i \in 1..Len(blocks) : blocks[i] \in Ending
    BY DEF SomeEnds
<1>2. blocks # << >>
    BY <1>1
<1> DEFINE rest == Tail(blocks)
<1> HIDE DEF rest
<1>3. /\ Len(blocks) \in Nat /\ Head(blocks) = blocks[1] /\ Len(rest) = Len(blocks) - 1
      /\ \A j \in 1..Len(rest) : rest[j] = blocks[j + 1]
    BY <1>2, Unstacked DEF rest
<1>4. CASE i = 1
    BY <1>1, <1>2, <1>3, <1>4
<1>5. CASE i # 1
  <2>1. i - 1 \in 1..Len(rest) /\ (i - 1) + 1 = i
      BY <1>3, <1>5
  <2>2. rest[i - 1] \in Ending
      BY <1>1, <1>3, <2>1
  <2> QED
      BY <1>2, <2>1, <2>2 DEF SomeEnds, rest
<1> QED
    BY <1>4, <1>5

(* The walk accounts for what is left to run: from each block to the next  *)
(* it knows of every outcome there can be, reports none, and none is left  *)
(* at the end.                                                             *)
Known(owed) == [owed |-> owed, reported |-> FALSE]
Passes(block, owed, onward) ==
    LET left == WalkBlock[block][Known(owed)]
    IN  ~ left.reported /\ (left.owed => onward)

Accounts(blocks, a) ==
    /\ a \in [1..Len(blocks) + 1 -> BOOLEAN]
    /\ \A i \in 1..Len(blocks) : Passes(blocks[i], a[i], a[i + 1])
    /\ ~ a[Len(blocks) + 1]

Settles(blocks, owed) == \E a : Accounts(blocks, a) /\ (owed => a[1])

LEMMA SettlesOnto ==
    ASSUME NEW block \in FlowBlocks, NEW blocks \in Stacks, NEW owed \in BOOLEAN, NEW onward \in BOOLEAN,
           Passes(block, owed, onward), Settles(blocks, onward)
    PROVE  Settles(Onto(block, blocks), owed)
<1>1. PICK a : Accounts(blocks, a) /\ (onward => a[1])
    BY DEF Settles
<1>2. Known(owed) \in Facts
    BY DEF Known, Facts
<1>3. Len(blocks) \in Nat
    BY DEF Stacks
<1>4. CASE block = << >>
  <2>1. WalkBlock[block][Known(owed)] = Known(owed)
      BY <1>2, <1>4, BlocksWalk
  <2>2. owed => onward
      BY <2>1 DEF Passes, Known
  <2> QED
      BY <1>1, <1>4, <2>2, NothingStacked DEF Settles
<1>5. CASE block # << >>
  <2> DEFINE put == Onto(block, blocks)
             b == [i \in 1..Len(put) + 1 |-> IF i = 1 THEN owed ELSE a[i - 1]]
  <2> HIDE DEF put
  <2>1. /\ Len(put) = Len(blocks) + 1 /\ put[1] = block
        /\ \A i \in 1..Len(put) : i = 1 \/ (i - 1 \in 1..Len(blocks) /\ put[i] = blocks[i - 1])
      BY <1>5, Stacked DEF put
  <2>2. b \in [1..Len(put) + 1 -> BOOLEAN]
      BY <1>1, <1>3, <2>1 DEF Accounts
  <2>3. \A i \in 1..Len(put) : Passes(put[i], b[i], b[i + 1])
    <3> TAKE i \in 1..Len(put)
    <3>1. CASE i = 1
      <4>1. b[i] = owed /\ b[i + 1] = a[1]
          BY <1>3, <2>1, <3>1
      <4> QED
          BY <1>1, <2>1, <3>1, <4>1 DEF Passes
    <3>2. CASE i # 1
      <4>1. i - 1 \in 1..Len(blocks) /\ put[i] = blocks[i - 1]
          BY <2>1, <3>2
      <4>2. b[i] = a[i - 1] /\ b[i + 1] = a[(i - 1) + 1]
          BY <1>3, <2>1, <3>2
      <4> QED
          BY <1>1, <4>1, <4>2 DEF Accounts
    <3> QED
        BY <3>1, <3>2
  <2>4. ~ b[Len(put) + 1] /\ b[1] = owed
      BY <1>1, <1>3, <2>1 DEF Accounts
  <2> HIDE DEF b
  <2> QED
      BY <2>2, <2>3, <2>4 DEF Accounts, Settles, put
<1> QED
    BY <1>4, <1>5

LEMMA SettlesHead ==
    ASSUME NEW blocks \in Stacks, blocks # << >>, NEW owes \in BOOLEAN, Settles(blocks, owes)
    PROVE  \E owed, onward \in BOOLEAN :
              (owes => owed) /\ Passes(Head(blocks), owed, onward) /\ Settles(Tail(blocks), onward)
<1>1. PICK a : Accounts(blocks, a) /\ (owes => a[1])
    BY DEF Settles
<1> DEFINE rest == Tail(blocks)
           b == [i \in 1..Len(rest) + 1 |-> a[i + 1]]
<1> HIDE DEF rest
<1>2. /\ Len(blocks) \in Nat /\ Len(blocks) >= 1 /\ Head(blocks) = blocks[1]
      /\ Len(rest) = Len(blocks) - 1
      /\ \A i \in 1..Len(rest) : i + 1 \in 1..Len(blocks) /\ rest[i] = blocks[i + 1]
    BY Unstacked DEF rest
<1>3. a[1] \in BOOLEAN /\ a[2] \in BOOLEAN /\ Passes(Head(blocks), a[1], a[2])
    BY <1>1, <1>2 DEF Accounts
<1>4. b \in [1..Len(rest) + 1 -> BOOLEAN]
    BY <1>1, <1>2 DEF Accounts
<1>5. \A i \in 1..Len(rest) : Passes(rest[i], b[i], b[i + 1])
    BY <1>1, <1>2 DEF Accounts
<1>6. ~ b[Len(rest) + 1] /\ b[1] = a[2]
    BY <1>1, <1>2 DEF Accounts
<1> HIDE DEF b
<1>7. Settles(rest, a[2])
    BY <1>4, <1>5, <1>6 DEF Accounts, Settles
<1> QED
    BY <1>1, <1>3, <1>7 DEF rest

-----------------------------------------------------------------------------
(* Types.                                                                  *)
FlowTypes ==
    /\ todo \in Stacks
    /\ owing \in BOOLEAN /\ hasRead \in BOOLEAN /\ hasValue \in BOOLEAN
    /\ wrong \subseteq {"outcome", "unread", "absent"}
    /\ ending \in {"no", "left", "fell"}

(* Where a program is when it has something to do.                         *)
LEMMA AtFirst ==
    ASSUME FlowTypes, todo # << >>
    PROVE  /\ Head(todo) \in FlowBlocks /\ Head(todo) # << >>
           /\ Tail(Head(todo)) \in FlowBlocks /\ Tail(todo) \in Stacks
           /\ First \in Nodes(FlowBlocks) /\ Formed(First)
           /\ \A k \in 1..Len(First.arms) : First.arms[k] \in FlowBlocks
           /\ Rest \in Stacks /\ Around(First) \in Stacks
<1>1. Head(todo) \in FlowBlocks /\ Head(todo) # << >> /\ Tail(todo) \in Stacks
    BY Unstacked DEF FlowTypes
<1>2. /\ Tail(Head(todo)) \in FlowBlocks /\ First \in Nodes(FlowBlocks) /\ Formed(First)
      /\ \A k \in 1..Len(First.arms) : First.arms[k] \in FlowBlocks
    BY <1>1, Parts DEF Lower, First
<1>3. Rest \in Stacks
  <2>1. EachIn(Tail(todo), FlowBlocks)
      BY <1>1 DEF EachIn, Stacks
  <2> QED
      BY <1>1, <1>2, <2>1, EachOnto DEF Rest
<1> QED
    BY <1>1, <1>2, <1>3 DEF Around, FlowTypes

(* A branching statement enters an arm, which comes before what is left,   *)
(* or is passed.                                                           *)
LEMMA Entering ==
    ASSUME FlowTypes, FlowBranch
    PROVE  /\ todo # << >> /\ First.kind \in {"if", "while", "each", "switch"}
           /\ \/ \E k \in 1..Len(First.arms) :
                     MayTake(First, k) /\ todo' = Onto(First.arms[k], Around(First))
              \/ MayPass(First) /\ MayTake(First, 2) /\ todo' = Rest
           /\ todo' \in Stacks
<1>1. /\ todo # << >> /\ First.kind \in {"if", "while", "each", "switch"}
      /\ \/ \E k \in 1..Len(First.arms) :
                MayTake(First, k) /\ todo' = Onto(First.arms[k], Around(First))
         \/ MayPass(First) /\ MayTake(First, 2) /\ todo' = Rest
    BY DEF FlowBranch, AtA
<1>2. ASSUME NEW k \in 1..Len(First.arms) PROVE Onto(First.arms[k], Around(First)) \in Stacks
  <2>1. First.arms[k] \in FlowBlocks /\ Around(First) \in Stacks
      BY <1>1, AtFirst
  <2>2. EachIn(Around(First), FlowBlocks)
      BY <2>1 DEF EachIn, Stacks
  <2> QED
      BY <2>1, <2>2, EachOnto
<1> QED
    BY <1>1, <1>2, AtFirst

LEMMA NothingLeft == << >> \in Stacks /\ \A S : EachIn(<< >>, S)
BY DEF Stacks, EachIn

LEMMA TypesStart == FlowInit => FlowTypes
<1> SUFFICES ASSUME FlowInit PROVE FlowTypes
    OBVIOUS
<1>1. PICK body \in FlowPrograms : todo = Onto(body, << >>)
    BY DEF FlowInit
<1>2. body \in FlowBlocks
    BY FlowAssumption
<1>3. todo \in Stacks
    BY <1>1, <1>2, NothingLeft, EachOnto
<1> QED
    BY <1>3 DEF FlowInit, FlowTypes

LEMMA TypesKept == FlowTypes /\ [FlowNext]_flowVars => FlowTypes'
<1> SUFFICES ASSUME FlowTypes, [FlowNext]_flowVars PROVE FlowTypes'
    OBVIOUS
<1>1. CASE FlowRead
    BY <1>1, AtFirst DEF FlowRead, FlowTypes, AtA, Defect
<1>2. CASE FlowRewrite
    BY <1>2, AtFirst DEF FlowRewrite, FlowTypes, AtA, Defect
<1>3. CASE FlowUse
    BY <1>3, AtFirst DEF FlowUse, FlowTypes, AtA, Defect
<1>4. CASE FlowLeave
    BY <1>4, NothingLeft DEF FlowLeave, FlowTypes
<1>5. CASE FlowBranch
    BY <1>5, Entering DEF FlowBranch, FlowTypes, Defect
<1>6. CASE FlowEnds
    BY <1>6 DEF FlowEnds, FlowTypes, Defect
<1>7. CASE UNCHANGED flowVars
    BY <1>7 DEF flowVars, FlowTypes
<1> QED
    BY <1>1, <1>2, <1>3, <1>4, <1>5, <1>6, <1>7 DEF FlowNext

(* What is left of a program is a stack of blocks of its tree, none empty, *)
(* innermost first.                                                        *)
THEOREM FlowTypeOK == FlowSpec => []FlowTypes
<1>1. FlowInit => FlowTypes
    BY TypesStart
<1>2. FlowTypes /\ [FlowNext]_flowVars => FlowTypes'
    BY TypesKept
<1> QED
    BY <1>1, <1>2, PTL DEF FlowSpec

-----------------------------------------------------------------------------
(* Updates.  Until the file has been read, everything that is left is such *)
(* that a read comes before an update.                                     *)
Covered == {block \in FlowBlocks : ReadBeforeUpdate[block]}

ReadsInv ==
    verdict.readFirst => "unread" \notin wrong /\ (hasRead \/ EachIn(todo, Covered))

LEMMA ReadsStart == FlowInit => ReadsInv
<1> SUFFICES ASSUME FlowInit, verdict.readFirst PROVE EachIn(todo, Covered) /\ wrong = {}
    BY DEF ReadsInv
<1>1. PICK body \in FlowPrograms : verdict = Judged(body) /\ todo = Onto(body, << >>)
    BY DEF FlowInit
<1>2. body \in FlowBlocks /\ ReadBeforeUpdate[body]
    BY <1>1, FlowAssumption DEF Judged
<1> QED
    BY <1>1, <1>2, NothingLeft, EachOnto DEF Covered, FlowInit

LEMMA ReadsKept == FlowTypes /\ ReadsInv /\ [FlowNext]_flowVars => ReadsInv'
<1> SUFFICES ASSUME FlowTypes, ReadsInv, [FlowNext]_flowVars, verdict'.readFirst
             PROVE  "unread" \notin wrong' /\ (hasRead' \/ EachIn(todo', Covered))
    BY DEF ReadsInv
<1>1. verdict' = verdict
    BY DEF FlowNext, FlowRead, FlowRewrite, FlowUse, FlowLeave, FlowBranch, FlowEnds, flowVars
<1>2. "unread" \notin wrong /\ (hasRead \/ EachIn(todo, Covered))
    BY <1>1 DEF ReadsInv
<1>3. ASSUME todo # << >>, EachIn(todo, Covered), First.kind # "read"
      PROVE  /\ First.kind # "rewrite"
             /\ EachIn(Rest, Covered) /\ EachIn(Around(First), Covered)
             /\ \A k \in 1..Len(First.arms) : First.arms[k] \in Covered
  <2>1. /\ Head(todo) \in FlowBlocks /\ Head(todo) # << >> /\ Tail(Head(todo)) \in FlowBlocks
        /\ \A k \in 1..Len(First.arms) : First.arms[k] \in FlowBlocks
      BY <1>3, AtFirst
  <2>2. Head(todo) \in Covered =>
            /\ First.kind # "rewrite" /\ Tail(Head(todo)) \in Covered
            /\ \A k \in 1..Len(First.arms) : First.arms[k] \in Covered
      BY <1>3, <2>1, ReadsBefore DEF Covered, Covers, First
  <2>3. Head(todo) \in Covered /\ EachIn(Rest, Covered)
      BY <1>3, <2>2, EachRest DEF Rest, FlowTypes
  <2> QED
      BY <1>3, <2>2, <2>3 DEF Around
<1>4. CASE FlowRead
    BY <1>2, <1>4 DEF FlowRead, Defect
<1>5. CASE FlowRewrite
    BY <1>2, <1>3, <1>5 DEF FlowRewrite, AtA, Defect
<1>6. CASE FlowUse
    BY <1>2, <1>3, <1>6 DEF FlowUse, AtA, Defect
<1>7. CASE FlowLeave
    BY <1>2, <1>7, NothingLeft DEF FlowLeave
<1>8. CASE FlowBranch
  <2>1. todo # << >> /\ First.kind # "read"
      BY <1>8, Entering
  <2>2. wrong' = wrong \/ wrong' = wrong \union {"outcome"}
      BY <1>8 DEF FlowBranch, Defect
  <2>3. hasRead' = hasRead
      BY <1>8 DEF FlowBranch
  <2>4. ASSUME EachIn(todo, Covered) PROVE EachIn(todo', Covered)
    <3>1. ASSUME NEW k \in 1..Len(First.arms) PROVE EachIn(Onto(First.arms[k], Around(First)), Covered)
        BY <1>3, <2>1, <2>4, AtFirst, EachOnto
    <3> QED
        BY <1>3, <1>8, <2>1, <2>4, <3>1, Entering
  <2> QED
      BY <1>2, <2>2, <2>3, <2>4
<1>9. CASE FlowEnds
    BY <1>2, <1>9 DEF FlowEnds, Defect
<1>10. CASE UNCHANGED flowVars
    BY <1>2, <1>10 DEF flowVars
<1> QED
    BY <1>4, <1>5, <1>6, <1>7, <1>8, <1>9, <1>10 DEF FlowNext

(* No program reportUnreadFileUpdates accepts rewrites a file it has not   *)
(* read, whichever way its branches go.                                    *)
THEOREM FlowUpdatesFollowReads == FlowSpec => []UpdatesFollowReads
<1>1. FlowInit => ReadsInv
    BY ReadsStart
<1>2. FlowTypes /\ ReadsInv /\ [FlowNext]_flowVars => ReadsInv'
    BY ReadsKept
<1>3. ReadsInv => UpdatesFollowReads
    BY DEF ReadsInv, UpdatesFollowReads
<1> QED
    BY <1>1, <1>2, <1>3, FlowTypeOK, PTL DEF FlowSpec

-----------------------------------------------------------------------------
(* Values.                                                                 *)
KeepingGuards == {block \in FlowBlocks : GuardsLast(block)}

ValuesInv ==
    verdict.guarded /\ verdict.guardsLast =>
        /\ "absent" \notin wrong
        /\ ValuesCovered(todo, hasValue)
        /\ EachIn(todo, KeepingGuards)

LEMMA ValuesStart == FlowInit => ValuesInv
<1> SUFFICES ASSUME FlowInit, verdict.guarded, verdict.guardsLast
             PROVE  wrong = {} /\ ValuesCovered(todo, hasValue) /\ EachIn(todo, KeepingGuards)
    BY DEF ValuesInv
<1>1. PICK body \in FlowPrograms : verdict = Judged(body) /\ todo = Onto(body, << >>)
    BY DEF FlowInit
<1>2. body \in Guarded /\ body \in KeepingGuards
    BY <1>1, FlowAssumption DEF Judged, Guarded, KeepingGuards
<1>3. EachIn(todo, Guarded) /\ EachIn(todo, KeepingGuards)
    BY <1>1, <1>2, NothingLeft, EachOnto DEF Guarded
<1> QED
    BY <1>3 DEF ValuesCovered, EachIn, FlowInit

LEMMA ValuesKept == FlowTypes /\ ValuesInv /\ [FlowNext]_flowVars => ValuesInv'
<1> SUFFICES ASSUME FlowTypes, ValuesInv, [FlowNext]_flowVars, verdict'.guarded, verdict'.guardsLast
             PROVE  /\ "absent" \notin wrong'
                    /\ ValuesCovered(todo', hasValue')
                    /\ EachIn(todo', KeepingGuards)
    BY DEF ValuesInv
<1>1. verdict' = verdict
    BY DEF FlowNext, FlowRead, FlowRewrite, FlowUse, FlowLeave, FlowBranch, FlowEnds, flowVars
<1>2. "absent" \notin wrong /\ ValuesCovered(todo, hasValue) /\ EachIn(todo, KeepingGuards)
    BY <1>1 DEF ValuesInv
<1>3. ASSUME todo # << >>
      PROVE  /\ Head(todo) \in Guarded \/ (hasValue /\ ~ Fills(Head(todo)))
             /\ ValuesCovered(Rest, hasValue)
             /\ Fills(Head(todo)) => EachIn(todo, Guarded) /\ EachIn(Rest, Guarded)
             /\ EachIn(Rest, KeepingGuards) /\ Head(todo) \in KeepingGuards
  <2>1. \A block \in KeepingGuards : block # << >> => Tail(block) \in KeepingGuards
      BY GuardParts, Parts DEF KeepingGuards, Lower
  <2>2. Head(todo) # << >>
      BY <1>3, AtFirst
  <2> QED
      BY <1>2, <1>3, <2>1, <2>2, ValuesRest, EachRest DEF Rest, FlowTypes
<1>4. CASE FlowRead
  <2>1. todo # << >> /\ First.kind = "read" /\ todo' = Rest /\ "absent" \notin wrong'
      BY <1>2, <1>4 DEF FlowRead, AtA, Defect
  <2>2. Fills(Head(todo))
      BY <2>1, AtFirst, FillParts DEF First
  <2>3. EachIn(todo', Guarded)
      BY <1>3, <2>1, <2>2
  <2> QED
      BY <1>3, <2>1, <2>3 DEF ValuesCovered, EachIn
<1>5. CASE FlowRewrite
    BY <1>2, <1>3, <1>5 DEF FlowRewrite, AtA, Defect
<1>6. CASE FlowUse
  <2>1. todo # << >> /\ todo' = Rest /\ hasValue' = hasValue
      BY <1>6 DEF FlowUse, AtA
  <2>2. First.kind = "value" => hasValue
      BY <1>3, <2>1, AtFirst, GuardedValues DEF Guarded, First
  <2>3. "absent" \notin wrong'
      BY <1>2, <1>6, <2>2 DEF FlowUse, Defect
  <2> QED
      BY <1>3, <2>1, <2>3
<1>7. CASE FlowLeave
    BY <1>2, <1>7, NothingLeft DEF FlowLeave, ValuesCovered
<1>8. CASE FlowBranch
  <2>1. /\ todo # << >> /\ hasValue' = hasValue /\ "absent" \notin wrong'
      BY <1>2, <1>8 DEF FlowBranch, AtA, Defect
  <2>2. /\ Around(First) \in Stacks
        /\ ValuesCovered(Around(First), hasValue)
        /\ Fills(Head(todo)) => EachIn(Around(First), Guarded)
        /\ EachIn(Around(First), KeepingGuards)
      BY <1>2, <1>3, <2>1, AtFirst DEF Around
  <2>3. ASSUME NEW k \in 1..Len(First.arms), MayTake(First, k)
        PROVE  /\ ValuesCovered(Onto(First.arms[k], Around(First)), hasValue)
               /\ EachIn(Onto(First.arms[k], Around(First)), KeepingGuards)
    <3> DEFINE arm == First.arms[k]
    <3>1. Head(todo) \in FlowBlocks /\ Head(todo) # << >> /\ arm \in FlowBlocks /\ First = Head(Head(todo))
        BY <2>1, AtFirst DEF First
    <3>2. arm \in KeepingGuards
        BY <1>3, <2>1, <3>1, GuardParts DEF KeepingGuards
    <3>3. ~ Fills(Head(todo)) => ~ Fills(arm)
        BY <3>1, FillParts
    <3>4. arm \in Guarded \/ (hasValue /\ ~ Fills(arm))
      <4>1. CASE ~ Fills(Head(todo)) /\ hasValue
          BY <3>3, <4>1
      <4>2. CASE Head(todo) \in Guarded
        <5>1. Proven(First, k) \/ ValuesGuarded[arm]
            BY <3>1, <4>2, GuardedValues DEF Guarded
        <5>2. ASSUME Proven(First, k) PROVE hasValue /\ ~ Fills(arm)
          <6>1. First.kind = "if" /\ First.cond = "present" /\ k = 1
              BY <5>2 DEF Proven
          <6>2. hasValue
              BY <2>3, <6>1 DEF MayTake
          <6>3. ~ Fills(First.arms[1])
              BY <1>3, <2>1, <3>1, <6>1, GuardParts DEF KeepingGuards
          <6> QED
              BY <6>1, <6>2, <6>3
        <5> QED
            BY <3>1, <5>1, <5>2 DEF Guarded
      <4> QED
          BY <1>3, <2>1, <4>1, <4>2
    <3>5. Fills(arm) => EachIn(Around(First), Guarded)
        BY <2>2, <3>3
    <3> HIDE DEF arm
    <3>6. ValuesCovered(Onto(arm, Around(First)), hasValue)
        BY <2>2, <3>1, <3>4, <3>5, ValuesOnto
    <3>7. EachIn(Onto(arm, Around(First)), KeepingGuards)
        BY <2>2, <3>1, <3>2, EachOnto
    <3> QED
        BY <3>6, <3>7 DEF arm
  <2> QED
      BY <1>3, <1>8, <2>1, <2>3, Entering
<1>9. CASE FlowEnds
    BY <1>2, <1>9 DEF FlowEnds, Defect
<1>10. CASE UNCHANGED flowVars
    BY <1>2, <1>10 DEF flowVars
<1> QED
    BY <1>4, <1>5, <1>6, <1>7, <1>8, <1>9, <1>10 DEF FlowNext

(* No program collectGuards accepts takes the value of an absent nullable, *)
(* as long as no guarded branch fills the record again.                    *)
THEOREM FlowValuesArePresent == FlowSpec => []ValuesArePresent
<1>1. FlowInit => ValuesInv
    BY ValuesStart
<1>2. FlowTypes /\ ValuesInv /\ [FlowNext]_flowVars => ValuesInv'
    BY ValuesKept
<1>3. ValuesInv => ValuesArePresent
    BY DEF ValuesInv, ValuesArePresent
<1> QED
    BY <1>1, <1>2, <1>3, FlowTypeOK, PTL DEF FlowSpec

-----------------------------------------------------------------------------
(* Ends.  While a function runs, one of the blocks left ends on every path *)
(* of its own.                                                             *)
ReturnsInv == verdict.returns => ending # "fell" /\ (ending = "no" => SomeEnds(todo))

LEMMA ReturnsStart == FlowInit => ReturnsInv
<1> SUFFICES ASSUME FlowInit, verdict.returns PROVE SomeEnds(todo) /\ ending = "no"
    BY DEF ReturnsInv
<1>1. PICK body \in FlowPrograms : verdict = Judged(body) /\ todo = Onto(body, << >>)
    BY DEF FlowInit
<1>2. body \in FlowBlocks /\ body \in Ending
    BY <1>1, FlowAssumption DEF Judged, Ending
<1> QED
    BY <1>1, <1>2, NothingLeft, EndsOnto DEF FlowInit

LEMMA ReturnsKept == FlowTypes /\ ReturnsInv /\ [FlowNext]_flowVars => ReturnsInv'
<1> SUFFICES ASSUME FlowTypes, ReturnsInv, [FlowNext]_flowVars, verdict'.returns
             PROVE  ending' # "fell" /\ (ending' = "no" => SomeEnds(todo'))
    BY DEF ReturnsInv
<1>1. verdict' = verdict
    BY DEF FlowNext, FlowRead, FlowRewrite, FlowUse, FlowLeave, FlowBranch, FlowEnds, flowVars
<1>2. ending # "fell" /\ (ending = "no" => SomeEnds(todo))
    BY <1>1 DEF ReturnsInv
<1>3. ASSUME SomeEnds(todo)
      PROVE  /\ todo # << >>
             /\ \/ SomeEnds(Rest)
                \/ First.kind \in Ends
                \/ HasElse(First) /\ \A k \in 1..Len(First.arms) : First.arms[k] \in Ending
  <2>1. todo # << >> /\ (Head(todo) \in Ending \/ SomeEnds(Tail(todo)))
      BY <1>3, EndsRest DEF FlowTypes
  <2>2. /\ Tail(Head(todo)) \in FlowBlocks /\ Tail(todo) \in Stacks
        /\ \A k \in 1..Len(First.arms) : First.arms[k] \in FlowBlocks
      BY <2>1, AtFirst
  <2>3. Head(todo) \in Ending =>
            \/ Tail(Head(todo)) \in Ending
            \/ First.kind \in Ends
            \/ HasElse(First) /\ \A k \in 1..Len(First.arms) : First.arms[k] \in Ending
      BY <2>2, PathsEnd DEF Ending, First
  <2> QED
      BY <2>1, <2>2, <2>3, EndsOnto DEF Rest
<1>4. CASE FlowRead \/ FlowRewrite \/ FlowUse
  <2>1. ending = "no" /\ ending' = "no" /\ First.kind \in Effects /\ todo' = Rest
      BY <1>4 DEF FlowRead, FlowRewrite, FlowUse, AtA, Effects
  <2> QED
      BY <1>2, <1>3, <2>1 DEF Effects, Ends, HasElse
<1>5. CASE FlowLeave
    BY <1>5 DEF FlowLeave
<1>6. CASE FlowBranch
  <2>1. /\ todo # << >> /\ First.kind \in {"if", "while", "each", "switch"}
        /\ ending = "no" /\ ending' = "no" /\ SomeEnds(todo)
      BY <1>2, <1>6 DEF FlowBranch, AtA
  <2>2. CASE todo' = Rest /\ MayPass(First)
      BY <1>3, <2>1, <2>2 DEF MayPass, HasElse, Ends
  <2>3. ASSUME NEW k \in 1..Len(First.arms) PROVE SomeEnds(Onto(First.arms[k], Around(First)))
    <3>1. First.arms[k] \in FlowBlocks /\ Around(First) \in Stacks
        BY <2>1, AtFirst
    <3>2. First.arms[k] \in Ending \/ SomeEnds(Around(First))
        BY <1>3, <2>1 DEF Around, Ends
    <3> QED
        BY <3>1, <3>2, EndsOnto
  <2> QED
      BY <1>6, <2>1, <2>2, <2>3, Entering
<1>7. CASE FlowEnds
    BY <1>2, <1>3, <1>7 DEF FlowEnds
<1>8. CASE UNCHANGED flowVars
    BY <1>2, <1>8 DEF flowVars
<1> QED
    BY <1>4, <1>5, <1>6, <1>7, <1>8 DEF FlowNext

(* No function validateBlock accepts runs off the end of its body.         *)
THEOREM FlowFunctionsReturn == FlowSpec => []FunctionsReturn
<1>1. FlowInit => ReturnsInv
    BY ReturnsStart
<1>2. FlowTypes /\ ReturnsInv /\ [FlowNext]_flowVars => ReturnsInv'
    BY ReturnsKept
<1>3. ReturnsInv => FunctionsReturn
    BY DEF ReturnsInv, FunctionsReturn
<1> QED
    BY <1>1, <1>2, <1>3, FlowTypeOK, PTL DEF FlowSpec

(* The rules of updates, values and ends, together: a program each accepts *)
(* does not go wrong in the way it is about.                               *)
THEOREM FlowAcceptedGoRight == FlowSpec => []AcceptedProgramsGoRight
<1>1. UpdatesFollowReads /\ ValuesArePresent /\ FunctionsReturn => AcceptedProgramsGoRight
    BY DEF AcceptedProgramsGoRight
<1> QED
    BY <1>1, FlowUpdatesFollowReads, FlowValuesArePresent, FlowFunctionsReturn, PTL

-----------------------------------------------------------------------------
(* Outcomes.                                                               *)
TestingLoops == {block \in FlowBlocks : LoopsTest(block)}

OutcomesInv ==
    verdict.handled /\ verdict.loopsTest =>
        /\ "outcome" \notin wrong
        /\ Settles(todo, owing)
        /\ EachIn(todo, TestingLoops)

(* What a block that passes does with its first statement.                 *)
LEMMA FirstPasses ==
    ASSUME NEW block \in FlowBlocks, block # << >>, Head(block).kind \notin Ends,
           NEW owed \in BOOLEAN, NEW onward \in BOOLEAN, Passes(block, owed, onward)
    PROVE  LET left == WalkStatement(WalkBlock, Head(block), Known(owed))
           IN  /\ left = Known(left.owed) /\ left.owed \in BOOLEAN
               /\ Passes(Tail(block), left.owed, onward)
<1> DEFINE left == WalkStatement(WalkBlock, Head(block), Known(owed))
<1>1. Known(owed) \in Facts
    BY DEF Known, Facts
<1>2. WalkBlock[block][Known(owed)] = WalkBlock[Tail(block)][left]
    BY <1>1, BlocksWalk
<1>3. left \in Facts
    BY <1>1, Parts, BlocksWalk, StatementsKeepFacts
<1>4. Tail(block) \in FlowBlocks
    BY Parts DEF Lower
<1> HIDE DEF left
<1>5. ~ left.reported
    BY <1>2, <1>3, <1>4, ReportsStay DEF Passes, KeepsReports
<1>6. left = Known(left.owed) /\ left.owed \in BOOLEAN
    BY <1>3, <1>5 DEF Known, Facts
<1> QED
    BY <1>2, <1>6 DEF Passes, left

LEMMA OutcomesStart == FlowInit => OutcomesInv
<1> SUFFICES ASSUME FlowInit, verdict.handled, verdict.loopsTest
             PROVE  wrong = {} /\ Settles(todo, owing) /\ EachIn(todo, TestingLoops)
    BY DEF OutcomesInv
<1>1. PICK body \in FlowPrograms : verdict = Judged(body) /\ todo = Onto(body, << >>)
    BY DEF FlowInit
<1>2. body \in FlowBlocks /\ LoopsTest(body) /\ OutcomesHandled(body)
    BY <1>1, FlowAssumption DEF Judged
<1>3. EachIn(todo, TestingLoops)
    BY <1>1, <1>2, NothingLeft, EachOnto DEF TestingLoops
<1>4. Passes(body, FALSE, FALSE)
  <2>1. Known(FALSE) = Clean
      BY DEF Known, Clean
  <2> QED
      BY <1>2, <2>1 DEF Passes, OutcomesHandled
<1>5. Settles(<< >>, FALSE)
  <2>1. Accounts(<< >>, [i \in 1..1 |-> FALSE])
      BY DEF Accounts
  <2> QED
      BY <2>1 DEF Settles
<1>6. Settles(todo, FALSE)
    BY <1>1, <1>2, <1>4, <1>5, NothingLeft, SettlesOnto
<1> QED
    BY <1>3, <1>6 DEF FlowInit

LEMMA SettlesLess ==
    ASSUME NEW blocks, NEW owed \in BOOLEAN, NEW less \in BOOLEAN, Settles(blocks, owed), less => owed
    PROVE  Settles(blocks, less)
BY DEF Settles

(* A loop comes round: what its body leaves, its head can start from.  The *)
(* body of a loop that does not test the status leaves nothing pending; at *)
(* the head of one that does, it does not matter.                          *)
LEMMA ComesRound ==
    ASSUME FlowTypes, todo # << >>, Head(todo) \in TestingLoops, First.kind \in {"while", "each"},
           NEW owed \in BOOLEAN, NEW onward \in BOOLEAN,
           Passes(Head(todo), owed, onward), Settles(Tail(todo), onward),
           NEW seen, seen = Observe(Known(owed), First.cond),
           NEW after, after = WalkBlock[First.arms[1]][seen]
    PROVE  Settles(todo, after.owed)
<1> DEFINE block == Head(todo)
<1>1. /\ block \in FlowBlocks /\ block # << >> /\ Tail(todo) \in Stacks
      /\ First = Head(block) /\ First \in Nodes(FlowBlocks) /\ Formed(First)
      /\ Len(First.arms) = 1 /\ First.arms[1] \in FlowBlocks
  <2>1. Len(First.arms) = 1
      BY AtFirst DEF Formed
  <2> QED
      BY <2>1, AtFirst DEF First
<1>2. First.cond \in Conditions /\ Known(owed) \in Facts /\ Known(TRUE) \in Facts
    BY <1>1 DEF Nodes, Known, Facts
<1>3. seen \in Facts /\ (seen.owed => owed)
    BY <1>2, Observing DEF Observe, Report, Known, Facts
<1>4. after \in Facts
    BY <1>1, <1>3, BlocksWalk
<1>5. ASSUME NEW o \in BOOLEAN, Passes(block, o, onward) PROVE Settles(todo, o)
  <2>1. Settles(Onto(block, Tail(todo)), o)
      BY <1>1, <1>5, SettlesOnto
  <2> QED
      BY <2>1, StackedBack DEF FlowTypes
<1>6. CASE ~ Fills(First.arms[1])
  <2>1. after.owed => owed
      BY <1>1, <1>3, <1>6, OnlyReadsOwe DEF Quiet
  <2> QED
      BY <1>4, <1>5, <2>1, SettlesLess DEF Facts
<1>7. CASE Fills(First.arms[1])
  <2>1. First.kind = "while" /\ First.cond = "status"
      BY <1>1, <1>7, LoopParts DEF TestingLoops
  <2>2. Observe(Known(TRUE), First.cond) = seen
    <3>1. \A o \in BOOLEAN : Known(o) \in Facts /\ Known(o).reported = FALSE
        BY DEF Known, Facts
    <3>2. \A o \in BOOLEAN : Observe(Known(o), First.cond) = [owed |-> FALSE, reported |-> FALSE]
        BY <1>2, <2>1, <3>1, Observing
    <3> QED
        BY <3>2
  <2>3. WalkStatement(WalkBlock, First, Known(TRUE)) = WalkStatement(WalkBlock, First, Known(owed))
      BY <2>1, <2>2 DEF WalkStatement, ReadsRecord
  <2>4. WalkBlock[block][Known(TRUE)] = WalkBlock[block][Known(owed)]
    <3>1. ASSUME NEW s \in Facts
          PROVE  WalkBlock[block][s] = WalkBlock[Tail(block)][WalkStatement(WalkBlock, First, s)]
        BY <1>1, <2>1, BlocksWalk DEF Ends
    <3> QED
        BY <1>2, <2>3, <3>1
  <2>5. Passes(block, TRUE, onward)
      BY <2>4 DEF Passes
  <2>6. Settles(todo, TRUE)
      BY <1>5, <2>5
  <2> QED
      BY <1>4, <2>6, SettlesLess DEF Facts
<1> QED
    BY <1>6, <1>7

LEMMA OutcomesKept == FlowTypes /\ OutcomesInv /\ [FlowNext]_flowVars => OutcomesInv'
<1> SUFFICES ASSUME FlowTypes, OutcomesInv, [FlowNext]_flowVars, verdict'.handled, verdict'.loopsTest
             PROVE  /\ "outcome" \notin wrong'
                    /\ Settles(todo', owing')
                    /\ EachIn(todo', TestingLoops)
    BY DEF OutcomesInv
<1>1. verdict' = verdict
    BY DEF FlowNext, FlowRead, FlowRewrite, FlowUse, FlowLeave, FlowBranch, FlowEnds, flowVars
<1>2. "outcome" \notin wrong /\ Settles(todo, owing) /\ EachIn(todo, TestingLoops)
    BY <1>1 DEF OutcomesInv
<1>3. ASSUME todo # << >>
      PROVE  EachIn(Rest, TestingLoops) /\ Head(todo) \in TestingLoops
  <2>1. Head(todo) \in TestingLoops => Tail(Head(todo)) \in TestingLoops
      BY <1>3, AtFirst, LoopParts DEF TestingLoops
  <2> QED
      BY <1>2, <1>3, <2>1, EachRest DEF Rest, FlowTypes
<1>4. ASSUME todo # << >>, First.kind \notin Ends
      PROVE  \E owed, onward \in BOOLEAN :
                LET left == WalkStatement(WalkBlock, First, Known(owed))
                IN  /\ owing => owed
                    /\ Passes(Head(todo), owed, onward) /\ Settles(Tail(todo), onward)
                    /\ left = Known(left.owed) /\ left.owed \in BOOLEAN /\ Settles(Rest, left.owed)
  <2>1. PICK owed \in BOOLEAN, onward \in BOOLEAN :
            (owing => owed) /\ Passes(Head(todo), owed, onward) /\ Settles(Tail(todo), onward)
      BY <1>2, <1>4, SettlesHead DEF FlowTypes
  <2> DEFINE left == WalkStatement(WalkBlock, First, Known(owed))
  <2>2. left = Known(left.owed) /\ left.owed \in BOOLEAN /\ Passes(Tail(Head(todo)), left.owed, onward)
      BY <1>4, <2>1, AtFirst, FirstPasses DEF First
  <2> HIDE DEF left
  <2>3. Settles(Rest, left.owed)
      BY <1>4, <2>1, <2>2, AtFirst, SettlesOnto DEF Rest
  <2> QED
      BY <2>1, <2>2, <2>3 DEF left
<1>5. CASE FlowRead \/ FlowRewrite \/ FlowUse
  <2>1. /\ todo # << >> /\ First.kind \notin Ends /\ todo' = Rest
        /\ \/ First.kind = "read" /\ owing' = TRUE
           \/ ReadsRecord(First) /\ owing' \in {FALSE, owing}
        /\ wrong' \subseteq wrong \union Defect(owing, "outcome") \union {"unread", "absent"}
    <3>1. CASE FlowRead
        BY <3>1 DEF FlowRead, AtA, Ends
    <3>2. CASE FlowRewrite
        BY <3>2 DEF FlowRewrite, AtA, Ends, ReadsRecord, Defect
    <3>3. CASE FlowUse
        BY <3>3 DEF FlowUse, AtA, Ends, ReadsRecord, Defect
    <3> QED
        BY <1>5, <3>1, <3>2, <3>3
  <2>2. PICK owed \in BOOLEAN, onward \in BOOLEAN :
            LET left == WalkStatement(WalkBlock, First, Known(owed))
            IN  /\ owing => owed
                /\ left = Known(left.owed) /\ left.owed \in BOOLEAN /\ Settles(Rest, left.owed)
      BY <1>4, <2>1
  <2>3. Known(owed) \in Facts
      BY DEF Known, Facts
  <2> DEFINE left == WalkStatement(WalkBlock, First, Known(owed))
  <2>4. /\ First.kind = "read" => left.owed = TRUE
        /\ left.reported = owed
    <3>1. left = [owed |-> TRUE, reported |-> FALSE \/ owed] \/ left = [owed |-> FALSE, reported |-> FALSE \/ owed]
        BY <2>1, <2>3, OtherStatements DEF Known
    <3>2. First.kind = "read" => left = [owed |-> TRUE, reported |-> FALSE \/ owed]
        BY <2>3, OtherStatements DEF Known
    <3> HIDE DEF left
    <3> QED
        BY <3>1, <3>2
  <2>5. ~ owed /\ ~ owing
      BY <2>2, <2>4 DEF Known
  <2>6. Settles(Rest, left.owed) /\ left.owed \in BOOLEAN
      BY <2>2
  <2> HIDE DEF left
  <2>7. Settles(Rest, owing')
    <3>1. (owing' = TRUE /\ left.owed = TRUE) \/ owing' = FALSE
        BY <2>1, <2>4, <2>5 DEF FlowTypes
    <3> QED
        BY <2>6, <3>1, SettlesLess
  <2>8. "outcome" \notin wrong'
      BY <1>2, <2>1, <2>5 DEF Defect
  <2> QED
      BY <1>3, <2>1, <2>7, <2>8
<1>6. CASE FlowLeave
  <2>1. Accounts(<< >>, [i \in 1..1 |-> FALSE])
      BY DEF Accounts
  <2>2. Settles(<< >>, FALSE)
      BY <2>1 DEF Settles
  <2> QED
      BY <1>2, <1>6, <2>2, NothingLeft DEF FlowLeave
<1>7. CASE FlowBranch
  <2>1. /\ todo # << >> /\ First.kind \in {"if", "while", "each", "switch"} /\ First.kind \notin Ends
        /\ owing' = (owing /\ First.cond # "status")
        /\ wrong' = wrong \union Defect(owing /\ Compares(First.cond), "outcome")
      BY <1>7 DEF FlowBranch, AtA, Ends
  <2>2. PICK owed \in BOOLEAN, onward \in BOOLEAN :
            LET left == WalkStatement(WalkBlock, First, Known(owed))
            IN  /\ owing => owed
                /\ Passes(Head(todo), owed, onward) /\ Settles(Tail(todo), onward)
                /\ left = Known(left.owed) /\ left.owed \in BOOLEAN /\ Settles(Rest, left.owed)
      BY <1>4, <2>1
  <2> DEFINE seen   == Observe(Known(owed), First.cond)
             arm(k) == WalkBlock[First.arms[k]][seen]
             left   == WalkStatement(WalkBlock, First, Known(owed))
  <2>3. /\ First \in Nodes(FlowBlocks) /\ Formed(First) /\ Known(owed) \in Facts
        /\ First.cond \in Conditions
        /\ \A k \in 1..Len(First.arms) : First.arms[k] \in FlowBlocks /\ KeepsReports(First.arms[k])
      BY <2>1, AtFirst, ReportsStay DEF Known, Facts, Nodes
  <2>4. /\ seen \in Facts /\ \A k \in 1..Len(First.arms) : arm(k) \in Facts
        /\ seen.reported => left.reported
        /\ MayPass(First) /\ seen.owed => left.owed
        /\ \A k \in 1..Len(First.arms) :
              /\ arm(k).reported => left.reported
              /\ First.kind \in {"if", "switch"} /\ arm(k).owed => left.owed
      BY <2>1, <2>3, Branching
  <2>5. ~ left.reported /\ left.owed \in BOOLEAN /\ Settles(Rest, left.owed)
      BY <2>2 DEF Known
  <2>6. ~ seen.reported
      BY <2>4, <2>5
  <2>7. (Compares(First.cond) => ~ owing) /\ (owing' => seen.owed) /\ owing' \in BOOLEAN
    <3>1. /\ Compares(First.cond) => seen = [owed |-> FALSE, reported |-> FALSE \/ owed]
          /\ First.cond = "other" => seen = Known(owed)
          /\ Compares(First.cond) \/ First.cond = "status" \/ First.cond = "other"
        BY <2>3, Observing DEF Known, Compares, Conditions
    <3> HIDE DEF seen
    <3>2. Compares(First.cond) => ~ owed
        BY <2>6, <3>1
    <3>3. First.cond = "other" => seen.owed = owed
        BY <3>1 DEF Known
    <3>4. owing => owed
        BY <2>2
    <3> QED
        BY <2>1, <3>1, <3>2, <3>3, <3>4 DEF FlowTypes
  <2>8. seen = Known(seen.owed) /\ seen.owed \in BOOLEAN
      BY <2>4, <2>6 DEF Known, Facts
  <2>9. "outcome" \notin wrong'
      BY <1>2, <2>1, <2>7 DEF Defect
  <2> HIDE DEF seen, arm, left
  <2>10. CASE MayPass(First) /\ todo' = Rest
      BY <1>3, <2>1, <2>4, <2>5, <2>7, <2>8, <2>9, <2>10, SettlesLess
  <2>11. ASSUME NEW k \in 1..Len(First.arms), todo' = Onto(First.arms[k], Around(First))
         PROVE  Settles(todo', owing') /\ EachIn(todo', TestingLoops)
    <3>1. First.arms[k] \in FlowBlocks /\ Around(First) \in Stacks
        BY <2>1, AtFirst
    <3>2. Passes(First.arms[k], seen.owed, arm(k).owed) /\ arm(k).owed \in BOOLEAN
      <4>1. WalkBlock[First.arms[k]][Known(seen.owed)] = arm(k)
          BY <2>8 DEF arm
      <4> QED
          BY <2>4, <2>5, <4>1 DEF Passes, Facts
    <3>3. Settles(Around(First), arm(k).owed)
      <4>1. CASE First.kind \in {"if", "switch"}
          BY <2>4, <2>5, <3>2, <4>1, SettlesLess DEF Around
      <4>2. CASE First.kind \in {"while", "each"}
        <5>1. k = 1
            BY <2>3, <4>2 DEF Formed
        <5>2. Settles(todo, arm(1).owed)
            BY <1>3, <2>1, <2>2, <4>2, ComesRound DEF seen, arm
        <5> QED
            BY <4>2, <5>1, <5>2 DEF Around
      <4> QED
          BY <2>1, <4>1, <4>2
    <3>4. Settles(todo', seen.owed)
        BY <2>8, <2>11, <3>1, <3>2, <3>3, SettlesOnto
    <3>5. EachIn(Around(First), TestingLoops)
        BY <1>2, <1>3, <2>1 DEF Around
    <3>6. First.arms[k] \in TestingLoops
        BY <1>3, <2>1, <3>1, AtFirst, LoopParts DEF TestingLoops, First
    <3> QED
        BY <2>7, <2>8, <2>11, <3>1, <3>4, <3>5, <3>6, EachOnto, SettlesLess
  <2> QED
      BY <1>7, <2>9, <2>10, <2>11, Entering
<1>8. CASE FlowEnds
  <2>1. todo = << >> /\ todo' = todo /\ owing' = owing
      BY <1>8 DEF FlowEnds
  <2>2. ~ owing
      BY <1>2, <2>1 DEF Settles, Accounts
  <2> QED
      BY <1>2, <1>8, <2>1, <2>2 DEF FlowEnds, Defect
<1>9. CASE UNCHANGED flowVars
    BY <1>2, <1>9 DEF flowVars
<1> QED
    BY <1>5, <1>6, <1>7, <1>8, <1>9 DEF FlowNext

(* No program checkFileOutcomes accepts uses the record, the file or the   *)
(* end of its routine with an outcome outstanding, as long as a loop that  *)
(* reads tests the status where it comes round.                            *)
THEOREM FlowNoStaleRecord == FlowSpec => []NoStaleRecordWhereLoopsTest
<1>1. FlowInit => OutcomesInv
    BY OutcomesStart
<1>2. FlowTypes /\ OutcomesInv /\ [FlowNext]_flowVars => OutcomesInv'
    BY OutcomesKept
<1>3. OutcomesInv => NoStaleRecordWhereLoopsTest
    BY DEF OutcomesInv, NoStaleRecordWhereLoopsTest, NoStaleRecord
<1> QED
    BY <1>1, <1>2, <1>3, FlowTypeOK, PTL DEF FlowSpec
=============================================================================
