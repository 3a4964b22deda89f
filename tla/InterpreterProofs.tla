------------------------- MODULE InterpreterProofs -------------------------
(***************************************************************************)
(* That every frame of the interpreter gives back what it owes, however it *)
(* is left, and that a sort that failed gives nothing and is seen to have  *)
(* failed: for every set of programs, any depth and any length of run.     *)
(*                                                                         *)
(* The inductive invariant, FramesInv, says what makes an exit find what   *)
(* it unwinds: a call runs its body, so a statement has a range to leave   *)
(* for; the calls that are counted are those on the stack in their order;  *)
(* and a sort is of the program that runs it, one for each program at most.*)
(*                                                                         *)
(* The machine's indexed files are the second half.                        *)
(***************************************************************************)
EXTENDS Interpreter, IndexedFile, FiniteSetTheorems, SequenceTheorems, NaturalSets, TLAPS

-----------------------------------------------------------------------------
(* The shape of a frame.                                                   *)
CallFrames == [kind : {"call"}, of : LoadedPrograms]
RangeFrames == [kind : {"range"}, from : Nat, thru : Nat, at : Nat]
PerformFrames == [kind : {"perform"}]
UseFrames == [kind : {"use"}]
SortFrames == [kind : {"sort"}, of : LoadedPrograms, phase : {"input", "output"},
               failedIn : BOOLEAN, failedOut : BOOLEAN, mixed : BOOLEAN]
Frame == CallFrames \union RangeFrames \union PerformFrames \union UseFrames \union SortFrames

ImTypeOK ==
    /\ stack \in Seq(Frame)
    /\ callStack \in Seq(LoadedPrograms)
    /\ localFrames \in [LoadedPrograms -> Nat]
    /\ sortWork \in [LoadedPrograms -> {"none", "releasing", "ordered"}]
    /\ sortReturn \in BOOLEAN /\ inDeclarative \in BOOLEAN
    /\ steps \in 0..StepLimit
    /\ outcome \in {"running", "ended", "fault"}

(* A run that goes on is in a call, and a call runs its body, so a         *)
(* statement always has a range to stand in.                               *)
CallsRunBodies ==
    /\ outcome = "running" => stack # << >>
    /\ stack # << >> => stack[1].kind = "call"
    /\ \A i \in Frames("call") : i < Depth => stack[i + 1].kind = "range"

(* The calls that are counted are those on the stack one for one, and each *)
(* has the LOCAL-STORAGE its program was given.                            *)
Rank(i) == Cardinality(Frames("call") \intersect 1..i)
CallsInOrder ==
    /\ \A i \in Frames("call") : callStack[Rank(i)] = stack[i].of
    /\ \A p \in LoadedPrograms :
          localFrames[p] = Cardinality({k \in DOMAIN callStack : callStack[k] = p})

(* A sort is of the program that runs it, and a program runs one at most.  *)
SortsAreOwn ==
    /\ \A i \in Frames("sort"), c \in Frames("call") :
          c < i /\ (\A d \in Frames("call") : d < i => d <= c) => stack[i].of = stack[c].of
    /\ \A i, j \in Frames("sort") : stack[i].of = stack[j].of => i = j
WorkIsOwned == \A p \in LoadedPrograms :
    sortWork[p] # "none" <=> \E i \in Frames("sort") : stack[i].of = p

(* Whatever set SORT-RETURN for the sort that runs is still in it, unless  *)
(* another sort has run.                                                   *)
AnswersHeld == \A i \in Frames("sort") :
    (stack[i].failedIn \/ stack[i].failedOut) /\ ~ stack[i].mixed => sortReturn

FramesInv ==
    /\ ImTypeOK /\ CallsRunBodies
    /\ CallsAreOnTheStack /\ CallsInOrder
    /\ SortsAreOwn /\ WorkIsOwned /\ DeclarativeOnce
    /\ AnswersHeld /\ FailedInputGivesNothing

-----------------------------------------------------------------------------
(* The newest of a set of frames. *)

LEMMA NewestIsLast ==
    ASSUME NEW n \in Nat, NEW I \in SUBSET (1..n), I # {}
    PROVE  Newest(I) \in I /\ \A i \in I : i <= Newest(I)
<1>1. I \in SUBSET (0..n)
    OBVIOUS
<1>2. \E x \in I : \A y \in I : y <= x
    BY <1>1, GreatestNatural
<1> QED
    BY <1>2 DEF Newest

-----------------------------------------------------------------------------
(* Views of the stack. *)

LEMMA StackShape ==
    ASSUME ImTypeOK
    PROVE  /\ Depth \in Nat /\ DOMAIN stack = 1..Depth
           /\ \A i \in 1..Depth : stack[i] \in Frame
           /\ \A i \in 1..Depth :
                 stack[i].kind \in {"call", "range", "perform", "use", "sort"}
           /\ \A kind : Frames(kind) \subseteq 1..Depth
           /\ \A i \in Frames("call") : stack[i] \in CallFrames
           /\ \A i \in Frames("range") : stack[i] \in RangeFrames
           /\ \A i \in Frames("sort") : stack[i] \in SortFrames
<1>1. Depth \in Nat /\ DOMAIN stack = 1..Depth /\ \A i \in 1..Depth : stack[i] \in Frame
    BY ElementOfSeq, LenProperties DEF ImTypeOK, Depth
<1>2. \A f \in Frame :
         /\ f.kind \in {"call", "range", "perform", "use", "sort"}
         /\ f.kind = "call" => f \in CallFrames
         /\ f.kind = "range" => f \in RangeFrames
         /\ f.kind = "sort" => f \in SortFrames
    BY DEF Frame, CallFrames, RangeFrames, PerformFrames, UseFrames, SortFrames
<1> QED
    BY <1>1, <1>2 DEF Frames

LEMMA CallsAreFrames ==
    ASSUME ImTypeOK, CallsRunBodies, stack # << >>
    PROVE  /\ Depth > 0
           /\ Here \in Frames("call") /\ Here \in 1..Depth /\ stack[Here].kind = "call"
           /\ Program \in LoadedPrograms
           /\ \A i \in Frames("call") : i <= Here
<1>1. Depth > 0
    BY DEF ImTypeOK, Depth
<1>2. 1 \in Frames("call")
    BY <1>1, StackShape DEF CallsRunBodies, Frames
<1>3. Here \in Frames("call") /\ \A i \in Frames("call") : i <= Here
    BY <1>2, StackShape, NewestIsLast DEF Here
<1>4. stack[Here] \in CallFrames /\ Here \in 1..Depth /\ stack[Here].kind = "call"
    BY <1>3, StackShape DEF Frames
<1> QED
    BY <1>1, <1>3, <1>4 DEF CallFrames, Program

(* A statement always has a range of its own program around it. *)
LEMMA StandsInRange ==
    ASSUME ImTypeOK, CallsRunBodies, Stating
    PROVE  /\ stack # << >> /\ Depth > 0
           /\ Here < Depth
           /\ Inner("range") # {}
<1>1. stack # << >> /\ Top.kind # "call"
    BY DEF Stating, CallsRunBodies
<1>2. Here \in Frames("call") /\ Here \in 1..Depth /\ stack[Here].kind = "call" /\ Depth \in Nat
    BY <1>1, CallsAreFrames, StackShape
<1>3. Here < Depth
    BY <1>1, <1>2 DEF Top
<1>4. Here + 1 \in Inner("range")
    BY <1>2, <1>3 DEF CallsRunBodies, Inner, Frames
<1> QED
    BY <1>1, <1>2, <1>3, <1>4

LEMMA InnerIsAbove ==
    ASSUME ImTypeOK, NEW kind, NEW I \in SUBSET Inner(kind), I # {}, Here \in Nat
    PROVE  /\ Newest(I) \in I
           /\ Newest(I) \in 1..Depth /\ Newest(I) > Here
           /\ stack[Newest(I)].kind = kind
           /\ \A i \in I : i <= Newest(I)
<1>1. I \subseteq 1..Depth /\ Depth \in Nat
    BY StackShape DEF Inner
<1>2. Newest(I) \in I /\ \A i \in I : i <= Newest(I)
    BY <1>1, NewestIsLast
<1> QED
    BY <1>1, <1>2 DEF Inner, Frames

(* What is left of the stack. *)
LEMMA KeptView ==
    ASSUME ImTypeOK, NEW n \in 0..Depth
    PROVE  /\ Kept(n) \in Seq(Frame) /\ Len(Kept(n)) = n
           /\ \A i \in 1..n : Kept(n)[i] = stack[i]
BY StackShape DEF ImTypeOK, Kept, Depth

LEMMA MovedView ==
    ASSUME ImTypeOK, NEW r \in Frames("range"), NEW to \in Nat,
           NEW s, s = [Kept(r) EXCEPT ![r].at = to]
    PROVE  /\ s \in Seq(Frame) /\ Len(s) = r
           /\ \A i \in 1..r : i # r => s[i] = stack[i]
           /\ s[r].kind = "range"
<1>1. r \in 1..Depth /\ stack[r] \in RangeFrames /\ Depth \in Nat
    BY StackShape
<1>2. Kept(r) \in Seq(Frame) /\ Len(Kept(r)) = r /\ \A i \in 1..r : Kept(r)[i] = stack[i]
    BY <1>1, KeptView
<1>3. [stack[r] EXCEPT !.at = to] \in RangeFrames /\ [stack[r] EXCEPT !.at = to] \in Frame
    BY <1>1 DEF RangeFrames, Frame
<1>4. s = [Kept(r) EXCEPT ![r] = [stack[r] EXCEPT !.at = to]]
  <2>1. Kept(r)[r] = stack[r]
      BY <1>1, <1>2
  <2>2. s = [Kept(r) EXCEPT ![r] = [Kept(r)[r] EXCEPT !.at = to]]
      OBVIOUS
  <2> QED
      BY <2>1, <2>2
<1>5. s \in Seq(Frame) /\ Len(s) = r /\ \A i \in 1..r : s[i] = IF i = r THEN [stack[r] EXCEPT !.at = to] ELSE stack[i]
    BY <1>1, <1>2, <1>3, <1>4, ExceptSeq
<1> QED
    BY <1>1, <1>3, <1>5 DEF RangeFrames

-----------------------------------------------------------------------------
(* What a step does to the stack, seen from each part of the invariant: it *)
(* keeps the frames up to n, as far as the part can tell, drops the others *)
(* and adds new ones.                                                      *)
Alike(n) == \A i \in 1..n :
    /\ stack'[i].kind = stack[i].kind
    /\ stack[i].kind \in {"call", "sort"} => stack'[i].of = stack[i].of

KeepsBottom(n) ==
    /\ n \in 0..Depth
    /\ stack' \in Seq(Frame) /\ Len(stack') \in Nat /\ n <= Len(stack')
    /\ Alike(n)

WorkDropped(n) == \A p \in LoadedPrograms :
    sortWork'[p] = "none" <=>
       sortWork[p] = "none" \/ \E i \in Frames("sort") : i > n /\ stack[i].of = p
FlagDropped(n) == inDeclarative' <=> inDeclarative /\ ~ \E i \in Frames("use") : i > n

LEMMA FramesUpTo ==
    ASSUME ImTypeOK, NEW n, KeepsBottom(n), NEW kind, \A i \in Frames(kind)' : i <= n
    PROVE  Frames(kind)' = {i \in Frames(kind) : i <= n}
BY StackShape DEF KeepsBottom, Alike, Frames, Depth

LEMMA CallsStay ==
    ASSUME ImTypeOK, CallsAreOnTheStack, CallsInOrder, NEW n, KeepsBottom(n),
           \A i \in Frames("call") : i <= n,
           \A i \in Frames("call")' : i <= n,
           UNCHANGED <<callStack, localFrames>>
    PROVE  CallsAreOnTheStack' /\ CallsInOrder'
<1>1. Frames("call")' = Frames("call")
    BY FramesUpTo
<1>2. \A i \in Frames("call") : stack'[i].of = stack[i].of
    BY StackShape DEF KeepsBottom, Alike, Frames
<1>3. \A p : {i \in Frames("call")' : stack'[i].of = p} = {i \in Frames("call") : stack[i].of = p}
    BY <1>1, <1>2
<1>4. CallsAreOnTheStack'
    BY <1>1, <1>3 DEF CallsAreOnTheStack
<1>5. \A i : Rank(i)' = Rank(i)
    BY <1>1 DEF Rank
<1> QED
    BY <1>1, <1>2, <1>4, <1>5 DEF CallsInOrder

LEMMA BodiesStay ==
    ASSUME ImTypeOK, CallsRunBodies, NEW n, KeepsBottom(n), n > 0,
           \A i \in Frames("call")' : i <= n,
           n < Len(stack') => stack[n].kind # "call" \/ stack'[n + 1].kind = "range"
    PROVE  CallsRunBodies'
<1>1. n \in 1..Depth /\ Depth \in Nat /\ Len(stack') \in Nat /\ n <= Len(stack')
    BY StackShape DEF KeepsBottom
<1>2. \A i \in 1..n : stack'[i].kind = stack[i].kind
    BY DEF KeepsBottom, Alike
<1>3. stack # << >> /\ stack' # << >> /\ stack'[1].kind = "call"
  <2>1. stack # << >> /\ stack' # << >>
      BY <1>1 DEF Depth
  <2> QED
      BY <1>1, <1>2, <2>1 DEF CallsRunBodies
<1>4. ASSUME NEW i \in Frames("call")', i < Len(stack')
      PROVE  stack'[i + 1].kind = "range"
  <2>1. i \in 1..n /\ i \in Frames("call")
      BY <1>1, <1>2, <1>4 DEF Frames, Depth
  <2>2. CASE i < n
      BY <1>1, <1>2, <2>1, <2>2 DEF CallsRunBodies
  <2>3. CASE i = n
      BY <1>4, <2>1, <2>3 DEF Frames
  <2> QED
      BY <1>1, <2>1, <2>2, <2>3
<1> QED
    BY <1>3, <1>4 DEF CallsRunBodies, Depth

LEMMA SortsStay ==
    ASSUME ImTypeOK, SortsAreOwn, WorkIsOwned, NEW n, KeepsBottom(n),
           \A i \in Frames("sort")' : i <= n,
           WorkDropped(n)
    PROVE  SortsAreOwn' /\ WorkIsOwned'
<1>1. Frames("sort")' = {i \in Frames("sort") : i <= n}
    BY FramesUpTo
<1>2. \A i \in Frames("sort") : i <= n => stack'[i].of = stack[i].of
    BY StackShape DEF KeepsBottom, Alike, Frames
<1>3. n \in 0..Depth /\ Depth \in Nat /\ Len(stack') \in Nat /\ n <= Len(stack')
    BY StackShape DEF KeepsBottom
<1>4. \A c \in 1..n : c \in Frames("call")' <=> c \in Frames("call")
    BY <1>3 DEF KeepsBottom, Alike, Frames, Depth
<1>5. \A c \in Frames("call") : c <= n => stack'[c].of = stack[c].of
    BY StackShape DEF KeepsBottom, Alike, Frames
<1>6. SortsAreOwn'
  <2>1. ASSUME NEW i \in Frames("sort")', NEW c \in Frames("call")', c < i,
               \A d \in Frames("call")' : d < i => d <= c
        PROVE  stack'[i].of = stack'[c].of
    <3>1. i \in Frames("sort") /\ i <= n /\ i \in 1..Depth /\ c \in 1..n
        BY <1>1, <1>3, <2>1, StackShape DEF Frames, Depth
    <3>2. c \in Frames("call")
        BY <1>4, <3>1
    <3>3. \A d \in Frames("call") : d < i => d <= c
        BY <1>3, <1>4, <2>1, <3>1, StackShape
    <3> QED
        BY <1>2, <1>3, <1>5, <2>1, <3>1, <3>2, <3>3 DEF SortsAreOwn
  <2>2. \A i, j \in Frames("sort")' : stack'[i].of = stack'[j].of => i = j
      BY <1>1, <1>2 DEF SortsAreOwn
  <2> QED
      BY <2>1, <2>2 DEF SortsAreOwn
<1>7. WorkIsOwned'
  <2> SUFFICES ASSUME NEW p \in LoadedPrograms
               PROVE  sortWork'[p] # "none" <=> \E i \in Frames("sort")' : stack'[i].of = p
      BY DEF WorkIsOwned
  <2>1. sortWork[p] # "none" <=> \E i \in Frames("sort") : stack[i].of = p
      BY DEF WorkIsOwned
  <2>2. (\E i \in Frames("sort")' : stack'[i].of = p)
           <=> \E i \in Frames("sort") : i <= n /\ stack[i].of = p
      BY <1>1, <1>2
  <2>3. \A i \in Frames("sort") : i <= n \/ i > n
      BY <1>3, StackShape
  <2> QED
      BY <1>3, <2>1, <2>2, <2>3, StackShape DEF SortsAreOwn, WorkDropped
<1> QED
    BY <1>6, <1>7

LEMMA UseStays ==
    ASSUME ImTypeOK, DeclarativeOnce, NEW n, KeepsBottom(n),
           \A i \in Frames("use")' : i <= n,
           FlagDropped(n)
    PROVE  DeclarativeOnce'
<1>1. Frames("use")' = {i \in Frames("use") : i <= n}
    BY FramesUpTo
<1>2. \A i \in Frames("use") : i \in Nat /\ n \in Nat
    BY StackShape DEF KeepsBottom
<1> QED
    BY <1>1, <1>2 DEF DeclarativeOnce, FlagDropped

(* The sorts that go on are the same, and the register keeps their answer. *)
LEMMA AnswersStay ==
    ASSUME ImTypeOK, AnswersHeld, FailedInputGivesNothing, NEW n, KeepsBottom(n),
           \A i \in Frames("sort")' : i <= n,
           \A i \in Frames("sort") : i <= n => stack'[i] = stack[i],
           sortReturn => sortReturn'
    PROVE  AnswersHeld' /\ FailedInputGivesNothing'
<1>1. Frames("sort")' = {i \in Frames("sort") : i <= n}
    BY FramesUpTo
<1> QED
    BY <1>1 DEF AnswersHeld, FailedInputGivesNothing

(* How a frame's work and its declarative end with it. *)
LEMMA UnwindDrops ==
    ASSUME ImTypeOK, NEW n \in Int, Unwind(n)
    PROVE  /\ sortWork' \in [LoadedPrograms -> {"none", "releasing", "ordered"}]
           /\ inDeclarative' \in BOOLEAN
           /\ WorkDropped(n) /\ FlagDropped(n)
<1>1. sortWork' \in [LoadedPrograms -> {"none", "releasing", "ordered"}] /\ WorkDropped(n)
    BY DEF Unwind, WorkAfter, WorkDropped, ImTypeOK
<1>2. inDeclarative' \in BOOLEAN /\ FlagDropped(n)
    BY Zenon DEF Unwind, FlagAfter, FlagDropped, ImTypeOK
<1> QED
    BY <1>1, <1>2

LEMMA NothingDropped ==
    ASSUME NEW n, UNCHANGED <<sortWork, inDeclarative>>,
           \A i \in Frames("sort") \union Frames("use") : ~ (i > n)
    PROVE  WorkDropped(n) /\ FlagDropped(n)
BY DEF WorkDropped, FlagDropped

(* A step inside the program that runs: it leaves frames of this call, and *)
(* enters ranges and PERFORMs.                                             *)
LEMMA StepInside ==
    ASSUME FramesInv, outcome = "running", ImTypeOK', NEW n, KeepsBottom(n), n >= Here,
           \A i \in 1..Len(stack') : i > n => stack'[i].kind \in {"range", "perform"},
           n = Len(stack') \/ stack[n].kind # "call",
           WorkDropped(n), FlagDropped(n),
           UNCHANGED <<callStack, localFrames>>
    PROVE  /\ \A i \in Frames("sort")' : i <= n
           /\ AnswersHeld' /\ FailedInputGivesNothing' => FramesInv'
<1> USE DEF FramesInv
<1>1. stack # << >>
    BY DEF CallsRunBodies
<1>2. /\ n \in Nat /\ Len(stack') \in Nat /\ Here \in 1..Depth
      /\ \A i \in Frames("call") : i <= Here
    BY <1>1, CallsAreFrames, StackShape DEF KeepsBottom
<1>3. \A i \in Frames("call") : i <= n
    BY <1>2, StackShape
<1>4. \A kind \in {"call", "sort", "use"} : \A i \in Frames(kind)' : i <= n
    BY <1>2 DEF Frames, Depth
<1>5. CallsAreOnTheStack' /\ CallsInOrder'
    BY <1>3, <1>4, CallsStay
<1>6. CallsRunBodies'
    BY <1>2, <1>4, BodiesStay
<1>7. SortsAreOwn' /\ WorkIsOwned'
    BY <1>4, SortsStay
<1>8. DeclarativeOnce'
    BY <1>4, UseStays
<1> QED
    BY <1>4, <1>5, <1>6, <1>7, <1>8

LEMMA StepKeepsSorts ==
    ASSUME FramesInv, outcome = "running", ImTypeOK', NEW n, KeepsBottom(n), n >= Here,
           \A i \in 1..Len(stack') : i > n => stack'[i].kind \in {"range", "perform"},
           n = Len(stack') \/ stack[n].kind # "call",
           WorkDropped(n), FlagDropped(n),
           UNCHANGED <<callStack, localFrames>>,
           \A i \in Frames("sort") : i <= n => stack'[i] = stack[i],
           sortReturn => sortReturn'
    PROVE  FramesInv'
<1>1. \A i \in Frames("sort")' : i <= n
    BY StepInside
<1>2. AnswersHeld' /\ FailedInputGivesNothing'
    BY <1>1, AnswersStay DEF FramesInv
<1> QED
    BY <1>2, StepInside

-----------------------------------------------------------------------------
(* The forms a step's stack takes. *)

LEMMA KeptKeeps ==
    ASSUME ImTypeOK, NEW n \in 0..Depth, stack' = Kept(n)
    PROVE  /\ KeepsBottom(n) /\ Len(stack') = n
           /\ \A i \in 1..n : stack'[i] = stack[i]
           /\ \A i \in Frames("sort") : i <= n => stack'[i] = stack[i]
<1>1. stack' \in Seq(Frame) /\ Len(stack') = n /\ \A i \in 1..n : stack'[i] = stack[i]
    BY KeptView
<1>2. KeepsBottom(n)
    BY <1>1, StackShape DEF KeepsBottom, Alike
<1> QED
    BY <1>1, <1>2, StackShape

LEMMA MovedKeeps ==
    ASSUME ImTypeOK, NEW r \in Frames("range"), NEW to \in Nat,
           stack' = [Kept(r) EXCEPT ![r].at = to]
    PROVE  /\ KeepsBottom(r) /\ Len(stack') = r
           /\ \A i \in Frames("sort") : i <= r => stack'[i] = stack[i]
<1>1. r \in 1..Depth /\ stack[r].kind = "range"
    BY StackShape DEF Frames
<1>2. /\ stack' \in Seq(Frame) /\ Len(stack') = r /\ stack'[r].kind = "range"
      /\ \A i \in 1..r : i # r => stack'[i] = stack[i]
    BY MovedView
<1>3. KeepsBottom(r)
    BY <1>1, <1>2, StackShape DEF KeepsBottom, Alike
<1>4. \A i \in Frames("sort") : i <= r => stack'[i] = stack[i]
    BY <1>1, <1>2, StackShape DEF Frames
<1> QED
    BY <1>2, <1>3, <1>4

LEMMA SameKeeps ==
    ASSUME ImTypeOK, UNCHANGED stack
    PROVE  KeepsBottom(Depth) /\ Len(stack') = Depth /\ \A i : stack'[i] = stack[i]
BY StackShape DEF KeepsBottom, Alike, ImTypeOK, Depth

LEMMA PushKeeps ==
    ASSUME ImTypeOK, NEW frames \in Seq(Frame), Push(frames)
    PROVE  /\ KeepsBottom(Depth) /\ Len(stack') = Depth + Len(frames)
           /\ \A i \in 1..Depth : stack'[i] = stack[i]
           /\ \A i \in 1..Len(frames) : stack'[Depth + i] = frames[i]
           /\ \A i \in Frames("sort") : i <= Depth => stack'[i] = stack[i]
<1>1. stack \in Seq(Frame) /\ Depth = Len(stack) /\ stack' = stack \o frames /\ Len(frames) \in Nat
    BY DEF ImTypeOK, Depth, Push
<1>2. /\ stack' \in Seq(Frame) /\ Len(stack') = Depth + Len(frames)
      /\ \A i \in 1..Depth + Len(frames) :
            stack'[i] = IF i <= Depth THEN stack[i] ELSE frames[i - Depth]
    BY <1>1, ConcatProperties
<1>3. /\ \A i \in 1..Depth : stack'[i] = stack[i]
      /\ \A i \in 1..Len(frames) : stack'[Depth + i] = frames[i]
    BY <1>1, <1>2, StackShape
<1> QED
    BY <1>1, <1>2, <1>3, StackShape DEF KeepsBottom, Alike

LEMMA NewFrames ==
    ASSUME NEW from \in Nat, NEW thru \in Nat
    PROVE  /\ Perform \in Frame /\ Use \in Frame /\ Ranging(from, thru) \in Frame
           /\ \A p \in LoadedPrograms : Call(p) \in Frame /\ Sort(p) \in Frame
BY DEF Perform, Use, Ranging, Call, Sort, Frame, CallFrames, RangeFrames, PerformFrames,
       UseFrames, SortFrames

LEMMA RunsCounts ==
    ASSUME steps \in 0..StepLimit, Runs
    PROVE  outcome = "running" /\ outcome' = "running" /\ steps' \in 0..StepLimit
BY InterpreterAssumption DEF Runs, Counted

-----------------------------------------------------------------------------
(* Ranges and PERFORMs. *)

(* The newest frame ends, and owes nothing that is not given back. *)
LEMMA TopEnds ==
    ASSUME FramesInv, outcome = "running", Top.kind # "call", stack' = Kept(Depth - 1),
           steps' \in 0..StepLimit, outcome' = "running", sortReturn' \in BOOLEAN,
           sortReturn => sortReturn',
           sortWork' \in [LoadedPrograms -> {"none", "releasing", "ordered"}],
           inDeclarative' \in BOOLEAN,
           WorkDropped(Depth - 1), FlagDropped(Depth - 1),
           UNCHANGED <<callStack, localFrames>>
    PROVE  FramesInv'
<1> USE DEF FramesInv
<1>1. stack # << >> /\ Here \in Frames("call") /\ Here \in 1..Depth /\ Depth \in Nat
    BY CallsAreFrames, StackShape DEF CallsRunBodies
<1>2. Depth - 1 \in 0..Depth /\ Depth - 1 >= Here
    BY <1>1 DEF Top, Frames
<1>3. /\ KeepsBottom(Depth - 1) /\ Len(stack') = Depth - 1
      /\ \A i \in Frames("sort") : i <= Depth - 1 => stack'[i] = stack[i]
    BY <1>2, KeptKeeps
<1>4. ImTypeOK'
    BY <1>3 DEF ImTypeOK, KeepsBottom
<1> QED
    BY <1>1, <1>2, <1>3, <1>4, StepKeepsSorts

LEMMA PlainTop ==
    ASSUME ImTypeOK, Top.kind \notin {"sort", "use"}
    PROVE  \A i \in Frames("sort") \union Frames("use") : ~ (i > Depth - 1)
BY StackShape DEF Top, Frames

LEMMA NoneAbove ==
    ASSUME ImTypeOK
    PROVE  \A i \in Frames("sort") \union Frames("use") : ~ (i > Depth)
BY StackShape

LEMMA KeptWhole == ASSUME ImTypeOK PROVE Kept(Depth) = stack
BY SubSeqFull DEF ImTypeOK, Kept, Depth

LEMMA EndParagraphInv == ASSUME FramesInv, EndParagraph PROVE FramesInv'
<1> USE DEF FramesInv
<1>1. /\ outcome = "running" /\ Top.kind = "range" /\ stack # << >>
      /\ UNCHANGED <<callStack, localFrames, sortWork, sortReturn, inDeclarative, steps, outcome>>
    BY DEF EndParagraph, CallsRunBodies
<1>2. Depth \in 1..Depth /\ Depth \in Frames("range") /\ Here \in 1..Depth /\ Depth \in Nat
    BY <1>1, CallsAreFrames, StackShape DEF Top, Frames
<1>3. CASE Top.at < Top.thru
  <2>1. Top.at \in Nat
      BY <1>2, StackShape DEF Top, RangeFrames
  <2>2. stack' = [Kept(Depth) EXCEPT ![Depth].at = Top.at + 1]
      BY <1>3, KeptWhole DEF EndParagraph, Top
  <2>3. /\ KeepsBottom(Depth) /\ Len(stack') = Depth
        /\ \A i \in Frames("sort") : i <= Depth => stack'[i] = stack[i]
    <3>1. Top.at + 1 \in Nat
        BY <2>1
    <3>2. Depth \in 1..Depth
        BY <1>2
    <3> QED
        BY <1>2, <2>2, <3>1, <3>2, ZenonT(30), MovedKeeps
  <2>4. ImTypeOK'
      BY <1>1, <2>3 DEF ImTypeOK, KeepsBottom
  <2>5. WorkDropped(Depth) /\ FlagDropped(Depth)
    <3>1. \A i \in Frames("sort") \union Frames("use") : ~ (i > Depth)
        BY NoneAbove
    <3> QED
        BY <1>1, <1>2, <3>1, NothingDropped
  <2>6. Depth >= Here /\ (\A i \in 1..Len(stack') : i > Depth => stack'[i].kind \in {"range", "perform"})
      BY <1>2, <2>3
  <2> QED
      BY <1>1, <1>2, <2>3, <2>4, <2>5, <2>6, StepKeepsSorts
<1>4. CASE ~ (Top.at < Top.thru)
    BY <1>1, <1>4, PlainTop, NothingDropped, TopEnds DEF EndParagraph, ImTypeOK
<1> QED
    BY <1>3, <1>4

LEMMA RangeOwesNothing ==
    ASSUME ImTypeOK, NEW r \in Frames("range"), WorkDropped(r), FlagDropped(r)
    PROVE  WorkDropped(r - 1) /\ FlagDropped(r - 1)
<1>1. \A i \in Frames("sort") \union Frames("use") : i > r <=> i > r - 1
    BY StackShape DEF Frames
<1> QED
    BY <1>1 DEF WorkDropped, FlagDropped

LEMMA ExitParagraphInv == ASSUME FramesInv, ExitParagraph PROVE FramesInv'
<1> USE DEF FramesInv
<1> DEFINE r == Newest(Inner("range"))
<1>1. /\ outcome = "running" /\ outcome' = "running" /\ steps' \in 0..StepLimit
      /\ UNCHANGED <<callStack, localFrames, sortReturn>>
    BY RunsCounts DEF ExitParagraph, ImTypeOK
<1>2. stack # << >> /\ Here \in 1..Depth /\ Inner("range") # {} /\ Depth \in Nat
    BY StandsInRange, CallsAreFrames, StackShape DEF ExitParagraph
<1>3. r \in Frames("range") /\ r \in 1..Depth /\ r > Here
    BY <1>2, InnerIsAbove DEF Inner
<1>4. /\ stack' = IF stack[r].at < stack[r].thru
                  THEN [Kept(r) EXCEPT ![r].at = @ + 1] ELSE Kept(r - 1)
      /\ Unwind(r)
    BY Zenon DEF ExitParagraph
<1>5. /\ sortWork' \in [LoadedPrograms -> {"none", "releasing", "ordered"}]
      /\ inDeclarative' \in BOOLEAN /\ WorkDropped(r) /\ FlagDropped(r)
    BY <1>3, <1>4, UnwindDrops
<1> HIDE DEF r
<1>6. CASE stack[r].at < stack[r].thru
  <2>1. stack[r].at + 1 \in Nat
      BY <1>3, StackShape DEF RangeFrames
  <2>2. Kept(r)[r] = stack[r]
      BY <1>3, KeptView
  <2>3. stack' = [Kept(r) EXCEPT ![r].at = stack[r].at + 1]
      BY <1>4, <1>6, <2>2
  <2>4. /\ KeepsBottom(r) /\ Len(stack') = r
        /\ \A i \in Frames("sort") : i <= r => stack'[i] = stack[i]
      BY <1>3, <2>1, <2>3, MovedKeeps
  <2>5. ImTypeOK'
      BY <1>1, <1>5, <2>4 DEF ImTypeOK, KeepsBottom
  <2> QED
      BY <1>1, <1>2, <1>3, <1>5, <2>4, <2>5, StepKeepsSorts
<1>7. CASE ~ (stack[r].at < stack[r].thru)
  <2>1. /\ KeepsBottom(r - 1) /\ Len(stack') = r - 1 /\ r - 1 >= Here
        /\ \A i \in Frames("sort") : i <= r - 1 => stack'[i] = stack[i]
    <3>1. r - 1 \in 0..Depth /\ r - 1 >= Here
        BY <1>2, <1>3
    <3> QED
        BY <1>4, <1>7, <3>1, KeptKeeps
  <2>2. WorkDropped(r - 1) /\ FlagDropped(r - 1)
      BY <1>3, <1>5, RangeOwesNothing
  <2>3. ImTypeOK'
      BY <1>1, <1>5, <2>1 DEF ImTypeOK, KeepsBottom
  <2> QED
      BY <1>1, <1>2, <1>3, <2>1, <2>2, <2>3, StepKeepsSorts
<1> QED
    BY <1>6, <1>7

LEMMA GoToInv ==
    ASSUME FramesInv, NEW target \in 1..Paragraphs, GoTo(target)
    PROVE  FramesInv'
<1> USE DEF FramesInv
<1> DEFINE holding == {r \in Inner("range") : target \in stack[r].from..stack[r].thru}
           r == Newest(holding)
<1>1. /\ outcome = "running" /\ outcome' = "running" /\ steps' \in 0..StepLimit
      /\ UNCHANGED <<callStack, localFrames, sortReturn>>
    BY RunsCounts DEF GoTo, ImTypeOK
<1>2. stack # << >> /\ Here \in 1..Depth /\ Depth \in Nat
    BY StandsInRange, CallsAreFrames, StackShape DEF GoTo
<1>3. /\ holding # {} /\ Unwind(r)
      /\ stack' = [Kept(r) EXCEPT ![r].at = target]
    BY Zenon DEF GoTo
<1>4. r \in Inner("range") /\ r \in 1..Depth /\ r > Here
    BY <1>2, <1>3, InnerIsAbove
<1>5. r \in Frames("range") /\ target \in Nat
    BY <1>4, InterpreterAssumption DEF Inner
<1>6. /\ sortWork' \in [LoadedPrograms -> {"none", "releasing", "ordered"}]
      /\ inDeclarative' \in BOOLEAN /\ WorkDropped(r) /\ FlagDropped(r)
    BY <1>3, <1>4, UnwindDrops
<1> HIDE DEF r
<1>7. /\ KeepsBottom(r) /\ Len(stack') = r
      /\ \A i \in Frames("sort") : i <= r => stack'[i] = stack[i]
    BY <1>3, <1>5, MovedKeeps
<1>8. ImTypeOK'
    BY <1>1, <1>6, <1>7 DEF ImTypeOK, KeepsBottom
<1> QED
    BY <1>1, <1>2, <1>4, <1>6, <1>7, <1>8, StepKeepsSorts

(* A step that only adds frames that owe nothing. *)
LEMMA PlainPush ==
    ASSUME FramesInv, Stating, Runs, NEW frames \in Seq(Frame), Push(frames),
           \A i \in 1..Len(frames) : frames[i].kind \in {"range", "perform"},
           UNCHANGED <<callStack, localFrames, sortWork, sortReturn, inDeclarative>>
    PROVE  FramesInv'
<1> USE DEF FramesInv
<1>1. outcome = "running" /\ outcome' = "running" /\ steps' \in 0..StepLimit
    BY RunsCounts DEF ImTypeOK
<1>2. /\ stack # << >> /\ Here \in 1..Depth /\ Depth \in Nat /\ Len(frames) \in Nat
      /\ stack[Depth].kind # "call"
    BY StandsInRange, CallsAreFrames, StackShape DEF Stating, Top
<1>3. /\ KeepsBottom(Depth) /\ Len(stack') = Depth + Len(frames)
      /\ \A i \in 1..Len(frames) : stack'[Depth + i] = frames[i]
      /\ \A i \in Frames("sort") : i <= Depth => stack'[i] = stack[i]
    BY PushKeeps
<1>4. \A i \in 1..Len(stack') : i > Depth => stack'[i].kind \in {"range", "perform"}
  <2> TAKE i \in 1..Len(stack')
  <2> HAVE i > Depth
  <2>1. i - Depth \in 1..Len(frames) /\ Depth + (i - Depth) = i
      BY <1>2, <1>3
  <2> QED
      BY <1>3, <2>1
<1>5. ImTypeOK'
    BY <1>1, <1>3 DEF ImTypeOK, KeepsBottom
<1> QED
    BY <1>1, <1>2, <1>3, <1>4, <1>5, NoneAbove, NothingDropped, StepKeepsSorts

LEMMA PerformRangeInv ==
    ASSUME FramesInv, NEW from \in 1..Paragraphs, NEW thru \in from..Paragraphs,
           PerformRange(from, thru)
    PROVE  FramesInv'
<1>1. from \in Nat /\ thru \in Nat
    BY InterpreterAssumption
<1>2. Perform \in Frame /\ Ranging(from, thru) \in Frame
    BY <1>1, NewFrames
<1>3. Perform.kind = "perform" /\ Ranging(from, thru).kind = "range"
    BY DEF Perform, Ranging
<1>4. /\ <<Perform, Ranging(from, thru)>> \in Seq(Frame)
      /\ \A i \in 1..Len(<<Perform, Ranging(from, thru)>>) :
            <<Perform, Ranging(from, thru)>>[i].kind \in {"range", "perform"}
    BY <1>2, <1>3
<1> QED
    BY <1>4, PlainPush DEF PerformRange

LEMMA PerformInlineInv == ASSUME FramesInv, PerformInline PROVE FramesInv'
<1>1. Perform \in Frame /\ Perform.kind = "perform"
    BY NewFrames DEF Perform
<1>2. <<Perform>> \in Seq(Frame) /\ \A i \in 1..Len(<<Perform>>) : <<Perform>>[i].kind = "perform"
    BY <1>1
<1> QED
    BY <1>2, PlainPush DEF PerformInline

(* A step that leaves every frame as it is. *)
LEMMA StackStays ==
    ASSUME FramesInv, outcome = "running",
           outcome' \in {"running", "fault"}, steps' \in 0..StepLimit,
           UNCHANGED <<stack, callStack, localFrames, sortWork, sortReturn, inDeclarative>>
    PROVE  FramesInv'
<1> USE DEF FramesInv
<1>1. stack # << >> /\ Here \in 1..Depth /\ Depth \in Nat
    BY CallsAreFrames, StackShape DEF CallsRunBodies
<1>2. KeepsBottom(Depth) /\ Len(stack') = Depth /\ \A i : stack'[i] = stack[i]
    BY SameKeeps
<1>3. ImTypeOK'
    BY DEF ImTypeOK
<1> QED
    BY <1>1, <1>2, <1>3, NoneAbove, NothingDropped, StepKeepsSorts

LEMMA TurnAgainInv == ASSUME FramesInv, TurnAgain PROVE FramesInv'
BY RunsCounts, StackStays DEF TurnAgain, FramesInv, ImTypeOK

LEMMA FaultInv == ASSUME FramesInv, LimitReached \/ CallTooDeep PROVE FramesInv'
BY StackStays DEF LimitReached, CallTooDeep, Stating, FramesInv, ImTypeOK

LEMMA PerformEnds == ASSUME FramesInv, EndPerform \/ ExitPerform PROVE FramesInv'
<1> USE DEF FramesInv
<1>1. /\ outcome = "running" /\ outcome' = "running" /\ steps' \in 0..StepLimit
      /\ Top.kind = "perform" /\ stack' = Kept(Depth - 1)
      /\ UNCHANGED <<callStack, localFrames, sortWork, sortReturn, inDeclarative>>
    BY RunsCounts DEF EndPerform, ExitPerform, ImTypeOK
<1> QED
    BY <1>1, PlainTop, NothingDropped, TopEnds DEF ImTypeOK

-----------------------------------------------------------------------------
(* Sorts and declaratives. *)

LEMMA TopSortIsOwn ==
    ASSUME FramesInv, outcome = "running", Top.kind = "sort"
    PROVE  /\ Depth \in Frames("sort") /\ Depth \in 1..Depth
           /\ stack[Depth].of = Program /\ Program \in LoadedPrograms
           /\ \A p : (\E i \in Frames("sort") : i > Depth - 1 /\ stack[i].of = p) <=> p = Program
<1> USE DEF FramesInv
<1>1. /\ stack # << >> /\ Here \in Frames("call") /\ Here \in 1..Depth /\ Depth \in Nat
      /\ stack[Here].kind = "call" /\ Program \in LoadedPrograms
      /\ \A i \in Frames("call") : i <= Here
    BY CallsAreFrames, StackShape DEF CallsRunBodies
<1>2. Depth \in Frames("sort") /\ Here < Depth
    BY <1>1 DEF Top, Frames
<1>3. stack[Depth].of = Program
    BY <1>1, <1>2 DEF SortsAreOwn, Program
<1>4. \A i \in Frames("sort") : i > Depth - 1 => i = Depth
    BY <1>1, StackShape
<1> QED
    BY <1>1, <1>2, <1>3, <1>4

LEMMA SortEnds ==
    ASSUME FramesInv, outcome = "running", Top.kind = "sort", SortDone,
           sortReturn' \in {sortReturn, TRUE},
           UNCHANGED <<callStack, localFrames, inDeclarative, steps, outcome>>
    PROVE  FramesInv'
<1> USE DEF FramesInv
<1>1. /\ sortWork' = [sortWork EXCEPT ![Program] = "none"] /\ Program \in LoadedPrograms
      /\ stack' = Kept(Depth - 1)
      /\ \A p : (\E i \in Frames("sort") : i > Depth - 1 /\ stack[i].of = p) <=> p = Program
    BY TopSortIsOwn DEF SortDone
<1>2. /\ sortWork' \in [LoadedPrograms -> {"none", "releasing", "ordered"}]
      /\ WorkDropped(Depth - 1)
    BY <1>1 DEF WorkDropped, ImTypeOK
<1>3. FlagDropped(Depth - 1)
    BY StackShape DEF FlagDropped, Frames, Top
<1> QED
    BY <1>1, <1>2, <1>3, TopEnds DEF ImTypeOK

LEMMA SortEndsInv == ASSUME FramesInv, GiveOutput \/ EndSort PROVE FramesInv'
<1>1. /\ outcome = "running" /\ Top.kind = "sort" /\ SortDone
      /\ sortReturn' \in {sortReturn, TRUE}
      /\ UNCHANGED <<callStack, localFrames, inDeclarative, steps, outcome>>
    BY Zenon DEF GiveOutput, EndSort, Answer
<1> QED
    BY <1>1, SortEnds

LEMMA EndUseInv == ASSUME FramesInv, EndUse PROVE FramesInv'
<1> USE DEF FramesInv
<1>1. /\ outcome = "running" /\ outcome' = "running" /\ Top.kind = "use" /\ inDeclarative' = FALSE
      /\ stack' = Kept(Depth - 1)
      /\ UNCHANGED <<callStack, localFrames, sortWork, sortReturn, steps>>
    BY DEF EndUse
<1>2. Depth \in Frames("use") /\ Depth > Depth - 1
    BY <1>1, CallsAreFrames, StackShape DEF Top, Frames, CallsRunBodies
<1>3. FlagDropped(Depth - 1)
    BY <1>1, <1>2 DEF FlagDropped
<1>4. WorkDropped(Depth - 1)
    BY <1>1, StackShape DEF WorkDropped, Frames, Top
<1> QED
    BY <1>1, <1>3, <1>4, TopEnds DEF ImTypeOK

(* RELEASE of a sort that failed leaves for the end of the sort. *)
LEMMA ReleaseInv == ASSUME FramesInv, Release PROVE FramesInv'
<1> USE DEF FramesInv
<1>1. /\ outcome = "running" /\ outcome' = "running" /\ steps' \in 0..StepLimit
      /\ UNCHANGED <<callStack, localFrames, sortReturn>>
    BY RunsCounts DEF Release, ImTypeOK
<1>2. CASE sortReturn
  <2>1. stack # << >> /\ Here \in 1..Depth /\ Depth \in Nat
      BY StandsInRange, CallsAreFrames, StackShape DEF Release
  <2>2. Own \in 1..Depth /\ Own > Here
      BY <2>1, InnerIsAbove DEF Release, Sorting, Own
  <2>3. stack' = Kept(Own - 1) /\ Unwind(Own - 1)
      BY <1>2, Zenon DEF Release
  <2>4. Own - 1 \in 0..Depth /\ Own - 1 \in Int /\ Own - 1 >= Here
      BY <2>1, <2>2
  <2>5. /\ sortWork' \in [LoadedPrograms -> {"none", "releasing", "ordered"}]
        /\ inDeclarative' \in BOOLEAN /\ WorkDropped(Own - 1) /\ FlagDropped(Own - 1)
      BY <2>3, <2>4, UnwindDrops
  <2>6. /\ KeepsBottom(Own - 1) /\ Len(stack') = Own - 1
        /\ \A i \in Frames("sort") : i <= Own - 1 => stack'[i] = stack[i]
      BY <2>3, <2>4, KeptKeeps
  <2>7. ImTypeOK'
      BY <1>1, <2>5, <2>6 DEF ImTypeOK, KeepsBottom
  <2> QED
      BY <1>1, <2>1, <2>4, <2>5, <2>6, <2>7, StepKeepsSorts
<1>3. CASE ~ sortReturn
    BY <1>1, <1>3, StackStays DEF Release
<1> QED
    BY <1>2, <1>3

LEMMA ChangedView ==
    ASSUME ImTypeOK, NEW o \in Frames("sort"), NEW g \in SortFrames, g.of = stack[o].of
    PROVE  /\ [stack EXCEPT ![o] = g] \in Seq(Frame)
           /\ Len([stack EXCEPT ![o] = g]) = Depth
           /\ \A i \in 1..Depth : [stack EXCEPT ![o] = g][i] = IF i = o THEN g ELSE stack[i]
           /\ \A i \in 1..Depth :
                 [stack EXCEPT ![o] = g][i] # stack[i] =>
                    /\ i = o
                    /\ stack[i].kind = "sort" /\ g.kind = "sort" /\ g.of = stack[i].of
<1>1. o \in 1..Depth /\ stack[o].kind = "sort" /\ g \in Frame /\ g.kind = "sort"
    BY StackShape DEF Frame, Frames, SortFrames
<1> QED
    BY <1>1, ExceptSeq DEF ImTypeOK, Depth

LEMMA StartOutputInv ==
    ASSUME FramesInv, NEW from \in 1..Paragraphs, NEW thru \in from..Paragraphs,
           StartOutput(from, thru)
    PROVE  FramesInv'
<1> USE DEF FramesInv
<1> DEFINE g == [stack[Depth] EXCEPT !.phase = "output"]
           s == [stack EXCEPT ![Depth] = g]
<1>1. /\ outcome = "running" /\ Top.kind = "sort" /\ Top.phase = "input" /\ sortReturn = FALSE
      /\ stack' = Append([stack EXCEPT ![Depth].phase = "output"], Ranging(from, thru))
      /\ sortWork' = [sortWork EXCEPT ![Program] = "ordered"]
      /\ UNCHANGED <<callStack, localFrames, sortReturn, inDeclarative, steps, outcome>>
    BY DEF StartOutput, MayGoOn
<1>2. /\ Depth \in Frames("sort") /\ Depth \in 1..Depth
      /\ stack[Depth].of = Program /\ Program \in LoadedPrograms
    BY <1>1, TopSortIsOwn
<1>3. /\ stack[Depth] \in SortFrames /\ g \in SortFrames /\ g.of = stack[Depth].of
      /\ g.failedIn = stack[Depth].failedIn /\ g.failedOut = stack[Depth].failedOut
      /\ g.mixed = stack[Depth].mixed
    BY <1>2, StackShape DEF SortFrames
<1>4. Ranging(from, thru) \in Frame /\ Ranging(from, thru).kind = "range"
    BY InterpreterAssumption, NewFrames DEF Ranging
<1>5. stack' = Append(s, Ranging(from, thru)) /\ s = [stack EXCEPT ![Depth] = g]
    BY <1>1
<1> HIDE DEF g, s
<1>6. /\ s \in Seq(Frame) /\ Len(s) = Depth /\ s[Depth] = g
      /\ \A i \in 1..Depth : i # Depth => s[i] = stack[i]
      /\ \A i \in 1..Depth :
            /\ s[i].kind = stack[i].kind
            /\ stack[i].kind \in {"call", "sort"} => s[i].of = stack[i].of
    BY <1>2, <1>3, <1>5, ChangedView
<1>7. /\ stack' \in Seq(Frame) /\ Len(stack') = Depth + 1
      /\ \A i \in 1..Depth : stack'[i] = s[i]
      /\ stack'[Depth + 1] = Ranging(from, thru)
    BY <1>4, <1>5, <1>6, AppendProperties
<1>8. KeepsBottom(Depth) /\ Depth \in Nat /\ Here \in 1..Depth
    BY <1>2, <1>6, <1>7, StackShape, CallsAreFrames DEF KeepsBottom, Alike, CallsRunBodies
<1>9. ImTypeOK'
    BY <1>1, <1>7 DEF ImTypeOK
<1>10. WorkDropped(Depth)
  <2>1. sortWork[Program] # "none"
      BY <1>2 DEF WorkIsOwned
  <2>2. \A p \in LoadedPrograms : sortWork'[p] = "none" <=> sortWork[p] = "none"
      BY <1>1, <2>1 DEF ImTypeOK
  <2> QED
      BY <2>2, StackShape DEF WorkDropped
<1>11. FlagDropped(Depth)
    BY <1>1, StackShape DEF FlagDropped
<1>12. \A i \in 1..Len(stack') : i > Depth => stack'[i].kind \in {"range", "perform"}
    BY <1>4, <1>7, <1>8
<1>13. stack[Depth].kind # "call"
    BY <1>1 DEF Top
<1>14. \A i \in Frames("sort")' : i <= Depth
    BY <1>1, <1>8, <1>9, <1>10, <1>11, <1>12, <1>13, StepInside
<1>15. Frames("sort")' = Frames("sort")
  <2>1. Frames("sort")' = {i \in Frames("sort") : i <= Depth}
      BY <1>8, <1>14, FramesUpTo
  <2>2. \A i \in Frames("sort") : i <= Depth
      BY StackShape
  <2> QED
      BY <2>1, <2>2
<1>16. \A i \in Frames("sort") :
          /\ i # Depth => stack'[i] = stack[i]
          /\ stack'[i].failedIn = stack[i].failedIn /\ stack'[i].failedOut = stack[i].failedOut
          /\ stack'[i].mixed = stack[i].mixed
    BY <1>3, <1>6, <1>7, StackShape
<1>17. AnswersHeld'
    BY <1>1, <1>15, <1>16 DEF AnswersHeld
<1>18. FailedInputGivesNothing'
    BY <1>1, <1>2, <1>15, <1>16 DEF FailedInputGivesNothing, AnswersHeld
<1> QED
    BY <1>1, <1>8, <1>9, <1>10, <1>11, <1>12, <1>13, <1>17, <1>18, StepInside

LEMMA FailSortInv == ASSUME FramesInv, FailSort PROVE FramesInv'
<1> USE DEF FramesInv
<1> DEFINE gIn == [stack[Own] EXCEPT !.failedIn = TRUE]
           gOut == [stack[Own] EXCEPT !.failedOut = TRUE]
<1>1. /\ outcome = "running" /\ outcome' = "running" /\ steps' \in 0..StepLimit
      /\ sortReturn' = TRUE
      /\ UNCHANGED <<callStack, localFrames, sortWork, inDeclarative>>
    BY RunsCounts DEF FailSort, ImTypeOK
<1>2. /\ stack # << >> /\ Here \in 1..Depth /\ Depth \in Nat
      /\ stack[Depth].kind # "call"
    BY StandsInRange, CallsAreFrames, StackShape DEF FailSort, Stating, Top
<1>3. Own \in Frames("sort") /\ stack[Own] \in SortFrames
  <2>1. Inner("sort") # {} /\ Here \in Nat
      BY <1>2 DEF FailSort, Sorting
  <2>2. Own \in Inner("sort")
      BY <2>1, InnerIsAbove DEF Own
  <2> QED
      BY <2>2, StackShape DEF Inner
<1>4. \E g \in SortFrames :
         /\ stack' = [stack EXCEPT ![Own] = g] /\ g.of = stack[Own].of
         /\ g.phase = stack[Own].phase /\ g.mixed = stack[Own].mixed
         /\ g.failedIn => stack[Own].failedIn \/ stack[Own].phase = "input"
  <2>1. CASE stack[Own].phase = "input"
    <3>1. stack' = [stack EXCEPT ![Own]["failedIn"] = TRUE]
        BY <2>1 DEF FailSort, Mark
    <3>2. stack' = [stack EXCEPT ![Own] = gIn]
        BY <3>1
    <3>3. /\ gIn \in SortFrames /\ gIn.of = stack[Own].of
          /\ gIn.phase = stack[Own].phase /\ gIn.mixed = stack[Own].mixed
        BY <1>3 DEF SortFrames
    <3> QED
        BY <2>1, <3>2, <3>3
  <2>2. CASE stack[Own].phase # "input"
    <3>1. stack' = [stack EXCEPT ![Own]["failedOut"] = TRUE]
        BY <2>2 DEF FailSort, Mark
    <3>2. stack' = [stack EXCEPT ![Own] = gOut]
        BY <3>1
    <3>3. /\ gOut \in SortFrames /\ gOut.of = stack[Own].of
          /\ gOut.phase = stack[Own].phase /\ gOut.mixed = stack[Own].mixed
          /\ gOut.failedIn = stack[Own].failedIn
        BY <1>3 DEF SortFrames
    <3> QED
        BY <3>2, <3>3
  <2> QED
      BY <2>1, <2>2
<1>5. PICK g \in SortFrames :
         /\ stack' = [stack EXCEPT ![Own] = g] /\ g.of = stack[Own].of
         /\ g.phase = stack[Own].phase /\ g.mixed = stack[Own].mixed
         /\ g.failedIn => stack[Own].failedIn \/ stack[Own].phase = "input"
    BY <1>4
<1>6. /\ stack' \in Seq(Frame) /\ Len(stack') = Depth /\ stack'[Own] = g
      /\ \A i \in 1..Depth : i # Own => stack'[i] = stack[i]
      /\ \A i \in 1..Depth :
            /\ stack'[i].kind = stack[i].kind
            /\ stack[i].kind \in {"call", "sort"} => stack'[i].of = stack[i].of
    BY <1>3, <1>5, ChangedView
<1>7. KeepsBottom(Depth)
    BY <1>2, <1>6 DEF KeepsBottom, Alike
<1>8. ImTypeOK'
    BY <1>1, <1>6 DEF ImTypeOK
<1>9. WorkDropped(Depth) /\ FlagDropped(Depth)
    BY <1>1, NoneAbove, NothingDropped
<1>10. \A i \in 1..Len(stack') : ~ (i > Depth)
    BY <1>2, <1>6
<1>11. \A i \in Frames("sort")' : i <= Depth
    BY <1>1, <1>2, <1>6, <1>7, <1>8, <1>9, <1>10, StepInside
<1>12. Frames("sort")' = Frames("sort")
  <2>1. Frames("sort")' = {i \in Frames("sort") : i <= Depth}
      BY <1>7, <1>11, FramesUpTo
  <2>2. \A i \in Frames("sort") : i <= Depth
      BY StackShape
  <2> QED
      BY <2>1, <2>2
<1>13. AnswersHeld'
    BY <1>1 DEF AnswersHeld
<1>14. FailedInputGivesNothing'
    BY <1>3, <1>5, <1>6, <1>12, StackShape DEF FailedInputGivesNothing, SortFrames
<1> QED
    BY <1>1, <1>2, <1>6, <1>7, <1>8, <1>9, <1>10, <1>13, <1>14, StepInside

LEMMA FileStatementFailsInv == ASSUME FramesInv, FileStatementFails PROVE FramesInv'
<1> USE DEF FramesInv
<1>1. /\ outcome = "running" /\ outcome' = "running" /\ steps' \in 0..StepLimit
      /\ UNCHANGED <<callStack, localFrames, sortWork, sortReturn>>
    BY RunsCounts DEF FileStatementFails, ImTypeOK
<1>2. CASE inDeclarative
    BY <1>1, <1>2, StackStays DEF FileStatementFails
<1>3. CASE ~ inDeclarative
  <2>1. Push(<<Use, Ranging(0, 0)>>) /\ inDeclarative' = TRUE /\ Frames("use") = {}
      BY <1>3 DEF FileStatementFails, DeclarativeOnce
  <2>2. /\ stack # << >> /\ Here \in 1..Depth /\ Depth \in Nat
        /\ stack[Depth].kind # "call"
      BY StandsInRange, CallsAreFrames, StackShape DEF FileStatementFails, Stating, Top
  <2>3. /\ Use \in Frame /\ Ranging(0, 0) \in Frame
        /\ Use.kind = "use" /\ Ranging(0, 0).kind = "range"
      BY NewFrames DEF Use, Ranging
  <2>4. /\ KeepsBottom(Depth) /\ Len(stack') = Depth + 2
        /\ stack'[Depth + 1] = Use /\ stack'[Depth + 2] = Ranging(0, 0)
        /\ \A i \in 1..Depth : stack'[i] = stack[i]
        /\ \A i \in Frames("sort") : i <= Depth => stack'[i] = stack[i]
    <3> DEFINE new == <<Use, Ranging(0, 0)>>
    <3>1. /\ new \in Seq(Frame) /\ Len(new) = 2 /\ Push(new)
          /\ new[1] = Use /\ new[2] = Ranging(0, 0)
        BY <2>1, <2>3
    <3> HIDE DEF new
    <3>2. /\ KeepsBottom(Depth) /\ Len(stack') = Depth + Len(new)
          /\ \A i \in 1..Depth : stack'[i] = stack[i]
          /\ \A i \in 1..Len(new) : stack'[Depth + i] = new[i]
          /\ \A i \in Frames("sort") : i <= Depth => stack'[i] = stack[i]
        BY <3>1, PushKeeps
    <3>3. 1 \in 1..Len(new) /\ 2 \in 1..Len(new)
        BY <3>1
    <3>4. stack'[Depth + 1] = new[1] /\ stack'[Depth + 2] = new[2]
        BY <3>2, <3>3
    <3> QED
        BY <3>1, <3>2, <3>4
  <2>5. ImTypeOK'
      BY <1>1, <2>1, <2>4 DEF ImTypeOK, KeepsBottom
  <2>6. \A i \in 1..Len(stack') : i <= Depth \/ i = Depth + 1 \/ i = Depth + 2
      BY <2>2, <2>4
  <2>7. \A kind \in {"call", "sort"} : \A i \in Frames(kind)' : i <= Depth
      BY <2>3, <2>4, <2>6 DEF Frames, Depth
  <2>8. CallsAreOnTheStack' /\ CallsInOrder'
      BY <1>1, <2>4, <2>7, CallsStay, StackShape
  <2>9. CallsRunBodies'
      BY <2>2, <2>4, <2>7, BodiesStay
  <2>10. SortsAreOwn' /\ WorkIsOwned'
    <3>1. WorkDropped(Depth)
        BY <1>1, StackShape DEF WorkDropped
    <3> QED
        BY <2>4, <2>7, <3>1, SortsStay
  <2>11. AnswersHeld' /\ FailedInputGivesNothing'
      BY <1>1, <2>4, <2>7, AnswersStay
  <2>12. DeclarativeOnce'
    <3>1. \A i : i \in Frames("use")' <=> i = Depth + 1
      <4>1. Depth + 1 \in 1..Len(stack') /\ Len(stack') \in Nat
          BY <2>2, <2>4
      <4>2. \A i \in 1..Depth : stack'[i].kind # "use"
          BY <2>1, <2>4 DEF Frames
      <4> QED
          BY <2>2, <2>3, <2>4, <2>6, <4>1, <4>2 DEF Frames, Depth
    <3> QED
        BY <2>1, <3>1 DEF DeclarativeOnce
  <2> QED
      BY <2>5, <2>8, <2>9, <2>10, <2>11, <2>12
<1> QED
    BY <1>2, <1>3

LEMMA MixedView ==
    ASSUME ImTypeOK
    PROVE  /\ Mixed(stack) \in Seq(Frame) /\ Len(Mixed(stack)) = Depth
           /\ \A i \in 1..Depth :
                 /\ Mixed(stack)[i].kind = stack[i].kind
                 /\ stack[i].kind = "call" => Mixed(stack)[i] = stack[i]
                 /\ stack[i].kind = "sort" =>
                       Mixed(stack)[i].of = stack[i].of /\ Mixed(stack)[i].mixed
<1> DEFINE f(i) == IF stack[i].kind = "sort" THEN [stack[i] EXCEPT !.mixed = TRUE] ELSE stack[i]
<1>1. Depth \in Nat /\ Mixed(stack) = [i \in 1..Depth |-> f(i)]
    BY StackShape DEF Mixed
<1>2. ASSUME NEW i \in 1..Depth
      PROVE  /\ f(i) \in Frame /\ f(i).kind = stack[i].kind
             /\ stack[i].kind = "call" => f(i) = stack[i]
             /\ stack[i].kind = "sort" => f(i).of = stack[i].of /\ f(i).mixed
  <2>1. CASE stack[i].kind = "sort"
    <3>1. stack[i] \in SortFrames
        BY <2>1, StackShape DEF Frames
    <3>2. /\ [stack[i] EXCEPT !.mixed = TRUE] \in SortFrames
          /\ [stack[i] EXCEPT !.mixed = TRUE].of = stack[i].of
          /\ [stack[i] EXCEPT !.mixed = TRUE].mixed
        BY <3>1 DEF SortFrames
    <3> QED
        BY <2>1, <3>2 DEF Frame, SortFrames
  <2>2. CASE stack[i].kind # "sort"
      BY <2>2, StackShape
  <2> QED
      BY <2>1, <2>2
<1> HIDE DEF f
<1>3. \A i \in 1..Depth : f(i) \in Frame
    BY <1>2
<1>4. Mixed(stack) \in Seq(Frame) /\ Len(Mixed(stack)) = Depth
    BY <1>1, <1>3, IsASeq
<1>5. \A i \in 1..Depth : Mixed(stack)[i] = f(i)
    BY <1>1
<1> QED
    BY <1>2, <1>4, <1>5

(* A sort begins: nothing of its program is being sorted, and whatever the *)
(* register held of another sort it holds no more.                         *)
LEMMA SortStarts ==
    ASSUME FramesInv, Stating, Runs, sortWork[Program] = "none",
           NEW new \in Seq(Frame), Len(new) > 0, stack' = Mixed(stack) \o new,
           new[1] \in SortFrames, new[1].of = Program, new[1].phase = "input",
           new[1].failedIn \/ new[1].failedOut => sortReturn',
           \A i \in 1..Len(new) : i # 1 => new[i].kind = "range",
           sortWork' = [sortWork EXCEPT ![Program] = "releasing"],
           sortReturn' \in BOOLEAN,
           UNCHANGED <<callStack, localFrames, inDeclarative>>
    PROVE  FramesInv'
<1> USE DEF FramesInv
<1>1. outcome = "running" /\ outcome' = "running" /\ steps' \in 0..StepLimit
    BY RunsCounts DEF ImTypeOK
<1>2. /\ stack # << >> /\ Here \in 1..Depth /\ Here \in Frames("call") /\ Depth \in Nat
      /\ Program \in LoadedPrograms /\ stack[Depth].kind # "call"
      /\ \A i \in Frames("call") : i <= Here
    BY StandsInRange, CallsAreFrames, StackShape DEF Stating, Top
<1>3. /\ Mixed(stack) \in Seq(Frame) /\ Len(Mixed(stack)) = Depth
      /\ \A i \in 1..Depth :
            /\ Mixed(stack)[i].kind = stack[i].kind
            /\ stack[i].kind = "call" => Mixed(stack)[i] = stack[i]
            /\ stack[i].kind = "sort" =>
                  Mixed(stack)[i].of = stack[i].of /\ Mixed(stack)[i].mixed
    BY MixedView
<1>4. /\ stack' \in Seq(Frame) /\ Len(stack') = Depth + Len(new) /\ Len(new) \in Nat
      /\ \A i \in 1..Depth + Len(new) :
            stack'[i] = IF i <= Depth THEN Mixed(stack)[i] ELSE new[i - Depth]
  <2> DEFINE s == Mixed(stack)
  <2>1. s \in Seq(Frame) /\ Len(s) = Depth /\ stack' = s \o new /\ Len(new) \in Nat
      BY <1>3
  <2> HIDE DEF s
  <2>2. /\ s \o new \in Seq(Frame) /\ Len(s \o new) = Len(s) + Len(new)
        /\ \A i \in 1..Len(s) + Len(new) :
              (s \o new)[i] = IF i <= Len(s) THEN s[i] ELSE new[i - Len(s)]
      BY <2>1, ConcatProperties, Zenon
  <2> QED
      BY <2>1, <2>2 DEF s
<1>5. /\ \A i \in 1..Depth : stack'[i] = Mixed(stack)[i]
      /\ Depth + 1 \in 1..Len(stack') /\ stack'[Depth + 1] = new[1] /\ new[1].kind = "sort"
      /\ \A i \in 1..Len(stack') : i > Depth + 1 => stack'[i].kind = "range"
  <2>1. ASSUME NEW i \in 1..Len(stack'), i > Depth + 1
        PROVE  stack'[i].kind = "range"
    <3>1. i - Depth \in 1..Len(new) /\ i - Depth # 1 /\ ~ (i <= Depth)
        BY <1>2, <1>4, <2>1
    <3> QED
        BY <1>4, <2>1, <3>1
  <2>2. Depth + 1 \in 1..Len(stack') /\ stack'[Depth + 1] = new[1]
    <3>1. Depth + 1 \in 1..Depth + Len(new) /\ ~ (Depth + 1 <= Depth) /\ (Depth + 1) - Depth = 1
        BY <1>2, <1>4
    <3> QED
        BY <1>4, <3>1
  <2> QED
      BY <1>2, <1>4, <2>1, <2>2 DEF SortFrames
<1>6. KeepsBottom(Depth)
    BY <1>2, <1>3, <1>4, <1>5 DEF KeepsBottom, Alike
<1>7. ImTypeOK'
    BY <1>1, <1>2, <1>4 DEF ImTypeOK
<1>8. \A i \in 1..Len(stack') : i <= Depth \/ i = Depth + 1 \/ i > Depth + 1
  <2>1. Depth \in Nat /\ Len(stack') \in Nat
      BY <1>2, <1>4
  <2> QED
      BY <2>1
<1>9. \A kind \in {"call", "use"} : \A i \in Frames(kind)' : i <= Depth
    BY <1>5, <1>8 DEF Frames, Depth
<1>10. CallsAreOnTheStack' /\ CallsInOrder'
    BY <1>6, <1>9, CallsStay, StackShape
<1>11. CallsRunBodies'
  <2>1. \A i \in Frames("call")' : i <= Depth
      BY <1>9
  <2>2. Depth > 0 /\ CallsRunBodies
      BY <1>2
  <2> QED
      BY <1>2, <1>6, <2>1, <2>2, BodiesStay
<1>12. DeclarativeOnce'
  <2>1. FlagDropped(Depth)
      BY StackShape DEF FlagDropped
  <2> QED
      BY <1>6, <1>9, <2>1, UseStays
<1>13. /\ \A i : i \in Frames("sort")' <=> i \in Frames("sort") \/ i = Depth + 1
       /\ \A i \in Frames("sort") : i \in 1..Depth /\ stack'[i].of = stack[i].of /\ stack'[i].mixed
  <2>1. ASSUME NEW i \in 1..Depth
        PROVE  i \in Frames("sort")' <=> i \in Frames("sort")
    <3>1. i \in 1..Len(stack') /\ stack'[i].kind = stack[i].kind
        BY <1>2, <1>3, <1>4, <1>5
    <3> QED
        BY <3>1 DEF Frames, Depth
  <2>2. Depth + 1 \in Frames("sort")'
      BY <1>5 DEF Frames, Depth
  <2>3. \A i \in Frames("sort")' : i \in 1..Depth \/ i = Depth + 1
      BY <1>2, <1>5, <1>8 DEF Frames, Depth
  <2>4. \A i \in Frames("sort") : i \in 1..Depth /\ stack'[i].of = stack[i].of /\ stack'[i].mixed
      BY <1>3, <1>5, StackShape DEF Frames
  <2> QED
      BY <2>1, <2>2, <2>3, <2>4
<1>14. /\ \A c : c \in Frames("call")' <=> c \in Frames("call")
       /\ \A c \in Frames("call") : c \in 1..Depth /\ stack'[c].of = stack[c].of
  <2>1. ASSUME NEW c \in 1..Depth
        PROVE  c \in Frames("call")' <=> c \in Frames("call")
    <3>1. c \in 1..Len(stack') /\ stack'[c].kind = stack[c].kind
        BY <1>2, <1>3, <1>4, <1>5
    <3> QED
        BY <3>1 DEF Frames, Depth
  <2>2. \A c \in Frames("call")' : c \in 1..Depth
      BY <1>2, <1>9 DEF Frames, Depth
  <2>3. \A c \in Frames("call") : c \in 1..Depth /\ stack'[c].of = stack[c].of
      BY <1>3, <1>5, StackShape DEF Frames
  <2> QED
      BY <2>1, <2>2, <2>3
<1>15. \A i \in Frames("sort") : stack[i].of # Program
    BY <1>2 DEF WorkIsOwned
<1>16. SortsAreOwn'
  <2>1. ASSUME NEW i \in Frames("sort")', NEW c \in Frames("call")', c < i,
               \A d \in Frames("call")' : d < i => d <= c
        PROVE  stack'[i].of = stack'[c].of
    <3>1. CASE i \in Frames("sort")
      <4>1. c \in Frames("call") /\ \A d \in Frames("call") : d < i => d <= c
          BY <1>14, <2>1
      <4>2. stack[i].of = stack[c].of
          BY <2>1, <3>1, <4>1 DEF SortsAreOwn
      <4> QED
          BY <1>13, <1>14, <3>1, <4>1, <4>2
    <3>2. CASE i = Depth + 1
      <4>1. c = Here
        <5>1. Here \in Frames("call")' /\ c \in Frames("call") /\ c \in 1..Depth
            BY <1>2, <1>14
        <5>2. Here < i
            BY <1>2, <3>2
        <5>3. Here <= c
            BY <2>1, <5>1, <5>2
        <5>4. c <= Here
            BY <1>2, <5>1
        <5> QED
            BY <1>2, <5>1, <5>3, <5>4
      <4> QED
          BY <1>2, <1>5, <1>14, <3>2, <4>1 DEF Program
    <3> QED
        BY <1>13, <3>1, <3>2
  <2>2. ASSUME NEW i \in Frames("sort")', NEW j \in Frames("sort")', stack'[i].of = stack'[j].of
        PROVE  i = j
    <3>1. CASE i \in Frames("sort") /\ j \in Frames("sort")
      <4>1. stack[i].of = stack[j].of
          BY <1>13, <2>2, <3>1
      <4> QED
          BY <3>1, <4>1 DEF SortsAreOwn
    <3>2. \A k \in Frames("sort")' : k \notin Frames("sort") => k = Depth + 1 /\ stack'[k].of = Program
        BY <1>5, <1>13
    <3>3. \A k \in Frames("sort") : stack'[k].of # Program
        BY <1>13, <1>15
    <3>4. CASE i \notin Frames("sort") \/ j \notin Frames("sort")
        BY <2>2, <3>2, <3>3, <3>4
    <3> QED
        BY <3>1, <3>4
  <2> QED
      BY <2>1, <2>2 DEF SortsAreOwn
<1>17. WorkIsOwned'
  <2> SUFFICES ASSUME NEW p \in LoadedPrograms
               PROVE  sortWork'[p] # "none" <=> \E i \in Frames("sort")' : stack'[i].of = p
      BY DEF WorkIsOwned
  <2>1. CASE p = Program
      BY <1>2, <1>5, <1>13, <2>1 DEF ImTypeOK
  <2>2. CASE p # Program
    <3>1. sortWork'[p] = sortWork[p]
        BY <2>2 DEF ImTypeOK
    <3>2. (\E i \in Frames("sort")' : stack'[i].of = p) <=> \E i \in Frames("sort") : stack[i].of = p
      <4>1. ASSUME NEW i \in Frames("sort")', stack'[i].of = p
            PROVE  i \in Frames("sort") /\ stack[i].of = p
        <5>1. i # Depth + 1
            BY <1>5, <2>2, <4>1
        <5>2. i \in Frames("sort")
            BY <1>13, <4>1, <5>1
        <5> QED
            BY <1>13, <4>1, <5>2
      <4>2. ASSUME NEW i \in Frames("sort"), stack[i].of = p
            PROVE  i \in Frames("sort")' /\ stack'[i].of = p
          BY <1>13, <4>2
      <4> QED
          BY <4>1, <4>2
    <3> QED
        BY <3>1, <3>2 DEF WorkIsOwned
  <2> QED
      BY <2>1, <2>2
<1>18. AnswersHeld'
    BY <1>5, <1>13 DEF AnswersHeld
<1>19. FailedInputGivesNothing'
    BY <1>5, <1>13 DEF FailedInputGivesNothing
<1> QED
    BY <1>7, <1>10, <1>11, <1>12, <1>16, <1>17, <1>18, <1>19

LEMMA StartSortInv ==
    ASSUME FramesInv, NEW from \in 1..Paragraphs, NEW thru \in from..Paragraphs,
           StartSort(from, thru)
    PROVE  FramesInv'
<1> DEFINE new == <<Sort(Program), Ranging(from, thru)>>
<1>1. /\ Stating /\ Runs /\ sortWork[Program] = "none" /\ stack' = Mixed(stack) \o new
      /\ sortWork' = [sortWork EXCEPT ![Program] = "releasing"] /\ sortReturn' = FALSE
      /\ UNCHANGED <<callStack, localFrames, inDeclarative>>
    BY DEF StartSort, Reset
<1>2. Program \in LoadedPrograms
    BY <1>1, StandsInRange, CallsAreFrames DEF FramesInv
<1>3. Sort(Program) \in Frame /\ Ranging(from, thru) \in Frame /\ Sort(Program) \in SortFrames
    BY <1>2, InterpreterAssumption, NewFrames DEF Sort, SortFrames
<1>4. new \in Seq(Frame) /\ Len(new) = 2 /\ new[1] = Sort(Program) /\ new[2] = Ranging(from, thru)
    BY <1>3
<1>5. /\ new[1] \in SortFrames /\ new[1].of = Program /\ new[1].phase = "input"
      /\ ~ new[1].failedIn /\ ~ new[1].failedOut /\ new[2].kind = "range"
    BY <1>3, <1>4 DEF Sort, Ranging
<1> HIDE DEF new
<1>6. \A i \in 1..Len(new) : i # 1 => new[i].kind = "range"
    BY <1>4, <1>5
<1>7. new[1].failedIn \/ new[1].failedOut => sortReturn'
    BY Zenon, <1>5
<1>8. sortReturn' \in BOOLEAN
    BY Zenon, <1>1
<1>9. Len(new) > 0
    BY <1>4
<1> QED
    BY <1>1, <1>4, <1>5, <1>6, <1>7, <1>8, <1>9, SortStarts

LEMMA StartSortUsingInv == ASSUME FramesInv, StartSortUsing PROVE FramesInv'
<1>1. PICK fails \in BOOLEAN :
         /\ stack' = Append(Mixed(stack), [Sort(Program) EXCEPT !.failedIn = fails])
         /\ sortReturn' = (fails \/ Reset(sortReturn))
    BY DEF StartSortUsing
<1> DEFINE f == [Sort(Program) EXCEPT !.failedIn = fails]
           new == <<f>>
<1>2. /\ Stating /\ Runs /\ sortWork[Program] = "none"
      /\ sortWork' = [sortWork EXCEPT ![Program] = "releasing"]
      /\ UNCHANGED <<callStack, localFrames, inDeclarative>>
    BY DEF StartSortUsing
<1>3. Program \in LoadedPrograms
    BY <1>2, StandsInRange, CallsAreFrames DEF FramesInv
<1>4. /\ f \in SortFrames /\ f \in Frame /\ f.of = Program /\ f.phase = "input"
      /\ f.failedIn = fails /\ f.failedOut = FALSE
    BY <1>3 DEF Sort, SortFrames, Frame
<1>5. sortReturn' \in BOOLEAN /\ (fails => sortReturn')
    BY <1>1 DEF Reset
<1>6. stack' = Mixed(stack) \o new
  <2>1. stack' = Append(Mixed(stack), f) /\ Mixed(stack) \in Seq(Frame)
      BY <1>1, MixedView DEF FramesInv
  <2> HIDE DEF f
  <2> QED
      BY <1>4, <2>1, AppendIsConcat
<1> HIDE DEF f
<1>7. new \in Seq(Frame) /\ Len(new) = 1 /\ new[1] = f
    BY <1>4
<1> HIDE DEF new
<1>8. \A i \in 1..Len(new) : i # 1 => new[i].kind = "range"
    BY <1>7
<1>9. /\ Len(new) > 0 /\ new[1] \in SortFrames /\ new[1].of = Program /\ new[1].phase = "input"
      /\ new[1].failedIn \/ new[1].failedOut => sortReturn'
    BY <1>4, <1>5, <1>7
<1> QED
    BY <1>2, <1>5, <1>6, <1>7, <1>8, <1>9, SortStarts

-----------------------------------------------------------------------------
(* Calls. *)

LEMMA CallsAreCounted ==
    ASSUME ImTypeOK
    PROVE  /\ IsFiniteSet(Frames("call"))
           /\ \A S \in SUBSET Frames("call") :
                 /\ IsFiniteSet(S) /\ Cardinality(S) \in Nat
                 /\ Cardinality(S) <= Cardinality(Frames("call"))
                 /\ S # {} => Cardinality(S) > 0
           /\ Len(callStack) \in Nat /\ DOMAIN callStack = 1..Len(callStack)
           /\ \A S \in SUBSET DOMAIN callStack : IsFiniteSet(S) /\ Cardinality(S) \in Nat
<1>1. IsFiniteSet(Frames("call"))
  <2>1. IsFiniteSet(1..Depth) /\ Frames("call") \in SUBSET (1..Depth)
      BY StackShape, FS_Interval
  <2> QED
      BY <2>1, FS_Subset
<1>2. ASSUME NEW S \in SUBSET Frames("call")
      PROVE  /\ IsFiniteSet(S) /\ Cardinality(S) \in Nat
             /\ Cardinality(S) <= Cardinality(Frames("call"))
             /\ S # {} => Cardinality(S) > 0
  <2>1. IsFiniteSet(S) /\ Cardinality(S) <= Cardinality(Frames("call"))
      BY <1>1, FS_Subset
  <2>2. Cardinality(S) \in Nat /\ (Cardinality(S) = 0 <=> S = {})
      BY <2>1, FS_CardinalityType, FS_EmptySet
  <2> QED
      BY <2>1, <2>2
<1>3. Len(callStack) \in Nat /\ DOMAIN callStack = 1..Len(callStack)
    BY DEF ImTypeOK
<1>4. ASSUME NEW S \in SUBSET DOMAIN callStack
      PROVE  IsFiniteSet(S) /\ Cardinality(S) \in Nat
  <2>1. IsFiniteSet(DOMAIN callStack)
      BY <1>3, FS_Interval
  <2> QED
      BY <2>1, FS_Subset, FS_CardinalityType
<1> QED
    BY <1>1, <1>2, <1>3, <1>4

LEMMA RankInRange ==
    ASSUME ImTypeOK, CallsAreOnTheStack, NEW i \in Frames("call")
    PROVE  Rank(i) \in 1..Len(callStack)
<1>1. i \in Frames("call") \intersect 1..i
    BY StackShape
<1>2. Frames("call") \intersect 1..i \in SUBSET Frames("call") /\ Frames("call") \intersect 1..i # {}
    BY <1>1
<1> QED
    BY <1>2, CallsAreCounted DEF Rank, CallsAreOnTheStack

(* The newest call is the last that was counted. *)
LEMMA NewestIsInnermost ==
    ASSUME FramesInv, stack # << >>
    PROVE  /\ Len(callStack) > 0 /\ callStack[Len(callStack)] = Program
           /\ Cardinality(Frames("call")) = Len(callStack)
<1> USE DEF FramesInv
<1>1. Here \in Frames("call") /\ \A i \in Frames("call") : i <= Here /\ i \in 1..Depth
    BY CallsAreFrames, StackShape
<1>2. Frames("call") \intersect 1..Here = Frames("call")
    BY <1>1
<1>3. Rank(Here) = Len(callStack)
    BY <1>2 DEF Rank, CallsAreOnTheStack
<1>4. Rank(Here) \in 1..Len(callStack)
    BY <1>1, RankInRange
<1> QED
    BY <1>1, <1>3, <1>4 DEF CallsInOrder, CallsAreOnTheStack, Program

LEMMA CallProgramInv ==
    ASSUME FramesInv, NEW p \in LoadedPrograms, CallProgram(p)
    PROVE  FramesInv'
<1> USE DEF FramesInv
<1> DEFINE new == <<Call(p), MainBody>>
           last == Len(callStack) + 1
<1>1. /\ outcome = "running" /\ outcome' = "running" /\ steps' \in 0..StepLimit
      /\ Push(new)
      /\ callStack' = Append(callStack, p)
      /\ localFrames' = [localFrames EXCEPT ![p] = @ + 1]
      /\ UNCHANGED <<sortWork, sortReturn, inDeclarative>>
    BY RunsCounts DEF CallProgram, ImTypeOK
<1>2. /\ stack # << >> /\ Depth \in Nat /\ Depth > 0 /\ stack[Depth].kind # "call"
    BY StandsInRange, StackShape DEF CallProgram, Stating, Top
<1>3. /\ KeepsBottom(Depth) /\ Len(stack') = Depth + 2
      /\ stack'[Depth + 1] = Call(p) /\ stack'[Depth + 2].kind = "range"
      /\ \A i \in 1..Depth : stack'[i] = stack[i]
      /\ \A i \in Frames("sort") : i <= Depth => stack'[i] = stack[i]
  <2>1. Call(p) \in Frame /\ MainBody \in Frame /\ MainBody.kind = "range"
    <3>1. 1 \in Nat /\ Paragraphs \in Nat
        BY InterpreterAssumption
    <3> QED
        BY <3>1, NewFrames DEF MainBody, Ranging
  <2>2. new \in Seq(Frame) /\ Len(new) = 2 /\ new[1] = Call(p) /\ new[2] = MainBody
      BY <2>1
  <2> HIDE DEF new
  <2>3. /\ KeepsBottom(Depth) /\ Len(stack') = Depth + Len(new)
        /\ \A i \in 1..Depth : stack'[i] = stack[i]
        /\ \A i \in 1..Len(new) : stack'[Depth + i] = new[i]
        /\ \A i \in Frames("sort") : i <= Depth => stack'[i] = stack[i]
      BY <1>1, <2>2, PushKeeps
  <2>4. 1 \in 1..Len(new) /\ 2 \in 1..Len(new)
      BY <2>2
  <2>5. stack'[Depth + 1] = new[1] /\ stack'[Depth + 2] = new[2]
      BY <2>3, <2>4
  <2> QED
      BY <2>1, <2>2, <2>3, <2>5
<1> HIDE DEF new
<1>4. Call(p).kind = "call" /\ Call(p).of = p
    BY DEF Call
<1>5. ImTypeOK'
  <2>1. callStack' \in Seq(LoadedPrograms)
      BY <1>1 DEF ImTypeOK
  <2>2. localFrames' \in [LoadedPrograms -> Nat]
      BY <1>1 DEF ImTypeOK
  <2> QED
      BY <1>1, <1>3, <2>1, <2>2 DEF ImTypeOK, KeepsBottom
<1>6. \A i \in 1..Len(stack') : i <= Depth \/ i = Depth + 1 \/ i = Depth + 2
    BY <1>2, <1>3
<1>7. \A kind \in {"sort", "use"} : \A i \in Frames(kind)' : i <= Depth
    BY <1>3, <1>4, <1>6 DEF Frames, Depth
<1>8. WorkDropped(Depth) /\ FlagDropped(Depth)
    BY <1>1, NoneAbove, NothingDropped
<1>9. SortsAreOwn' /\ WorkIsOwned'
    BY <1>3, <1>7, <1>8, SortsStay
<1>10. DeclarativeOnce'
    BY <1>3, <1>7, <1>8, UseStays
<1>11. AnswersHeld' /\ FailedInputGivesNothing'
    BY <1>1, <1>3, <1>7, AnswersStay
<1>12. /\ Frames("call")' = Frames("call") \union {Depth + 1}
       /\ Depth + 1 \notin Frames("call") /\ \A i \in Frames("call") : i \in 1..Depth
  <2>1. ASSUME NEW i \in 1..Depth
        PROVE  i \in Frames("call")' <=> i \in Frames("call")
    <3>1. i \in 1..Len(stack') /\ stack'[i] = stack[i]
        BY <1>2, <1>3
    <3> QED
        BY <3>1 DEF Frames, Depth
  <2>2. Depth + 1 \in Frames("call")'
      BY <1>2, <1>3, <1>4 DEF Frames, Depth
  <2>3. \A i \in Frames("call")' : i \in 1..Depth \/ i = Depth + 1
      BY <1>2, <1>3, <1>6 DEF Frames, Depth
  <2>4. Depth + 1 \notin Frames("call") /\ \A i \in Frames("call") : i \in 1..Depth
      BY <1>2, StackShape
  <2> QED
      BY <2>1, <2>2, <2>3, <2>4
<1>13. CallsRunBodies'
  <2>1. stack' # << >> /\ stack'[1].kind = "call"
    <3>1. stack' # << >> /\ 1 \in 1..Depth
        BY <1>2, <1>3
    <3> QED
        BY <1>2, <1>3, <3>1 DEF CallsRunBodies
  <2>2. ASSUME NEW i \in Frames("call")', i < Len(stack')
        PROVE  stack'[i + 1].kind = "range"
    <3>1. CASE i = Depth + 1
      <4>1. i + 1 = Depth + 2
          BY <1>2, <3>1
      <4> QED
          BY <1>3, <4>1
    <3>2. CASE i \in Frames("call")
      <4>1. i \in 1..Depth /\ i # Depth
          BY <1>2, <1>12, <3>2 DEF Frames
      <4>2. i < Depth /\ i + 1 \in 1..Depth
          BY <1>2, <4>1
      <4> QED
          BY <1>3, <3>2, <4>2 DEF CallsRunBodies
    <3> QED
        BY <1>12, <3>1, <3>2
  <2> QED
      BY <2>1, <2>2 DEF CallsRunBodies, Depth
<1>14. /\ Len(callStack) \in Nat /\ Len(callStack') = last /\ callStack'[last] = p
       /\ \A k \in 1..Len(callStack) : callStack'[k] = callStack[k]
    BY <1>1, AppendProperties DEF ImTypeOK
<1>15. Len(callStack') = Cardinality(Frames("call")')
    BY <1>12, <1>14, CallsAreCounted, FS_AddElement DEF CallsAreOnTheStack
<1>16. ASSUME NEW q \in LoadedPrograms
       PROVE  /\ localFrames'[q] = Cardinality({i \in Frames("call")' : stack'[i].of = q})
              /\ localFrames'[q] = Cardinality({k \in DOMAIN callStack' : callStack'[k] = q})
  <2> DEFINE S == {i \in Frames("call") : stack[i].of = q}
             K == {k \in DOMAIN callStack : callStack[k] = q}
             S1 == {i \in Frames("call")' : stack'[i].of = q}
             K1 == {k \in DOMAIN callStack' : callStack'[k] = q}
  <2>1. IsFiniteSet(S) /\ Cardinality(S) = localFrames[q] /\ Depth + 1 \notin S
      BY <1>12, CallsAreCounted DEF CallsAreOnTheStack
  <2>2. IsFiniteSet(K) /\ Cardinality(K) = localFrames[q] /\ last \notin K
    <3>1. K \in SUBSET DOMAIN callStack /\ last \notin DOMAIN callStack
        BY <1>14, CallsAreCounted
    <3>2. Cardinality(K) = localFrames[q]
        BY DEF CallsInOrder
    <3> HIDE DEF K
    <3>3. IsFiniteSet(K)
        BY <3>1, CallsAreCounted
    <3> QED
        BY <3>1, <3>2, <3>3
  <2>3. S1 = IF q = p THEN S \union {Depth + 1} ELSE S
      BY <1>3, <1>4, <1>12
  <2>4. K1 = IF q = p THEN K \union {last} ELSE K
    <3>1. DOMAIN callStack' = 1..last /\ DOMAIN callStack = 1..Len(callStack)
        BY <1>5, <1>14, CallsAreCounted DEF ImTypeOK
    <3>2. \A k \in 1..last : k \in 1..Len(callStack) \/ k = last
        BY <1>14
    <3>3. \A k \in 1..Len(callStack) : k \in 1..last
        BY <1>14
    <3>4. last \in 1..last
        BY <1>14
    <3> QED
        BY <1>14, <3>1, <3>2, <3>3, <3>4
  <2>5. localFrames'[q] = IF q = p THEN localFrames[q] + 1 ELSE localFrames[q]
      BY <1>1 DEF ImTypeOK
  <2> HIDE DEF S, K, S1, K1
  <2>6. localFrames'[q] = Cardinality(S1)
      BY <2>1, <2>3, <2>5, FS_AddElement
  <2>7. localFrames'[q] = Cardinality(K1)
      BY <2>2, <2>4, <2>5, FS_AddElement
  <2> QED
      BY <2>6, <2>7 DEF S1, K1
<1>17. ASSUME NEW i \in Frames("call")'
       PROVE  callStack'[Rank(i)'] = stack'[i].of
  <2>1. CASE i = Depth + 1
    <3>1. Frames("call")' \intersect 1..i = Frames("call")'
        BY <1>2, <1>12, <2>1
    <3>2. Rank(i)' = last
        BY <1>14, <1>15, <3>1 DEF Rank
    <3> QED
        BY <1>3, <1>4, <1>14, <2>1, <3>2
  <2>2. CASE i \in Frames("call")
    <3>1. Frames("call")' \intersect 1..i = Frames("call") \intersect 1..i
        BY <1>2, <1>12, <2>2
    <3>2. Rank(i)' = Rank(i) /\ Rank(i) \in 1..Len(callStack)
        BY <2>2, <3>1, RankInRange DEF Rank
    <3> QED
        BY <1>3, <1>12, <1>14, <2>2, <3>2 DEF CallsInOrder
  <2> QED
      BY <1>12, <2>1, <2>2
<1>18. CallsAreOnTheStack'
    BY <1>15, <1>16 DEF CallsAreOnTheStack
<1>19. CallsInOrder'
    BY <1>16, <1>17 DEF CallsInOrder
<1> QED
    BY <1>5, <1>9, <1>10, <1>11, <1>13, <1>18, <1>19

(* The program that runs is left, for its caller or for good.              *)
LEMMA LeaveProgramInv ==
    ASSUME FramesInv, outcome = "running", LeaveProgram, steps' \in 0..StepLimit,
           outcome' = IF Here = 1 THEN "ended" ELSE "running"
    PROVE  FramesInv'
<1> USE DEF FramesInv
<1> DEFINE n == Here - 1
           last == Len(callStack)
<1>1. /\ callStack' = Front(callStack) /\ localFrames' = Popped(localFrames, Program)
      /\ stack' = Kept(n) /\ Unwind(n) /\ UNCHANGED sortReturn
    BY DEF LeaveProgram
<1>2. /\ stack # << >> /\ Here \in Frames("call") /\ Here \in 1..Depth /\ Depth \in Nat
      /\ Program \in LoadedPrograms
      /\ \A i \in Frames("call") : i <= Here /\ i \in 1..Depth
    BY CallsAreFrames, StackShape DEF CallsRunBodies
<1>3. n \in 0..Depth /\ n \in Int
    BY <1>2
<1> HIDE DEF n
<1>4. /\ KeepsBottom(n) /\ Len(stack') = n /\ \A i \in 1..n : stack'[i] = stack[i]
      /\ \A i \in Frames("sort") : i <= n => stack'[i] = stack[i]
    BY <1>1, <1>3, KeptKeeps
<1>5. /\ sortWork' \in [LoadedPrograms -> {"none", "releasing", "ordered"}]
      /\ inDeclarative' \in BOOLEAN /\ WorkDropped(n) /\ FlagDropped(n)
    BY <1>1, <1>3, UnwindDrops
<1>6. \A kind \in {"call", "sort", "use"} : \A i \in Frames(kind)' : i <= n
    BY <1>3, <1>4 DEF Frames, Depth
<1>7. SortsAreOwn' /\ WorkIsOwned'
    BY <1>4, <1>5, <1>6, SortsStay
<1>8. DeclarativeOnce'
    BY <1>4, <1>5, <1>6, UseStays
<1>9. AnswersHeld' /\ FailedInputGivesNothing'
    BY <1>1, <1>4, <1>6, AnswersStay
<1>10. CallsRunBodies'
  <2>1. CASE n > 0
      BY <1>4, <1>6, <2>1, BodiesStay
  <2>2. CASE n = 0
    <3>1. stack' = << >> /\ outcome' = "ended" /\ Frames("call")' = {}
        BY <1>2, <1>4, <2>2 DEF n, Frames, Depth, KeepsBottom
    <3> QED
        BY <3>1 DEF CallsRunBodies
  <2> QED
      BY <1>3, <2>1, <2>2
<1>11. /\ last \in Nat /\ last > 0 /\ callStack[last] = Program
       /\ Cardinality(Frames("call")) = last
    BY <1>2, NewestIsInnermost, CallsAreCounted
<1>12. /\ callStack' \in Seq(LoadedPrograms) /\ Len(callStack') = last - 1
       /\ \A k \in 1..last - 1 : callStack'[k] = callStack[k]
    BY <1>1, <1>11 DEF Front, ImTypeOK
<1>13. Frames("call")' = Frames("call") \ {Here}
  <2>1. Frames("call")' = {i \in Frames("call") : i <= n}
      BY <1>4, <1>6, FramesUpTo
  <2>2. \A i \in Frames("call") : i <= n <=> i # Here
      BY <1>2 DEF n
  <2> QED
      BY <2>1, <2>2
<1>14. \A i \in Frames("call")' : i \in 1..n /\ i # Here
  <2> TAKE i \in Frames("call")'
  <2>1. i \in 1..Depth /\ i # Here /\ i <= Here
      BY <1>2, <1>13
  <2> QED
      BY <1>2, <2>1 DEF n
<1>15. ASSUME NEW q \in LoadedPrograms
       PROVE  /\ localFrames'[q] \in Nat
              /\ localFrames'[q] = Cardinality({i \in Frames("call")' : stack'[i].of = q})
              /\ localFrames'[q] = Cardinality({k \in DOMAIN callStack' : callStack'[k] = q})
  <2> DEFINE S == {i \in Frames("call") : stack[i].of = q}
             K == {k \in DOMAIN callStack : callStack[k] = q}
             S1 == {i \in Frames("call")' : stack'[i].of = q}
             K1 == {k \in DOMAIN callStack' : callStack'[k] = q}
  <2>1. IsFiniteSet(S) /\ Cardinality(S) = localFrames[q]
      BY CallsAreCounted DEF CallsAreOnTheStack
  <2>2. IsFiniteSet(K) /\ Cardinality(K) = localFrames[q]
    <3>1. K \in SUBSET DOMAIN callStack
        OBVIOUS
    <3>2. Cardinality(K) = localFrames[q]
        BY DEF CallsInOrder
    <3> HIDE DEF K
    <3> QED
        BY <3>1, <3>2, CallsAreCounted
  <2>3. S1 = IF q = Program THEN S \ {Here} ELSE S
    <3>1. \A i \in Frames("call")' : stack'[i] = stack[i]
        BY <1>4, <1>14
    <3>2. Program = stack[Here].of
        BY DEF Program
    <3> QED
        BY <1>2, <1>13, <3>1, <3>2
  <2>4. K1 = IF q = Program THEN K \ {last} ELSE K
    <3>1. DOMAIN callStack' = 1..last - 1 /\ DOMAIN callStack = 1..last
        BY <1>12, CallsAreCounted
    <3>2. \A k \in 1..last : k = last \/ k \in 1..last - 1
        BY <1>11
    <3>3. \A k \in 1..last - 1 : k \in 1..last /\ k # last
        BY <1>11
    <3> QED
        BY <1>11, <1>12, <3>1, <3>2, <3>3
  <2>5. Here \in S <=> q = Program
      BY <1>2 DEF Program
  <2>6. last \in K <=> q = Program
    <3>1. last \in DOMAIN callStack
        BY <1>11, CallsAreCounted
    <3> QED
        BY <1>11, <3>1
  <2>7. localFrames'[q] = IF q = Program THEN localFrames[q] - 1 ELSE localFrames[q]
      BY <1>1 DEF Popped, ImTypeOK
  <2> HIDE DEF S, K, S1, K1
  <2>8. localFrames'[q] = Cardinality(S1) /\ IsFiniteSet(S1)
      BY <2>1, <2>3, <2>5, <2>7, FS_RemoveElement
  <2>9. localFrames'[q] = Cardinality(K1)
      BY <2>2, <2>4, <2>6, <2>7, FS_RemoveElement
  <2>10. localFrames'[q] \in Nat
      BY <2>8, FS_CardinalityType
  <2> QED
      BY <2>8, <2>9, <2>10 DEF S1, K1
<1>16. Len(callStack') = Cardinality(Frames("call")')
    BY <1>2, <1>11, <1>12, <1>13, CallsAreCounted, FS_RemoveElement
<1>17. CallsAreOnTheStack'
    BY <1>15, <1>16 DEF CallsAreOnTheStack
<1>18. ASSUME NEW i \in Frames("call")'
       PROVE  callStack'[Rank(i)'] = stack'[i].of
  <2>1. i \in Frames("call") /\ i \in 1..n /\ Frames("call")' \intersect 1..i = Frames("call") \intersect 1..i
    <3>1. Here \notin 1..i
        BY <1>2, <1>14 DEF n
    <3> QED
        BY <1>13, <1>14, <3>1
  <2>2. Rank(i)' = Rank(i) /\ Rank(i) \in 1..last
      BY <2>1, RankInRange DEF Rank
  <2>3. Rank(i) # last
    <3>1. Frames("call") \intersect 1..i \in SUBSET Frames("call")
        OBVIOUS
    <3>2. Frames("call") \intersect 1..i # Frames("call")
        BY <1>2, <1>3, <2>1 DEF n
    <3> QED
        BY <1>11, <3>1, <3>2, CallsAreCounted, FS_Subset DEF Rank
  <2>4. Rank(i) \in 1..last - 1
      BY <1>11, <2>2, <2>3
  <2> QED
      BY <1>4, <1>12, <2>1, <2>2, <2>4 DEF CallsInOrder
<1>19. CallsInOrder'
    BY <1>15, <1>18 DEF CallsInOrder
<1>20. ImTypeOK'
  <2>1. localFrames' \in [LoadedPrograms -> Nat]
    <3>1. localFrames' = [localFrames EXCEPT ![Program] = @ - 1]
        BY <1>1 DEF Popped
    <3> QED
        BY <1>15, <3>1 DEF ImTypeOK
  <2> QED
      BY <1>1, <1>4, <1>5, <1>12, <2>1 DEF ImTypeOK, KeepsBottom
<1> QED
    BY <1>7, <1>8, <1>9, <1>10, <1>17, <1>19, <1>20

LEMMA EndBodyInv == ASSUME FramesInv, EndBody \/ Goback PROVE FramesInv'
<1>1. /\ outcome = "running" /\ LeaveProgram /\ steps' \in 0..StepLimit
      /\ outcome' = IF Here = 1 THEN "ended" ELSE "running"
    BY InterpreterAssumption DEF EndBody, Goback, Stating, Counted, FramesInv, ImTypeOK
<1> QED
    BY <1>1, LeaveProgramInv

(* STOP RUN leaves every program, and nothing stays behind.                *)
LEMMA StopRunInv == ASSUME FramesInv, StopRun PROVE FramesInv'
<1> USE DEF FramesInv
<1>1. /\ callStack' = << >> /\ stack' = << >> /\ Unwind(0) /\ outcome' = "ended"
      /\ steps' \in 0..StepLimit /\ UNCHANGED sortReturn
      /\ localFrames' = [p \in LoadedPrograms |->
            localFrames[p] - Cardinality({k \in DOMAIN callStack : callStack[k] = p})]
    BY InterpreterAssumption DEF StopRun, Counted, ImTypeOK
<1>2. KeepsBottom(0) /\ Len(stack') = 0 /\ \A kind : Frames(kind)' = {}
    BY <1>1, StackShape DEF KeepsBottom, Alike, Frames, Depth
<1>3. /\ sortWork' \in [LoadedPrograms -> {"none", "releasing", "ordered"}]
      /\ inDeclarative' \in BOOLEAN /\ WorkDropped(0) /\ FlagDropped(0)
    BY <1>1, UnwindDrops
<1>4. SortsAreOwn' /\ WorkIsOwned'
    BY <1>2, <1>3, SortsStay
<1>5. DeclarativeOnce'
    BY <1>2, <1>3, UseStays
<1>6. AnswersHeld' /\ FailedInputGivesNothing' /\ CallsRunBodies'
  <2>1. AnswersHeld'
      BY <1>1, <1>2 DEF AnswersHeld
  <2>2. FailedInputGivesNothing'
      BY <1>1, <1>2 DEF FailedInputGivesNothing
  <2>3. CallsRunBodies'
      BY <1>1, <1>2 DEF CallsRunBodies
  <2> QED
      BY <2>1, <2>2, <2>3
<1>7. localFrames' = [p \in LoadedPrograms |-> 0]
    BY <1>1 DEF CallsInOrder, ImTypeOK
<1>8. \A S : S = {} => Cardinality(S) = 0
    BY FS_EmptySet
<1>9. CallsAreOnTheStack'
  <2>1. \A p : {i \in Frames("call")' : stack'[i].of = p} = {}
      BY <1>2
  <2>2. Len(callStack') = 0 /\ Cardinality(Frames("call")') = 0
      BY <1>1, <1>2, <1>8
  <2>3. ASSUME NEW p \in LoadedPrograms
        PROVE  localFrames'[p] = Cardinality({i \in Frames("call")' : stack'[i].of = p})
    <3>1. {i \in Frames("call")' : stack'[i].of = p} = {}
        BY <2>1
    <3>2. localFrames'[p] = 0
        BY <1>7
    <3> QED
        BY <1>8, <3>1, <3>2
  <2> QED
      BY <2>2, <2>3 DEF CallsAreOnTheStack
<1>10. CallsInOrder'
  <2>1. \A p : {k \in DOMAIN callStack' : callStack'[k] = p} = {}
      BY <1>1
  <2> QED
      BY <1>2, <1>7, <1>8, <2>1 DEF CallsInOrder
<1>11. ImTypeOK'
  <2>1. stack' \in Seq(Frame) /\ localFrames' \in [LoadedPrograms -> Nat]
      BY <1>2, <1>7 DEF KeepsBottom
  <2> QED
      BY <1>1, <1>3, <2>1 DEF ImTypeOK
<1> QED
    BY <1>4, <1>5, <1>6, <1>9, <1>10, <1>11

-----------------------------------------------------------------------------
(* The whole of the machine. *)

LEMMA FramesInit == ImInit => FramesInv
<1> SUFFICES ASSUME ImInit PROVE FramesInv
    OBVIOUS
<1> USE DEF FramesInv
<1>1. /\ stack = <<Call(MainProgram), MainBody>> /\ callStack = <<MainProgram>>
      /\ localFrames = [p \in LoadedPrograms |-> IF p = MainProgram THEN 1 ELSE 0]
      /\ sortWork = [p \in LoadedPrograms |-> "none"]
      /\ sortReturn = FALSE /\ inDeclarative = FALSE /\ steps = 0 /\ outcome = "running"
    BY DEF ImInit
<1>2. /\ Call(MainProgram) \in Frame /\ MainBody \in Frame
      /\ Call(MainProgram).kind = "call" /\ Call(MainProgram).of = MainProgram
      /\ MainBody.kind = "range" /\ MainProgram \in LoadedPrograms
  <2>1. 1 \in Nat /\ Paragraphs \in Nat /\ MainProgram \in LoadedPrograms
      BY InterpreterAssumption
  <2> QED
      BY <2>1, NewFrames DEF MainBody, Ranging, Call
<1>3. /\ stack \in Seq(Frame) /\ Depth = 2 /\ stack[1].kind = "call" /\ stack[2].kind = "range"
      /\ stack[1].of = MainProgram
    BY <1>1, <1>2 DEF Depth
<1>4. /\ Frames("call") = {1} /\ Frames("sort") = {} /\ Frames("use") = {}
  <2>1. \A i \in 1..Depth : i = 1 \/ i = 2
      BY <1>3
  <2>2. 1 \in 1..Depth /\ 2 \in 1..Depth
      BY <1>3
  <2> QED
      BY <1>3, <2>1, <2>2 DEF Frames
<1>5. ImTypeOK
  <2>1. callStack \in Seq(LoadedPrograms)
      BY <1>1, <1>2
  <2>2. localFrames \in [LoadedPrograms -> Nat]
      BY <1>1
  <2>3. steps \in 0..StepLimit
      BY <1>1, InterpreterAssumption
  <2>4. sortWork \in [LoadedPrograms -> {"none", "releasing", "ordered"}]
      BY <1>1
  <2> QED
      BY <1>1, <1>3, <2>1, <2>2, <2>3, <2>4 DEF ImTypeOK
<1>6. /\ CallsRunBodies /\ SortsAreOwn /\ WorkIsOwned /\ DeclarativeOnce
      /\ AnswersHeld /\ FailedInputGivesNothing
    BY <1>1, <1>3, <1>4 DEF CallsRunBodies, SortsAreOwn, WorkIsOwned, DeclarativeOnce,
        AnswersHeld, FailedInputGivesNothing
<1>7. Cardinality({1}) = 1 /\ Cardinality({}) = 0
    BY FS_Singleton, FS_EmptySet
<1>8. CallsAreOnTheStack
  <2>1. \A p : {i \in Frames("call") : stack[i].of = p} = IF p = MainProgram THEN {1} ELSE {}
      BY <1>3, <1>4
  <2> QED
      BY <1>1, <1>4, <1>7, <2>1 DEF CallsAreOnTheStack
<1>9. CallsInOrder
  <2>1. \A p : {k \in DOMAIN callStack : callStack[k] = p} = IF p = MainProgram THEN {1} ELSE {}
      BY <1>1
  <2>2. Rank(1) = 1
    <3>1. {1} \intersect 1..1 = {1}
        OBVIOUS
    <3> QED
        BY <1>4, <1>7, <3>1 DEF Rank
  <2> QED
      BY <1>1, <1>3, <1>4, <1>7, <2>1, <2>2 DEF CallsInOrder
<1> QED
    BY <1>5, <1>6, <1>8, <1>9

LEMMA FramesStep == FramesInv /\ [ImNext]_imVars => FramesInv'
<1> SUFFICES ASSUME FramesInv, [ImNext]_imVars PROVE FramesInv'
    OBVIOUS
<1>1. ASSUME NEW target \in 1..Paragraphs, GoTo(target) PROVE FramesInv'
    BY <1>1, GoToInv
<1>2. ASSUME NEW from \in 1..Paragraphs, NEW thru \in from..Paragraphs,
             PerformRange(from, thru) \/ StartSort(from, thru) \/ StartOutput(from, thru)
      PROVE  FramesInv'
    BY <1>2, PerformRangeInv, StartSortInv, StartOutputInv
<1>3. ASSUME NEW p \in LoadedPrograms, CallProgram(p) PROVE FramesInv'
    BY <1>3, CallProgramInv
<1>4. CASE LimitReached \/ EndParagraph \/ ExitParagraph \/ PerformInline \/ TurnAgain
              \/ EndPerform \/ ExitPerform \/ CallTooDeep
    BY <1>4, FaultInv, EndParagraphInv, ExitParagraphInv, PerformInlineInv, TurnAgainInv,
       PerformEnds
<1>5. CASE EndBody \/ Goback \/ StopRun
    BY <1>5, EndBodyInv, StopRunInv
<1>6. CASE StartSortUsing \/ GiveOutput \/ EndSort \/ FailSort \/ Release
              \/ FileStatementFails \/ EndUse
    BY <1>6, StartSortUsingInv, SortEndsInv, FailSortInv, ReleaseInv, FileStatementFailsInv,
       EndUseInv
<1>7. CASE UNCHANGED imVars
  <2>1. /\ stack' = stack /\ callStack' = callStack /\ localFrames' = localFrames
        /\ sortWork' = sortWork /\ sortReturn' = sortReturn
        /\ inDeclarative' = inDeclarative /\ steps' = steps /\ outcome' = outcome
      BY <1>7 DEF imVars
  <2>2. \A kind : Frames(kind)' = Frames(kind)
      BY <2>1 DEF Frames, Depth
  <2>3. \A i : Rank(i)' = Rank(i)
      BY <2>2 DEF Rank
  <2>4. ImTypeOK' /\ CallsRunBodies' /\ DeclarativeOnce'
      BY <2>1, <2>2 DEF FramesInv, ImTypeOK, CallsRunBodies, DeclarativeOnce, Depth
  <2>5. CallsAreOnTheStack' /\ CallsInOrder'
      BY <2>1, <2>2, <2>3 DEF FramesInv, CallsAreOnTheStack, CallsInOrder
  <2>6. SortsAreOwn' /\ WorkIsOwned' /\ AnswersHeld' /\ FailedInputGivesNothing'
      BY <2>1, <2>2 DEF FramesInv, SortsAreOwn, WorkIsOwned, AnswersHeld, FailedInputGivesNothing
  <2> QED
      BY <2>4, <2>5, <2>6 DEF FramesInv
<1> QED
    BY <1>1, <1>2, <1>3, <1>4, <1>5, <1>6, <1>7 DEF ImNext

(* The types of the machine's state. *)
THEOREM InterpreterTypes == ImSpec => []ImTypeOK
<1>1. FramesInv => ImTypeOK
    BY DEF FramesInv
<1> QED
    BY <1>1, FramesInit, FramesStep, PTL DEF ImSpec

(* Sort work, declarative, calls and LOCAL-STORAGE are given back by every *)
(* exit, for every program, depth of calls and length of run.              *)
THEOREM EveryFrameGivesBack == ImSpec => []FramesGiveBack
<1>1. FramesInv => FramesGiveBack
    BY DEF FramesInv, FramesGiveBack, WorkIsOwned, WorkIsRunning
<1> QED
    BY <1>1, FramesInit, FramesStep, PTL DEF ImSpec

(* A sort whose input failed gives nothing, unless another sort ran.       *)
THEOREM FailedSortGivesNothing == ImSpec => []FailedInputGivesNothing
<1>1. FramesInv => FailedInputGivesNothing
    BY DEF FramesInv
<1> QED
    BY <1>1, FramesInit, FramesStep, PTL DEF ImSpec

LEMMA AnswerOrGrowth ==
    ASSUME FramesInv, ImNext
    PROVE  (sortReturn => sortReturn') \/ Len(stack') >= Depth
<1>1. ASSUME NEW from \in 1..Paragraphs, NEW thru \in from..Paragraphs,
             PerformRange(from, thru) \/ StartSort(from, thru) \/ StartOutput(from, thru)
      PROVE  (sortReturn => sortReturn') \/ Len(stack') >= Depth
  <2>1. CASE PerformRange(from, thru) \/ StartOutput(from, thru)
      BY <2>1 DEF PerformRange, StartOutput
  <2>2. CASE StartSort(from, thru)
    <3>1. /\ Mixed(stack) \in Seq(Frame) /\ Len(Mixed(stack)) = Depth /\ Depth \in Nat
          /\ stack' = Mixed(stack) \o <<Sort(Program), Ranging(from, thru)>>
        BY <2>2, MixedView, StackShape DEF StartSort, FramesInv
    <3> QED
        BY <3>1
  <2> QED
      BY <1>1, <2>1, <2>2
<1>2. CASE StartSortUsing
  <2>1. PICK fails \in BOOLEAN : stack' = Append(Mixed(stack), [Sort(Program) EXCEPT !.failedIn = fails])
      BY <1>2 DEF StartSortUsing
  <2>2. Mixed(stack) \in Seq(Frame) /\ Len(Mixed(stack)) = Depth /\ Depth \in Nat
      BY MixedView, StackShape DEF FramesInv
  <2> QED
      BY <2>1, <2>2
<1>3. ASSUME NEW target \in 1..Paragraphs, GoTo(target) PROVE sortReturn => sortReturn'
    BY <1>3 DEF GoTo
<1>4. ASSUME NEW p \in LoadedPrograms, CallProgram(p) PROVE sortReturn => sortReturn'
    BY <1>4 DEF CallProgram
<1>5. CASE \/ LimitReached \/ EndParagraph \/ ExitParagraph \/ PerformInline \/ TurnAgain
           \/ EndPerform \/ ExitPerform \/ CallTooDeep \/ EndBody \/ Goback \/ StopRun
           \/ GiveOutput \/ EndSort \/ FailSort \/ Release \/ FileStatementFails \/ EndUse
    BY <1>5 DEF LimitReached, EndParagraph, ExitParagraph, PerformInline, TurnAgain,
        EndPerform, ExitPerform, CallTooDeep, EndBody, Goback, StopRun, LeaveProgram,
        GiveOutput, EndSort, FailSort, Release, FileStatementFails, EndUse, Answer
<1> QED
    BY <1>1, <1>2, <1>3, <1>4, <1>5 DEF ImNext

(* No sort that failed ends unseen: SORT-RETURN holds its answer, whatever *)
(* its procedure was left by.                                              *)
THEOREM FailedSortIsAnswered == ImSpec => FailureIsAnswered
<1> DEFINE Answered == \A i \in Frames("sort") :
       Len(stack') < i /\ (stack[i].failedIn \/ stack[i].failedOut) /\ ~ stack[i].mixed
           => sortReturn'
<1>1. FramesInv /\ ImNext => Answered
  <2> SUFFICES ASSUME FramesInv, ImNext, NEW i \in Frames("sort"), Len(stack') < i,
                      stack[i].failedIn \/ stack[i].failedOut, ~ stack[i].mixed
               PROVE  sortReturn'
      OBVIOUS
  <2>1. sortReturn
      BY DEF FramesInv, AnswersHeld
  <2>2. i \in 1..Depth /\ Depth \in Nat
      BY StackShape DEF FramesInv
  <2>3. Len(stack') \in Nat
      BY FramesStep, StackShape DEF FramesInv, Depth
  <2>4. ~ (Len(stack') >= Depth)
      BY <2>2, <2>3
  <2> QED
      BY <2>1, <2>4, AnswerOrGrowth
<1>2. FramesInv /\ [ImNext]_imVars => [Answered]_imVars
    BY <1>1
<1> HIDE DEF Answered
<1>3. ImSpec => [][Answered]_imVars
    BY <1>2, FramesInit, FramesStep, PTL DEF ImSpec
<1> QED
    BY <1>3 DEF FailureIsAnswered, Answered

-----------------------------------------------------------------------------
(***************************************************************************)
(* The interpreter's indexed files: what the order of a file's records     *)
(* rests on, for every set of keys and values and every bound on the       *)
(* records.                                                                *)
(***************************************************************************)
-----------------------------------------------------------------------------
(* Searching. *)

(* A nonempty set of positions has a least member, and Min is it. *)
LEMMA LeastPosition ==
    ASSUME NEW n \in Nat, NEW I \in SUBSET (1..n), I # {}
    PROVE  Min(I) \in I /\ \A i \in I : Min(I) <= i
  <1>1. \E x \in I : \A y \in I : x <= y
    BY LeastNatural
  <1> QED BY <1>1 DEF Min

(* So has it a greatest. *)
LEMMA GreatestPosition ==
    ASSUME NEW n \in Nat, NEW I \in SUBSET (1..n), I # {}
    PROVE  Max(I) \in I /\ \A i \in I : i <= Max(I)
  <1>1. I \in SUBSET (0..n)
    OBVIOUS
  <1>2. \E x \in I : \A y \in I : y <= x
    BY <1>1, GreatestNatural
  <1> QED BY <1>2 DEF Max

(* The records' shape, as the later steps use it. *)
LEMMA Shape ==
    ASSUME TypeOK
    PROVE  /\ Len(records) \in Nat
           /\ DOMAIN records = 1..Len(records)
           /\ \A i \in 1..Len(records) : records[i] \in Record /\ KeyAt(i) \in Nat
           /\ position \in 0..Len(records)
  <1>1. records \in Seq(Record) /\ position \in 0..Len(records)
    BY DEF TypeOK
  <1>2. \A r \in Record : r.key \in Nat
    BY FileAssumption DEF Record
  <1>3. \A i \in 1..Len(records) : records[i] \in Record
    BY <1>1, ElementOfSeq
  <1> QED BY <1>1, <1>2, <1>3, LenProperties DEF KeyAt

(* A search ends at a record that satisfies the relation, or nowhere when  *)
(* no record does. *)
LEMMA FirstIsFirst ==
    ASSUME TypeOK, NEW relation, NEW k
    PROVE  \/ /\ FirstWhere(relation, k) = 0
              /\ \A i \in 1..Len(records) : ~ Satisfies(relation, KeyAt(i), k)
           \/ /\ FirstWhere(relation, k) \in 1..Len(records)
              /\ Satisfies(relation, KeyAt(FirstWhere(relation, k)), k)
              /\ \A i \in 1..Len(records) :
                     Satisfies(relation, KeyAt(i), k) => FirstWhere(relation, k) <= i
  <1> DEFINE I == { i \in 1..Len(records) : Satisfies(relation, KeyAt(i), k) }
  <1>1. FirstWhere(relation, k) = IF I # {} THEN Min(I) ELSE 0
    BY DEF FirstWhere, SelectInSeq, KeyAt
  <1>2. I # {} => Min(I) \in I /\ \A i \in I : Min(I) <= i
    BY Shape, LeastPosition
  <1>3. CASE I = {}
    BY <1>1, <1>3
  <1>4. CASE I # {}
    BY <1>1, <1>2, <1>4
  <1> QED BY <1>3, <1>4

LEMMA LastIsLast ==
    ASSUME TypeOK, NEW relation, NEW k
    PROVE  \/ /\ LastWhere(relation, k) = 0
              /\ \A i \in 1..Len(records) : ~ Satisfies(relation, KeyAt(i), k)
           \/ /\ LastWhere(relation, k) \in 1..Len(records)
              /\ Satisfies(relation, KeyAt(LastWhere(relation, k)), k)
              /\ \A i \in 1..Len(records) :
                     Satisfies(relation, KeyAt(i), k) => i <= LastWhere(relation, k)
  <1> DEFINE I == { i \in 1..Len(records) : Satisfies(relation, KeyAt(i), k) }
  <1>1. LastWhere(relation, k) = IF I # {} THEN Max(I) ELSE 0
    BY DEF LastWhere, SelectLastInSeq, KeyAt
  <1>2. I # {} => Max(I) \in I /\ \A i \in I : i <= Max(I)
    BY Shape, GreatestPosition
  <1>3. CASE I = {}
    BY <1>1, <1>3
  <1>4. CASE I # {}
    BY <1>1, <1>2, <1>4
  <1> QED BY <1>3, <1>4

(* START positions at a record, when it positions at all. *)
LEMMA StartAtRange ==
    ASSUME TypeOK, NEW relation, NEW k
    PROVE  StartAt(relation, k) = 0 \/ StartAt(relation, k) \in 1..Len(records)
  BY FirstIsFirst, LastIsLast DEF StartAt

(* A new record goes after every record with no greater key, and just      *)
(* before one with a greater. *)
LEMMA InsertionPointBetween ==
    ASSUME TypeOK, NEW r \in Record
    PROVE  /\ InsertionPoint(r) \in 1..(Len(records) + 1)
           /\ \A i \in 1..Len(records) : i < InsertionPoint(r) => KeyAt(i) <= r.key
           /\ InsertionPoint(r) <= Len(records) => KeyAt(InsertionPoint(r)) > r.key
  <1>1. r.key \in Nat
    BY FileAssumption DEF Record
  <1>2. \A key : Satisfies(">", key, r.key) <=> key > r.key
    BY DEF Satisfies
  <1>3. CASE FirstWhere(">", r.key) = 0
    BY <1>1, <1>2, <1>3, Shape, FirstIsFirst DEF InsertionPoint
  <1>4. CASE FirstWhere(">", r.key) # 0
    BY <1>1, <1>2, <1>4, Shape, FirstIsFirst DEF InsertionPoint
  <1> QED BY <1>3, <1>4

(* Inserting at a position shifts what was at or after it by one. *)
LEMMA InsertedRecords ==
    ASSUME TypeOK, NEW at \in 1..(Len(records) + 1), NEW r \in Record
    PROVE  LET after == InsertAt(records, at, r)
           IN  /\ after \in Seq(Record)
               /\ Len(after) = Len(records) + 1
               /\ \A i \in 1..(Len(records) + 1) :
                     after[i] = IF i < at THEN records[i]
                                ELSE IF i = at THEN r ELSE records[i - 1]
  <1> DEFINE n == Len(records)
             front == SubSeq(records, 1, at - 1)
             back == SubSeq(records, at, n)
  <1>1. records \in Seq(Record) /\ n \in Nat /\ \A i \in 1..n : records[i] \in Record
    BY Shape DEF TypeOK
  <1>2. /\ front \in Seq(Record)
        /\ Len(front) = at - 1
        /\ \A i \in 1..(at - 1) : front[i] = records[i]
    BY <1>1, SubSeqProperties
  <1>3. /\ back \in Seq(Record)
        /\ Len(back) = n + 1 - at
        /\ \A i \in 1..(n + 1 - at) : back[i] = records[at + i - 1]
    BY <1>1, SubSeqProperties
  <1>4. <<r>> \in Seq(Record) /\ Len(<<r>>) = 1 /\ <<r>>[1] = r
    OBVIOUS
  <1> DEFINE head == front \o <<r>>
  <1>5. /\ head \in Seq(Record)
        /\ Len(head) = at
        /\ \A i \in 1..at : head[i] = IF i <= at - 1 THEN records[i] ELSE r
    <2> HIDE DEF front
    <2>1. /\ head \in Seq(Record)
          /\ Len(head) = Len(front) + Len(<<r>>)
          /\ \A i \in 1..(Len(front) + Len(<<r>>)) :
                 head[i] = IF i <= Len(front) THEN front[i] ELSE <<r>>[i - Len(front)]
      BY <1>2, <1>4, ConcatProperties
    <2> HIDE DEF head
    <2> QED BY <1>2, <1>4, <2>1
  <1>6. /\ head \o back \in Seq(Record)
        /\ Len(head \o back) = n + 1
        /\ \A i \in 1..(n + 1) :
               (head \o back)[i] = IF i <= at THEN head[i] ELSE back[i - at]
    <2> HIDE DEF head, back
    <2>1. /\ head \o back \in Seq(Record)
          /\ Len(head \o back) = Len(head) + Len(back)
          /\ \A i \in 1..(Len(head) + Len(back)) :
                 (head \o back)[i] = IF i <= Len(head) THEN head[i] ELSE back[i - Len(head)]
      BY <1>3, <1>5, ConcatProperties
    <2> QED BY <1>1, <1>3, <1>5, <2>1
  <1>7. InsertAt(records, at, r) = head \o back
    BY DEF InsertAt
  <1>8. \A i \in 1..(n + 1) :
           (head \o back)[i] = IF i < at THEN records[i]
                               ELSE IF i = at THEN r ELSE records[i - 1]
    <2> HIDE DEF head, back
    <2> TAKE i \in 1..(n + 1)
    <2>1. CASE i <= at
      BY <1>5, <1>6, <2>1
    <2>2. CASE i > at
      <3>1. i - at \in 1..(n + 1 - at) /\ at + (i - at) - 1 = i - 1
        BY <1>1, <2>2
      <3>2. back[i - at] = records[at + (i - at) - 1]
        BY <1>3, <3>1
      <3>3. (head \o back)[i] = back[i - at]
        BY <1>6, <2>2
      <3>4. ~ (i < at) /\ i # at
        BY <1>1, <2>2
      <3>5. (head \o back)[i] = records[i - 1]
        BY <3>1, <3>2, <3>3
      <3> QED BY <3>4, <3>5
    <2>3. i <= at \/ i > at
      BY <1>1
    <2> QED BY <2>1, <2>2, <2>3
  <1> QED BY <1>6, <1>7, <1>8
-----------------------------------------------------------------------------
(* Types: what a statement answers, and what it leaves of the file. *)

Answered ==
    /\ did \in Statements
    /\ status \in {"spaces", "00", "05", "10", "22", "23", "35", "42", "47"}
    /\ phrase \in BOOLEAN
    /\ ran \in BOOLEAN

Filed ==
    /\ present \in BOOLEAN
    /\ records \in Seq(Record)
    /\ mode \in Modes \union {"closed"}
    /\ position \in 0..Len(records)
    /\ pending \in Nat \union {Unbounded}

LEMMA TypeParts == TypeOK <=> Answered /\ Filed
  BY DEF TypeOK, Answered, Filed

LEMMA TypePartsNext == TypeOK' <=> Answered' /\ Filed'
  BY TypeParts, PTL

LEMMA StatementsTyped ==
    /\ <<"open">> \in Statements /\ <<"close">> \in Statements
    /\ <<"readNext">> \in Statements
    /\ \A k \in Keys : <<"read", k>> \in Statements
    /\ \A k \in Keys, relation \in Relations : <<"start", relation, k>> \in Statements
    /\ \A r \in Record : <<"write", r>> \in Statements /\ <<"rewrite", r>> \in Statements
  BY DEF Statements

LEMMA AnswersTyped ==
    ASSUME NEW statement \in Statements, NEW hasPhrase \in BOOLEAN,
           \/ \E s \in {"00", "10", "22", "23", "35", "47"} : Outcome(statement, s, hasPhrase)
           \/ \E s \in {"00", "05", "42"} : Reported(statement, s)
    PROVE  Answered'
  BY DEF Outcome, Reported, Answered

LEMMA OpenTyped ==
    ASSUME TypeOK, Open
    PROVE  TypeOK'
  <1>1. Answered'
    <2>1. \/ \E s \in {"00", "05"} : Reported(<<"open">>, s)
          \/ Outcome(<<"open">>, "35", FALSE)
      BY DEF Open, OpenExisting, OpenOptional, OpenMissing, OpenOutput, OpenExtend
    <2> QED BY <2>1, StatementsTyped, AnswersTyped
  <1>2. ASSUME NEW m \in {"INPUT", "I-O"}, OpenExisting(m) \/ OpenOptional(m) \/ OpenMissing(m)
        PROVE  Filed'
    <2>1. Len(records) \in Nat /\ Filed
      BY Shape, TypeParts
    <2>2. ASSUME OpenExisting(m) PROVE Filed'
      BY <2>1, <2>2 DEF Filed, OpenExisting, Rewound, Modes
    <2>3. ASSUME OpenOptional(m) PROVE Filed'
      BY <2>1, <2>3 DEF Filed, OpenOptional, Rewound, Modes
    <2>4. ASSUME OpenMissing(m) PROVE Filed'
      BY <2>1, <2>4 DEF Filed, OpenMissing
    <2> QED BY <1>2, <2>2, <2>3, <2>4
  <1>3. ASSUME OpenOutput PROVE Filed'
    BY <1>3, TypeParts, EmptySeq DEF Filed, OpenOutput, Rewound, Modes
  <1>4. ASSUME OpenExtend PROVE Filed'
    BY <1>4, Shape, TypeParts DEF Filed, OpenExtend, Modes
  <1> QED BY <1>1, <1>2, <1>3, <1>4, TypePartsNext DEF Open

LEMMA CloseTyped ==
    ASSUME TypeOK, Close
    PROVE  TypeOK'
  <1>1. Answered'
    BY StatementsTyped, AnswersTyped DEF Close
  <1>2. Filed'
    BY TypeParts DEF Close, Filed
  <1> QED BY <1>1, <1>2, TypePartsNext

LEMMA ReadsTyped ==
    ASSUME TypeOK, Reads
    PROVE  TypeOK'
  <1> SUFFICES ASSUME NEW hasPhrase \in BOOLEAN,
                      \/ ReadClosed(<<"readNext">>, hasPhrase)
                      \/ \E k \in Keys : ReadClosed(<<"read", k>>, hasPhrase)
                      \/ ReadNext(hasPhrase)
                      \/ \E k \in Keys : ReadKey(k, hasPhrase)
                      \/ \E k \in Keys, relation \in Relations : Start(relation, k, hasPhrase)
               PROVE  TypeOK'
    BY DEF Reads
  <1>1. ASSUME NEW statement \in Statements, ReadClosed(statement, hasPhrase) PROVE TypeOK'
    <2>1. Answered'
      BY <1>1, AnswersTyped DEF ReadClosed
    <2>2. Filed'
      BY <1>1, TypeParts DEF ReadClosed, Filed
    <2> QED BY <2>1, <2>2, TypePartsNext
  <1>2. ASSUME ReadNext(hasPhrase) PROVE TypeOK'
    <2>1. Answered'
      BY <1>2, StatementsTyped, AnswersTyped DEF ReadNext
    <2>2. CASE position = Len(records)
      BY <1>2, <2>1, <2>2, TypeParts, TypePartsNext DEF ReadNext, Filed
    <2>3. CASE position < Len(records)
      <3>1. position + 1 \in 1..Len(records)
        BY <2>3, Shape
      <3>2. position' = position + 1 /\ pending' = KeyAt(position + 1) + 1
        BY <1>2, <2>3, Shape DEF ReadNext, Advanced
      <3>3. position' \in 0..Len(records) /\ pending' \in Nat
        BY <3>1, <3>2, Shape
      <3> QED BY <1>2, <2>1, <3>3, TypeParts, TypePartsNext DEF ReadNext, Filed
    <2> QED BY <2>2, <2>3, Shape
  <1>3. ASSUME NEW k \in Keys, ReadKey(k, hasPhrase) PROVE TypeOK'
    <2>1. Answered'
      BY <1>3, StatementsTyped, AnswersTyped DEF ReadKey
    <2>2. FirstWhere("=", k) = 0 \/ FirstWhere("=", k) \in 1..Len(records)
      BY FirstIsFirst
    <2>3. k + 1 \in Nat
      BY FileAssumption
    <2>4. Filed'
      BY <1>3, <2>2, <2>3, Shape, TypeParts DEF ReadKey, Filed
    <2> QED BY <2>1, <2>4, TypePartsNext
  <1>4. ASSUME NEW k \in Keys, NEW relation \in Relations, Start(relation, k, hasPhrase)
        PROVE  TypeOK'
    <2>1. Answered'
      BY <1>4, StatementsTyped, AnswersTyped DEF Start
    <2>2. StartAt(relation, k) = 0 \/ StartAt(relation, k) \in 1..Len(records)
      BY StartAtRange
    <2>3. Filed'
      BY <1>4, <2>2, Shape, TypeParts DEF Start, Filed
    <2> QED BY <2>1, <2>3, TypePartsNext
  <1> QED BY <1>1, <1>2, <1>3, <1>4, StatementsTyped

LEMMA WritesTyped ==
    ASSUME TypeOK, Writes
    PROVE  TypeOK'
  <1> SUFFICES ASSUME NEW r \in Record, NEW hasPhrase \in BOOLEAN, Write(r, hasPhrase)
               PROVE  TypeOK'
    BY DEF Writes
  <1>1. Answered'
    BY StatementsTyped, AnswersTyped DEF Write
  <1>2. CASE r.key \in KeysOf
    BY <1>1, <1>2, TypeParts, TypePartsNext DEF Filed, Write
  <1>3. CASE r.key \notin KeysOf
    <2>1. records' = InsertAt(records, InsertionPoint(r), r) /\ position' = Len(records')
      BY <1>3 DEF Write
    <2>2. records' \in Seq(Record) /\ position' \in 0..Len(records')
      BY <2>1, Shape, InsertionPointBetween, InsertedRecords
    <2> QED BY <1>1, <2>2, TypeParts, TypePartsNext DEF Filed, Write
  <1> QED BY <1>2, <1>3

LEMMA RewriteTyped ==
    ASSUME TypeOK, NEW r \in Record, Rewrite(r)
    PROVE  TypeOK'
  <1>1. Answered'
    BY StatementsTyped, AnswersTyped DEF Rewrite
  <1>2. CASE records = <<>>
    <2>1. records' = <<r>> /\ position' = 0
      BY <1>2, Shape DEF Rewrite
    <2>2. records' \in Seq(Record) /\ Len(records') = 1
      BY <2>1
    <2>3. position' \in 0..Len(records')
      BY <2>1, <2>2
    <2> QED BY <1>1, <2>2, <2>3, TypeParts, TypePartsNext DEF Filed, Rewrite
  <1>3. CASE records # <<>>
    <2>1. records \in Seq(Record) /\ Rewritten \in 1..Len(records)
      BY <1>3, EmptySeq DEF TypeOK, Rewritten
    <2>2. records' = [records EXCEPT ![Rewritten] = r]
      BY <1>3 DEF Rewrite, ReplaceAt
    <2>3. records' \in Seq(Record) /\ Len(records') = Len(records)
      BY <2>1, <2>2, ExceptSeq
    <2> QED BY <1>1, <2>3, TypeParts, TypePartsNext DEF Filed, Rewrite
  <1> QED BY <1>2, <1>3

LEMMA InitTyped == Init => TypeOK
  <1> SUFFICES ASSUME Init PROVE TypeOK
    OBVIOUS
  <1>1. records \in Seq(Record) /\ Len(records) = 0
    BY EmptySeq DEF Init
  <1>2. Filed
    BY <1>1 DEF Init, Filed
  <1>3. Answered
    BY DEF Init, Answered, Statements
  <1> QED BY <1>2, <1>3, TypeParts

LEMMA StutterTyped ==
    ASSUME TypeOK, UNCHANGED vars
    PROVE  TypeOK'
  BY DEF TypeOK, vars

LEMMA NextTyped ==
    ASSUME TypeOK, [Next]_vars
    PROVE  TypeOK'
  BY OpenTyped, CloseTyped, ReadsTyped, WritesTyped, RewriteTyped, StutterTyped DEF Next

(* Whatever a program asks of the file, the position stays among the       *)
(* records: no operation of the interpreter reads or rewrites past them.   *)
THEOREM FileTypeOK == Spec => []TypeOK
  <1>1. TypeOK /\ [Next]_vars => TypeOK'
    BY NextTyped
  <1> QED BY InitTyped, <1>1, PTL DEF Spec
-----------------------------------------------------------------------------
(* The order of the records. *)

(* A new key between the last smaller and the first greater one. *)
LEMMA WriteAscends ==
    ASSUME TypeOK, KeysAscending, NEW r \in Record, NEW hasPhrase \in BOOLEAN,
           Write(r, hasPhrase)
    PROVE  KeysAscending'
  <1> DEFINE at == InsertionPoint(r)
             n == Len(records)
  <1>1. CASE r.key \in KeysOf
    BY <1>1 DEF Write, KeysAscending, KeyAt
  <1>2. CASE r.key \notin KeysOf
    <2>1. /\ n \in Nat /\ r.key \in Nat /\ DOMAIN records = 1..n
          /\ \A i \in 1..n : KeyAt(i) \in Nat
      BY Shape, FileAssumption DEF Record
    <2>2. \A i \in 1..n : KeyAt(i) # r.key
      BY <1>2, <2>1 DEF KeysOf
    <2>3. at \in 1..(n + 1) /\ \A i \in 1..n : i < at => KeyAt(i) < r.key
      BY <2>1, <2>2, InsertionPointBetween
    <2>4. \A i \in 1..n : at <= i => r.key < KeyAt(i)
      <3> TAKE i \in 1..n
      <3> HAVE at <= i
      <3>1. at <= n /\ at \in 1..n /\ KeyAt(at) > r.key
        BY <2>1, <2>3, InsertionPointBetween
      <3>2. at = i \/ KeyAt(at) < KeyAt(i)
        BY <2>1, <3>1 DEF KeysAscending
      <3> HIDE DEF at
      <3> QED BY <2>1, <3>1, <3>2
    <2>5. records' = InsertAt(records, at, r)
      BY <1>2 DEF Write
    <2>6. /\ records' \in Seq(Record)
          /\ Len(records') = n + 1
          /\ \A i \in 1..(n + 1) :
                records'[i] = IF i < at THEN records[i]
                              ELSE IF i = at THEN r ELSE records[i - 1]
      <3> HIDE DEF at
      <3>1. at \in 1..(Len(records) + 1)
        BY <2>3
      <3> QED BY <2>5, <3>1, SMTT(20), InsertedRecords
    <2> HIDE DEF at, n
    <2>7. DOMAIN records' = 1..(n + 1)
      BY <2>6, LenProperties
    <2>8. \A i \in 1..(n + 1) :
             KeyAt(i)' = IF i < at THEN KeyAt(i) ELSE IF i = at THEN r.key ELSE KeyAt(i - 1)
      BY <2>6 DEF KeyAt
    <2>9. \A i, j \in 1..n : i < j => KeyAt(i) < KeyAt(j)
      BY <2>1 DEF KeysAscending, n
    <2>10. \A i, j \in 1..(n + 1) : i < j => KeyAt(i)' < KeyAt(j)'
      <3> TAKE i, j \in 1..(n + 1)
      <3> HAVE i < j
      <3>1. CASE j < at
        <4>1. i \in 1..n /\ j \in 1..n /\ i < at
          BY <2>1, <2>3, <3>1
        <4> QED BY <2>8, <2>9, <3>1, <4>1
      <3>2. CASE j = at
        <4>1. i \in 1..n /\ i < at /\ ~ (j < at)
          BY <2>1, <2>3, <3>2
        <4>2. KeyAt(i)' = KeyAt(i) /\ KeyAt(j)' = r.key
          BY <2>8, <3>2, <4>1
        <4> QED BY <2>3, <4>1, <4>2
      <3>3. CASE at < j
        <4>1. j - 1 \in 1..n /\ at <= j - 1 /\ ~ (j < at) /\ j # at
          BY <2>1, <2>3, <3>3
        <4>2. KeyAt(j)' = KeyAt(j - 1)
          BY <2>8, <4>1
        <4>3. CASE i < at
          <5>1. i \in 1..n /\ i < j - 1
            BY <2>1, <2>3, <3>3, <4>1, <4>3
          <5>2. KeyAt(i)' = KeyAt(i)
            BY <2>8, <4>3
          <5> QED BY <2>9, <4>1, <4>2, <5>1, <5>2
        <4>4. CASE i = at
          <5>1. KeyAt(i)' = r.key
            BY <2>3, <2>8, <4>4
          <5> QED BY <2>4, <4>1, <4>2, <5>1
        <4>5. CASE at < i
          <5>1. i - 1 \in 1..n /\ i - 1 < j - 1 /\ ~ (i < at) /\ i # at
            BY <2>1, <2>3, <4>5
          <5>2. KeyAt(i)' = KeyAt(i - 1)
            BY <2>8, <5>1
          <5> QED BY <2>9, <4>1, <4>2, <5>1, <5>2
        <4>6. i < at \/ i = at \/ at < i
          BY <2>3
        <4> QED BY <4>3, <4>4, <4>5, <4>6
      <3>4. j < at \/ j = at \/ at < j
        BY <2>3
      <3> QED BY <3>1, <3>2, <3>3, <3>4
    <2> QED BY <2>7, <2>10 DEF KeysAscending
  <1> QED BY <1>1, <1>2

LEMMA KeepsKeys ==
    ASSUME TypeOK, NEW r \in Record, Keeps(r)
    PROVE  /\ DOMAIN records' = DOMAIN records
           /\ position \in 1..Len(records)
           /\ records' = [records EXCEPT ![position] = r]
           /\ \A i \in DOMAIN records : KeyAt(i)' = KeyAt(i)
  <1>1. records \in Seq(Record) /\ position \in 1..Len(records) /\ r.key = KeyAt(position)
    BY Shape DEF TypeOK, Keeps
  <1>2. records # <<>> /\ Rewritten = position
    BY <1>1, EmptySeq DEF Rewritten
  <1>3. records' = [records EXCEPT ![position] = r]
    BY <1>2 DEF Keeps, Rewrite, ReplaceAt
  <1>4. DOMAIN records = 1..Len(records)
    BY Shape
  <1>5. \A i \in DOMAIN records : KeyAt(i)' = KeyAt(i)
    BY <1>1, <1>3, <1>4 DEF KeyAt
  <1> QED BY <1>1, <1>3, <1>5

LEMMA KeepsAscends ==
    ASSUME TypeOK, KeysAscending, NEW r \in Record, Keeps(r)
    PROVE  KeysAscending'
  BY KeepsKeys DEF KeysAscending

LEMMA UntouchedAscends ==
    ASSUME KeysAscending, UNCHANGED records
    PROVE  KeysAscending'
  BY DEF KeysAscending, KeyAt

LEMMA KeepingAscends ==
    ASSUME TypeOK, KeysAscending, [KeepingNext]_vars
    PROVE  KeysAscending'
  <1>1. ASSUME Open PROVE KeysAscending'
    <2>1. CASE OpenOutput
      <3>1. records' = <<>>
        BY <2>1 DEF OpenOutput
      <3> QED BY <3>1 DEF KeysAscending
    <2>2. ASSUME ~ OpenOutput PROVE UNCHANGED records
      BY <1>1, <2>2 DEF Open, OpenExisting, OpenOptional, OpenMissing, OpenExtend
    <2> QED BY <2>1, <2>2, UntouchedAscends
  <1>2. ASSUME Close \/ Reads \/ UNCHANGED vars PROVE KeysAscending'
    <2>1. UNCHANGED records
      BY <1>2 DEF Close, Reads, ReadClosed, ReadNext, ReadKey, Start, vars
    <2> QED BY <2>1, UntouchedAscends
  <1>3. ASSUME Writes PROVE KeysAscending'
    BY <1>3, WriteAscends DEF Writes
  <1>4. ASSUME \E r \in Record : Keeps(r) PROVE KeysAscending'
    BY <1>4, KeepsAscends
  <1> QED BY <1>1, <1>2, <1>3, <1>4 DEF KeepingNext

LEMMA KeepingTyped ==
    ASSUME TypeOK, [KeepingNext]_vars
    PROVE  TypeOK'
  <1>1. [Next]_vars
    BY DEF KeepingNext, Next, Keeps
  <1> QED BY <1>1, NextTyped

LEMMA InitAscends == Init => KeysAscending
  BY DEF Init, KeysAscending

(* As long as no REWRITE changes a key, the records stay in strictly       *)
(* ascending key order, whatever else the program does with the file, in   *)
(* whatever mode: every search and every browse relies on it.              *)
THEOREM FileKeysAscending == KeepingSpec => []KeysAscending
  <1>1. Init => TypeOK /\ KeysAscending
    BY InitTyped, InitAscends
  <1>2. TypeOK /\ KeysAscending /\ [KeepingNext]_vars => TypeOK' /\ KeysAscending'
    BY KeepingTyped, KeepingAscends
  <1> QED BY <1>1, <1>2, PTL DEF KeepingSpec
-----------------------------------------------------------------------------
(* The browse. *)

LEMMA OrderlyKeeping ==
    ASSUME [OrderlyNext]_vars
    PROVE  [KeepingNext]_vars
  BY DEF OrderlyNext, KeepingNext, WritesApart

(* Positions and keys are in the same order, so a cut of one is a cut of   *)
(* the other. *)
LEMMA Ordered ==
    ASSUME TypeOK, KeysAscending,
           NEW i \in 1..Len(records), NEW j \in 1..Len(records)
    PROVE  /\ i < j <=> KeyAt(i) < KeyAt(j)
           /\ KeyAt(i) = KeyAt(j) => i = j
  <1>1. DOMAIN records = 1..Len(records) /\ KeyAt(i) \in Nat /\ KeyAt(j) \in Nat
    BY Shape
  <1>2. i < j => KeyAt(i) < KeyAt(j)
    BY <1>1 DEF KeysAscending
  <1>3. j < i => KeyAt(j) < KeyAt(i)
    BY <1>1 DEF KeysAscending
  <1>4. i < j \/ i = j \/ j < i
    OBVIOUS
  <1> QED BY <1>1, <1>2, <1>3, <1>4

LEMMA OpenCuts ==
    ASSUME TypeOK, PositionCutsAtPending, Open
    PROVE  PositionCutsAtPending'
  <1>1. /\ Len(records) \in Nat /\ DOMAIN records = 1..Len(records)
        /\ \A i \in 1..Len(records) : KeyAt(i) \in Nat
    BY Shape
  <1>2. ASSUME NEW m \in {"INPUT", "I-O"}, OpenExisting(m) \/ OpenOptional(m)
        PROVE  PositionCutsAtPending'
    <2>1. position' = 0 /\ pending' = 0 /\ records' = records
      BY <1>2 DEF OpenExisting, OpenOptional, Rewound
    <2>2. \A i \in DOMAIN records : i > 0 /\ 0 <= KeyAt(i)
      BY <1>1
    <2> QED BY <2>1, <2>2 DEF PositionCutsAtPending, Owed, KeyAt, Unbounded
  <1>3. ASSUME NEW m \in {"INPUT", "I-O"}, OpenMissing(m)
        PROVE  PositionCutsAtPending'
    BY <1>3 DEF OpenMissing, PositionCutsAtPending, Owed, KeyAt
  <1>4. ASSUME OpenOutput PROVE PositionCutsAtPending'
    BY <1>4 DEF OpenOutput, PositionCutsAtPending
  <1>5. ASSUME OpenExtend PROVE PositionCutsAtPending'
    <2>1. position' = Len(records) /\ pending' = Unbounded /\ records' = records
      BY <1>5 DEF OpenExtend
    <2> QED BY <1>1, <2>1 DEF PositionCutsAtPending, Owed
  <1> QED BY <1>2, <1>3, <1>4, <1>5, Open DEF Open

LEMMA ReadsCut ==
    ASSUME TypeOK, KeysAscending, PositionCutsAtPending, Reads
    PROVE  PositionCutsAtPending'
  <1>1. /\ Len(records) \in Nat /\ DOMAIN records = 1..Len(records)
        /\ \A i \in 1..Len(records) : KeyAt(i) \in Nat
        /\ position \in 0..Len(records)
    BY Shape
  <1>2. records' = records
    BY DEF Reads, ReadClosed, ReadNext, ReadKey, Start
  <1>3. ASSUME UNCHANGED <<position, pending>> PROVE PositionCutsAtPending'
    BY <1>2, <1>3 DEF PositionCutsAtPending, Owed, KeyAt
  <1>4. ASSUME NEW at \in 1..Len(records), position' = at, pending' = KeyAt(at) + 1
        PROVE  PositionCutsAtPending'
    <2>1. \A i \in 1..Len(records) : i > at <=> KeyAt(at) < KeyAt(i)
      BY Ordered
    <2>2. pending' # Unbounded
      BY <1>1, <1>4 DEF Unbounded
    <2>3. \A i \in 1..Len(records) : i > at <=> KeyAt(at) + 1 <= KeyAt(i)
      BY <1>1, <2>1
    <2> QED BY <1>1, <1>2, <1>4, <2>2, <2>3 DEF PositionCutsAtPending, Owed, KeyAt
  <1>5. ASSUME NEW at \in 1..Len(records), position' = at - 1, pending' = KeyAt(at)
        PROVE  PositionCutsAtPending'
    <2>1. \A i \in 1..Len(records) : i < at <=> KeyAt(i) < KeyAt(at)
      BY Ordered
    <2>2. pending' # Unbounded
      BY <1>1, <1>5 DEF Unbounded
    <2>3. \A i \in 1..Len(records) : i > at - 1 <=> KeyAt(at) <= KeyAt(i)
      BY <1>1, <2>1
    <2> QED BY <1>1, <1>2, <1>5, <2>2, <2>3 DEF PositionCutsAtPending, Owed, KeyAt
  <1>6. PICK hasPhrase \in BOOLEAN :
           \/ UNCHANGED <<position, pending>>
           \/ ReadNext(hasPhrase)
           \/ \E k \in Keys : ReadKey(k, hasPhrase)
           \/ \E k \in Keys, relation \in Relations : Start(relation, k, hasPhrase)
    BY DEF Reads, ReadClosed
  <1>7. ASSUME ReadNext(hasPhrase) PROVE PositionCutsAtPending'
    <2>1. Len(records) \in Nat /\ position \in 0..Len(records)
      BY <1>1
    <2>2. CASE position = Len(records)
      BY <1>3, <1>7, <2>2 DEF ReadNext
    <2>3. CASE position < Len(records)
      <3>1. position' = position + 1 /\ pending' = KeyAt(position + 1) + 1
        BY <1>7, <2>3, <2>1 DEF ReadNext, Advanced
      <3>2. PICK at \in 1..Len(records) : at = position + 1
        BY <2>3, <2>1
      <3>3. position' = at /\ pending' = KeyAt(at) + 1
        BY <3>1, <3>2
      <3> QED BY <1>4, <3>2, <3>3
    <2> QED BY <2>2, <2>3, <2>1
  <1>8. ASSUME NEW k \in Keys, ReadKey(k, hasPhrase) PROVE PositionCutsAtPending'
    <2>1. CASE FirstWhere("=", k) = 0
      BY <1>3, <1>8, <2>1 DEF ReadKey
    <2>2. CASE FirstWhere("=", k) # 0
      <3>1. FirstWhere("=", k) \in 1..Len(records) /\ KeyAt(FirstWhere("=", k)) = k
        BY <2>2, FirstIsFirst DEF Satisfies
      <3>2. position' = FirstWhere("=", k) /\ pending' = k + 1
        BY <1>8, <2>2 DEF ReadKey
      <3> QED BY <1>4, <3>1, <3>2
    <2> QED BY <2>1, <2>2
  <1>9. ASSUME NEW k \in Keys, NEW relation \in Relations, Start(relation, k, hasPhrase)
        PROVE  PositionCutsAtPending'
    <2>1. CASE StartAt(relation, k) = 0
      BY <1>3, <1>9, <2>1 DEF Start
    <2>2. CASE StartAt(relation, k) # 0
      <3>1. StartAt(relation, k) \in 1..Len(records)
        BY <2>2, StartAtRange
      <3>2. position' = StartAt(relation, k) - 1 /\ pending' = KeyAt(StartAt(relation, k))
        BY <1>9, <2>2 DEF Start
      <3> QED BY <1>5, <3>1, <3>2
    <2> QED BY <2>1, <2>2
  <1> QED BY <1>3, <1>6, <1>7, <1>8, <1>9

LEMMA WritesApartCut ==
    ASSUME TypeOK, PositionCutsAtPending, WritesApart
    PROVE  PositionCutsAtPending'
  <1>1. PICK r \in Record, hasPhrase \in BOOLEAN : Write(r, hasPhrase)
    BY DEF WritesApart, Writes
  <1>2. pending = Unbounded /\ pending' = Unbounded
    BY <1>1 DEF WritesApart, Write
  <1>3. CASE r.key \in KeysOf
    BY <1>1, <1>2, <1>3 DEF Write, PositionCutsAtPending, Owed
  <1>4. CASE r.key \notin KeysOf
    <2>1. position' = Len(records')
      BY <1>1, <1>4 DEF Write
    <2>2. TypeOK'
      BY WritesTyped DEF WritesApart
    <2>3. records' \in Seq(Record)
      BY <2>2 DEF TypeOK
    <2>4. DOMAIN records' = 1..Len(records') /\ Len(records') \in Nat
      BY <2>3, LenProperties
    <2> QED BY <1>2, <2>1, <2>4 DEF PositionCutsAtPending, Owed
  <1> QED BY <1>3, <1>4

LEMMA OrderlyCuts ==
    ASSUME TypeOK, KeysAscending, PositionCutsAtPending, [OrderlyNext]_vars
    PROVE  PositionCutsAtPending'
  <1>1. ASSUME Close \/ UNCHANGED vars PROVE PositionCutsAtPending'
    BY <1>1 DEF Close, vars, PositionCutsAtPending, Owed, KeyAt
  <1>2. ASSUME NEW r \in Record, Keeps(r) PROVE PositionCutsAtPending'
    <2>1. UNCHANGED <<position, pending>>
      BY <1>2 DEF Keeps, Rewrite
    <2> QED BY <1>2, <2>1, KeepsKeys DEF PositionCutsAtPending, Owed
  <1> QED BY <1>1, <1>2, OpenCuts, ReadsCut, WritesApartCut DEF OrderlyNext

InOrder == TypeOK /\ KeysAscending /\ PositionCutsAtPending

LEMMA InitInOrder == Init => InOrder
  BY InitTyped, InitAscends DEF Init, InOrder, PositionCutsAtPending

LEMMA NextInOrder ==
    ASSUME InOrder, [OrderlyNext]_vars
    PROVE  InOrder'
  <1>1. TypeOK' /\ KeysAscending'
    BY OrderlyKeeping, KeepingTyped, KeepingAscends DEF InOrder
  <1>2. PositionCutsAtPending'
    BY OrderlyCuts DEF InOrder
  <1> QED BY <1>1, <1>2 DEF InOrder

(* A browse that no WRITE interrupts owes exactly the records behind the   *)
(* position, whatever reads, STARTs and rewrites are mixed with it.        *)
THEOREM FilePositionCuts == OrderlySpec => []PositionCutsAtPending
  <1>1. InOrder /\ [OrderlyNext]_vars => InOrder'
    BY NextInOrder
  <1>2. InOrder => PositionCutsAtPending
    BY DEF InOrder
  <1> QED BY InitInOrder, <1>1, <1>2, PTL DEF OrderlySpec

(* A readNext finds the end of data exactly where the position is behind   *)
(* every record, and there the browse owes nothing.                        *)
LEMMA NextEnds ==
    ASSUME InOrder, NEW hasPhrase \in BOOLEAN, ReadNext(hasPhrase)
    PROVE  EndOfBrowse'
  <1>1. CASE position < Len(records)
    BY <1>1 DEF ReadNext, Outcome, EndOfBrowse, InOrder, TypeOK
  <1>2. CASE position = Len(records)
    <2>1. UNCHANGED <<records, position, pending>>
      BY <1>2 DEF ReadNext
    <2>2. ~ \E k \in KeysOf : Owed(k)
      <3>1. \A i \in DOMAIN records : ~ (i > position)
        BY <1>2 DEF InOrder, TypeOK
      <3> QED BY <3>1 DEF InOrder, PositionCutsAtPending, KeysOf
    <2> QED BY <2>1, <2>2 DEF EndOfBrowse, KeysOf, KeyAt, Owed
  <1> QED BY <1>1, <1>2 DEF InOrder, TypeOK

(* Every other statement says so in did, or reports another status. *)
LEMMA OthersEndNothing ==
    ASSUME Open \/ Close \/ WritesApart \/ (\E r \in Record : Keeps(r))
    PROVE  EndOfBrowse'
  <1>1. did' # <<"readNext">>
    <2>1. ASSUME NEW r \in Record, NEW hasPhrase \in BOOLEAN, Write(r, hasPhrase)
          PROVE  did' # <<"readNext">>
      <3>1. did' = <<"write", r>>
        BY <2>1 DEF Write, Outcome
      <3> QED BY <3>1
    <2>2. ASSUME NEW r \in Record, Keeps(r) PROVE did' # <<"readNext">>
      <3>1. did' = <<"rewrite", r>>
        BY <2>2 DEF Keeps, Rewrite, Reported
      <3> QED BY <3>1
    <2>3. ASSUME Open PROVE did' = <<"open">>
      BY <2>3 DEF Open, OpenExisting, OpenOptional, OpenMissing, OpenOutput, OpenExtend,
                  Reported, Outcome
    <2>4. ASSUME Close PROVE did' = <<"close">>
      BY <2>4 DEF Close, Reported
    <2> QED BY <2>1, <2>2, <2>3, <2>4 DEF WritesApart, Writes
  <1> QED BY <1>1 DEF EndOfBrowse

LEMMA ReadsEnd ==
    ASSUME InOrder, Reads
    PROVE  EndOfBrowse'
  <1>1. ASSUME NEW k \in Keys, NEW hasPhrase \in BOOLEAN, ReadKey(k, hasPhrase)
        PROVE  EndOfBrowse'
    <2>1. status' # "10"
      BY <1>1 DEF ReadKey, Outcome
    <2> QED BY <2>1 DEF EndOfBrowse
  <1>2. ASSUME NEW k \in Keys, NEW relation \in Relations, NEW hasPhrase \in BOOLEAN,
               Start(relation, k, hasPhrase)
        PROVE  EndOfBrowse'
    <2>1. status' # "10"
      BY <1>2 DEF Start, Outcome
    <2> QED BY <2>1 DEF EndOfBrowse
  <1>3. ASSUME NEW statement, NEW hasPhrase \in BOOLEAN, ReadClosed(statement, hasPhrase)
        PROVE  EndOfBrowse'
    <2>1. status' # "10"
      BY <1>3 DEF ReadClosed, Outcome
    <2> QED BY <2>1 DEF EndOfBrowse
  <1> QED BY <1>1, <1>2, <1>3, NextEnds DEF Reads

(* End of data is the truth: an orderly browse that reports it has         *)
(* delivered, or been positioned beyond, every record of the file.         *)
THEOREM FileEndOfBrowse == OrderlySpec => []EndOfBrowse
  <1>1. Init => InOrder /\ EndOfBrowse
    BY InitInOrder DEF Init, EndOfBrowse
  <1>2. ASSUME InOrder, EndOfBrowse, [OrderlyNext]_vars PROVE EndOfBrowse'
    <2>1. ASSUME UNCHANGED vars PROVE EndOfBrowse'
      BY <1>2, <2>1 DEF vars, EndOfBrowse, KeysOf, KeyAt, Owed
    <2> QED BY <1>2, <2>1, ReadsEnd, OthersEndNothing DEF OrderlyNext
  <1>3. InOrder /\ [OrderlyNext]_vars => InOrder'
    BY NextInOrder
  <1> QED BY <1>1, <1>2, <1>3, PTL DEF OrderlySpec

-----------------------------------------------------------------------------
(* What the program sees of it: the keyed file. *)

LEMMA KeyedKeys == TypeOK => Keyed!KeysOf = KeysOf
  BY DEF Keyed!KeysOf, KeysOf, KeyAt, Range

LEMMA LeastIs ==
    ASSUME NEW ks \in SUBSET Nat, NEW k \in ks, \A other \in ks : k <= other
    PROVE  Keyed!LeastOf(ks) = k
  <1>1. \A x \in ks : (\A other \in ks : x <= other) => x = k
    OBVIOUS
  <1> QED BY <1>1 DEF Keyed!LeastOf

LEMMA GreatestIs ==
    ASSUME NEW ks \in SUBSET Nat, NEW k \in ks, \A other \in ks : k >= other
    PROVE  Keyed!GreatestOf(ks) = k
  <1>1. \A x \in ks : (\A other \in ks : x >= other) => x = k
    OBVIOUS
  <1> QED BY <1>1 DEF Keyed!GreatestOf

(* The records behind the position hold exactly the keys still owed. *)
LEMMA OwedBehind ==
    ASSUME InOrder
    PROVE  /\ Keyed!Owed = { KeyAt(i) : i \in (position + 1)..Len(records) }
           /\ Keyed!Owed \subseteq Nat
           /\ position < Len(records) =>
                 Keyed!Owed # {} /\ Keyed!LeastOf(Keyed!Owed) = KeyAt(position + 1)
           /\ position = Len(records) => Keyed!Owed = {}
  <1>1. /\ Len(records) \in Nat /\ DOMAIN records = 1..Len(records)
        /\ \A i \in 1..Len(records) : KeyAt(i) \in Nat
        /\ position \in 0..Len(records)
    BY Shape DEF InOrder
  <1>2. Keyed!Owed = { k \in KeysOf : Owed(k) }
    BY KeyedKeys DEF InOrder, Keyed!Owed, Owed, Keyed!Unbounded, Unbounded
  <1>3. Keyed!Owed = { KeyAt(i) : i \in (position + 1)..Len(records) }
    <2>1. \A i \in 1..Len(records) : i \in (position + 1)..Len(records) <=> Owed(KeyAt(i))
      BY <1>1 DEF InOrder, PositionCutsAtPending
    <2>2. (position + 1)..Len(records) \subseteq 1..Len(records)
      BY <1>1
    <2>3. KeysOf = { KeyAt(i) : i \in 1..Len(records) }
      BY <1>1 DEF KeysOf
    <2> QED BY <1>2, <2>1, <2>2, <2>3
  <1>4. Keyed!Owed \subseteq Nat
    <2>1. (position + 1)..Len(records) \subseteq 1..Len(records)
      BY <1>1
    <2> QED BY <1>1, <1>3, <2>1
  <1>5. ASSUME position < Len(records)
        PROVE  Keyed!Owed # {} /\ Keyed!LeastOf(Keyed!Owed) = KeyAt(position + 1)
    <2>1. PICK first \in 1..Len(records) : first = position + 1
      BY <1>1, <1>5
    <2>2. KeyAt(first) \in Keyed!Owed
      BY <1>1, <1>3, <2>1
    <2>3. \A i \in (position + 1)..Len(records) : KeyAt(first) <= KeyAt(i)
      <3> TAKE i \in (position + 1)..Len(records)
      <3>1. i \in 1..Len(records) /\ (first < i \/ first = i)
        BY <1>1, <2>1
      <3> QED BY <1>1, <2>1, <3>1, Ordered DEF InOrder
    <2>4. \A other \in Keyed!Owed : KeyAt(first) <= other
      BY <1>3, <2>3
    <2> QED BY <1>4, <2>1, <2>2, <2>4, LeastIs
  <1>6. position = Len(records) => Keyed!Owed = {}
    BY <1>1, <1>3
  <1> QED BY <1>3, <1>4, <1>5, <1>6

LEMMA OpenKeyed ==
    ASSUME InOrder, Open
    PROVE  Keyed!Next
  <1>1. ASSUME NEW m \in {"INPUT", "I-O"}, OpenExisting(m) \/ OpenOptional(m)
        PROVE  Keyed!OpenToRead
    BY <1>1 DEF OpenExisting, OpenOptional, Rewound, Reported, Keyed!OpenToRead
  <1>2. ASSUME NEW m \in {"INPUT", "I-O"}, OpenMissing(m)
        PROVE  Keyed!OpenFails
    BY <1>2 DEF OpenMissing, Outcome, Keyed!OpenFails, Keyed!Answer, Keyed!Unchanged
  <1>3. ASSUME OpenOutput PROVE Keyed!OpenToCreate
    <2>1. Range(records') = {}
      BY <1>3 DEF OpenOutput, Range
    <2> QED BY <1>3, <2>1
        DEF OpenOutput, Reported, Keyed!OpenToCreate, Keyed!Answer, Keyed!Unbounded, Unbounded
  <1>4. ASSUME OpenExtend PROVE Keyed!OpenToExtend
    BY <1>4
    DEF OpenExtend, Reported, Keyed!OpenToExtend, Keyed!Answer, Keyed!Unbounded, Unbounded
  <1> QED BY <1>1, <1>2, <1>3, <1>4 DEF Open, Keyed!Next

LEMMA CloseKeyed ==
    ASSUME Close
    PROVE  Keyed!Next
  <1>1. Keyed!Close
    BY DEF Close, Reported, Keyed!Close, Keyed!Unchanged
  <1> QED BY <1>1 DEF Keyed!Next

LEMMA ReadClosedKeyed ==
    ASSUME NEW hasPhrase \in BOOLEAN,
           \/ ReadClosed(<<"readNext">>, hasPhrase)
           \/ \E k \in Keys : ReadClosed(<<"read", k>>, hasPhrase)
    PROVE  Keyed!Next
  <1>1. ASSUME ReadClosed(<<"readNext">>, hasPhrase) PROVE Keyed!ReadNext
    BY <1>1 DEF ReadClosed, Outcome, Keyed!ReadNext, Keyed!Answer, Keyed!Unchanged
  <1>2. ASSUME NEW k \in Keys, ReadClosed(<<"read", k>>, hasPhrase) PROVE Keyed!Read(k)
    BY <1>2 DEF ReadClosed, Outcome, Keyed!Read, Keyed!Answer, Keyed!Unchanged
  <1> QED BY <1>1, <1>2 DEF Keyed!Next

LEMMA ReadNextKeyed ==
    ASSUME InOrder, NEW hasPhrase \in BOOLEAN, ReadNext(hasPhrase)
    PROVE  Keyed!Next
  <1>1. CASE position = Len(records)
    <2>1. Keyed!Owed = {}
      BY <1>1, OwedBehind
    <2>2. Outcome(<<"readNext">>, "10", hasPhrase) /\ UNCHANGED <<records, pending>>
      BY <1>1 DEF ReadNext
    <2>3. Keyed!ReadNext
      BY <2>1, <2>2 DEF Outcome, Keyed!ReadNext, Keyed!Answer, Keyed!Unchanged
    <2> QED BY <2>3 DEF Keyed!Next
  <1>2. CASE position < Len(records)
    <2>1. position # Len(records)
      BY <1>2, Shape DEF InOrder
    <2>2. pending' = Keyed!LeastOf(Keyed!Owed) + 1 /\ Keyed!Owed # {}
      BY <1>2, <2>1, OwedBehind DEF ReadNext
    <2>3. Outcome(<<"readNext">>, "00", hasPhrase) /\ UNCHANGED records
      BY <2>1 DEF ReadNext
    <2>4. Keyed!ReadNext
      BY <2>2, <2>3 DEF Outcome, Keyed!ReadNext, Keyed!Answer
    <2> QED BY <2>4 DEF Keyed!Next
  <1>3. position = Len(records) \/ position < Len(records)
    BY DEF ReadNext
  <1> QED BY <1>1, <1>2, <1>3

LEMMA ReadKeyKeyed ==
    ASSUME InOrder, NEW hasPhrase \in BOOLEAN, NEW k \in Keys, ReadKey(k, hasPhrase)
    PROVE  Keyed!Next
  <1>1. TypeOK /\ DOMAIN records = 1..Len(records) /\ Keyed!KeysOf = KeysOf
    BY Shape, KeyedKeys DEF InOrder
  <1>2. CASE FirstWhere("=", k) = 0
    <2>1. \A i \in 1..Len(records) : KeyAt(i) # k
      BY <1>1, <1>2, FirstIsFirst DEF Satisfies
    <2>2. k \notin Keyed!KeysOf
      BY <1>1, <2>1 DEF KeysOf
    <2>3. Keyed!Read(k)
      BY <1>2, <2>2 DEF ReadKey, Outcome, Keyed!Read, Keyed!Answer, Keyed!Unchanged
    <2> QED BY <2>3 DEF Keyed!Next
  <1>3. CASE FirstWhere("=", k) # 0
    <2>1. FirstWhere("=", k) \in 1..Len(records) /\ KeyAt(FirstWhere("=", k)) = k
      BY <1>1, <1>3, FirstIsFirst DEF Satisfies
    <2>2. k \in Keyed!KeysOf
      BY <1>1, <2>1 DEF KeysOf
    <2>3. Keyed!Read(k)
      BY <1>3, <2>2 DEF ReadKey, Outcome, Keyed!Read, Keyed!Answer
    <2> QED BY <2>3 DEF Keyed!Next
  <1> QED BY <1>2, <1>3

LEMMA StartKeyed ==
    ASSUME InOrder, NEW hasPhrase \in BOOLEAN, NEW k \in Keys, NEW relation \in Relations,
           Start(relation, k, hasPhrase)
    PROVE  Keyed!Next
  <1> DEFINE ks == Keyed!Selected(relation, k)
             at == StartAt(relation, k)
  <1>1. /\ TypeOK /\ DOMAIN records = 1..Len(records) /\ Len(records) \in Nat
        /\ Keyed!KeysOf = KeysOf
        /\ \A i \in 1..Len(records) : KeyAt(i) \in Nat
    BY Shape, KeyedKeys DEF InOrder
  <1>2. ks = { key \in KeysOf : Satisfies(relation, key, k) }
    BY <1>1 DEF Keyed!Selected, Satisfies
  <1>3. ks \subseteq Nat
    BY <1>1, <1>2 DEF KeysOf
  <1>4. CASE at = 0
    <2>1. \A i \in 1..Len(records) : ~ Satisfies(relation, KeyAt(i), k)
      BY <1>1, <1>4, FirstIsFirst, LastIsLast DEF StartAt
    <2>2. ks = {}
      BY <1>1, <1>2, <2>1 DEF KeysOf
    <2>3. Keyed!Start(relation, k)
      BY <1>4, <2>2 DEF Start, Outcome, Keyed!Start, Keyed!Answer, Keyed!Unchanged
    <2> QED BY <2>3 DEF Keyed!Next, Keyed!Relations, Relations
  <1>5. CASE at # 0
    <2>1. at \in 1..Len(records) /\ Satisfies(relation, KeyAt(at), k)
      BY <1>1, <1>5, FirstIsFirst, LastIsLast DEF StartAt
    <2>2. KeyAt(at) \in ks
      BY <1>1, <1>2, <2>1 DEF KeysOf
    <2>3. KeyAt(at) = Keyed!FirstOf(relation, ks)
      <3>1. CASE relation \in {"<", "<="}
        <4>1. \A i \in 1..Len(records) : Satisfies(relation, KeyAt(i), k) => i <= at
          BY <1>1, <1>5, <3>1, LastIsLast DEF StartAt
        <4> HIDE DEF at
        <4>2. \A i \in 1..Len(records) : i <= at => KeyAt(at) >= KeyAt(i)
          BY <1>1, <2>1, Ordered DEF InOrder
        <4>3. \A other \in ks : KeyAt(at) >= other
          BY <1>1, <1>2, <4>1, <4>2 DEF KeysOf
        <4> HIDE DEF ks
        <4>4. Keyed!GreatestOf(ks) = KeyAt(at)
          BY <1>3, <2>2, <4>3, GreatestIs
        <4> QED BY <3>1, <4>4 DEF Keyed!FirstOf
      <3>2. CASE relation \notin {"<", "<="}
        <4>1. \A i \in 1..Len(records) : Satisfies(relation, KeyAt(i), k) => at <= i
          BY <1>1, <1>5, <3>2, FirstIsFirst DEF StartAt
        <4> HIDE DEF at
        <4>2. \A i \in 1..Len(records) : at <= i => KeyAt(at) <= KeyAt(i)
          BY <1>1, <2>1, Ordered DEF InOrder
        <4>3. \A other \in ks : KeyAt(at) <= other
          BY <1>1, <1>2, <4>1, <4>2 DEF KeysOf
        <4> HIDE DEF ks
        <4>4. Keyed!LeastOf(ks) = KeyAt(at)
          BY <1>3, <2>2, <4>3, LeastIs
        <4> QED BY <3>2, <4>4 DEF Keyed!FirstOf
      <3> QED BY <3>1, <3>2
    <2>4. pending' = KeyAt(at) /\ UNCHANGED records
          /\ Outcome(<<"start", relation, k>>, "00", hasPhrase)
      BY <1>5 DEF Start
    <2> HIDE DEF ks, at
    <2>5. ks # {} /\ pending' = Keyed!FirstOf(relation, ks)
      BY <2>2, <2>3, <2>4
    <2>6. Keyed!Start(relation, k)
      BY <2>4, <2>5 DEF ks, Outcome, Keyed!Start, Keyed!Answer
    <2> QED BY <2>6 DEF Keyed!Next, Keyed!Relations, Relations
  <1> QED BY <1>4, <1>5

LEMMA WriteKeyed ==
    ASSUME InOrder, NEW r \in Record, NEW hasPhrase \in BOOLEAN, Write(r, hasPhrase)
    PROVE  Keyed!Next
  <1> DEFINE at == InsertionPoint(r)
             n == Len(records)
  <1>1. TypeOK /\ DOMAIN records = 1..n /\ n \in Nat /\ Keyed!KeysOf = KeysOf
    BY Shape, KeyedKeys DEF InOrder
  <1>2. CASE r.key \in KeysOf
    <2>1. Keyed!Write(r)
      BY <1>1, <1>2 DEF Write, Outcome, Keyed!Write, Keyed!Answer, Keyed!Unchanged
    <2> QED BY <2>1 DEF Keyed!Next, Keyed!Record, Record
  <1>3. CASE r.key \notin KeysOf
    <2>1. at \in 1..(n + 1) /\ records' = InsertAt(records, at, r)
      BY <1>1, <1>3, InsertionPointBetween DEF Write
    <2>2. /\ records' \in Seq(Record)
          /\ Len(records') = n + 1
          /\ \A i \in 1..(n + 1) :
                records'[i] = IF i < at THEN records[i]
                              ELSE IF i = at THEN r ELSE records[i - 1]
      <3> HIDE DEF at
      <3>1. at \in 1..(Len(records) + 1)
        BY <2>1
      <3>2. TypeOK /\ records' = InsertAt(records, at, r)
        BY <1>1, <2>1
      <3> QED BY <3>1, <3>2, SMTT(20), InsertedRecords
    <2> HIDE DEF at, n
    <2>3. DOMAIN records' = 1..(n + 1)
      BY <2>2, LenProperties
    <2>4. Range(records') = { records'[i] : i \in 1..(n + 1) }
      BY <2>3 DEF Range
    <2>5. Range(records) = { records[i] : i \in 1..n }
      BY <1>1 DEF Range
    <2>6. \A i \in 1..(n + 1) : records'[i] \in Range(records) \union {r}
      <3> TAKE i \in 1..(n + 1)
      <3>1. CASE i < at
        <4>1. i \in 1..n
          BY <1>1, <2>1, <3>1
        <4> QED BY <2>2, <2>5, <3>1, <4>1
      <3>2. CASE i = at
        <4>1. ~ (i < at)
          BY <2>1, <3>2
        <4> QED BY <2>2, <3>2, <4>1
      <3>3. CASE at < i
        <4>1. i - 1 \in 1..n /\ ~ (i < at) /\ i # at
          BY <1>1, <2>1, <3>3
        <4>2. records'[i] = records[i - 1]
          BY <2>2, <4>1
        <4> QED BY <2>5, <4>1, <4>2
      <3>4. i < at \/ i = at \/ at < i
        BY <2>1
      <3> QED BY <3>1, <3>2, <3>3, <3>4
    <2>7. r \in Range(records')
      <3>1. at \in 1..(n + 1) /\ ~ (at < at)
        BY <2>1
      <3>2. records'[at] = r
        BY <2>2, <3>1
      <3> QED BY <2>4, <3>1, <3>2
    <2>8. \A j \in 1..n : records[j] \in Range(records')
      <3> TAKE j \in 1..n
      <3>1. CASE j < at
        <4>1. j \in 1..(n + 1)
          BY <1>1
        <4> QED BY <2>2, <2>4, <3>1, <4>1
      <3>2. CASE at <= j
        <4>1. PICK i \in 1..(n + 1) : i = j + 1
          BY <1>1
        <4>2. ~ (i < at) /\ i # at /\ i - 1 = j
          BY <2>1, <3>2, <4>1
        <4>3. records'[i] = records[j]
          BY <2>2, <4>2
        <4> QED BY <2>4, <4>3
      <3>3. j < at \/ at <= j
        BY <2>1
      <3> QED BY <3>1, <3>2, <3>3
    <2>9. Range(records') = Range(records) \union {r}
      BY <2>4, <2>5, <2>6, <2>7, <2>8
    <2>10. Keyed!Write(r)
      <3>1. Outcome(<<"write", r>>, "00", hasPhrase) /\ UNCHANGED pending
        BY <1>3 DEF Write
      <3> QED BY <1>1, <1>3, <2>9, <3>1 DEF Outcome, Keyed!Write, Keyed!Answer
    <2> QED BY <2>10 DEF Keyed!Next, Keyed!Record, Record
  <1> QED BY <1>2, <1>3

LEMMA RewriteKeyed ==
    ASSUME InOrder, NEW r \in Record, Keeps(r)
    PROVE  Keyed!Next
  <1>1. /\ TypeOK /\ DOMAIN records = 1..Len(records) /\ Len(records) \in Nat
        /\ Keyed!KeysOf = KeysOf
        /\ records \in Seq(Record)
    BY Shape, KeyedKeys DEF InOrder, TypeOK
  <1>2. /\ position \in 1..Len(records)
        /\ records' = [records EXCEPT ![position] = r]
        /\ r.key = KeyAt(position)
    BY <1>1, KeepsKeys DEF Keeps
  <1>3. /\ DOMAIN records' = 1..Len(records)
        /\ records'[position] = r
        /\ \A i \in 1..Len(records) : i # position => records'[i] = records[i]
    BY <1>1, <1>2
  <1>4. \A i \in 1..Len(records) : records[i].key = r.key <=> i = position
    <2> TAKE i \in 1..Len(records)
    <2>1. KeyAt(i) = KeyAt(position) <=> i = position
      BY <1>2, Ordered DEF InOrder
    <2> QED BY <1>2, <2>1 DEF KeyAt
  <1>5. Range(records') = { other \in Range(records) : other.key # r.key } \union {r}
    <2>1. Range(records') = { records'[i] : i \in 1..Len(records) }
      BY <1>3 DEF Range
    <2>2. Range(records) = { records[i] : i \in 1..Len(records) }
      BY <1>1 DEF Range
    <2>3. \A i \in 1..Len(records) :
             records'[i] \in { other \in Range(records) : other.key # r.key } \union {r}
      BY <1>3, <1>4, <2>2
    <2>4. r \in Range(records')
      BY <1>2, <1>3, <2>1
    <2>5. \A other \in Range(records) : other.key # r.key => other \in Range(records')
      BY <1>3, <1>4, <2>1, <2>2
    <2> QED BY <2>1, <2>3, <2>4, <2>5
  <1>6. r.key \in Keyed!KeysOf
    BY <1>1, <1>2 DEF KeysOf
  <1>7. Keyed!Rewrite(r)
    BY <1>5, <1>6 DEF Keeps, Rewrite, Reported, Keyed!Rewrite, Keyed!Answer
  <1> QED BY <1>7 DEF Keyed!Next, Keyed!Record, Record

LEMMA InitKeyed == Init => Keyed!Init
  BY DEF Init, Keyed!Init, Range, Keyed!Unbounded, Unbounded

LEMMA StepKeyed ==
    ASSUME InOrder, [OrderlyNext]_vars
    PROVE  [Keyed!Next]_(Keyed!vars)
  <1>1. ASSUME Reads PROVE Keyed!Next
    BY <1>1, ReadClosedKeyed, ReadNextKeyed, ReadKeyKeyed, StartKeyed DEF Reads
  <1>2. ASSUME WritesApart PROVE Keyed!Next
    BY <1>2, WriteKeyed DEF WritesApart, Writes
  <1>3. ASSUME UNCHANGED vars PROVE UNCHANGED Keyed!vars
    BY <1>3 DEF vars, Keyed!vars
  <1> QED BY <1>1, <1>2, <1>3, OpenKeyed, CloseKeyed, RewriteKeyed DEF OrderlyNext

(* Used in order, the interpreter's list of records and its position are a *)
(* keyed file: every answer a program gets is one a set of records with    *)
(* distinct keys, browsed in key order, would have given it.               *)
THEOREM FileIsKeyedFile == OrderlySpec => IsKeyedFile
  <1>1. InOrder /\ [OrderlyNext]_vars => InOrder'
    BY NextInOrder
  <1>2. InOrder /\ [OrderlyNext]_vars => [Keyed!Next]_(Keyed!vars)
    BY StepKeyed
  <1> QED BY InitInOrder, InitKeyed, <1>1, <1>2, PTL DEF OrderlySpec, IsKeyedFile, Keyed!Spec
=============================================================================
