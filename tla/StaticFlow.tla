----------------------------- MODULE StaticFlow -----------------------------
(***************************************************************************)
(* The checks that follow a program's paths by walking its tree, and the   *)
(* program they accept, run.                                               *)
(*                                                                         *)
(*   handled     semantic-analyzer, checkFileOutcomes (BANK-FILE-017)      *)
(*   readFirst   typechecker, reportUnreadFileUpdates (BANK-FILE-010)      *)
(*   guarded     typechecker, the nullables an `if` proves present         *)
(*               (BANK-TYPE-008)                                           *)
(*   returns     typechecker, validateBlock: a function's body ends on     *)
(*               every path (BANK-TYPE-004)                                *)
(*                                                                         *)
(* A block is a sequence of statements, and a statement a record of its    *)
(* kind, what its condition compares, and the blocks it may run.  There is *)
(* one sequential file, whose records a read puts in one record area with  *)
(* a nullable field.  Conditions other than a presence test go either way, *)
(* so every path of the tree is a run.                                     *)
(***************************************************************************)
EXTENDS Integers, Sequences

CONSTANTS
    FlowPrograms,   \* the bodies considered
    FlowHeight      \* as high a tree as they are

(* What a condition compares, and a statement's own kind. *)
Conditions == {"status", "record", "present", "other"}
Ends == {"raise", "return"}
Effects == {"read", "rewrite", "use", "value"}
Kinds == Ends \union Effects \union {"if", "while", "each", "switch"}
Plain(kind) == [kind |-> kind, cond |-> "other", arms |-> << >>]
Node(kind, cond, arms) == [kind |-> kind, cond |-> cond, arms |-> arms]

Formed(st) ==
    /\ st.kind \in Ends \union Effects => st.arms = << >>
    /\ st.kind \in {"while", "each"} => Len(st.arms) = 1
    /\ st.kind = "if" => Len(st.arms) \in {1, 2}

(* The trees by height: a block is one higher than its first statement's   *)
(* arms and what follows that statement.                                   *)
Nodes(blocks) == [kind : Kinds, cond : Conditions, arms : Seq(blocks)]
Higher(blocks) == {block \in Seq(Nodes(blocks)) :
    block # << >> => Formed(Head(block)) /\ Tail(block) \in blocks}

Blocks[n \in 0..FlowHeight] == IF n = 0 THEN {<< >>} ELSE Higher(Blocks[n - 1])

FlowBlocks == Blocks[FlowHeight]
ASSUME FlowAssumption == FlowHeight \in Nat /\ FlowPrograms \subseteq FlowBlocks

VARIABLES
    verdict,        \* what the checks said of the program
    todo,           \* what is left to run: of each block entered the rest, innermost first
    owing,          \* the file's last outcome has not been tested
    hasRead,        \* the file has been read
    hasValue,       \* the nullable field has a value
    wrong,          \* the defects that have happened
    ending          \* "no", "left" by return or raise, or "fell" off the end

flowVars == <<verdict, todo, owing, hasRead, hasValue, wrong, ending>>

-----------------------------------------------------------------------------
(* checkFileOutcomes.  What a walk knows: whether an outcome is pending on *)
(* the file, and whether it has reported one.                              *)
Clean == [owed |-> FALSE, reported |-> FALSE]
Report(s) == [owed |-> FALSE, reported |-> s.reported \/ s.owed]

(* namesIn, namesUsedBy: what reads the record. *)
ReadsRecord(s) == s.kind \in {"use", "value", "rewrite"}
Compares(cond) == cond \in {"record", "present"}

(* observe: a test of the status, else a use of the record. *)
Observe(s, cond) ==
    CASE cond = "status" -> [s EXCEPT !.owed = FALSE]
      [] Compares(cond)  -> Report(s)
      [] OTHER           -> s

(* merge: pending unless both paths discharged it. *)
JoinTested(s, t) == [owed |-> s.owed /\ t.owed, reported |-> s.reported \/ t.reported]  \* a mutant
Join(s, t) == [owed |-> s.owed \/ t.owed, reported |-> s.reported \/ t.reported]

(* The fact a statement leaves with, given how its arms are walked: each   *)
(* from what the condition left.                                           *)
Facts == [owed : BOOLEAN, reported : BOOLEAN]
WalkStatement(walk, st, s) ==
    LET seen   == Observe(s, st.cond)
        arm(k) == walk[st.arms[k]][seen]
        arms   == {arm(k) : k \in 1..Len(st.arms)}
    IN  CASE st.kind = "read"    -> [Report(s) EXCEPT !.owed = TRUE]
          [] ReadsRecord(st)     -> Report(s)
          [] st.kind = "if"      -> Join(arm(1), IF Len(st.arms) = 2 THEN arm(2) ELSE seen)
          [] st.kind = "while"   -> Join(seen, Observe(arm(1), st.cond))
          [] st.kind \in {"each", "switch"} ->
                [owed     |-> seen.owed \/ \E t \in arms : t.owed,
                 reported |-> seen.reported \/ \E t \in arms : t.reported]
          [] OTHER               -> s

WalkBlock[block \in FlowBlocks] ==
    [s \in Facts |->
        IF block = << >> THEN s
        ELSE IF Head(block).kind \in Ends THEN [s EXCEPT !.owed = FALSE]
        ELSE WalkBlock[Tail(block)][WalkStatement(WalkBlock, Head(block), s)]]

OutcomesHandled(body) ==
    LET end == WalkBlock[body][Clean] IN ~ end.reported /\ ~ end.owed

-----------------------------------------------------------------------------
(* reportUnreadFileUpdates, of a block with nothing read before it: a read *)
(* covers what follows it in its block and the branches inside that.       *)
ArmCovers(st) ==                                                               \* a mutant
    \/ st.kind = "read"
    \/ \E k \in 1..Len(st.arms) : \E j \in 1..Len(st.arms[k]) : st.arms[k][j].kind = "read"
Covers(st) == st.kind = "read"

ReadBeforeUpdate[block \in FlowBlocks] ==
    block # << >> =>
        \/ Covers(Head(block))
        \/ /\ Head(block).kind # "rewrite"
           /\ \A k \in 1..Len(Head(block).arms) : ReadBeforeUpdate[Head(block).arms[k]]
           /\ ReadBeforeUpdate[Tail(block)]

(* validateTransactionBranch, collectGuards, of a block with nothing       *)
(* proven: the then branch of a presence test may take the value, and      *)
(* nothing after it.                                                       *)
ProvenEither(st, k) == st.kind = "if" /\ st.cond = "present"                   \* a mutant
Proven(st, k) == st.kind = "if" /\ st.cond = "present" /\ k = 1

ValuesGuarded[block \in FlowBlocks] ==
    block # << >> =>
        /\ Head(block).kind # "value"
        /\ \A k \in 1..Len(Head(block).arms) :
              Proven(Head(block), k) \/ ValuesGuarded[Head(block).arms[k]]
        /\ ValuesGuarded[Tail(block)]

(* blockAlwaysRaises, isGuardClause. *)
AnyIf(st) == st.kind = "if"                                                    \* a mutant
HasElse(st) == st.kind = "if" /\ Len(st.arms) = 2

AlwaysRaises[block \in FlowBlocks] ==
    /\ block # << >>
    /\ IF Tail(block) # << >> THEN AlwaysRaises[Tail(block)]
       ELSE \/ Head(block).kind = "raise"
            \/ /\ HasElse(Head(block))
               /\ \A k \in 1..Len(Head(block).arms) : AlwaysRaises[Head(block).arms[k]]

IsGuardClause(st) == st.kind = "if" /\ Len(st.arms) = 1 /\ AlwaysRaises[st.arms[1]]

(* The statements of a block, those in its branches included.              *)
Inside[block \in FlowBlocks] ==
    IF block = << >> THEN {}
    ELSE {Head(block)} \union Inside[Tail(block)]
            \union UNION {Inside[Head(block).arms[k]] : k \in 1..Len(Head(block).arms)}

(* Nothing under an effect returns (validateBranchBody). *)
ReturnsNowhere(block) == \A st \in Inside[block] : st.kind # "return"

(* validateBlock, resolveTerminalStatementType: guard clauses and effects, *)
(* then one statement that ends the function on each of its paths.         *)
IsEffect(st) ==
    /\ st.kind \notin {"if"} \union Ends
    /\ \A k \in 1..Len(st.arms) : ReturnsNowhere(st.arms[k])

EndsOnEveryPath[block \in FlowBlocks] ==
    /\ block # << >>
    /\ LET st   == Head(block)
           last == Tail(block) = << >>
       IN  \/ IsGuardClause(st) /\ EndsOnEveryPath[st.arms[1]] /\ EndsOnEveryPath[Tail(block)]
           \/ IsEffect(st) /\ EndsOnEveryPath[Tail(block)]
           \/ last /\ st.kind \in Ends
           \/ /\ last /\ HasElse(st)
              /\ \A k \in 1..Len(st.arms) : EndsOnEveryPath[st.arms[k]]

-----------------------------------------------------------------------------
(* Two facts about a body that no check asks for: that every loop which    *)
(* reads also tests the status before it comes round, and that no branch a *)
(* presence test guards fills the record again.                            *)
Fills(block) == \E st \in Inside[block] : st.kind = "read"

LoopsTest(block) == \A st \in Inside[block] :
    st.kind = "each" \/ (st.kind = "while" /\ st.cond # "status") => ~ Fills(st.arms[1])

GuardsLast(block) == \A st \in Inside[block] :
    st.kind = "if" /\ st.cond = "present" => ~ Fills(st.arms[1])

Judged(body) ==
    [handled   |-> OutcomesHandled(body),
     readFirst |-> ReadBeforeUpdate[body],
     guarded   |-> ValuesGuarded[body],
     returns   |-> EndsOnEveryPath[body],
     loopsTest |-> LoopsTest(body),
     guardsLast |-> GuardsLast(body)]

(* What is left of a block is kept while there is something left of it.    *)
Onto(block, blocks) == IF block = << >> THEN blocks ELSE <<block>> \o blocks

FlowInit ==
    \E body \in FlowPrograms :
        /\ verdict = Judged(body)
        /\ todo = Onto(body, << >>)
        /\ owing = FALSE
        /\ hasRead = FALSE
        /\ hasValue \in BOOLEAN
        /\ wrong = {}
        /\ ending = "no"

-----------------------------------------------------------------------------
(* The program, run: the next statement of the innermost block is done,    *)
(* and a branch of it is entered.                                          *)
Defect(happens, kind) == IF happens THEN {kind} ELSE {}
First == Head(Head(todo))
Rest == Onto(Tail(Head(todo)), Tail(todo))
AtA(kinds) == ending = "no" /\ todo # << >> /\ First.kind \in kinds

(* The outcome a read leaves is overwritten by any later operation. *)
FlowRead ==
    /\ AtA({"read"})
    /\ wrong' = wrong \union Defect(owing, "outcome")
    /\ owing' = TRUE
    /\ hasRead' = TRUE
    /\ hasValue' \in BOOLEAN
    /\ todo' = Rest
    /\ UNCHANGED <<verdict, ending>>

FlowRewrite ==
    /\ AtA({"rewrite"})
    /\ wrong' = wrong \union Defect(owing, "outcome") \union Defect(~ hasRead, "unread")
    /\ owing' = FALSE
    /\ todo' = Rest
    /\ UNCHANGED <<verdict, hasRead, hasValue, ending>>

FlowUse ==
    /\ AtA({"use", "value"})
    /\ wrong' = wrong \union Defect(owing, "outcome")
                      \union Defect(First.kind = "value" /\ ~ hasValue, "absent")
    /\ todo' = Rest
    /\ UNCHANGED <<verdict, owing, hasRead, hasValue, ending>>

FlowLeave ==
    /\ AtA(Ends)
    /\ ending' = "left"
    /\ todo' = << >>
    /\ owing' = FALSE
    /\ UNCHANGED <<verdict, hasRead, hasValue, wrong>>

(* Where a branching statement may go: its arms, or past it. *)
MayPass(st) == ~ (st.kind = "if" /\ Len(st.arms) = 2)
MayTake(st, k) == st.cond = "present" /\ st.kind = "if" => (k = 1) = hasValue
Around(st) == IF st.kind \in {"while", "each"} THEN todo ELSE Rest

FlowBranch ==
    /\ AtA({"if", "while", "each", "switch"})
    /\ \/ \E k \in 1..Len(First.arms) :
             MayTake(First, k) /\ todo' = Onto(First.arms[k], Around(First))
       \/ MayPass(First) /\ MayTake(First, 2) /\ todo' = Rest
    /\ wrong' = wrong \union Defect(owing /\ Compares(First.cond), "outcome")
    /\ owing' = (owing /\ First.cond # "status")
    /\ UNCHANGED <<verdict, hasRead, hasValue, ending>>

FlowEnds ==
    /\ ending = "no" /\ todo = << >>
    /\ ending' = "fell"
    /\ wrong' = wrong \union Defect(owing, "outcome")
    /\ UNCHANGED <<verdict, todo, owing, hasRead, hasValue>>

FlowNext == FlowRead \/ FlowRewrite \/ FlowUse \/ FlowLeave \/ FlowBranch \/ FlowEnds
FlowSpec == FlowInit /\ [][FlowNext]_flowVars

-----------------------------------------------------------------------------
(* No accepted program uses the record, the file or the end of its routine *)
(* with an outcome outstanding (docs/diagnostics.md, BANK-FILE-017).  The  *)
(* walk takes a loop's body once, from the state at its head, so this is   *)
(* not so of a body that ends with an untested read.                       *)
NoStaleRecord == verdict.handled => "outcome" \notin wrong
NoStaleRecordWhereLoopsTest == verdict.loopsTest => NoStaleRecord

(* No accepted program rewrites a file it has not read, whatever branches  *)
(* it took (reportUnreadFileUpdates).                                      *)
UpdatesFollowReads == verdict.readFirst => "unread" \notin wrong

(* No accepted program takes the value of an absent nullable, as long as   *)
(* no guarded branch fills the record again (guardedNullables is not       *)
(* touched by a read or an assignment).                                    *)
ValuesArePresent == verdict.guarded /\ verdict.guardsLast => "absent" \notin wrong

(* No accepted function runs off the end of its body, guard clauses and    *)
(* nested branches included (validateBlock).                               *)
FunctionsReturn == verdict.returns => ending # "fell"

(* The three rules of the walk that need no condition on loops, of every   *)
(* program they accept (typechecker).                                      *)
AcceptedProgramsGoRight == UpdatesFollowReads /\ ValuesArePresent /\ FunctionsReturn
=============================================================================
