---------------------------- MODULE Interpreter ----------------------------
(***************************************************************************)
(* Control flow in cobol-runtime's machine: performed ranges, GO TO, CALL, *)
(* SORT with its procedures, and the USE procedure of a failed file        *)
(* statement.  GO TO, EXIT, GOBACK and STOP RUN are exceptions that unwind *)
(* the JavaScript stack, so what a frame owes its caller is in its catch   *)
(* and finally.                                                            *)
(*                                                                         *)
(* The stack is a sequence of frames, the newest last:                     *)
(*                                                                         *)
(*   call      invoke, of a program                                        *)
(*   range     performRange: paragraphs from..thru, now in paragraph at    *)
(*   perform   executePerform, which loops and catches EXIT PERFORM        *)
(*   sort      executeSort, in its input or its output procedure           *)
(*   use       afterIo, around a declarative                               *)
(*                                                                         *)
(* What the program says is left open: any statement may come next, as     *)
(* long as COBOL lets it stand there.  A declarative is paragraph 0 and    *)
(* the main body 1..Paragraphs.                                            *)
(***************************************************************************)
EXTENDS Integers, Sequences, FiniteSets, SequencesExt

CONSTANTS
    LoadedPrograms,     \* the programs loaded
    MainProgram,        \* the one run
    Paragraphs,         \* the paragraphs of each program's main body
    MostFrames,         \* bound on the depth of the stack
    MostCalls,          \* the depth past which invoke gives up (400)
    StepLimit           \* statements run before the machine gives up

ASSUME InterpreterAssumption ==
    /\ MainProgram \in LoadedPrograms
    /\ Paragraphs \in Nat \ {0}
    /\ MostFrames \in Nat /\ MostCalls \in Nat /\ StepLimit \in Nat

VARIABLES
    stack,              \* the frames, newest last
    callStack,          \* the programs invoked, innermost last
    localFrames,        \* each program's LOCAL-STORAGE frames: how many
    sortWork,           \* each program's sort work: "none", "releasing" or "ordered"
    sortReturn,         \* SORT-RETURN is not zero
    inDeclarative,      \* a USE procedure is running
    steps,              \* statements run
    outcome             \* "running", "ended", or "fault"

imVars == <<stack, callStack, localFrames, sortWork, sortReturn, inDeclarative, steps, outcome>>

Call(p) == [kind |-> "call", of |-> p]
Ranging(from, thru) == [kind |-> "range", from |-> from, thru |-> thru, at |-> from]
Perform == [kind |-> "perform"]
Use == [kind |-> "use"]
(* failed and mixed are history: a procedure of this sort set SORT-RETURN  *)
(* while it was releasing, or while returning; another sort has run since. *)
Sort(p) == [kind |-> "sort", of |-> p, phase |-> "input",
            failedIn |-> FALSE, failedOut |-> FALSE, mixed |-> FALSE]

MainBody == Ranging(1, Paragraphs)

ImInit ==
    /\ stack = <<Call(MainProgram), MainBody>>
    /\ callStack = <<MainProgram>>
    /\ localFrames = [p \in LoadedPrograms |-> IF p = MainProgram THEN 1 ELSE 0]
    /\ sortWork = [p \in LoadedPrograms |-> "none"]
    /\ sortReturn = FALSE
    /\ inDeclarative = FALSE
    /\ steps = 0
    /\ outcome = "running"

Depth == Len(stack)
Top == stack[Depth]
Kept(n) == SubSeq(stack, 1, n)
Frames(kind) == {i \in 1..Depth : stack[i].kind = kind}
Newest(S) == CHOOSE i \in S : \A j \in S : j <= i
Here == Newest(Frames("call"))
Program == stack[Here].of
Inner(kind) == {i \in Frames(kind) : i > Here}

-----------------------------------------------------------------------------
(* execute, guardSteps: every statement is counted, and every turn of a    *)
(* loop.                                                                   *)
NotCounted(n) == n                                              \* a mutant
Counted(n) == n + 1

Runs ==
    /\ outcome = "running"
    /\ steps < StepLimit
    /\ steps' = Counted(steps)
    /\ outcome' = "running"

LimitReached ==
    /\ outcome = "running"
    /\ steps = StepLimit
    /\ outcome' = "fault"
    /\ UNCHANGED <<stack, callStack, localFrames, sortWork, sortReturn, inDeclarative, steps>>

(* A statement runs where the newest frame runs statements. *)
Stating == outcome = "running" /\ Top.kind \in {"range", "perform"}
Room(n) == Depth + n <= MostFrames
Push(frames) == stack' = stack \o frames

(* What unwinding to n frames does on the way: the finally of executeSort  *)
(* drops the sort's work, that of afterIo ends the declarative.            *)
WorkKept(n) == sortWork                                         \* a mutant
WorkAfter(n) == [p \in LoadedPrograms |->
    IF \E i \in Frames("sort") : i > n /\ stack[i].of = p THEN "none" ELSE sortWork[p]]

FlagKept(n) == inDeclarative                                    \* a mutant
FlagAfter(n) == inDeclarative /\ ~ \E i \in Frames("use") : i > n

Unwind(n) ==
    /\ sortWork' = WorkAfter(n)
    /\ inDeclarative' = FlagAfter(n)

-----------------------------------------------------------------------------
(* performRange: the paragraph ends, and control falls into the next or    *)
(* leaves the range; a GO TO inside the range moves it, one outside leaves *)
(* for an outer range that holds the target.                               *)
EndParagraph ==
    /\ outcome = "running"
    /\ Top.kind = "range"
    /\ IF Top.at < Top.thru THEN stack' = [stack EXCEPT ![Depth].at = @ + 1]
                            ELSE stack' = Kept(Depth - 1)
    /\ UNCHANGED <<callStack, localFrames, sortWork, sortReturn, inDeclarative, steps, outcome>>

ExitParagraph ==
    /\ Stating /\ Runs
    /\ LET r == Newest(Inner("range"))
       IN  /\ stack' = IF stack[r].at < stack[r].thru
                       THEN [Kept(r) EXCEPT ![r].at = @ + 1] ELSE Kept(r - 1)
           /\ Unwind(r)
    /\ UNCHANGED <<callStack, localFrames, sortReturn>>

GoTo(target) ==
    /\ Stating /\ Runs
    /\ LET holding == {r \in Inner("range") : target \in stack[r].from..stack[r].thru}
       IN  /\ holding # {}
           /\ stack' = [Kept(Newest(holding)) EXCEPT ![Newest(holding)].at = target]
           /\ Unwind(Newest(holding))
    /\ UNCHANGED <<callStack, localFrames, sortReturn>>

(* executePerform: out of line or inline, once or in a loop. *)
PerformRange(from, thru) ==
    /\ Stating /\ Room(2) /\ Runs
    /\ Push(<<Perform, Ranging(from, thru)>>)
    /\ UNCHANGED <<callStack, localFrames, sortWork, sortReturn, inDeclarative>>

PerformInline ==
    /\ Stating /\ Room(1) /\ Runs
    /\ Push(<<Perform>>)
    /\ UNCHANGED <<callStack, localFrames, sortWork, sortReturn, inDeclarative>>

TurnAgain ==
    /\ outcome = "running" /\ Top.kind = "perform" /\ Runs
    /\ UNCHANGED <<stack, callStack, localFrames, sortWork, sortReturn, inDeclarative>>

EndPerform ==
    /\ outcome = "running"
    /\ Top.kind = "perform"
    /\ stack' = Kept(Depth - 1)
    /\ UNCHANGED <<callStack, localFrames, sortWork, sortReturn, inDeclarative, steps, outcome>>

(* EXIT PERFORM stands in an inline PERFORM, so nothing is between. *)
ExitPerform ==
    /\ outcome = "running" /\ Top.kind = "perform" /\ Runs
    /\ stack' = Kept(Depth - 1)
    /\ UNCHANGED <<callStack, localFrames, sortWork, sortReturn, inDeclarative>>

-----------------------------------------------------------------------------
(* invoke: a fresh LOCAL-STORAGE, the main body, and both let go of again  *)
(* on the way out, by the end of the body, GOBACK or STOP RUN.             *)
CallProgram(p) ==
    /\ Stating /\ Room(2) /\ Runs
    /\ Len(callStack) <= MostCalls
    /\ Push(<<Call(p), MainBody>>)
    /\ callStack' = Append(callStack, p)
    /\ localFrames' = [localFrames EXCEPT ![p] = @ + 1]
    /\ UNCHANGED <<sortWork, sortReturn, inDeclarative>>

CallTooDeep ==
    /\ Stating
    /\ Len(callStack) > MostCalls
    /\ outcome' = "fault"
    /\ UNCHANGED <<stack, callStack, localFrames, sortWork, sortReturn, inDeclarative, steps>>

Leaked(frames, p) == frames                                     \* a mutant
Popped(frames, p) == [frames EXCEPT ![p] = @ - 1]

LeaveProgram ==
    /\ callStack' = Front(callStack)
    /\ localFrames' = Popped(localFrames, Program)
    /\ stack' = Kept(Here - 1)
    /\ Unwind(Here - 1)
    /\ UNCHANGED sortReturn

EndBody ==
    /\ outcome = "running"
    /\ Top.kind = "call"
    /\ LeaveProgram
    /\ outcome' = IF Here = 1 THEN "ended" ELSE "running"
    /\ UNCHANGED steps

(* GOBACK and EXIT PROGRAM, from inside any number of PERFORMs. *)
Goback ==
    /\ Stating
    /\ steps < StepLimit
    /\ steps' = Counted(steps)
    /\ LeaveProgram
    /\ outcome' = IF Here = 1 THEN "ended" ELSE "running"

StopRun ==
    /\ Stating
    /\ steps < StepLimit
    /\ steps' = Counted(steps)
    /\ callStack' = << >>
    /\ localFrames' = [p \in LoadedPrograms |->
          localFrames[p] - Cardinality({k \in DOMAIN callStack : callStack[k] = p})]
    /\ stack' = << >>
    /\ Unwind(0)
    /\ outcome' = "ended"
    /\ UNCHANGED sortReturn

-----------------------------------------------------------------------------
(* executeSort.  A procedure runs no SORT, and RELEASE and RETURN stand in *)
(* the procedures of the running sort; but a procedure may CALL.           *)
Sorting == Inner("sort") # {}
Own == Newest(Inner("sort"))
Mark(field) == [stack EXCEPT ![Own][field] = TRUE]

Mixed(frames) == [i \in DOMAIN frames |->
    IF frames[i].kind = "sort" THEN [frames[i] EXCEPT !.mixed = TRUE] ELSE frames[i]]

Reset(register) == FALSE

(* With an input procedure; or USING, which fills the work file or fails.  *)
StartSort(from, thru) ==
    /\ Stating /\ ~ Sorting /\ sortWork[Program] = "none" /\ Room(2) /\ Runs
    /\ stack' = Mixed(stack) \o <<Sort(Program), Ranging(from, thru)>>
    /\ sortWork' = [sortWork EXCEPT ![Program] = "releasing"]
    /\ sortReturn' = Reset(sortReturn)
    /\ UNCHANGED <<callStack, localFrames, inDeclarative>>

StartSortUsing ==
    /\ Stating /\ ~ Sorting /\ sortWork[Program] = "none" /\ Room(2) /\ Runs
    /\ \E fails \in BOOLEAN :
          /\ stack' = Append(Mixed(stack), [Sort(Program) EXCEPT !.failedIn = fails])
          /\ sortReturn' = (fails \/ Reset(sortReturn))
    /\ sortWork' = [sortWork EXCEPT ![Program] = "releasing"]
    /\ UNCHANGED <<callStack, localFrames, inDeclarative>>

Unchecked(register) == TRUE                                     \* a mutant
MayGoOn(register) == register = FALSE

(* The end of a sort leaves its completion code in the register.           *)
AnswerCleared(register) == FALSE                                \* a mutant
Answer(register) == register

SortDone ==
    /\ stack' = Kept(Depth - 1)
    /\ sortWork' = [sortWork EXCEPT ![Program] = "none"]

(* The work is ordered and the output procedure, or GIVING, takes it. *)
StartOutput(from, thru) ==
    /\ outcome = "running" /\ Room(1)
    /\ Top.kind = "sort" /\ Top.phase = "input"
    /\ MayGoOn(sortReturn)
    /\ stack' = Append([stack EXCEPT ![Depth].phase = "output"], Ranging(from, thru))
    /\ sortWork' = [sortWork EXCEPT ![Program] = "ordered"]
    /\ UNCHANGED <<callStack, localFrames, sortReturn, inDeclarative, steps, outcome>>

GiveOutput ==
    /\ outcome = "running"
    /\ Top.kind = "sort" /\ Top.phase = "input"
    /\ MayGoOn(sortReturn)
    /\ SortDone
    /\ sortReturn' \in {Answer(sortReturn), TRUE}
    /\ UNCHANGED <<callStack, localFrames, inDeclarative, steps, outcome>>

EndSort ==
    /\ outcome = "running"
    /\ Top.kind = "sort"
    /\ Top.phase = "output" \/ ~ MayGoOn(sortReturn)
    /\ SortDone
    /\ sortReturn' = Answer(sortReturn)
    /\ UNCHANGED <<callStack, localFrames, inDeclarative, steps, outcome>>

(* A procedure stores 16 in SORT-RETURN. *)
FailSort ==
    /\ Stating /\ Sorting /\ Runs
    /\ sortReturn' = TRUE
    /\ stack' = Mark(IF stack[Own].phase = "input" THEN "failedIn" ELSE "failedOut")
    /\ UNCHANGED <<callStack, localFrames, sortWork, inDeclarative>>

(* executeRelease: SortTerminated leaves the procedure for the sort's end. *)
Release ==
    /\ Stating /\ Sorting /\ Runs
    /\ stack[Own].phase = "input"
    /\ IF sortReturn
       THEN stack' = Kept(Own - 1) /\ Unwind(Own - 1)
       ELSE UNCHANGED <<stack, sortWork, inDeclarative>>
    /\ UNCHANGED <<callStack, localFrames, sortReturn>>

(* afterIo: a file statement without its own phrase fails. *)
FileStatementFails ==
    /\ Stating /\ Room(2) /\ Runs
    /\ IF inDeclarative
       THEN UNCHANGED <<stack, inDeclarative>>
       ELSE Push(<<Use, Ranging(0, 0)>>) /\ inDeclarative' = TRUE
    /\ UNCHANGED <<callStack, localFrames, sortWork, sortReturn>>

EndUse ==
    /\ outcome = "running"
    /\ Top.kind = "use"
    /\ stack' = Kept(Depth - 1)
    /\ inDeclarative' = FALSE
    /\ UNCHANGED <<callStack, localFrames, sortWork, sortReturn, steps, outcome>>

ImNext ==
    \/ LimitReached \/ EndParagraph \/ ExitParagraph
    \/ \E target \in 1..Paragraphs : GoTo(target)
    \/ \E from \in 1..Paragraphs : \E thru \in from..Paragraphs :
          PerformRange(from, thru) \/ StartSort(from, thru) \/ StartOutput(from, thru)
    \/ PerformInline \/ TurnAgain \/ EndPerform \/ ExitPerform
    \/ \E p \in LoadedPrograms : CallProgram(p)
    \/ CallTooDeep \/ EndBody \/ Goback \/ StopRun
    \/ StartSortUsing \/ GiveOutput \/ EndSort \/ FailSort \/ Release
    \/ FileStatementFails \/ EndUse

ImSpec == ImInit /\ [][ImNext]_imVars
FairImSpec == ImSpec /\ WF_imVars(ImNext)

-----------------------------------------------------------------------------
(* However a sort's procedure is left, its work goes with it, and no       *)
(* RELEASE finds a work file that is not its own (executeSort's finally).  *)
WorkIsRunning ==
    outcome # "fault" => \A p \in LoadedPrograms :
        sortWork[p] # "none" <=> \E i \in Frames("sort") : stack[i].of = p

(* A declarative is running exactly when the machine says so, and never    *)
(* inside itself: "a failing I/O statement inside a USE procedure must not *)
(* re-enter it" (Machine.inDeclarative).                                   *)
DeclarativeOnce ==
    /\ inDeclarative <=> Frames("use") # {}
    /\ \A i, j \in Frames("use") : i = j

(* The calls that are counted, and the LOCAL-STORAGE that is allocated,    *)
(* are those on the stack, by whatever exit the others were left (invoke). *)
CallsAreOnTheStack ==
    /\ Len(callStack) = Cardinality(Frames("call"))
    /\ \A p \in LoadedPrograms :
          localFrames[p] = Cardinality({i \in Frames("call") : stack[i].of = p})

(* Every frame gives back what it owes by whatever exit it is left: EXIT   *)
(* PERFORM, GO TO, GOBACK, STOP RUN, or the failure of a statement in it.  *)
FramesGiveBack == WorkIsRunning /\ DeclarativeOnce /\ CallsAreOnTheStack

(* A sort whose input failed orders and gives nothing (executeSort, "the   *)
(* register is checked between them"), unless a program it called sorted   *)
(* as well: the register is the machine's, not the sort's.                 *)
FailedInputGivesNothing ==
    \A i \in Frames("sort") : stack[i].phase = "output" /\ stack[i].failedIn => stack[i].mixed

(* A sort that failed is seen to have: SORT-RETURN holds its answer when   *)
(* it ends, however its procedure was left (executeSort, "the completion   *)
(* code of this operation").                                               *)
FailureIsAnswered ==
    [][\A i \in Frames("sort") :
          Len(stack') < i /\ (stack[i].failedIn \/ stack[i].failedOut) /\ ~ stack[i].mixed
              => sortReturn']_imVars

(* Every run ends: no loop, GO TO or recursion escapes the count of        *)
(* statements (execute, guardSteps).                                       *)
RunEnds == <>(outcome # "running")
=============================================================================
