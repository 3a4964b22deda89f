------------------------- MODULE CallsInExpressions -------------------------
(***************************************************************************)
(* A call inside an expression, as cobol-backend spells it.  COBOL has no  *)
(* call in an expression, so the calls are made first (emitCallsIn), each  *)
(* argument moved into the callee's one parameter field, and the           *)
(* expression then reads the one result field of every function it named.  *)
(*                                                                         *)
(* A function's body returns an expression that may call others.  The      *)
(* functions are the ones reached by PERFORM: none of them is recursive,   *)
(* and their parameters are scalars.                                       *)
(* A function that raises does so before it returns anything.              *)
(***************************************************************************)
EXTENDS Integers, Sequences, SequencesExt

CONSTANTS
    Functions,      \* the functions of the program
    Takes,          \* how many parameters each has
    Returns,        \* the expression each returns
    CallHeight,     \* as high a tree as expressions are, calls replaced by bodies
    CallPrograms    \* [statement, e, raising]: a statement, and who fails of what it runs

(* A function's parameter fields, and what they hold.  A field no argument *)
(* is moved into keeps its VALUE ZERO.                                     *)
Positions == UNION {1..Takes[f] : f \in Functions}
Given == [Positions -> Int]
Nothing == [i \in Positions |-> 0]

(* Expressions.  A "text" node is any that emitCallsIn does not go into: a *)
(* string or numeric builtin, a subscript, a member of an answer.          *)
Literal(n)   == [op |-> "literal", n |-> n, f |-> "none", args |-> << >>]
Param(i)     == [op |-> "param", n |-> i, f |-> "none", args |-> << >>]
Call(f, as)  == [op |-> "call", n |-> 0, f |-> f, args |-> as]
Binary(l, r) == [op |-> "binary", n |-> 0, f |-> "none", args |-> <<l, r>>]
Text(e)      == [op |-> "text", n |-> 0, f |-> "none", args |-> <<e>>]

Operators == {"literal", "param", "call", "binary", "text"}
Nodes(parts) == [op : Operators, n : Int, f : Functions \union {"none"}, args : Seq(parts)]
Formed(e) ==
    /\ e.op \in {"literal", "param"} => e.args = << >>
    /\ e.op = "param" => e.n \in Positions
    /\ e.op = "call" => e.f \in Functions /\ Len(e.args) = Takes[e.f]
    /\ e.op = "binary" => Len(e.args) = 2
    /\ e.op = "text" => Len(e.args) = 1

(* By height.  A call is higher than the body it runs: no function calls   *)
(* itself, whichever way round.                                            *)
Higher(parts) == {e \in Nodes(parts) : Formed(e) /\ (e.op = "call" => Returns[e.f] \in parts)}
UpTo[n \in 0..CallHeight] == IF n = 0 THEN {} ELSE Higher(UpTo[n - 1])

Expressions == UpTo[CallHeight]

ASSUME CallAssumption ==
    /\ "none" \notin Functions
    /\ Takes \in [Functions -> Nat]
    /\ CallHeight \in Nat
    /\ Returns \in [Functions -> Expressions]
    /\ \A p \in CallPrograms : p.e \in Expressions /\ p.raising \subseteq Functions

VARIABLES
    program,        \* the statement, as compiled
    active,         \* the routines entered, the statement's own first: [of, code]
    parameter,      \* the parameter fields, by function
    result,         \* the result fields, by function
    raised,         \* BANK-FAILURE-CODE is not SPACES
    stored          \* what the statement made of its expression: <<>>, then <<v>>

callVars == <<program, active, parameter, result, raised, stored>>

-----------------------------------------------------------------------------
(* The text generated for an expression: moves and performs, in order.     *)
Move(f, i, e) == [do |-> "move", f |-> f, i |-> i, e |-> e]
Perform(f)    == [do |-> "perform", f |-> f, i |-> 0, e |-> Literal(0)]
Keep(f, e)    == [do |-> "keep", f |-> f, i |-> 0, e |-> e]

Moves(e) == [i \in 1..Len(e.args) |-> Move(e.f, i, e.args[i])]

(* emitCallsIn, the Call case: the arguments' own calls, then the moves.   *)
ArgumentByArgument(calls, e) ==                                     \* a mutant
    FlattenSeq([i \in 1..Len(e.args) |-> Append(calls[i], Moves(e)[i])])
Arranged(calls, e) == FlattenSeq(calls) \o Moves(e)

CallsIn[e \in Expressions] ==
    LET calls == [i \in 1..Len(e.args) |-> CallsIn[e.args[i]]]
    IN  CASE e.op = "call"   -> Append(Arranged(calls, e), Perform(e.f))
          [] e.op = "binary" -> FlattenSeq(calls)
          [] OTHER           -> << >>

(* A let, an assignment, a return, and an `if` of a transaction make the   *)
(* calls; an `if` of a function, a `while`, a `switch` and an effect only  *)
(* read the result fields.                                                 *)
MakesCalls(statement) == statement \in {"let", "assign", "return", "transaction if"}
StatementCode(statement, e) ==
    IF MakesCalls(statement) THEN Append(CallsIn[e], Keep("none", e)) ELSE <<Keep("none", e)>>

FunctionCode(f) ==
    IF f \in program.raising THEN <<[Perform(f) EXCEPT !.do = "raise"]>>
    ELSE Append(CallsIn[Returns[f]], Keep(f, Returns[f]))

-----------------------------------------------------------------------------
(* An operator that tells its operands apart, and so which of them it got. *)
Operated(l, r) == (2 * l + 3 * r + 1) % 101
Builtin(v) == (7 * v + 5) % 101

(* The value of an expression, given that of its parts and, where it is a  *)
(* call, the answer.                                                       *)
Valued(e, own, answer, part(_)) ==
    CASE e.op = "literal" -> e.n
      [] e.op = "param"   -> own[e.n]
      [] e.op = "call"    -> answer
      [] e.op = "binary"  -> Operated(part(1), part(2))
      [] e.op = "text"    -> Builtin(part(1))

(* renderExpression, among these parameters: a call is its result field.   *)
Rendered[e \in Expressions] == [own \in Given |-> [answers \in [Functions -> Int] |->
    LET part(i) == Rendered[e.args[i]][own][answers]
    IN  Valued(e, own, answers[e.f], part)]]

(* A statement of a transaction has no parameters.                         *)
Own(fields, f) == IF f = "none" THEN Nothing ELSE fields[f]
Shown(f, e) == Rendered[e][Own(parameter, f)][result]

(* What the expression means, in a call of these arguments.                *)
Meaning[e \in Expressions] == [given \in Given |->
    LET part(i) == Meaning[e.args[i]][given]
        passed  == [i \in Positions |-> IF i <= Len(e.args) THEN part(i) ELSE 0]
    IN  Valued(e, given, Meaning[Returns[e.f]][passed], part)]

-----------------------------------------------------------------------------
CallInit ==
    /\ program \in CallPrograms
    /\ active = <<[of |-> "none", code |-> StatementCode(program.statement, program.e)]>>
    /\ parameter = [f \in Functions |-> Nothing]
    /\ result = [f \in Functions |-> 0]
    /\ raised = FALSE
    /\ stored = << >>

Running == Last(active)
Line == Head(Running.code)
Advanced(frames) == [frames EXCEPT ![Len(frames)].code = Tail(@)]

(* GO TO the routine's exit.                                               *)
Left(frames) == [frames EXCEPT ![Len(frames)].code = << >>]

At(kind) == active # << >> /\ Running.code # << >> /\ Line.do = kind

(* MOVE or COMPUTE an argument (emitArgumentInto).                         *)
MoveArgument ==
    /\ At("move")
    /\ parameter' = [parameter EXCEPT ![Line.f][Line.i] = Shown(Running.of, Line.e)]
    /\ active' = Advanced(active)
    /\ UNCHANGED <<program, result, raised, stored>>

(* PERFORM the function, THRU its exit.                                    *)
PerformFunction ==
    /\ At("perform")
    /\ active' = Append(Advanced(active), [of |-> Line.f, code |-> FunctionCode(Line.f)])
    /\ UNCHANGED <<program, parameter, result, raised, stored>>

(* The function's return, or the statement's use of its expression.        *)
KeepAnswer ==
    /\ At("keep")
    /\ LET v == Shown(Running.of, Line.e)
       IN  IF Line.f = "none"
           THEN stored' = <<v>> /\ UNCHANGED result
           ELSE result' = [result EXCEPT ![Line.f] = v] /\ UNCHANGED stored
    /\ active' = Advanced(active)
    /\ UNCHANGED <<program, parameter, raised>>

RaiseFailure ==
    /\ At("raise")
    /\ raised' = TRUE
    /\ active' = Left(active)
    /\ UNCHANGED <<program, parameter, result, stored>>

(* Back at the call site, which tests the register before it goes on.      *)
AfterReturn(frames) == IF raised THEN Left(frames) ELSE frames
Return ==
    /\ active # << >> /\ Running.code = << >>
    /\ active' = IF Len(active) = 1 THEN << >> ELSE AfterReturn(Front(active))
    /\ UNCHANGED <<program, parameter, result, raised, stored>>

CallNext == MoveArgument \/ PerformFunction \/ KeepAnswer \/ RaiseFailure \/ Return

CallSpec == CallInit /\ [][CallNext]_callVars

-----------------------------------------------------------------------------
(* The functions an expression runs, and those whose result fields it      *)
(* reads when it is rendered.                                              *)
Runs[e \in Expressions] ==
    LET under == UNION {Runs[e.args[i]] : i \in 1..Len(e.args)}
    IN  CASE e.op = "text" -> {}
          [] e.op = "call" -> {e.f} \union Runs[Returns[e.f]] \union under
          [] OTHER         -> under

Reads[e \in Expressions] ==
    IF e.op = "call" THEN {e.f} ELSE UNION {Reads[e.args[i]] : i \in 1..Len(e.args)}

(* No answer is still to be read when a later operand runs the function    *)
(* that gave it, and no call is where emitCallsIn does not look.           *)
Apart[e \in Expressions] ==
    /\ \A i, j \in 1..Len(e.args) : i < j => Reads[e.args[i]] \intersect Runs[e.args[j]] = {}
    /\ \A i \in 1..Len(e.args) : Apart[e.args[i]]
    /\ e.op = "text" => Reads[e] = {}
    /\ e.op = "call" => Apart[Returns[e.f]]

SoundStatement ==
    IF MakesCalls(program.statement) THEN Apart[program.e] ELSE Reads[program.e] = {}

(* "Nested calls are ordered so inner results are ready before the outer   *)
(* call runs" (docs/language/functions.md): a statement whose calls keep   *)
(* apart stores the value its expression has, or fails and stores nothing. *)
CallsReadTheirOwnAnswers ==
    (active = << >> /\ SoundStatement) =>
        LET fails == MakesCalls(program.statement) /\ Runs[program.e] \intersect program.raising # {}
        IN  /\ raised = fails
            /\ stored = IF fails THEN << >> ELSE <<Meaning[program.e][Nothing]>>
=============================================================================
