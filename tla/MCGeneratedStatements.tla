------------------------ MODULE MCGeneratedStatements ------------------------
(* What cobol-backend expands into a sequence of its own: the cursor loop, *)
(* the rounded result, and the calls of an expression.  Each initial state *)
(* is of one of them, and the variables of the others stay where they are. *)
EXTENDS MCCursorLoop, MCRoundedResult, MCCallsInExpressions

VARIABLE statement

NoLoop ==
    /\ loop = Plain(1, 0)
    /\ pc = "done" /\ size = 0 /\ cursor = FALSE /\ position = 0 /\ counter = 0
    /\ rows = 0 /\ index = 0 /\ sqlcode = 0 /\ code = "none" /\ seen = <<>>

NoRounding ==
    /\ asked = [mode |-> "DOWN", shape |-> "product", n |-> 0, d |-> 10, sorting |-> FALSE]
    /\ stage = "left" /\ dividend = 0 /\ divisor = 1 /\ value = 0
    /\ excess = 0 /\ stepping = 1 /\ target = 0 /\ overflow = "no"

NoCalls ==
    /\ program = [statement |-> "if", e |-> Literal(2), raising |-> {}]
    /\ active = << >> /\ parameter = [f \in Functions |-> Nothing]
    /\ result = [f \in Functions |-> 0] /\ raised = FALSE /\ stored = <<2>>

StatementInit ==
    \/ statement = "loop" /\ Init /\ NoRounding /\ NoCalls
    \/ statement = "rounding" /\ RoundInit /\ NoLoop /\ NoCalls
    \/ statement = "calls" /\ CallInit /\ NoLoop /\ NoRounding

LoopStep == Next /\ UNCHANGED <<statement, roundVars, callVars>>
RoundingStep == RoundNext /\ UNCHANGED <<statement, vars, callVars>>
CallStep == CallNext /\ UNCHANGED <<statement, vars, roundVars>>
StatementNext ==
    \/ statement = "loop" /\ LoopStep
    \/ statement = "rounding" /\ RoundingStep
    \/ statement = "calls" /\ CallStep

(* Fairness is the loop's own.                                             *)
StatementSpec ==
    /\ StatementInit /\ [][StatementNext]_<<statement, vars, roundVars, callVars>>
    /\ WF_vars(Open \/ Fetch \/ TakeFromRowset \/ EndRowset \/ Ends)
    /\ WF_vars(FinishRow)
=============================================================================
