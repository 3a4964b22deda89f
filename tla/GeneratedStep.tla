--------------------------- MODULE GeneratedStep ---------------------------
(***************************************************************************)
(* One run of a generated batch step: the failure protocol that            *)
(* cobol-backend emits around a program's transaction.                     *)
(*                                                                         *)
(* A failure is a code in an EXTERNAL register and a GO TO the exit of the *)
(* routine it happened in; every call site looks at the register, the      *)
(* transaction's wrapper looks at it last, and BANK-MAIN ends the step.    *)
(* What a program may do is a record, chosen once:                         *)
(*                                                                         *)
(*   can      the kinds of failure statements of each place can meet, and  *)
(*            those a file error declarative can meet                      *)
(*   calls    the places that call functions                               *)
(*   sorts    the places that run a SORT with an input or output procedure *)
(*   posts    the transaction's own statements post to the ledger          *)
(*   handler  it declares `on failure`                                     *)
(*   parm     it is parameterised by the job's PARM                        *)
(*                                                                         *)
(* "raise" is a raise statement, "bounds" a subscript guard, "loop" a      *)
(* while or cursor loop that fails, "step" every other generated check     *)
(* that fails the step with 12 (I/O status, size error, queue), "sort" a   *)
(* SORT that did not complete.  The ledger is taken at its word here:      *)
(* ROLLBK undoes the open unit of work.  BankLedger is about whether it    *)
(* does.                                                                   *)
(*                                                                         *)
(* A declarative runs between a failed I/O statement and the test of its   *)
(* status.  What one does that runs to its end, the routine could have     *)
(* done just before, so only one that is left is a step here; it is taken  *)
(* to call and sort nothing.  An XML handler has no statement that fails.  *)
(* A GO TO out of a running sort or declarative is taken to arrive.        *)
(*                                                                         *)
(* Observers, not in the code: failing, unhandled, bodyFailed, handled,    *)
(* damaged, and held, which is no field but the program's place in a sort  *)
(* procedure.                                                              *)
(***************************************************************************)
EXTENDS Integers, FiniteSets

CONSTANTS
    Programs,       \* the programs considered
    Files,          \* the files a program opens
    ReturnCodes,    \* what `returnCode = n` and a split overflow put in BANK-RETURN-CODE
    MaxDepth,       \* bound on nested PERFORMs
    MaxPosts        \* bound on the postings of one unit of work

Places == {"body", "function", "procedure", "handler"}
Kinds  == {"raise", "bounds", "step", "loop"}
Codes  == Kinds \union {"none", "sort", "close"}      \* BANK-FAILURE-CODE; "none" is SPACES

Program == [can : [Places \union {"declarative"} -> SUBSET Kinds], calls : SUBSET Places,
            sorts : SUBSET Places, posts : BOOLEAN, handler : BOOLEAN, parm : BOOLEAN]

ASSUME StepAssumption ==
    /\ Programs \subseteq Program
    /\ \A p \in Programs : /\ "raise" \notin p.can["handler"]      \* BANK-TXN-009
                           /\ "raise" \notin p.can["declarative"]  \* BANK-TYPE-007
                           /\ "procedure" \notin p.sorts           \* a SORT inside a SORT
    /\ ReturnCodes \subseteq Nat
    /\ MaxDepth \in Nat \ {0}
    /\ MaxPosts \in Nat

VARIABLES
    program,        \* the program that was compiled
    phase,          \* "start", "work", "cleanup" in BANK-MAIN, "abend", "ended"
    stack, depth,   \* the routines control is in, innermost at depth
    control,        \* "running", or "jumped" to the exit paragraph of the innermost
    code, rc,       \* BANK-FAILURE-CODE, BANK-RETURN-CODE
    sortReturn,     \* SORT-RETURN of the running sort is 16
    flag, open,     \* the files whose generated flag is up; those the run time has open
    postings,       \* applied in the open unit of work, by who posted them
    failing,        \* the depths at which a failure was met or came out of a routine
    unhandled,      \* a failure no handler took charge of
    bodyFailed, handled,
    damaged,        \* files a CLOSE failed on
    held            \* the file a sort procedure has opened itself, also when it was left

vars == <<program, phase, stack, depth, control, code, rc, sortReturn, flag, open,
          postings, failing, unhandled, bodyFailed, handled, damaged, held>>

files   == <<flag, open, damaged, held>>
routine == <<stack, depth, control, sortReturn, failing>>

Nothing == [who \in {"body", "handler"} |-> 0]

TypeOK ==
    /\ program \in Programs
    /\ phase \in {"start", "work", "cleanup", "abend", "ended"}
    /\ stack \in [1..MaxDepth -> Places]
    /\ depth \in 0..MaxDepth
    /\ phase = "work" <=> depth > 0
    /\ control \in {"running", "jumped"}
    /\ code \in Codes
    /\ rc \in ReturnCodes \union {0, 12, 16}
    /\ sortReturn \in BOOLEAN
    /\ flag \subseteq Files
    /\ open \subseteq Files
    /\ postings \in [{"body", "handler"} -> 0..MaxPosts]
    /\ failing \subseteq 1..MaxDepth
    /\ unhandled \in BOOLEAN
    /\ bodyFailed \in BOOLEAN
    /\ handled \in BOOLEAN
    /\ damaged \subseteq Files
    /\ held \subseteq Files

Place == stack[depth]
Root  == stack[1]
Inside(place) == phase = "work" /\ depth > 1 /\ Place = place
CleaningUp == phase \in {"cleanup", "abend"}

(* The statements of a sort procedure run once for each record of the file *)
(* it holds.                                                               *)
Running(places) ==
    /\ phase = "work"
    /\ control = "running"
    /\ Place \in places
    /\ Place = "procedure" => held # {}

(* What lowering knows about a transaction: it is wrapped for failure when *)
(* it, or a function it calls, raises or guards a computed subscript.      *)
(* The statements of a sort procedure are not looked at; its calls are.    *)
CanFail(p) ==
    \/ p.can["body"] \intersect {"raise", "bounds"} # {}
    \/ /\ p.calls \intersect {"body"} # {} \/ (p.calls \intersect {"procedure"} # {} /\ "body" \in p.sorts)
       /\ p.can["function"] \intersect {"raise", "bounds"} # {}

-----------------------------------------------------------------------------
Init ==
    /\ program \in Programs
    /\ phase = "start"
    /\ stack = [i \in 1..MaxDepth |-> "body"]
    /\ depth = 0
    /\ control = "running"
    /\ code = "none"
    /\ rc = 0
    /\ sortReturn = FALSE
    /\ flag = {}
    /\ open = {}
    /\ postings = Nothing
    /\ failing = {}
    /\ unhandled = FALSE
    /\ bodyFailed = FALSE
    /\ handled = FALSE
    /\ damaged = {}
    /\ held = {}

(* BANK-MAIN sets both registers and performs the transaction... *)
Start ==
    /\ phase = "start"
    /\ phase' = "work"
    /\ stack' = [stack EXCEPT ![1] = "body"]
    /\ depth' = 1
    /\ UNCHANGED <<program, control, code, rc, sortReturn, failing, files, postings,
                   unhandled, bodyFailed, handled>>

(* ...unless the PARM was missing, too short or not numeric. *)
RejectParm ==
    /\ phase = "start"
    /\ program.parm
    /\ phase' = "cleanup"
    /\ rc' = 12
    /\ unhandled' = TRUE
    /\ UNCHANGED <<program, routine, code, files, postings, bodyFailed, handled>>

(* blockPostsToLedger looks into every nested block of the transaction. *)
Overlooked(p) == TRUE                                           \* a mutant
KnownToPost(p) == p.posts

(* debit and credit; a sort procedure's postings are its transaction's. *)
Post ==
    /\ Running({"body", "procedure", "handler"})
    /\ Place = "procedure" => stack[depth - 1] # "function"
    /\ Root = "body" => KnownToPost(program)
    /\ postings[Root] < MaxPosts
    /\ postings' = [postings EXCEPT ![Root] = @ + 1]
    /\ UNCHANGED <<program, phase, routine, code, rc, files, unhandled, bodyFailed, handled>>

SetReturnCode ==
    /\ Running(Places)
    /\ rc' \in ReturnCodes
    /\ UNCHANGED <<program, phase, routine, code, files, postings,
                   unhandled, bodyFailed, handled>>

Enter(place) ==
    /\ depth < MaxDepth
    /\ depth' = depth + 1
    /\ stack' = [stack EXCEPT ![depth + 1] = place]
    /\ failing' = failing \ {depth + 1}
    /\ UNCHANGED <<program, phase, control, code, rc, sortReturn, files, postings,
                   unhandled, bodyFailed, handled>>

Call == Running(program.calls) /\ Enter("function")

(* One sort runs at a time: SORT-RETURN is a single register. *)
BeginSort ==
    /\ Running(program.sorts)
    /\ \A i \in 1..depth : stack[i] # "procedure"
    /\ Enter("procedure")

(* BANK-ABEND: what is open is closed and the step ends, from wherever     *)
(* control was.                                                            *)
Abend ==
    /\ phase' = "abend"
    /\ depth' = 0
    /\ sortReturn' = FALSE
    /\ UNCHANGED control

(* failureExit: a body or a function has an exit to go to, a handler and a *)
(* sort procedure have none.                                               *)
HasExit(place) == place \in {"body", "function"}

JumpInPlace ==                                                  \* a mutant
    IF HasExit(Place)
    THEN control' = "jumped" /\ UNCHANGED <<phase, depth, sortReturn>>
    ELSE phase' = "abend" /\ UNCHANGED <<control, depth, sortReturn>>
Jump ==
    IF HasExit(Place)
    THEN control' = "jumped" /\ UNCHANGED <<phase, depth, sortReturn>>
    ELSE Abend

MarkFailed == failing' = failing \union {depth}
NoteFailure ==
    /\ unhandled' = TRUE
    /\ bodyFailed' = (bodyFailed \/ Root = "body")

(* emitStepFailure *)
StepFailure(reason, value) ==
    /\ code' = reason
    /\ rc' = value
    /\ MarkFailed
    /\ Jump

Raise ==
    /\ Running(Places \ {"procedure"})
    /\ "raise" \in program.can[Place]
    /\ code' = "raise"
    /\ MarkFailed
    /\ Jump
    /\ NoteFailure
    /\ UNCHANGED <<program, stack, rc, files, postings, handled>>

(* The checks that leave.  In a sort procedure only a loop's does: neither *)
(* emitWhileStatement nor emitCursorLoopStatement asks where it is.        *)
Leaving == IF Place = "procedure" THEN {"loop"} ELSE Kinds \ {"raise"}

FailCheck ==
    /\ Running(Places)
    /\ \E kind \in program.can[Place] \intersect Leaving : StepFailure(kind, 12)
    /\ NoteFailure
    /\ UNCHANGED <<program, stack, files, postings, handled>>

(* The end of a cursor loop looks at the register and not at what the loop *)
(* itself met: a code somebody else left there is taken for its own.       *)
LeaveCursorLoop ==
    /\ Running(Places)
    /\ "loop" \in program.can[Place]
    /\ code # "none"
    /\ Jump
    /\ UNCHANGED <<program, stack, code, rc, failing, files, postings,
                   unhandled, bodyFailed, handled>>

(* Every other check of a sort procedure sets SORT-RETURN and runs on...   *)
GiveUpSort ==
    /\ sortReturn' = TRUE
    /\ MarkFailed
    /\ NoteFailure
    /\ UNCHANGED <<program, phase, stack, depth, control, code, rc, postings, handled>>

FailInProcedure ==
    /\ Running({"procedure"})
    /\ program.can["procedure"] \intersect {"bounds", "step"} # {}
    /\ GiveUpSort
    /\ UNCHANGED files

(* ...and a raise there sets the register and runs on.                     *)
RaiseInProcedure ==
    /\ Running({"procedure"})
    /\ "raise" \in program.can["procedure"]
    /\ code' = "raise"
    /\ MarkFailed
    /\ NoteFailure
    /\ UNCHANGED <<program, phase, stack, depth, control, rc, sortReturn, files, postings,
                   handled>>

(* What went wrong in a routine went wrong in the one that performed it. *)
PassUp == failing' = IF depth \in failing THEN failing \union {depth - 1} ELSE failing

(* A call site looks at the register, except where there is no exit to     *)
(* leave by: in a sort procedure and in a handler.                         *)
NeverLeave == "running"                                         \* a mutant
AlwaysLeave == IF stack[depth - 1] \in {"body", "function"} THEN "jumped" ELSE "running"  \* a mutant
AfterCall ==
    IF code # "none" /\ stack[depth - 1] \in {"body", "function"}
    THEN "jumped" ELSE "running"

Return ==
    /\ Inside("function")
    /\ depth' = depth - 1
    /\ control' = AfterCall
    /\ PassUp
    /\ UNCHANGED <<program, phase, stack, code, rc, sortReturn, files, postings,
                   unhandled, bodyFailed, handled>>

(* The SORT returns to the routine that contains it, which looks at        *)
(* SORT-RETURN.                                                            *)
EndSort ==
    /\ Inside("procedure")
    /\ held = {}
    /\ ~ sortReturn
    /\ depth' = depth - 1
    /\ PassUp
    /\ UNCHANGED <<program, phase, stack, control, code, rc, sortReturn, files, postings,
                   unhandled, bodyFailed, handled>>

EndFailedSort ==
    /\ Inside("procedure")
    /\ held = {}
    /\ sortReturn
    /\ code' = "sort"
    /\ rc' = 16
    /\ IF HasExit(stack[depth - 1])
       THEN depth' = depth - 1 /\ control' = "jumped" /\ sortReturn' = FALSE /\ UNCHANGED phase
       ELSE Abend
    /\ PassUp
    /\ UNCHANGED <<program, stack, files, postings, unhandled, bodyFailed, handled>>

-----------------------------------------------------------------------------
(* Files.  An OPEN that works sets the flag after its check; one that      *)
(* fails is a FailCheck, and in a sort procedure runs on to set the flag   *)
(* all the same.                                                           *)
OpenFile(f) ==
    /\ Running(Places)
    /\ f \notin open
    /\ open' = open \union {f}
    /\ flag' = flag \union {f}
    /\ UNCHANGED <<program, phase, routine, code, rc, postings,
                   unhandled, bodyFailed, handled, damaged, held>>

OpenFailsInProcedure(f) ==
    /\ Running({"procedure"})
    /\ "step" \in program.can["procedure"]
    /\ GiveUpSort
    /\ flag' = flag \union {f}
    /\ UNCHANGED <<open, damaged, held>>

CloseFile(f) ==
    /\ Running(Places)
    /\ f \in open
    /\ open' = open \ {f}
    /\ flag' = flag \ {f}
    /\ UNCHANGED <<program, phase, routine, code, rc, postings,
                   unhandled, bodyFailed, handled, damaged, held>>

(* What a CLOSE that fails leaves of the run time's file. *)
CloseDamages(f) ==
    /\ open' \in {open, open \ {f}}
    /\ damaged' = damaged \union (open \intersect {f})

(* It leaves before the flag is reset, but in a sort procedure. *)
CloseFails(f) ==
    /\ Running(Places \ {"procedure"})
    /\ "step" \in program.can[Place]
    /\ f \in open
    /\ CloseDamages(f)
    /\ StepFailure("step", 12)
    /\ NoteFailure
    /\ UNCHANGED <<program, stack, flag, held, postings, handled>>

CloseFailsInProcedure(f) ==
    /\ Running({"procedure"})
    /\ "step" \in program.can["procedure"]
    /\ CloseDamages(f)
    /\ GiveUpSort
    /\ flag' = flag \ {f}
    /\ UNCHANGED held

(* The generated part of a sort procedure opens its files one after the    *)
(* other and runs its statements for each record.  It raises no flag.      *)
SortOpens(f) ==
    /\ Inside("procedure")
    /\ held = {}
    /\ f \notin open
    /\ open' = open \union {f}
    /\ held' = {f}
    /\ UNCHANGED <<program, phase, routine, code, rc, postings,
                   unhandled, bodyFailed, handled, flag, damaged>>

SortOpenFails ==
    /\ Inside("procedure")
    /\ held = {}
    /\ GiveUpSort
    /\ UNCHANGED files

SortCloses(f) ==
    /\ Inside("procedure")
    /\ held = {f}
    /\ f \in open
    /\ open' = open \ {f}
    /\ held' = {}
    /\ UNCHANGED <<program, phase, routine, code, rc, postings,
                   unhandled, bodyFailed, handled, flag, damaged>>

SortCloseFails(f) ==
    /\ Inside("procedure")
    /\ held = {f}
    /\ CloseDamages(f)
    /\ GiveUpSort
    /\ held' = {}
    /\ UNCHANGED flag

(* A declarative that is left: by a check of its own, or at the end of a   *)
(* cursor loop with the code it found.                                     *)
DeclarativeLeft ==
    \/ \E kind \in program.can["declarative"] : code' = kind /\ rc' = 12
    \/ "loop" \in program.can["declarative"] /\ code # "none" /\ UNCHANGED <<code, rc>>

DeclarativeFails ==
    /\ phase = "work"
    /\ control = "running"
    /\ Place = "procedure" \/ "step" \in program.can[Place]
    /\ DeclarativeLeft
    /\ \/ UNCHANGED <<open, damaged>>
       \/ \E f \in open : CloseDamages(f)
    /\ Abend
    /\ MarkFailed
    /\ NoteFailure
    /\ UNCHANGED <<program, stack, flag, held, postings, handled>>

-----------------------------------------------------------------------------
(* The wrapper of a transaction that can fail: when the body has left a    *)
(* code, ROLLBK if the body posts, then the handler, or 12 without one.    *)
(* A transaction that cannot fail is its body and nothing else.            *)
TestReturnCode(p) == CanFail(p) /\ rc # 0                       \* a mutant
FailureSeen(p) == CanFail(p) /\ code # "none"

RolledBack(p) == IF p.posts THEN Nothing ELSE postings

AbandonedCleanly == rc                                          \* a mutant
AbandonedCode == 12

AtBodyEnd == phase = "work" /\ depth = 1 /\ Place = "body"

BodyDone ==
    /\ AtBodyEnd
    /\ ~ FailureSeen(program)
    /\ phase' = "cleanup"
    /\ depth' = 0
    /\ UNCHANGED <<program, stack, control, code, rc, sortReturn, failing, files, postings,
                   unhandled, bodyFailed, handled>>

Handle ==
    /\ AtBodyEnd
    /\ FailureSeen(program)
    /\ program.handler
    /\ postings' = RolledBack(program)
    /\ stack' = [stack EXCEPT ![1] = "handler"]
    /\ failing' = {}
    /\ control' = "running"
    /\ handled' = TRUE
    /\ unhandled' = FALSE
    /\ UNCHANGED <<program, phase, depth, code, rc, sortReturn, files, bodyFailed>>

Abandon ==
    /\ AtBodyEnd
    /\ FailureSeen(program)
    /\ ~ program.handler
    /\ postings' = RolledBack(program)
    /\ rc' = AbandonedCode
    /\ phase' = "cleanup"
    /\ depth' = 0
    /\ UNCHANGED <<program, stack, control, code, sortReturn, failing, files,
                   unhandled, bodyFailed, handled>>

HandlerDone ==
    /\ Running({"handler"})
    /\ phase' = "cleanup"
    /\ depth' = 0
    /\ UNCHANGED <<program, stack, control, code, rc, sortReturn, failing, files, postings,
                   unhandled, bodyFailed, handled>>

(* emitOpenFileCleanup, in BANK-MAIN and in BANK-ABEND: every file whose   *)
(* flag is up is closed, and a CLOSE that fails does not stop the rest.    *)
OnlyAfterSuccess(f) == f \in flag /\ code = "none"              \* a mutant
NeedsClosing(f) == f \in flag

LastCode == "close"                                             \* a mutant
FirstCode == IF code = "none" THEN "close" ELSE code

CleanUpFile(f) ==
    /\ CleaningUp
    /\ NeedsClosing(f)
    /\ flag' = flag \ {f}
    /\ \/ /\ f \in open
          /\ open' = open \ {f}
          /\ UNCHANGED <<code, rc, unhandled, damaged>>
       \/ /\ CloseDamages(f)
          /\ rc' = 12
          /\ code' = FirstCode
          /\ unhandled' = TRUE
    /\ UNCHANGED <<program, phase, routine, held, postings, bodyFailed, handled>>

(* The CLOSE fails and so does its declarative: BANK-ABEND starts again,   *)
(* with the flag still up.                                                 *)
CleanUpAgain(f) ==
    /\ CleaningUp
    /\ phase' = "abend"
    /\ NeedsClosing(f)
    /\ CloseDamages(f)
    /\ DeclarativeLeft
    /\ unhandled' = TRUE
    /\ UNCHANGED <<program, routine, flag, held, postings, bodyFailed, handled>>

(* MOVE BANK-RETURN-CODE TO RETURN-CODE, GOBACK *)
End ==
    /\ CleaningUp
    /\ \A f \in Files : ~ NeedsClosing(f)
    /\ phase' = "ended"
    /\ UNCHANGED <<program, routine, code, rc, files, postings, unhandled, bodyFailed, handled>>

Routine == Return \/ EndSort \/ EndFailedSort \/ BodyDone \/ Handle \/ Abandon \/ HandlerDone
Failure == Raise \/ FailCheck \/ FailInProcedure \/ RaiseInProcedure \/ SortOpenFails \/ DeclarativeFails
FileFailure(f) ==
    CloseFails(f) \/ OpenFailsInProcedure(f) \/ CloseFailsInProcedure(f) \/ SortCloseFails(f)
FileStep(f) == OpenFile(f) \/ CloseFile(f) \/ SortOpens(f) \/ SortCloses(f)
Ending  == End \/ \E f \in Files : CleanUpFile(f) \/ CleanUpAgain(f)

Next ==
    \/ Start \/ RejectParm
    \/ Post \/ SetReturnCode \/ Call \/ BeginSort
    \/ Failure \/ LeaveCursorLoop \/ Routine \/ Ending
    \/ \E f \in Files : FileFailure(f) \/ FileStep(f)

Spec == Init /\ [][Next]_vars

(* COBOL runs on: a routine that has nothing else to do returns. *)
FairSpec == Spec /\ WF_vars(Return \/ BodyDone \/ Handle \/ Abandon) /\ WF_vars(Ending)

-----------------------------------------------------------------------------
(* What keeps a program inside the protocol: its sort procedures raise     *)
(* nothing and call nothing, its handler calls nothing, and there is no    *)
(* cursor loop in a declarative or in a sort procedure of the handler,     *)
(* where the register already has a code.  The compiler asks for none of   *)
(* it.                                                                     *)
Disciplined(p) ==
    /\ "raise" \notin p.can["procedure"]
    /\ p.calls \intersect {"procedure", "handler"} = {}
    /\ "loop" \notin p.can["declarative"]
    /\ "loop" \in p.can["procedure"] => "handler" \notin p.sorts

(* Its failures go through the wrapper, if it has one: they do not leave   *)
(* for BANK-ABEND from a sort procedure or from a declarative.             *)
Contained(p) ==
    /\ Disciplined(p)
    /\ "loop" \notin p.can["procedure"]
    /\ p.can["declarative"] = {}

Wrapped(p) == CanFail(p) /\ Contained(p)

(* The protocol as one inductive invariant of disciplined programs: where  *)
(* each kind of routine can be on the stack, what the register says while  *)
(* a body runs, and what is left of a failure at each point after it.      *)
Nesting ==
    phase = "work" =>
      /\ Root \in {"body", "handler"}
      /\ \A i \in 2..depth : stack[i] \in {"function", "procedure"}
      /\ \A i \in 1..depth : stack[i] = "procedure" =>
                               (i = depth /\ control = "running" /\ stack[i - 1] \in program.sorts)
      /\ \A i \in 1..depth : stack[i] = "function" =>
                               (Root = "body" /\ "body" \in program.calls)

Register ==
    /\ phase = "start" => (code = "none" /\ control = "running" /\ ~ unhandled /\ ~ bodyFailed)
    /\ phase = "work" /\ Root = "body" /\ control = "running" => code = "none"
    /\ phase = "work" /\ control = "jumped" =>
          (Root = "body" /\ code # "none" /\ bodyFailed /\ depth \in failing)
    /\ sortReturn => (/\ phase = "work" /\ Place = "procedure" /\ depth \in failing
                      /\ Root = "body" => bodyFailed)

Aftermath ==
    /\ phase = "work" /\ unhandled =>
          sortReturn \/ (control = "jumped" /\ (rc # 0 \/ CanFail(program)))
    /\ (CleaningUp \/ phase = "ended") /\ unhandled => rc # 0
    /\ phase = "work" /\ Root = "body" /\ bodyFailed => sortReturn \/ control = "jumped"

Protocol == Nesting /\ Register /\ Aftermath

(* A step with a failure no handler took charge of does not end with zero  *)
(* (emitFailingTransaction: "Leaving it here is what a raise used to do"). *)
FailureNeverEndsClean == (Disciplined(program) /\ phase = "ended" /\ unhandled) => rc # 0

(* Nothing a failed transaction posted survives it, when it has a wrapper: *)
(* "A transaction that posted to the ledger before failing gets a ROLLBK   *)
(* call" (docs/error-handling.md).                                         *)
PostingsUndone == (CanFail(program) /\ phase = "ended" /\ bodyFailed) => postings["body"] = 0

(* "Every failure reaches it, whatever raised it" (docs/error-handling.md, *)
(* of the handler).                                                        *)
HandlerSeesEveryFailure == (phase = "ended" /\ bodyFailed /\ program.handler) => handled

(* It does reach the handler of a transaction that is wrapped and whose    *)
(* failures stay inside (emitFailingTransaction).                          *)
WrappedHandlerRuns == Wrapped(program) => HandlerSeesEveryFailure

(* BANK-ABEND is where "a failure with nowhere else to go ends the step"   *)
(* (ABEND_PARAGRAPH): a handler in which nothing fails runs to its end.    *)
HandlerRunsToItsEnd ==
    [][(phase = "work" /\ Root = "handler" /\ phase' = "abend") => failing' # {}]_vars

(* No body statement posts while a failure is in flight: "exactly the      *)
(* half-posted transaction the model exists to prevent"                    *)
(* (emitRaiseStatement).                                                   *)
NoPostingInFlight ==
    [][(Disciplined(program) /\ postings'["body"] > postings["body"]) => code = "none"]_vars

(* A routine leaves by its exit only for a failure of its own or of a      *)
(* routine it performed: a stale register is not a failure.                *)
OnlyFailuresLeave ==
    (Disciplined(program) /\ phase = "work" /\ control = "jumped") => depth \in failing

(* Until a handler runs, the first failure is the one the step reports     *)
(* (emitOpenFileCleanup, "preserving the first failure code"), unless a    *)
(* declarative of the cleanup's own CLOSE fails after it.                  *)
FirstFailureKept ==
    [][(/\ Disciplined(program) /\ program.can["declarative"] = {}
        /\ code # "none"
        /\ phase = "work" => Root = "body") => code' = code]_vars

(* However the step ended, it leaves no file open ("The operating system   *)
(* must not become the file-lifecycle policy", emitOpenFileCleanup) but    *)
(* one whose own CLOSE failed, and that of a sort procedure control was    *)
(* taken out of, whose generated OPEN raises no flag.                      *)
FilesClosed == phase = "ended" => open \subseteq damaged \union held

(* A failure gets out of however many performed routines it happened in,   *)
(* and either ends the step or reaches the handler.  A declarative that    *)
(* fails in the cleanup can start it again without end.                    *)
FailureUnwinds ==
    (/\ program.can["declarative"] = {}
     /\ phase = "work"
     /\ control = "jumped") ~> (phase = "ended" \/ Root = "handler")

(* A wrapped transaction is a unit of work: all of its postings or none.   *)
Unit == INSTANCE UnitOfWork WITH
          applied <- postings["body"],
          failed  <- bodyFailed,
          over    <- CleaningUp \/ phase = "ended" \/ (phase = "work" /\ Root = "handler")

AllOrNothing ==
    /\ Wrapped(program) => Unit!Init
    /\ [][Wrapped(program) => Unit!Next]_(Unit!vars)
=============================================================================
