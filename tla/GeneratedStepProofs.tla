------------------------- MODULE GeneratedStepProofs -------------------------
(***************************************************************************)
(* Proofs about GeneratedStep, for every set of programs, files, return    *)
(* codes and bounds.  Protocol, defined there, is the inductive invariant  *)
(* of disciplined programs; a second one, Undone, carries the ledger's     *)
(* side of those that are wrapped.                                         *)
(***************************************************************************)
EXTENDS GeneratedStep, TLAPS

(* What the steps need of the constants. *)
LEMMA Bounds == MaxDepth \in Nat /\ MaxDepth >= 1 /\ MaxPosts \in Nat
    BY StepAssumption

(* The failures a place can meet are kinds of failure. *)
LEMMA CanMeet ==
    ASSUME NEW p \in Programs, NEW place \in Places \union {"declarative"},
           NEW kind \in p.can[place]
    PROVE  kind \in Kinds
    BY StepAssumption DEF Program

USE Bounds DEF files, routine, Nothing, Place, Root, Running, Inside, CleaningUp

(* What a failure leaves behind has its type, whether it leaves the routine *)
(* or gives its sort up.                                                    *)
LEMMA JumpTypes ==
    ASSUME TypeOK, phase = "work", Jump
    PROVE  /\ depth' \in 0..MaxDepth
           /\ phase' \in {"work", "abend"}
           /\ phase' = "work" <=> depth' > 0
           /\ control' \in {"running", "jumped"}
           /\ sortReturn' \in BOOLEAN
<1>1. CASE HasExit(Place)
    BY <1>1 DEF TypeOK, Jump
<1>2. CASE ~ HasExit(Place)
    <2>1. phase' = "abend" /\ depth' = 0 /\ sortReturn' = FALSE /\ control' = control
        BY <1>2 DEF Jump, Abend
    <2>2. depth' \in 0..MaxDepth
        BY <2>1
    <2>3. phase' = "work" <=> depth' > 0
        BY <2>1
    <2>4. phase' \in {"work", "abend"} /\ control' \in {"running", "jumped"} /\ sortReturn' \in BOOLEAN
        BY <2>1 DEF TypeOK
    <2> QED
        BY <2>2, <2>3, <2>4
<1> QED
    BY <1>1, <1>2

LEMMA FailedTypes ==
    ASSUME TypeOK, phase = "work", MarkFailed, NoteFailure
    PROVE  failing' \subseteq 1..MaxDepth /\ unhandled' \in BOOLEAN /\ bodyFailed' \in BOOLEAN
    BY DEF TypeOK, MarkFailed, NoteFailure

LEMMA DamageTypes ==
    ASSUME TypeOK, NEW f \in Files, CloseDamages(f)
    PROVE  open' \subseteq Files /\ damaged' \subseteq Files
    BY DEF TypeOK, CloseDamages

LEMMA DeclarativeTypes ==
    ASSUME TypeOK, DeclarativeLeft
    PROVE  code' \in Codes /\ rc' \in ReturnCodes \union {0, 12, 16}
    BY CanMeet DEF TypeOK, DeclarativeLeft, Codes

(* Type correctness of one step, action by action. *)
LEMMA TypeStep == TypeOK /\ [Next]_vars => TypeOK'
<1> SUFFICES ASSUME TypeOK, [Next]_vars PROVE TypeOK'
    OBVIOUS
<1> USE DEF TypeOK
<1>1. ASSUME Start PROVE TypeOK'
    BY <1>1 DEF Start, Places
<1>2. ASSUME RejectParm PROVE TypeOK'
    BY <1>2 DEF RejectParm
<1>3. ASSUME Post PROVE TypeOK'
    <2>1. postings' \in [{"body", "handler"} -> 0..MaxPosts]
        <3>1. CASE Root \in {"body", "handler"}
            BY <1>3, <3>1 DEF Post
        <3>2. CASE Root \notin {"body", "handler"}
            BY <1>3, <3>2 DEF Post
        <3> QED
            BY <3>1, <3>2
    <2> QED
        BY <1>3, <2>1 DEF Post
<1>4. ASSUME SetReturnCode PROVE TypeOK'
    BY <1>4 DEF SetReturnCode
<1>5. ASSUME Call PROVE TypeOK'
    BY <1>5 DEF Call, Enter, Places
<1>6. ASSUME BeginSort PROVE TypeOK'
    BY <1>6 DEF BeginSort, Enter, Places
<1>7. ASSUME Raise PROVE TypeOK'
    BY <1>7, JumpTypes, FailedTypes DEF Raise, Codes, Kinds
<1>8. ASSUME FailCheck PROVE TypeOK'
    <2>1. PICK kind \in program.can[Place] \intersect Leaving : StepFailure(kind, 12)
        BY <1>8 DEF FailCheck
    <2>2. kind \in Codes
        BY <1>8, <2>1, CanMeet DEF FailCheck, Codes
    <2> QED
        BY <1>8, <2>1, <2>2, JumpTypes, FailedTypes DEF FailCheck, StepFailure
<1>9. ASSUME LeaveCursorLoop PROVE TypeOK'
    BY <1>9, JumpTypes DEF LeaveCursorLoop
<1>10. ASSUME FailInProcedure \/ SortOpenFails PROVE TypeOK'
    BY <1>10, FailedTypes DEF FailInProcedure, SortOpenFails, GiveUpSort
<1>11. ASSUME RaiseInProcedure PROVE TypeOK'
    BY <1>11, FailedTypes DEF RaiseInProcedure, Codes, Kinds
<1>12. ASSUME DeclarativeFails PROVE TypeOK'
    <2>1. open' \subseteq Files /\ damaged' \subseteq Files
        BY <1>12, DamageTypes DEF DeclarativeFails
    <2>2. failing' \subseteq 1..MaxDepth /\ unhandled' \in BOOLEAN /\ bodyFailed' \in BOOLEAN
        BY <1>12, FailedTypes DEF DeclarativeFails
    <2>3. code' \in Codes /\ rc' \in ReturnCodes \union {0, 12, 16}
        BY <1>12, DeclarativeTypes DEF DeclarativeFails
    <2>4. phase' = "abend" /\ depth' = 0 /\ sortReturn' = FALSE /\ control' = control
        BY <1>12 DEF DeclarativeFails, Abend
    <2>5. depth' \in 0..MaxDepth /\ (phase' = "work" <=> depth' > 0)
        BY <2>4
    <2> QED
        BY <1>12, <2>1, <2>2, <2>3, <2>4, <2>5 DEF DeclarativeFails
<1>13. ASSUME NEW f \in Files, FileFailure(f) PROVE TypeOK'
    <2>1. CASE CloseFails(f)
        BY <2>1, JumpTypes, FailedTypes, DamageTypes DEF CloseFails, StepFailure, Codes, Kinds
    <2>2. CASE OpenFailsInProcedure(f)
        BY <2>2, FailedTypes DEF OpenFailsInProcedure, GiveUpSort
    <2>3. CASE CloseFailsInProcedure(f)
        BY <2>3, FailedTypes, DamageTypes DEF CloseFailsInProcedure, GiveUpSort
    <2>4. CASE SortCloseFails(f)
        BY <2>4, FailedTypes, DamageTypes DEF SortCloseFails, GiveUpSort
    <2> QED
        BY <1>13, <2>1, <2>2, <2>3, <2>4 DEF FileFailure
<1>14. ASSUME NEW f \in Files, FileStep(f) PROVE TypeOK'
    BY <1>14 DEF FileStep, OpenFile, CloseFile, SortOpens, SortCloses
<1>15. ASSUME Return PROVE TypeOK'
    BY <1>15 DEF Return, PassUp, AfterCall
<1>16. ASSUME EndSort PROVE TypeOK'
    BY <1>16 DEF EndSort, PassUp
<1>17. ASSUME EndFailedSort PROVE TypeOK'
    <2>1. failing' \subseteq 1..MaxDepth
        BY <1>17 DEF EndFailedSort, PassUp
    <2>2. depth' \in 0..MaxDepth /\ phase' \in {"work", "abend"} /\ control' \in {"running", "jumped"}
        BY <1>17 DEF EndFailedSort, Abend
    <2>3. (phase = "work" <=> depth > 0)'
        BY <1>17 DEF EndFailedSort, Abend
    <2>4. code' \in Codes /\ sortReturn' \in BOOLEAN
        BY <1>17 DEF EndFailedSort, Abend, Codes
    <2> QED
        BY <1>17, <2>1, <2>2, <2>3, <2>4 DEF EndFailedSort
<1>18. ASSUME BodyDone PROVE TypeOK'
    BY <1>18 DEF BodyDone, AtBodyEnd
<1>19. ASSUME Handle PROVE TypeOK'
    <2>1. stack' \in [1..MaxDepth -> Places]
        BY <1>19 DEF Handle, Places
    <2>2. postings' \in [{"body", "handler"} -> 0..MaxPosts]
        BY <1>19 DEF Handle, RolledBack
    <2> QED
        BY <1>19, <2>1, <2>2 DEF Handle, AtBodyEnd
<1>20. ASSUME Abandon PROVE TypeOK'
    BY <1>20 DEF Abandon, AtBodyEnd, RolledBack, AbandonedCode
<1>21. ASSUME HandlerDone PROVE TypeOK'
    BY <1>21 DEF HandlerDone
<1>22. ASSUME NEW f \in Files, CleanUpFile(f) PROVE TypeOK'
    BY <1>22, DamageTypes DEF CleanUpFile, FirstCode, Codes
<1>23. ASSUME NEW f \in Files, CleanUpAgain(f) PROVE TypeOK'
    BY <1>23, DamageTypes, DeclarativeTypes DEF CleanUpAgain
<1>24. ASSUME End PROVE TypeOK'
    BY <1>24 DEF End
<1>25. ASSUME UNCHANGED vars PROVE TypeOK'
    BY <1>25 DEF vars
<1> QED
    BY <1>1, <1>2, <1>3, <1>4, <1>5, <1>6, <1>7, <1>8, <1>9, <1>10, <1>11, <1>12, <1>13, <1>14, <1>15,
       <1>16, <1>17, <1>18, <1>19, <1>20, <1>21, <1>22, <1>23, <1>24, <1>25
       DEF Next, Failure, Routine, Ending

-----------------------------------------------------------------------------
(* What the discipline says of the program that runs. *)
LEMMA RunsDisciplined ==
    ASSUME Disciplined(program), TypeOK
    PROVE  /\ "procedure" \notin program.calls
           /\ "handler" \notin program.calls
           /\ "procedure" \notin program.sorts
           /\ "raise" \notin program.can["procedure"]
           /\ "raise" \notin program.can["handler"]
           /\ "loop" \notin program.can["declarative"]
           /\ "loop" \in program.can["procedure"] => "handler" \notin program.sorts
    BY StepAssumption DEF Disciplined, TypeOK

(* The protocol holds when a step begins. *)
LEMMA ProtocolInit == Init => Protocol
    BY DEF Init, Protocol, Nesting, Register, Aftermath

(* A step that touches neither the routines nor the registers keeps it. *)
LEMMA QuietKeepsProtocol ==
    ASSUME TypeOK, Protocol,
           UNCHANGED <<program, phase, routine, code, rc, unhandled, bodyFailed>>
    PROVE  Protocol'
    BY DEF TypeOK, Protocol, Nesting, Register, Aftermath, CanFail

(* A failure with a code in the register leaves for the exit, or for       *)
(* BANK-ABEND, with a return code that a wrapper will look at or with 12.  *)
LEMMA LeavingKeepsProtocol ==
    ASSUME Disciplined(program), TypeOK, Protocol, Running(Places),
           code' # "none", MarkFailed, Jump, NoteFailure, UNCHANGED <<program, stack>>,
           rc' = 12 \/ (CanFail(program) /\ HasExit(Place))
    PROVE  Protocol'
<1> USE DEF TypeOK, Protocol
<1>1. HasExit(Place) => Root = "body" /\ ~ sortReturn
    BY DEF HasExit, Nesting, Register
<1>2. CASE HasExit(Place)
    <2>1. control' = "jumped" /\ UNCHANGED <<program, stack, phase, depth, sortReturn>>
        BY <1>2 DEF Jump
    <2>2. bodyFailed' /\ depth \in failing' /\ Root = "body" /\ ~ sortReturn
        BY <1>1, <1>2 DEF MarkFailed, NoteFailure
    <2>3. Nesting'
        BY <1>2, <2>1 DEF Nesting, HasExit
    <2>4. Register'
        BY <2>1, <2>2 DEF Register
    <2>5. Aftermath'
        BY <2>1, <2>2 DEF Aftermath, CanFail
    <2> QED
        BY <2>3, <2>4, <2>5
<1>3. CASE ~ HasExit(Place)
    <2>1. phase' = "abend" /\ ~ sortReturn' /\ rc' = 12
        BY <1>3 DEF Jump, Abend
    <2> QED
        BY <2>1 DEF Nesting, Register, Aftermath
<1> QED
    BY <1>2, <1>3

(* A sort that gives up says so in SORT-RETURN. *)
LEMMA GivingUpKeepsProtocol ==
    ASSUME TypeOK, Protocol, phase = "work", control = "running", Place = "procedure", GiveUpSort
    PROVE  Protocol'
    BY DEF TypeOK, Protocol, Nesting, Register, Aftermath, GiveUpSort, MarkFailed, NoteFailure, CanFail

(* Every action keeps the protocol. *)
LEMMA ProtocolStep ==
    ASSUME Disciplined(program), TypeOK, Protocol, [Next]_vars
    PROVE  Protocol'
<1> USE RunsDisciplined DEF TypeOK, Protocol
<1>1. ASSUME Start PROVE Protocol'
    BY <1>1 DEF Start, Nesting, Register, Aftermath
<1>2. ASSUME RejectParm PROVE Protocol'
    BY <1>2 DEF RejectParm, Nesting, Register, Aftermath
<1>3. ASSUME Post PROVE Protocol'
    BY <1>3, QuietKeepsProtocol DEF Post
<1>4. ASSUME SetReturnCode PROVE Protocol'
    <2>1. Nesting'
        BY <1>4 DEF SetReturnCode, Nesting
    <2>2. Register'
        BY <1>4 DEF SetReturnCode, Register
    <2>3. Aftermath'
        BY <1>4 DEF SetReturnCode, Aftermath, CanFail
    <2> QED
        BY <2>1, <2>2, <2>3
<1>5. ASSUME Call PROVE Protocol'
    <2>1. Nesting'
        BY <1>5 DEF Call, Enter, Nesting
    <2>2. Register'
        BY <1>5 DEF Call, Enter, Nesting, Register
    <2>3. Aftermath'
        BY <1>5 DEF Call, Enter, Nesting, Register, Aftermath, CanFail
    <2> QED
        BY <2>1, <2>2, <2>3
<1>6. ASSUME BeginSort PROVE Protocol'
    <2>1. Nesting'
        BY <1>6 DEF BeginSort, Enter, Nesting
    <2>2. Register'
        BY <1>6 DEF BeginSort, Enter, Nesting, Register
    <2>3. Aftermath'
        BY <1>6 DEF BeginSort, Enter, Nesting, Register, Aftermath, CanFail
    <2> QED
        BY <2>1, <2>2, <2>3
<1>7. ASSUME Raise PROVE Protocol'
    <2>1. Place \in {"body", "function"}
        BY <1>7 DEF Raise, Places
    <2>2. CanFail(program)
        BY <1>7, <2>1 DEF Raise, CanFail, Nesting
    <2> QED
        BY <1>7, <2>1, <2>2, LeavingKeepsProtocol DEF Raise, HasExit
<1>8. ASSUME FailCheck PROVE Protocol'
    <2>1. PICK kind \in program.can[Place] \intersect Leaving : StepFailure(kind, 12)
        BY <1>8 DEF FailCheck
    <2>2. kind # "none"
        BY <1>8, <2>1, CanMeet DEF FailCheck, Kinds
    <2> QED
        BY <1>8, <2>1, <2>2, LeavingKeepsProtocol DEF FailCheck, StepFailure
<1>9. ASSUME LeaveCursorLoop PROVE Protocol'
    <2>1. Root = "handler"
        BY <1>9 DEF LeaveCursorLoop, Nesting, Register
    <2>2. Place = "handler"
        BY <1>9, <2>1 DEF LeaveCursorLoop, Nesting, Places
    <2>3. ~ unhandled
        BY <1>9, <2>2 DEF LeaveCursorLoop, Register, Aftermath
    <2> QED
        BY <1>9, <2>2, <2>3 DEF LeaveCursorLoop, Jump, HasExit, Abend, Nesting, Register, Aftermath
<1>10. ASSUME FailInProcedure \/ SortOpenFails PROVE Protocol'
    <2>1. control = "running"
        BY <1>10 DEF FailInProcedure, SortOpenFails, Nesting
    <2> QED
        BY <1>10, <2>1, GivingUpKeepsProtocol DEF FailInProcedure, SortOpenFails
<1>11. ASSUME DeclarativeFails PROVE Protocol'
    <2>1. phase' = "abend" /\ ~ sortReturn' /\ rc' = 12
        BY <1>11 DEF DeclarativeFails, DeclarativeLeft, Abend
    <2> QED
        BY <2>1 DEF Nesting, Register, Aftermath
<1>12. ASSUME NEW f \in Files, FileFailure(f) PROVE Protocol'
    <2>1. CASE CloseFails(f)
        BY <2>1, LeavingKeepsProtocol DEF CloseFails, StepFailure
    <2>2. ASSUME OpenFailsInProcedure(f) \/ CloseFailsInProcedure(f) \/ SortCloseFails(f)
          PROVE  Protocol'
        <3>1. control = "running" /\ phase = "work" /\ Place = "procedure" /\ GiveUpSort
            BY <2>2 DEF OpenFailsInProcedure, CloseFailsInProcedure, SortCloseFails, Nesting
        <3> QED
            BY <3>1, GivingUpKeepsProtocol
    <2> QED
        BY <1>12, <2>1, <2>2 DEF FileFailure
<1>13. ASSUME NEW f \in Files, FileStep(f) PROVE Protocol'
    BY <1>13, QuietKeepsProtocol DEF FileStep, OpenFile, CloseFile, SortOpens, SortCloses
<1>14. ASSUME Return PROVE Protocol'
    <2>1. Nesting'
        BY <1>14 DEF Return, AfterCall, Nesting
    <2>2. Register'
        BY <1>14 DEF Return, PassUp, AfterCall, Nesting, Register
    <2>3. Aftermath'
        BY <1>14 DEF Return, AfterCall, Nesting, Register, Aftermath, CanFail
    <2> QED
        BY <2>1, <2>2, <2>3
<1>15. ASSUME EndSort PROVE Protocol'
    <2>1. Nesting'
        BY <1>15 DEF EndSort, Nesting
    <2>2. Register'
        BY <1>15 DEF EndSort, Nesting, Register
    <2>3. Aftermath'
        BY <1>15 DEF EndSort, Nesting, Register, Aftermath, CanFail
    <2> QED
        BY <2>1, <2>2, <2>3
<1>16. ASSUME EndFailedSort PROVE Protocol'
    <2>1. Nesting'
        BY <1>16 DEF EndFailedSort, Abend, Nesting
    <2>2. Register'
        <3>1. HasExit(stack[depth - 1]) => Root = "body"
            BY <1>16 DEF EndFailedSort, Nesting, HasExit
        <3>2. (Root = "body" => bodyFailed) /\ failing' = failing \union {depth - 1}
            BY <1>16 DEF EndFailedSort, PassUp, Register
        <3> QED
            BY <1>16, <3>1, <3>2 DEF EndFailedSort, Abend, Register
    <2>3. Aftermath'
        BY <1>16 DEF EndFailedSort, Abend, Aftermath
    <2> QED
        BY <2>1, <2>2, <2>3
<1>17. ASSUME BodyDone PROVE Protocol'
    BY <1>17 DEF BodyDone, AtBodyEnd, FailureSeen, Nesting, Register, Aftermath
<1>18. ASSUME Handle PROVE Protocol'
    <2>1. Nesting'
        BY <1>18 DEF Handle, AtBodyEnd, Nesting
    <2>2. Register'
        BY <1>18 DEF Handle, AtBodyEnd, Register
    <2>3. Aftermath'
        BY <1>18 DEF Handle, AtBodyEnd, Aftermath
    <2> QED
        BY <2>1, <2>2, <2>3
<1>19. ASSUME Abandon PROVE Protocol'
    BY <1>19 DEF Abandon, AtBodyEnd, AbandonedCode, Nesting, Register, Aftermath
<1>20. ASSUME HandlerDone PROVE Protocol'
    BY <1>20 DEF HandlerDone, Nesting, Register, Aftermath
<1>21. ASSUME NEW f \in Files, CleanUpFile(f) PROVE Protocol'
    BY <1>21 DEF CleanUpFile, FirstCode, Nesting, Register, Aftermath
<1>22. ASSUME NEW f \in Files, CleanUpAgain(f) PROVE Protocol'
    BY <1>22 DEF CleanUpAgain, DeclarativeLeft, Nesting, Register, Aftermath
<1>23. ASSUME End PROVE Protocol'
    BY <1>23 DEF End, Nesting, Register, Aftermath
<1>24. ASSUME UNCHANGED vars PROVE Protocol'
    BY <1>24, QuietKeepsProtocol DEF vars
<1>25. ~ RaiseInProcedure
    BY DEF RaiseInProcedure
<1> QED
    BY <1>1, <1>2, <1>3, <1>4, <1>5, <1>6, <1>7, <1>8, <1>9, <1>10, <1>11, <1>12, <1>13, <1>14, <1>15,
       <1>16, <1>17, <1>18, <1>19, <1>20, <1>21, <1>22, <1>23, <1>24, <1>25
       DEF Next, Failure, Routine, Ending

-----------------------------------------------------------------------------
(* Nobody recompiles a program while it runs. *)
LEMMA ProgramStays == [Next]_vars => program' = program
    BY DEF Next, Failure, Routine, Ending, FileFailure, FileStep, Start, RejectParm, Post,
           SetReturnCode, Call, BeginSort, Enter, Raise, FailCheck, LeaveCursorLoop,
           FailInProcedure, RaiseInProcedure, SortOpenFails, GiveUpSort, DeclarativeFails,
           CloseFails, OpenFailsInProcedure, CloseFailsInProcedure, SortCloseFails, OpenFile,
           CloseFile, SortOpens, SortCloses, Return, EndSort, EndFailedSort, BodyDone, Handle,
           Abandon, HandlerDone, End, CleanUpFile, CleanUpAgain, vars

LEMMA DisciplineStays ==
    ASSUME [Next]_vars
    PROVE  (Disciplined(program)' <=> Disciplined(program)) /\ (Wrapped(program)' <=> Wrapped(program))
    BY ProgramStays DEF Disciplined, Wrapped, Contained, CanFail

(* Every state of every program is well typed. *)
THEOREM StepTypeOK == Spec => []TypeOK
<1>1. Init => TypeOK
    <2> SUFFICES ASSUME Init PROVE TypeOK
        OBVIOUS
    <2>1. postings \in [{"body", "handler"} -> 0..MaxPosts]
        BY DEF Init
    <2>2. stack \in [1..MaxDepth -> Places]
        BY DEF Init, Places
    <2>3. /\ flag \subseteq Files /\ open \subseteq Files /\ damaged \subseteq Files
          /\ held \subseteq Files /\ failing \subseteq 1..MaxDepth
        BY DEF Init
    <2>4. depth \in 0..MaxDepth /\ (phase = "work" <=> depth > 0)
        BY DEF Init
    <2>5. code \in Codes /\ rc \in ReturnCodes \union {0, 12, 16}
        BY DEF Init, Codes
    <2> QED
        BY <2>1, <2>2, <2>3, <2>4, <2>5 DEF Init, TypeOK
<1> QED
    BY <1>1, TypeStep, PTL DEF Spec

(* The protocol is invariant of every disciplined program. *)
DisciplinedProtocol == Disciplined(program) => Protocol

THEOREM StepProtocol == Spec => []DisciplinedProtocol
<1>1. Init => DisciplinedProtocol
    BY ProtocolInit DEF DisciplinedProtocol
<1>2. TypeOK /\ DisciplinedProtocol /\ [Next]_vars => DisciplinedProtocol'
    BY ProtocolStep, DisciplineStays DEF DisciplinedProtocol
<1> QED
    BY <1>1, <1>2, StepTypeOK, PTL DEF Spec

(* A disciplined step never reports success over a failure no handler took *)
(* charge of: at the end the protocol leaves no other code.                *)
THEOREM StepFailureNeverEndsClean == Spec => []FailureNeverEndsClean
<1>1. DisciplinedProtocol => FailureNeverEndsClean
    BY DEF DisciplinedProtocol, Protocol, Aftermath, FailureNeverEndsClean
<1> QED
    BY <1>1, StepProtocol, PTL

(* A routine of a disciplined program that leaves early leaves for a       *)
(* failure.                                                                *)
THEOREM StepOnlyFailuresLeave == Spec => []OnlyFailuresLeave
<1>1. DisciplinedProtocol => OnlyFailuresLeave
    BY DEF DisciplinedProtocol, Protocol, Register, OnlyFailuresLeave
<1> QED
    BY <1>1, StepProtocol, PTL

(* Which steps touch the postings. *)
LEMMA PostingsStay ==
    ASSUME [Next]_vars, ~ Post, ~ Handle, ~ Abandon
    PROVE  postings' = postings
    BY DEF Next, Failure, Routine, Ending, FileFailure, FileStep, Start, RejectParm, SetReturnCode,
           Call, BeginSort, Enter, Raise, FailCheck, LeaveCursorLoop, FailInProcedure,
           RaiseInProcedure, SortOpenFails, GiveUpSort, DeclarativeFails, CloseFails,
           OpenFailsInProcedure, CloseFailsInProcedure, SortCloseFails, OpenFile, CloseFile,
           SortOpens, SortCloses, Return, EndSort, EndFailedSort, BodyDone, HandlerDone, End,
           CleanUpFile, CleanUpAgain, vars

(* No posting of a disciplined program is made with a failure in flight: a *)
(* body that runs has an empty register.                                   *)
THEOREM StepNoPostingInFlight == Spec => NoPostingInFlight
<1> DEFINE Clean == (Disciplined(program) /\ postings'["body"] > postings["body"]) => code = "none"
<1>1. ASSUME TypeOK, DisciplinedProtocol, [Next]_vars
      PROVE  [Clean]_vars
    <2> SUFFICES ASSUME Disciplined(program), postings'["body"] > postings["body"]
                 PROVE  code = "none"
        OBVIOUS
    <2> USE DEF TypeOK
    <2>p. Protocol
        BY <1>1 DEF DisciplinedProtocol
    <2>1. CASE Post
        <3>1. phase = "work" /\ control = "running" /\ postings' = [postings EXCEPT ![Root] = @ + 1]
            BY <2>1 DEF Post
        <3>2. Root = "body"
            BY <1>1, <2>p, <3>1 DEF Protocol, Nesting
        <3> QED
            BY <2>p, <3>1, <3>2 DEF Protocol, Register
    <2>2. CASE Handle \/ Abandon
        <3>1. postings' = postings \/ postings' = Nothing
            BY <2>2 DEF Handle, Abandon, RolledBack
        <3> QED
            BY <1>1, <3>1
    <2>3. CASE ~ Post /\ ~ (Handle \/ Abandon)
        <3>1. postings' = postings
            BY <1>1, <2>3, PostingsStay
        <3> QED
            BY <1>1, <3>1
    <2> QED
        BY <2>1, <2>2, <2>3
<1> QED
    BY <1>1, StepTypeOK, StepProtocol, PTL DEF Spec, NoPostingInFlight

(* The code a disciplined step ends with is the one of its first failure:  *)
(* in a body nothing fails while the register is set, no call site changes *)
(* it, and the cleanup only fills an empty one.                            *)
THEOREM StepFirstFailureKept == Spec => FirstFailureKept
<1> DEFINE First == /\ Disciplined(program) /\ program.can["declarative"] = {}
                    /\ code # "none"
                    /\ phase = "work" => Root = "body"
<1>1. ASSUME TypeOK, DisciplinedProtocol, [Next]_vars
      PROVE  [First => code' = code]_vars
    <2> SUFFICES ASSUME First PROVE code' = code
        OBVIOUS
    <2> USE DEF TypeOK
    <2>1. Protocol /\ (phase = "work" => control = "jumped")
        BY <1>1 DEF DisciplinedProtocol, Protocol, Register
    <2>2. ~ (phase = "work" /\ control = "running")
        BY <2>1
    <2>3. ~ Raise /\ ~ FailCheck /\ ~ RaiseInProcedure /\ ~ DeclarativeFails
        BY <2>2 DEF Raise, FailCheck, RaiseInProcedure, DeclarativeFails
    <2>12. ~ EndFailedSort
        BY <1>1, <2>1, <2>2 DEF EndFailedSort, Protocol, Nesting
    <2>4. CASE LeaveCursorLoop \/ FailInProcedure \/ SortOpenFails
        BY <2>4 DEF LeaveCursorLoop, FailInProcedure, SortOpenFails, GiveUpSort
    <2>5. ASSUME NEW f \in Files, FileFailure(f) PROVE code' = code
        <3>1. ~ CloseFails(f)
            BY <2>1 DEF CloseFails
        <3> QED
            BY <2>5, <3>1 DEF FileFailure, OpenFailsInProcedure, CloseFailsInProcedure, SortCloseFails, GiveUpSort
    <2>6. ASSUME NEW f \in Files, FileStep(f) PROVE code' = code
        BY <2>6 DEF FileStep, OpenFile, CloseFile, SortOpens, SortCloses
    <2>7. ASSUME NEW f \in Files, CleanUpFile(f) PROVE code' = code
        BY <2>7 DEF CleanUpFile, FirstCode
    <2>8. \A f \in Files : ~ CleanUpAgain(f)
        BY DEF CleanUpAgain, DeclarativeLeft
    <2>9. CASE Start \/ RejectParm \/ Post \/ SetReturnCode \/ Call \/ BeginSort \/ End
        BY <2>9 DEF Start, RejectParm, Post, SetReturnCode, Call, BeginSort, Enter, End
    <2>10. CASE Return \/ EndSort \/ BodyDone \/ Handle \/ Abandon \/ HandlerDone
        BY <2>10 DEF Return, EndSort, BodyDone, Handle, Abandon, HandlerDone
    <2>11. CASE UNCHANGED vars
        BY <2>11 DEF vars
    <2> QED
        BY <1>1, <2>3, <2>4, <2>5, <2>6, <2>7, <2>8, <2>9, <2>10, <2>11, <2>12
           DEF Next, Failure, Routine, Ending
<1> QED
    BY <1>1, StepTypeOK, StepProtocol, PTL DEF Spec, FirstFailureKept

-----------------------------------------------------------------------------
(* Programs that lowering wraps for failure and whose failures stay inside *)
(* the wrapper: what it has done once the body is over.                    *)
Settled == CleaningUp \/ phase = "ended" \/ (phase = "work" /\ Root = "handler")

Undone ==
    /\ ~ program.posts => postings["body"] = 0
    /\ Settled /\ bodyFailed => postings["body"] = 0
    /\ phase = "work" /\ Root = "handler" => handled /\ bodyFailed
    /\ (CleaningUp \/ phase = "ended") /\ bodyFailed /\ program.handler => handled

WrappedUndone == Wrapped(program) => Undone

(* At the end of a body with a failure the wrapper sees the failure, and   *)
(* without one it has nothing to see.                                      *)
LEMMA WrapperSees ==
    ASSUME CanFail(program), TypeOK, Protocol, AtBodyEnd
    PROVE  FailureSeen(program) <=> bodyFailed
<1>1. ~ sortReturn
    BY DEF Protocol, Register, AtBodyEnd
<1>2. Root = "body"
    BY DEF AtBodyEnd
<1>3. CASE control = "jumped"
    BY <1>3 DEF Protocol, Register, AtBodyEnd, FailureSeen, TypeOK
<1>4. CASE control = "running"
    BY <1>1, <1>2, <1>4 DEF Protocol, Register, Aftermath, AtBodyEnd, FailureSeen
<1> QED
    BY <1>3, <1>4 DEF TypeOK

(* A handler is never performed by anything but the wrapper. *)
LEMMA HandlerIsRoot ==
    ASSUME TypeOK, Protocol, phase = "work", NEW i \in 1..depth, stack[i] = "handler"
    PROVE  Root = "handler"
    BY DEF TypeOK, Protocol, Nesting

(* A wrapped program leaves only for an exit of its body's, or when its    *)
(* handler runs.                                                           *)
LEMMA LeavingStaysInside ==
    ASSUME TypeOK, Protocol, Running(Places), Place # "procedure", Jump
    PROVE  /\ Root = "body" => UNCHANGED <<phase, depth>>
           /\ Root = "handler" => phase' = "abend"
           /\ Root \in {"body", "handler"}
<1> USE DEF TypeOK, Protocol, Nesting
<1>1. CASE HasExit(Place)
    BY <1>1 DEF Jump, HasExit
<1>2. CASE Place = "handler"
    BY <1>2, HandlerIsRoot DEF Jump, HasExit, Abend
<1> QED
    BY <1>1, <1>2 DEF HasExit, Places

LEMMA LeaversStayInside ==
    ASSUME Wrapped(program), TypeOK, Protocol,
           Raise \/ FailCheck \/ LeaveCursorLoop \/ \E f \in Files : CloseFails(f)
    PROVE  /\ Running(Places) /\ Place # "procedure" /\ Jump
           /\ UNCHANGED <<program, stack, postings, handled>>
           /\ NoteFailure \/ (Root = "handler" /\ bodyFailed' = bodyFailed)
<1> USE DEF Wrapped, Contained, TypeOK
<1>1. CASE Raise
    BY <1>1 DEF Raise
<1>2. CASE FailCheck
    BY <1>2 DEF FailCheck, Leaving, StepFailure
<1>3. CASE \E f \in Files : CloseFails(f)
    BY <1>3 DEF CloseFails, StepFailure
<1>4. CASE LeaveCursorLoop
    BY <1>4 DEF LeaveCursorLoop, Protocol, Nesting, Register
<1> QED
    BY <1>1, <1>2, <1>3, <1>4

(* A declarative of theirs does not fail. *)
LEMMA NoDeclarative ==
    ASSUME Wrapped(program)
    PROVE  ~ DeclarativeFails /\ \A f \in Files : ~ CleanUpAgain(f)
    BY DEF Wrapped, Contained, DeclarativeFails, CleanUpAgain, DeclarativeLeft

(* A sort that gives up notes the failure and runs on. *)
LEMMA GivesUp ==
    ASSUME \/ FailInProcedure \/ SortOpenFails
           \/ \E f \in Files : OpenFailsInProcedure(f) \/ CloseFailsInProcedure(f) \/ SortCloseFails(f)
    PROVE  phase = "work" /\ GiveUpSort
    BY DEF FailInProcedure, SortOpenFails, OpenFailsInProcedure, CloseFailsInProcedure, SortCloseFails

(* Every action keeps Undone. *)
LEMMA UndoneStep ==
    ASSUME Wrapped(program), TypeOK, Protocol, Undone, [Next]_vars
    PROVE  Undone'
<1> USE DEF TypeOK, Undone, Settled
<1>w. CanFail(program) /\ Disciplined(program)
    BY DEF Wrapped, Contained
<1>0. phase = "work" => /\ Place = "handler" => Root = "handler"
                        /\ depth > 1 /\ stack[depth - 1] = "handler" => Root = "handler"
    BY HandlerIsRoot
<1>1. ASSUME Start PROVE Undone'
    BY <1>1 DEF Start
<1>2. ASSUME RejectParm PROVE Undone'
    BY <1>2 DEF RejectParm, Protocol, Register
<1>3. ASSUME Post PROVE Undone'
    BY <1>3 DEF Post, KnownToPost
<1>4. ASSUME SetReturnCode PROVE Undone'
    BY <1>4 DEF SetReturnCode
<1>5. ASSUME Call \/ BeginSort PROVE Undone'
    BY <1>5 DEF Call, BeginSort, Enter
<1>6. ASSUME Raise \/ FailCheck \/ LeaveCursorLoop \/ \E f \in Files : CloseFails(f) PROVE Undone'
    <2>1. /\ Running(Places) /\ Place # "procedure" /\ Jump
          /\ UNCHANGED <<program, stack, postings, handled>>
          /\ NoteFailure \/ (Root = "handler" /\ bodyFailed' = bodyFailed)
        BY <1>6, LeaversStayInside
    <2>2. /\ Root = "body" => UNCHANGED <<phase, depth>>
          /\ Root = "handler" => phase' = "abend"
          /\ Root \in {"body", "handler"}
        BY <2>1, LeavingStaysInside
    <2> QED
        BY <2>1, <2>2 DEF NoteFailure
<1>7. ASSUME phase = "work", GiveUpSort PROVE Undone'
    BY <1>7 DEF GiveUpSort, NoteFailure
<1>8. ASSUME Return \/ EndSort PROVE Undone'
    BY <1>8 DEF Return, EndSort
<1>9. ASSUME EndFailedSort PROVE Undone'
    <2>1. HasExit(stack[depth - 1]) \/ stack[depth - 1] = "handler"
        BY <1>9 DEF EndFailedSort, HasExit, Protocol, Nesting, Places
    <2> QED
        BY <1>0, <1>9, <2>1 DEF EndFailedSort, Abend
<1>10. ASSUME BodyDone PROVE Undone'
    BY <1>w, <1>10, WrapperSees DEF BodyDone, AtBodyEnd
<1>11. ASSUME Handle PROVE Undone'
    BY <1>w, <1>11, WrapperSees DEF Handle, AtBodyEnd, RolledBack
<1>12. ASSUME Abandon PROVE Undone'
    BY <1>w, <1>12, WrapperSees DEF Abandon, AtBodyEnd, RolledBack
<1>13. ASSUME HandlerDone PROVE Undone'
    BY <1>0, <1>13 DEF HandlerDone
<1>14. ASSUME NEW f \in Files, CleanUpFile(f) PROVE Undone'
    BY <1>14 DEF CleanUpFile
<1>15. ASSUME End PROVE Undone'
    BY <1>15 DEF End
<1>16. ASSUME NEW f \in Files, FileStep(f) PROVE Undone'
    BY <1>16 DEF FileStep, OpenFile, CloseFile, SortOpens, SortCloses
<1>17. ASSUME UNCHANGED vars PROVE Undone'
    BY <1>17 DEF vars
<1>18. ~ RaiseInProcedure
    BY <1>w DEF RaiseInProcedure, Disciplined
<1> QED
    BY <1>1, <1>2, <1>3, <1>4, <1>5, <1>6, <1>7, <1>8, <1>9, <1>10, <1>11, <1>12, <1>13, <1>14, <1>15, <1>16,
       <1>17, <1>18, NoDeclarative, GivesUp
       DEF Next, Failure, FileFailure, Routine, Ending

(* Of every wrapped program, Undone is invariant... *)
THEOREM StepUndone == Spec => []WrappedUndone
<1>1. Init => WrappedUndone
    BY DEF Init, WrappedUndone, Undone, Settled
<1>2. TypeOK /\ DisciplinedProtocol /\ WrappedUndone /\ [Next]_vars => WrappedUndone'
    <2> SUFFICES ASSUME TypeOK, DisciplinedProtocol, WrappedUndone, [Next]_vars, Wrapped(program)'
                 PROVE  Undone'
        BY DEF WrappedUndone
    <2>1. Wrapped(program)
        BY DisciplineStays
    <2>2. Protocol /\ Undone
        BY <2>1 DEF DisciplinedProtocol, WrappedUndone, Wrapped, Contained
    <2> QED
        BY <2>1, <2>2, UndoneStep
<1> QED
    BY <1>1, <1>2, StepTypeOK, StepProtocol, PTL DEF Spec

(* ...so a transaction that failed leaves no posting behind when its       *)
(* failures stay inside the wrapper,                                       *)
THEOREM StepPostingsUndone == Spec => [](Wrapped(program) => PostingsUndone)
<1>1. WrappedUndone => (Wrapped(program) => PostingsUndone)
    BY DEF WrappedUndone, Undone, Settled, PostingsUndone
<1> QED
    BY <1>1, StepUndone, PTL

(* ...and its handler, if it has one, saw the failure. *)
THEOREM StepWrappedHandlerRuns == Spec => []WrappedHandlerRuns
<1>1. WrappedUndone => WrappedHandlerRuns
    BY DEF WrappedUndone, Undone, WrappedHandlerRuns, HandlerSeesEveryFailure
<1> QED
    BY <1>1, StepUndone, PTL

-----------------------------------------------------------------------------
(* Every file the run time has open has its flag up, is the one a sort     *)
(* procedure opened itself, or had a CLOSE that failed; a step that has    *)
(* ended has lowered every flag.                                           *)
OpenIsFlagged == /\ open \subseteq flag \union damaged \union held
                 /\ phase = "ended" => flag = {}

(* No step, of any program, ends with a file open that it could close,     *)
(* other than one its sort procedure was taken away from.                  *)
THEOREM StepFilesClosed == Spec => []FilesClosed
<1>1. Init => OpenIsFlagged
    BY DEF Init, OpenIsFlagged
<1>2. ASSUME TypeOK, OpenIsFlagged, [Next]_vars
      PROVE  OpenIsFlagged'
    <2> USE <1>2 DEF TypeOK, OpenIsFlagged
    <2>1. ASSUME NEW f \in Files, FileStep(f) PROVE OpenIsFlagged'
        BY <2>1 DEF FileStep, OpenFile, CloseFile, SortOpens, SortCloses
    <2>2. ASSUME NEW f \in Files, CloseFails(f) PROVE OpenIsFlagged'
        BY <2>2 DEF CloseFails, CloseDamages, StepFailure, Jump, Abend
    <2>3. ASSUME NEW f \in Files, OpenFailsInProcedure(f) PROVE OpenIsFlagged'
        BY <2>3 DEF OpenFailsInProcedure, GiveUpSort
    <2>4. ASSUME NEW f \in Files, CloseFailsInProcedure(f) PROVE OpenIsFlagged'
        BY <2>4 DEF CloseFailsInProcedure, CloseDamages, GiveUpSort
    <2>5. ASSUME NEW f \in Files, SortCloseFails(f) PROVE OpenIsFlagged'
        BY <2>5 DEF SortCloseFails, CloseDamages, GiveUpSort
    <2>6. ASSUME NEW f \in Files, CleanUpFile(f) PROVE OpenIsFlagged'
        BY <2>6 DEF CleanUpFile, CloseDamages
    <2>7. ASSUME NEW f \in Files, CleanUpAgain(f) PROVE OpenIsFlagged'
        BY <2>7 DEF CleanUpAgain, CloseDamages
    <2>8. CASE DeclarativeFails
        BY <2>8 DEF DeclarativeFails, CloseDamages, Abend
    <2>9. CASE End
        BY <2>9 DEF End, NeedsClosing
    <2>10. ASSUME UNCHANGED files, phase' # "ended" \/ phase' = phase
           PROVE  OpenIsFlagged'
        BY <2>10
    <2>11. CASE Start \/ RejectParm \/ Post \/ SetReturnCode \/ Call \/ BeginSort
        BY <2>10, <2>11 DEF Start, RejectParm, Post, SetReturnCode, Call, BeginSort, Enter
    <2>12. CASE Raise \/ FailCheck \/ LeaveCursorLoop
        BY <2>10, <2>12 DEF Raise, FailCheck, LeaveCursorLoop, StepFailure, Jump, Abend
    <2>13. CASE FailInProcedure \/ RaiseInProcedure \/ SortOpenFails
        BY <2>10, <2>13 DEF FailInProcedure, RaiseInProcedure, SortOpenFails, GiveUpSort
    <2>14. CASE Routine
        BY <2>10, <2>14
           DEF Routine, Return, EndSort, EndFailedSort, Abend, BodyDone, Handle, Abandon, HandlerDone
    <2>15. CASE UNCHANGED vars
        BY <2>10, <2>15 DEF vars
    <2> QED
        BY <2>1, <2>2, <2>3, <2>4, <2>5, <2>6, <2>7, <2>8, <2>9, <2>11, <2>12, <2>13, <2>14, <2>15
           DEF Next, Failure, FileFailure, Ending
<1>3. OpenIsFlagged => FilesClosed
    BY DEF OpenIsFlagged, FilesClosed
<1> QED
    BY <1>1, <1>2, <1>3, StepTypeOK, PTL DEF Spec

-----------------------------------------------------------------------------
(* A wrapped transaction whose failures stay inside is a unit of work:     *)
(* every step of the generated program is a step of UnitOfWork or leaves   *)
(* its state alone.                                                        *)
THEOREM StepAllOrNothing == Spec => AllOrNothing
<1> DEFINE Over == CleaningUp \/ phase = "ended" \/ (phase = "work" /\ Root = "handler")
<1>1. Init => (Wrapped(program) => Unit!Init)
    BY DEF Init, Unit!Init
<1>2. ASSUME Wrapped(program), TypeOK, Protocol, Undone, [Next]_vars
      PROVE  [Unit!Next]_(Unit!vars)
    <2> USE <1>2 DEF TypeOK, Unit!vars
    <2>w. CanFail(program) /\ Disciplined(program)
        BY DEF Wrapped, Contained
    <2>0. phase = "work" => /\ Place = "handler" => Root = "handler"
                            /\ depth > 1 /\ stack[depth - 1] = "handler" => Root = "handler"
                            /\ Root \in {"body", "handler"}
        BY HandlerIsRoot DEF Protocol, Nesting
    <2>s. ASSUME postings' = postings, bodyFailed' = bodyFailed, Over' = Over
          PROVE  UNCHANGED Unit!vars
        BY <2>s
    <2>f. ASSUME ~ Over, ~ Over', bodyFailed' = TRUE, postings' = postings
          PROVE  Unit!Fail
        BY <2>f DEF Unit!Fail
    <2>1. CASE Start
        BY <2>s, <2>1 DEF Start
    <2>2. CASE RejectParm
        BY <2>2 DEF RejectParm, Protocol, Register, Unit!Next, Unit!Finish
    <2>3. CASE Post
        <3>1. CASE Root = "body"
            BY <2>3, <3>1 DEF Post, Unit!Next, Unit!Post
        <3>2. CASE Root = "handler"
            BY <2>3, <3>2 DEF Post
        <3> QED
            BY <2>0, <2>3, <3>1, <3>2 DEF Post
    <2>4. CASE SetReturnCode \/ Call \/ BeginSort
        BY <2>s, <2>4 DEF SetReturnCode, Call, BeginSort, Enter
    <2>5. CASE Raise \/ FailCheck \/ LeaveCursorLoop \/ \E f \in Files : CloseFails(f)
        <3>1. /\ Running(Places) /\ Place # "procedure" /\ Jump
              /\ UNCHANGED <<program, stack, postings, handled>>
              /\ NoteFailure \/ (Root = "handler" /\ bodyFailed' = bodyFailed)
            BY <2>5, LeaversStayInside
        <3>2. /\ Root = "body" => UNCHANGED <<phase, depth>>
              /\ Root = "handler" => phase' = "abend"
            BY <3>1, LeavingStaysInside
        <3>3. CASE Root = "body"
            BY <2>f, <3>1, <3>2, <3>3 DEF NoteFailure, Unit!Next
        <3>4. CASE Root = "handler"
            BY <2>s, <3>1, <3>2, <3>4 DEF NoteFailure
        <3> QED
            BY <2>0, <3>1, <3>3, <3>4
    <2>6. ASSUME phase = "work", GiveUpSort PROVE [Unit!Next]_(Unit!vars)
        <3>1. CASE Root = "body"
            BY <2>f, <2>6, <3>1 DEF GiveUpSort, NoteFailure, Unit!Next
        <3>2. CASE Root = "handler"
            BY <2>s, <2>6, <3>2 DEF GiveUpSort, NoteFailure
        <3> QED
            BY <2>0, <2>6, <3>1, <3>2
    <2>7. CASE Return \/ EndSort
        BY <2>s, <2>7 DEF Return, EndSort
    <2>8. CASE EndFailedSort
        <3>1. HasExit(stack[depth - 1]) \/ stack[depth - 1] = "handler"
            BY <2>8 DEF EndFailedSort, HasExit, Protocol, Nesting, Places
        <3> QED
            BY <2>0, <2>s, <2>8, <3>1 DEF EndFailedSort, Abend
    <2>9. CASE BodyDone
        BY <2>w, <2>9, WrapperSees DEF BodyDone, AtBodyEnd, Unit!Next, Unit!Finish
    <2>10. CASE Handle \/ Abandon
        <3>1. postings'["body"] = 0 /\ bodyFailed /\ bodyFailed' = bodyFailed
            BY <2>w, <2>10, WrapperSees DEF Handle, Abandon, AtBodyEnd, RolledBack, Undone
        <3>2. ~ Over /\ Over'
            BY <2>10 DEF Handle, Abandon, AtBodyEnd
        <3> QED
            BY <3>1, <3>2 DEF Unit!Next, Unit!Finish
    <2>11. CASE HandlerDone
        BY <2>0, <2>s, <2>11 DEF HandlerDone
    <2>12. CASE End \/ \E f \in Files : CleanUpFile(f)
        BY <2>s, <2>12 DEF End, CleanUpFile
    <2>13. ASSUME NEW f \in Files, FileStep(f) PROVE [Unit!Next]_(Unit!vars)
        BY <2>s, <2>13 DEF FileStep, OpenFile, CloseFile, SortOpens, SortCloses
    <2>14. CASE UNCHANGED vars
        BY <2>s, <2>14 DEF vars
    <2>15. ~ RaiseInProcedure
        BY <2>w DEF RaiseInProcedure, Disciplined
    <2> QED
        BY <2>1, <2>2, <2>3, <2>4, <2>5, <2>6, <2>7, <2>8, <2>9, <2>10, <2>11, <2>12, <2>13, <2>14, <2>15,
           NoDeclarative, GivesUp
           DEF Next, Failure, FileFailure, Routine, Ending
<1>3. TypeOK /\ DisciplinedProtocol /\ WrappedUndone /\ [Next]_vars
         => [Wrapped(program) => Unit!Next]_(Unit!vars)
    BY <1>2 DEF WrappedUndone, DisciplinedProtocol, Wrapped, Contained
<1> QED
    BY <1>1, <1>3, StepTypeOK, StepProtocol, StepUndone, PTL DEF Spec, AllOrNothing
=============================================================================
