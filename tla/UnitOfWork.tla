----------------------------- MODULE UnitOfWork -----------------------------
(***************************************************************************)
(* What a transaction promises its ledger, whatever it is made of: while   *)
(* it runs it may post and it may fail, and when it is over either all of  *)
(* its postings stand or, if it failed, none of them does.                 *)
(***************************************************************************)
EXTENDS Naturals

VARIABLES
    applied,    \* how many postings stand
    failed,     \* something went wrong
    over        \* the outcome is final

vars == <<applied, failed, over>>

Init == applied = 0 /\ failed = FALSE /\ over = FALSE

Post == ~ over /\ applied' = applied + 1 /\ UNCHANGED <<failed, over>>

Fail == ~ over /\ failed' = TRUE /\ UNCHANGED <<applied, over>>

Finish ==
    /\ ~ over
    /\ over' = TRUE
    /\ applied' = IF failed THEN 0 ELSE applied
    /\ UNCHANGED failed

Next == Post \/ Fail \/ Finish

Spec == Init /\ [][Next]_vars
=============================================================================
