-------------------------- MODULE MCFilesAndQueues --------------------------
(* What a program does with files and queues: the checks of its text and   *)
(* the program run, its queues, and a file written inside its browses.     *)
(* Each initial state is of one of the three, and the variables of the     *)
(* others stay where they are.                                             *)
EXTENDS MCIndexedFile, MCStaticFlow, MessageQueues

VARIABLE third

QueueSymmetry == Permutations(Queues) \union Permutations(Managers)

NoFile == Init /\ present = FALSE

NoFlow ==
    /\ verdict = Judged(<< >>) /\ todo = << >>
    /\ owing = FALSE /\ hasRead = FALSE /\ hasValue = FALSE
    /\ wrong = {} /\ ending = "left"

NoQueues ==
    /\ style = [at |-> << >>, reopens |-> FALSE, sorts |-> TRUE, tidy |-> FALSE]
    /\ stage = "over" /\ sortFailed = FALSE /\ hconn = {} /\ link = {}
    /\ opens = [m \in Managers |-> 0] /\ hobj = [q \in Queues |-> "none"]
    /\ work = [m \in Managers |-> {}] /\ kept = work
    /\ failed = FALSE /\ closing = FALSE

ThirdsInit ==
    \/ third = "file" /\ Init /\ NoFlow /\ NoQueues
    \/ third = "flow" /\ FlowInit /\ NoFile /\ NoQueues
    \/ third = "queues" /\ MqInit /\ NoFile /\ NoFlow

FileStep == KeepingNext /\ UNCHANGED <<third, flowVars, mqVars>>
FlowStep == FlowNext /\ UNCHANGED <<third, vars, mqVars>>
QueueStep == MqNext /\ UNCHANGED <<third, vars, flowVars>>
ThirdsNext ==
    \/ third = "file" /\ FileStep
    \/ third = "flow" /\ FlowStep
    \/ third = "queues" /\ QueueStep

ThirdsSpec == ThirdsInit /\ [][ThirdsNext]_<<third, vars, flowVars, mqVars>>
=============================================================================
