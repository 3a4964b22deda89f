--------------------------- MODULE MessageQueues ---------------------------
(***************************************************************************)
(* The queue statements of a generated step (cobol-backend,                *)
(* emitQueueStatement) and the queue managers they call.                   *)
(*                                                                         *)
(* A program connects to a manager, not to a queue: the first queue it     *)
(* opens on a manager does the MQCONN and the last it closes the MQDISC,   *)
(* by a count kept for each manager.  Puts and gets are under syncpoint,   *)
(* and MQDISC is what commits them.                                        *)
(*                                                                         *)
(* How a program uses its queues is a record, chosen once:                 *)
(*                                                                         *)
(*   at        the manager each of its queues names                        *)
(*   reopens   it may connect a queue that is connected                    *)
(*   sorts     it may use queues in a sort procedure, where a failure sets *)
(*             SORT-RETURN and the statement runs on                       *)
(*   tidy      its body disconnects only what it has connected, uses no    *)
(*             queue after its first disconnect and does not fail after it *)
(*             by other means, and its handler uses no queue at all        *)
(*                                                                         *)
(* The manager's own state, outside the program, is link and work.  A      *)
(* message is who put or got it, which is all the properties tell apart.   *)
(***************************************************************************)
EXTENDS Integers, FiniteSets

CONSTANTS
    Queues,         \* the declared queues
    Managers,       \* the managers they name
    Styles,         \* the uses of queues considered
    MaxOpens        \* bound on the opens counted for one manager

Style == [at : [Queues -> Managers], reopens : BOOLEAN, sorts : BOOLEAN, tidy : BOOLEAN]

ASSUME QueueAssumption ==
    /\ IsFiniteSet(Queues)
    /\ Styles \subseteq Style
    /\ MaxOpens \in Nat

VARIABLES
    style,          \* how the program was written
    stage,          \* "body", "procedure", "handler" or "over"
    sortFailed,     \* SORT-RETURN is 16
    hconn,          \* the managers whose BANK-MQM-n-HCONN is a handle MQ gave
    opens,          \* BANK-MQM-n-OPENS
    hobj,           \* each queue's HOBJ: "none" is zero, "dead" MQ has forgotten
    link,           \* the managers the run unit is connected to
    work,           \* what each manager's open unit of work holds, by who did it
    kept,           \* what MQDISC has committed, by who did it
    failed,         \* the body failed, so its postings were undone
    closing         \* the body has disconnected a queue

mqVars == <<style, stage, sortFailed, hconn, opens, hobj, link, work, kept, failed, closing>>

Workers == {"body", "handler"}

MqTypeOK ==
    /\ style \in Styles
    /\ stage \in {"body", "procedure", "handler", "over"}
    /\ sortFailed \in BOOLEAN
    /\ hconn \subseteq Managers
    /\ opens \in [Managers -> 0..MaxOpens]
    /\ hobj \in [Queues -> {"none", "live", "dead"}]
    /\ link \subseteq Managers
    /\ work \in [Managers -> SUBSET Workers]
    /\ kept \in [Managers -> SUBSET Workers]
    /\ failed \in BOOLEAN
    /\ closing \in BOOLEAN

ManagerOf(q) == style.at[q]
Siblings(m) == {q \in Queues : ManagerOf(q) = m}
Live(m) == {q \in Siblings(m) : hobj[q] = "live"}
Worker == IF stage = "handler" THEN "handler" ELSE "body"

(* A caller may have connected before it called this program. *)
MqInit ==
    /\ style \in Styles
    /\ stage = "body"
    /\ sortFailed = FALSE
    /\ hconn = {}
    /\ opens = [m \in Managers |-> 0]
    /\ hobj = [q \in Queues |-> "none"]
    /\ link \in SUBSET Managers
    /\ work = [m \in Managers |-> {}]
    /\ kept = [m \in Managers |-> {}]
    /\ failed = FALSE
    /\ closing = FALSE

-----------------------------------------------------------------------------
(* emitMqCheck, emitMqFailure: an MQI call that failed leaves the routine. *)
(* The body's exit is the wrapper, which undoes its postings and performs  *)
(* the handler; the handler's is the end of the step.                      *)
Leaves == stage \in {"body", "handler"}

GiveUp ==
    /\ Leaves
    /\ stage' = IF stage = "body" THEN "handler" ELSE "over"
    /\ failed' = TRUE
    /\ UNCHANGED sortFailed

(* In a sort procedure there is nowhere to leave to. *)
RunsOn ==
    /\ stage = "procedure"
    /\ sortFailed' = TRUE
    /\ UNCHANGED <<stage, failed>>

Proceeds == UNCHANGED <<stage, sortFailed, failed>>

(* Which statements a program of this style makes here. *)
Using == stage \in {"body", "procedure", "handler"} /\ ~ (style.tidy /\ stage = "handler")
Working == Using /\ ~ (style.tidy /\ closing)

(* connectQueue: MQCONN on the first queue of the manager, then MQOPEN.    *)
(* ALREADY-CONNECTED is forgiven, so a manager that can be reached always  *)
(* answers with a handle.                                                  *)
Connects(m) == opens[m] = 0

CountFirst(m) == IF opens[m] = 0 THEN 1 ELSE opens[m]           \* a mutant
CountedIn(m) == opens[m] + 1

Reach(m) ==
    IF Connects(m) THEN hconn' = hconn \union {m} /\ link' = link \union {m}
                   ELSE UNCHANGED <<hconn, link>>

ConnectQueue(q) ==
    LET m == ManagerOf(q)
    IN  /\ Working
        /\ style.reopens \/ hobj[q] # "live"
        /\ opens[m] < MaxOpens
        /\ Reach(m)
        /\ m \in hconn' /\ m \in link'
        /\ hobj' = [hobj EXCEPT ![q] = "live"]
        /\ opens' = [opens EXCEPT ![m] = CountedIn(m)]
        /\ Proceeds
        /\ UNCHANGED <<style, work, kept, closing>>

(* The MQCONN, or the MQOPEN after it, fails and the routine is left. *)
ConnectFails(q) ==
    LET m == ManagerOf(q)
    IN  /\ Working
        /\ style.reopens \/ hobj[q] # "live"
        /\ Reach(m) \/ UNCHANGED <<hconn, link>>
        /\ GiveUp
        /\ UNCHANGED <<style, opens, hobj, work, kept, closing>>

(* In a sort procedure a failed MQCONN is followed by the MQOPEN, and a    *)
(* failed MQOPEN by the count.                                             *)
ConnectFailsInSort(q) ==
    LET m == ManagerOf(q)
    IN  /\ Working
        /\ style.reopens \/ hobj[q] # "live"
        /\ opens[m] < MaxOpens
        /\ Reach(m) \/ UNCHANGED <<hconn, link>>
        /\ opens' = [opens EXCEPT ![m] = CountedIn(m)]
        /\ RunsOn
        /\ UNCHANGED <<style, hobj, work, kept, closing>>

(* putMessage, and getMessage that found a message: both are in the unit   *)
(* of work of the queue's manager.  A handle that is not live is an error. *)
Exchange(q) ==
    LET m == ManagerOf(q)
    IN  /\ Working
        /\ hobj[q] = "live" /\ m \in link
        /\ work' = [work EXCEPT ![m] = @ \union {Worker}]
        /\ Proceeds
        /\ UNCHANGED <<style, hconn, opens, hobj, link, kept, closing>>

ExchangeFails(q) ==
    /\ q \in Queues
    /\ Working
    /\ GiveUp \/ RunsOn
    /\ UNCHANGED <<style, hconn, opens, hobj, link, work, kept, closing>>

-----------------------------------------------------------------------------
(* disconnectQueue: MQCLOSE, the count down to a floor of zero, and MQDISC *)
(* when it gets there, which commits.                                      *)
CountKept(m) == opens[m]                                        \* a mutant
CountedOut(m) == IF opens[m] > 0 THEN opens[m] - 1 ELSE 0

DisconnectEarly(m) == TRUE                                      \* a mutant
LastOut(m) == CountedOut(m) < 1

(* MQDISC ends the connection with every handle got through it. *)
EndConnection(m, handles) ==
    /\ hconn' = hconn \ {m}
    /\ link' = link \ {m}
    /\ kept' = [kept EXCEPT ![m] = @ \union work[m]]
    /\ work' = [work EXCEPT ![m] = {}]
    /\ hobj' = [q \in Queues |-> IF ManagerOf(q) = m /\ handles[q] = "live"
                                 THEN "dead" ELSE handles[q]]

Disconnecting(q) == Using /\ (style.tidy => hobj[q] # "none")
Closed(q) == [hobj EXCEPT ![q] = "none"]
NoteClosing == closing' = (closing \/ stage # "handler")

DisconnectQueue(q) ==
    LET m == ManagerOf(q)
    IN  /\ Using
        /\ hobj[q] = "live" /\ m \in link
        /\ opens' = [opens EXCEPT ![m] = CountedOut(m)]
        /\ \/ /\ ~ LastOut(m)
              /\ hobj' = Closed(q)
              /\ UNCHANGED <<hconn, link, work, kept>>
           \/ /\ LastOut(m)
              /\ m \in hconn
              /\ EndConnection(m, Closed(q))
        /\ NoteClosing
        /\ Proceeds
        /\ UNCHANGED style

(* The MQCLOSE fails and the routine is left. *)
CloseQueueFails(q) ==
    /\ Disconnecting(q)
    /\ GiveUp
    /\ NoteClosing
    /\ UNCHANGED <<style, hconn, opens, hobj, link, work, kept>>

(* The MQDISC fails, after the count. *)
DisconnectFails(q) ==
    LET m == ManagerOf(q)
    IN  /\ Disconnecting(q)
        /\ hobj[q] = "live" /\ m \in link
        /\ LastOut(m)
        /\ hobj' = Closed(q)
        /\ opens' = [opens EXCEPT ![m] = 0]
        /\ GiveUp \/ RunsOn
        /\ NoteClosing
        /\ UNCHANGED <<style, hconn, link, work, kept>>

(* In a sort procedure a failed MQCLOSE is followed by the count, and the  *)
(* MQDISC if it is the last.                                               *)
CloseFailsInSort(q) ==
    LET m == ManagerOf(q)
    IN  /\ Disconnecting(q)
        /\ opens' = [opens EXCEPT ![m] = CountedOut(m)]
        /\ \/ LastOut(m) /\ m \in hconn /\ m \in link /\ EndConnection(m, hobj)
           \/ UNCHANGED <<hconn, link, work, kept, hobj>>
        /\ RunsOn
        /\ NoteClosing
        /\ UNCHANGED style

-----------------------------------------------------------------------------
(* The rest of the step: a sort procedure begins and ends, the body fails  *)
(* for some other reason, and the step ends.                               *)
EnterProcedure ==
    /\ stage = "body" /\ style.sorts
    /\ stage' = "procedure"
    /\ UNCHANGED <<style, sortFailed, hconn, opens, hobj, link, work, kept, failed, closing>>

LeaveProcedure ==
    /\ stage = "procedure"
    /\ sortFailed' = FALSE
    /\ stage' = IF sortFailed THEN "handler" ELSE "body"
    /\ failed' = sortFailed
    /\ UNCHANGED <<style, hconn, opens, hobj, link, work, kept, closing>>

BodyFails ==
    /\ stage = "body"
    /\ ~ (style.tidy /\ closing)
    /\ GiveUp
    /\ UNCHANGED <<style, hconn, opens, hobj, link, work, kept, closing>>

StepOver ==
    /\ Leaves
    /\ stage' = "over"
    /\ UNCHANGED <<style, sortFailed, hconn, opens, hobj, link, work, kept, failed, closing>>

MqNext ==
    \/ \E q \in Queues :
          \/ ConnectQueue(q) \/ ConnectFails(q) \/ ConnectFailsInSort(q)
          \/ Exchange(q) \/ ExchangeFails(q)
          \/ DisconnectQueue(q) \/ CloseQueueFails(q) \/ DisconnectFails(q) \/ CloseFailsInSort(q)
    \/ EnterProcedure \/ LeaveProcedure \/ BodyFails \/ StepOver

MqSpec == MqInit /\ [][MqNext]_mqVars

-----------------------------------------------------------------------------
(* The count is the number of open queues, so that the one that brings it  *)
(* to zero is the last (mqManagerStorage).  Sort procedures count what did *)
(* not happen, and a queue connected twice is counted twice.               *)
CountIsOpen ==
    (~ style.sorts /\ ~ style.reopens) => \A m \in Managers : opens[m] = Cardinality(Live(m))

(* No MQDISC takes a connection from under an open queue: "the last one    *)
(* closed disconnects", whatever was connected twice and whatever failed   *)
(* (docs/language/mq.md).                                                  *)
NoHandleDies == ~ style.sorts => \A q \in Queues : hobj[q] # "dead"

(* A connect that skips the MQCONN finds the connection there: after any   *)
(* failure the handler can connect again (emitQueueStatement, connect).    *)
CountedIsConnected ==
    ~ style.sorts => \A m \in Managers : opens[m] > 0 => (m \in hconn /\ m \in link)

(* Messages and postings stand or fall together: "the answer and the       *)
(* ledger posting commit together or not at all"                           *)
(* (examples/mq-request-reply).  Not so if the body fails after its last   *)
(* disconnect, or its handler tidies up with one.                          *)
CommitTogether == failed => \A m \in Managers : "body" \notin kept[m]

(* They do when the queues have one manager and nothing of the body or the *)
(* handler can follow the disconnects (emitQueueStatement, "There is no    *)
(* MQCMIT here").                                                          *)
TidyCommitsTogether ==
    (style.tidy /\ ~ style.sorts /\ ~ style.reopens
        /\ \A p, q \in Queues : ManagerOf(p) = ManagerOf(q))
    => CommitTogether
=============================================================================
