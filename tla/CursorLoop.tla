----------------------------- MODULE CursorLoop -----------------------------
(***************************************************************************)
(* The loop cobol-backend generates for                                    *)
(*                                                                         *)
(*     for each row in cursor(...) [from n] [backward] limit n { ... }     *)
(*                                                                         *)
(* OPEN, a FETCH per turn, CLOSE, and the tests of SQLCODE between them.   *)
(* SQLCODE is one register: the FETCH sets it, the tests below the body    *)
(* read it, and whatever SQL the body runs sets it in between.             *)
(*                                                                         *)
(* A loop is a record, chosen once, of what its source says and does:      *)
(*                                                                         *)
(*   limit            the bound the language makes mandatory               *)
(*   rowset           rows per FETCH, 0 for one at a time                  *)
(*   start, backward  where a scrolled read begins, and its direction;     *)
(*                    a cursor that is not scrolled starts at 1            *)
(*   executes         its body runs SQL of its own                         *)
(*   commits          its body checkpoints, over a cursor WITH HOLD        *)
(*   raises           its body can leave by a failure                      *)
(*   warns            Db2 can answer a FETCH with a warning and a row      *)
(*                                                                         *)
(* Db2 is external: it numbers the rows 1..size of the result set, answers *)
(* 0, a warning, +100 or an error, and forgets the cursor in some errors.  *)
(*                                                                         *)
(* Observer, not in the code: seen, the rows the body has finished.        *)
(***************************************************************************)
EXTENDS Integers, Sequences

CONSTANTS
    Loops,          \* the loops considered
    MaxRows         \* bound on the rows of a result set

Loop == [limit : Nat \ {0}, rowset : Nat, start : Int, backward : BOOLEAN,
         executes : BOOLEAN, commits : BOOLEAN, raises : BOOLEAN, warns : BOOLEAN]

ASSUME LoopAssumption ==
    /\ Loops \subseteq Loop
    /\ \A l \in Loops : l.rowset > 0 => l.start = 1 /\ ~ l.backward    \* BANK-SQL-011
    /\ MaxRows \in Nat

VARIABLES
    loop,           \* the loop that was compiled
    pc,             \* "open", "fetch", "rowset", "body", "after", "close", "done", "failed", "left"
    size,           \* the rows of the result set
    cursor,         \* Db2 has it open
    position,       \* the row the next FETCH asks for
    counter,        \* rows taken, against the limit
    rows, index,    \* SQLERRD(3) of the last FETCH, and how far the body is in it
    sqlcode, code,  \* SQLCODE, BANK-FAILURE-CODE ("none" is SPACES)
    seen

vars == <<loop, pc, size, cursor, position, counter, rows, index, sqlcode, code, seen>>

Error   == -1       \* any negative SQLCODE
Warning == 1        \* any positive one but +100
End     == 100

TypeOK ==
    /\ loop \in Loops
    /\ pc \in {"open", "fetch", "rowset", "body", "after", "close", "done", "failed", "left"}
    /\ size \in 0..MaxRows
    /\ cursor \in BOOLEAN
    /\ position \in Int
    /\ counter \in 0..loop.limit
    /\ rows \in 0..loop.rowset
    /\ index \in 0..loop.rowset + 1
    /\ sqlcode \in {Error, 0, Warning, End}
    /\ code \in {"none", "fetch", "limit", "raise"}
    /\ seen \in Seq(1..MaxRows)

(* ABSOLUTE counts from the first row, or back from behind the last. *)
RowAt(p)  == IF p > 0 THEN p ELSE size + 1 + p
HasRow(p) == RowAt(p) \in 1..size

Min2(a, b) == IF a < b THEN a ELSE b

-----------------------------------------------------------------------------
Init ==
    /\ loop \in Loops
    /\ pc = "open"
    /\ size = 0
    /\ cursor = FALSE
    /\ position = 0
    /\ counter = 0
    /\ rows = 0
    /\ index = 0
    /\ sqlcode = 0
    /\ code = "none"
    /\ seen = <<>>

(* The OPEN is not tested: a FETCH from a cursor that is not open fails.   *)
Open ==
    /\ pc = "open"
    /\ pc' = "fetch"
    /\ size' \in 0..MaxRows
    /\ cursor' \in BOOLEAN
    /\ sqlcode' = IF cursor' THEN 0 ELSE Error
    /\ position' = loop.start
    /\ counter' = 0
    /\ UNCHANGED <<loop, rows, index, code, seen>>

(* PERFORM UNTIL counter >= limit *)
Turn == pc = "fetch" /\ counter < loop.limit

(* Stepped "before the body rather than after it". *)
StuckAtFront(p) == IF p = 1 THEN 1 ELSE p - 1                   \* a mutant
Back(p) == p - 1
Stepped(p) == IF loop.backward THEN Back(p) ELSE p + 1

FetchRow ==
    /\ Turn
    /\ loop.rowset = 0
    /\ cursor
    /\ HasRow(position)
    /\ sqlcode' = 0
    /\ counter' = counter + 1
    /\ position' = Stepped(position)
    /\ pc' = "body"
    /\ UNCHANGED <<loop, size, cursor, rows, index, code, seen>>

(* "The loop leaves on any non-zero SQLCODE", a warning included. *)
FetchWarned ==
    /\ Turn
    /\ loop.rowset = 0
    /\ loop.warns
    /\ cursor
    /\ HasRow(position)
    /\ sqlcode' = Warning
    /\ pc' = "after"
    /\ UNCHANGED <<loop, size, cursor, position, counter, rows, index, code, seen>>

FetchEnds ==
    /\ Turn
    /\ loop.rowset = 0
    /\ cursor
    /\ ~ HasRow(position)
    /\ sqlcode' = End
    /\ pc' = "after"
    /\ UNCHANGED <<loop, size, cursor, position, counter, rows, index, code, seen>>

FetchAgain == "fetch"                                           \* a mutant
AfterError == "after"

FetchFails ==
    /\ Turn
    /\ cursor' \in {cursor, FALSE}
    /\ sqlcode' = Error
    /\ code' = "fetch"
    /\ pc' = AfterError
    /\ UNCHANGED <<loop, size, position, counter, rows, index, seen>>

(* +100 comes with the last rowset when that rowset is not full. *)
FetchRowset ==
    /\ Turn
    /\ loop.rowset > 0
    /\ cursor
    /\ rows' = Min2(loop.rowset, size + 1 - position)
    /\ position' = position + rows'
    /\ index' = 1
    /\ sqlcode' \in IF rows' < loop.rowset THEN {End}
                    ELSE IF loop.warns     THEN {0, Warning}
                                           ELSE {0}
    /\ pc' = IF rows' = 0 THEN "after" ELSE "rowset"
    /\ UNCHANGED <<loop, size, cursor, counter, code, seen>>

(* The inner PERFORM VARYING, and the test for +100 below it. *)
BoundOutside == index <= rows                                   \* a mutant
MoreInRowset == index <= rows /\ counter < loop.limit

TakeFromRowset ==
    /\ pc = "rowset"
    /\ MoreInRowset
    /\ counter' = counter + 1
    /\ pc' = "body"
    /\ UNCHANGED <<loop, size, cursor, position, rows, index, sqlcode, code, seen>>

EndRowset ==
    /\ pc = "rowset"
    /\ ~ MoreInRowset
    /\ pc' = IF sqlcode = End THEN "after" ELSE "fetch"
    /\ UNCHANGED <<loop, size, cursor, position, counter, rows, index, sqlcode, code, seen>>

-----------------------------------------------------------------------------
(* The body. *)
Row == IF loop.rowset = 0 THEN RowAt(position + (IF loop.backward THEN 1 ELSE -1))
       ELSE position - rows + index - 1

FinishRow ==
    /\ pc = "body"
    /\ seen' = Append(seen, Row)
    /\ IF loop.rowset = 0 THEN pc' = "fetch" /\ UNCHANGED index
                          ELSE pc' = "rowset" /\ index' = index + 1
    /\ UNCHANGED <<loop, size, cursor, position, counter, rows, sqlcode, code>>

Execute ==
    /\ pc = "body"
    /\ loop.executes
    /\ sqlcode' \in {0, End, Error}
    /\ cursor' \in IF sqlcode' = Error THEN {cursor, FALSE} ELSE {cursor}
    /\ UNCHANGED <<loop, pc, size, position, counter, rows, index, code, seen>>

Commit ==
    /\ pc = "body"
    /\ loop.commits
    /\ sqlcode' = 0
    /\ UNCHANGED <<loop, pc, size, cursor, position, counter, rows, index, code, seen>>

Raise ==
    /\ pc = "body"
    /\ loop.raises
    /\ code' = "raise"
    /\ pc' = "left"
    /\ UNCHANGED <<loop, size, cursor, position, counter, rows, index, sqlcode, seen>>

-----------------------------------------------------------------------------
LeaveAtBound ==
    /\ pc = "fetch"
    /\ counter >= loop.limit
    /\ pc' = "after"
    /\ UNCHANGED <<loop, size, cursor, position, counter, rows, index, sqlcode, code, seen>>

(* "The bound stopping the loop is a result set the program did not finish *)
(* reading.  SQLCODE = 0 is what says so."                                 *)
BoundPassed == counter > loop.limit /\ sqlcode = 0              \* a mutant
Unread == counter >= loop.limit /\ sqlcode = 0

TestBound ==
    /\ pc = "after"
    /\ pc' = "close"
    /\ code' = IF Unread THEN "limit" ELSE code
    /\ UNCHANGED <<loop, size, cursor, position, counter, rows, index, sqlcode, seen>>

Close ==
    /\ pc = "close"
    /\ sqlcode' = IF cursor THEN 0 ELSE Error
    /\ cursor' = FALSE
    /\ pc' = IF code = "none" THEN "done" ELSE "failed"
    /\ UNCHANGED <<loop, size, position, counter, rows, index, code, seen>>

Fetch == FetchRow \/ FetchWarned \/ FetchEnds \/ FetchFails \/ FetchRowset
Body  == FinishRow \/ Execute \/ Commit \/ Raise
Ends  == LeaveAtBound \/ TestBound \/ Close

Next == Open \/ Fetch \/ TakeFromRowset \/ EndRowset \/ Body \/ Ends

Spec == Init /\ [][Next]_vars

(* The step runs on, and so does the body of the loop. *)
FairSpec == Spec /\ WF_vars(Open \/ Fetch \/ TakeFromRowset \/ EndRowset \/ Ends)
                 /\ WF_vars(FinishRow)

-----------------------------------------------------------------------------
(* The loops whose answers the register's other users cannot spoil: the    *)
(* body runs no SQL of its own, FETCH does not warn, and a bound on a      *)
(* rowset loop is a number of full rowsets.                                *)
FullRowsets(l) == \E k \in 1..l.limit : l.limit = k * l.rowset
Sound(l) == ~ l.executes /\ ~ l.warns /\ (l.rowset = 0 \/ FullRowsets(l))

(* What the source asks for: from `start` to the end the loop walks to. *)
First     == RowAt(loop.start)
Wanted(i) == IF loop.backward THEN First - i + 1 ELSE First + i - 1
Asked     == IF First \notin 1..size THEN 0
             ELSE IF loop.backward   THEN First
                                     ELSE size + 1 - First

(* The body gets the rows asked for in the order asked for, none left out  *)
(* and none twice, across rowsets, across position zero and across commits *)
(* (docs/language/sql.md, "How the loop walks").                           *)
RowsInOrder ==
    /\ Len(seen) <= Asked
    /\ \A i \in DOMAIN seen : seen[i] = Wanted(i)

(* A loop that ends without a failure has read all there was: a partial    *)
(* result set is never reported as the whole one (emitCursorLoopStatement).*)
WholeOrFailed == pc = "done" => Len(seen) = Asked

(* Sound loops keep that promise. *)
SoundLoopReadsAll == Sound(loop) => WholeOrFailed

(* "The declared bound still applies inside a rowset" (docs/language/sql.md). *)
BoundHolds == Len(seen) <= loop.limit

(* The loop ends, whatever Db2 answers and however its body ends. *)
LoopEnds == <>(pc \in {"done", "failed", "left"})
=============================================================================
