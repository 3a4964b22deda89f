------------------------- MODULE CheckpointedBatch -------------------------
(***************************************************************************)
(* The restart protocol cobol-backend generates for a batch that posts in  *)
(* a loop:                                                                 *)
(*                                                                         *)
(*     restart f into point { ... }                                        *)
(*     for each row in cursor(..., point.last) limit n {                   *)
(*         post the row;                                                   *)
(*         point.last = the row;                                           *)
(*         checkpoint f from point every m;                                *)
(*     }                                                                   *)
(*                                                                         *)
(* over several runs of the job, each of which may die at any statement or *)
(* leave by the failure path.  Without SQL the loop is a `while` over an   *)
(* indexed file, started behind the position.  A job is a record, chosen   *)
(* once:                                                                   *)
(*                                                                         *)
(*   every, limit   m and n above                                          *)
(*   commitsSql     the program has SQL, so a checkpoint commits           *)
(*   wrapped        its transaction can raise, so a failure rolls back     *)
(*   faulty         reading and writing the restart file may go wrong      *)
(*                                                                         *)
(* The rows are 1..Rows in the order of the loop's key, and a position     *)
(* is the row it names; 0 is the restart record's absence.                 *)
(*                                                                         *)
(* The restart file is outside any unit of work: a WRITE stands.  With     *)
(* SQL the postings are in Db2's unit of work, as emitCheckpointStatement  *)
(* takes them to be: COMMIT and a normal end of the program make them      *)
(* durable, a crash or ROLLBK discards them.  Without SQL they stand as    *)
(* soon as they are made, and ROLLBK reverses all of this run's, as        *)
(* runtime/BANKLEDG.cbl does.  A step that fails ends normally too, with   *)
(* return code 12: only ROLLBK takes anything back.                        *)
(*                                                                         *)
(* Observers, not in the code: crashes, failures.                          *)
(***************************************************************************)
EXTENDS Integers, FiniteSets

CONSTANTS
    Jobs,           \* the jobs considered
    Rows,           \* how many rows there are to post
    MaxCrashes,     \* bound on crashes
    MaxFailures     \* bound on raises and on restart file errors

Job == [every : Nat \ {0}, limit : Nat \ {0}, commitsSql : BOOLEAN,
        wrapped : BOOLEAN, faulty : BOOLEAN]

ASSUME BatchAssumption ==
    /\ Jobs \subseteq Job
    /\ Rows \in Nat
    /\ MaxCrashes \in Nat
    /\ MaxFailures \in Nat

VARIABLES
    job,            \* the job that was compiled
    pc,             \* "restart", "loop", "count", "write", "commit", "end", "dead", "failed", "done"
    saved,          \* the record in the restart file
    posted,         \* how often each row's postings stand in the ledger
    point,          \* the program's own position record
    row,            \* the row the loop is on
    taken,          \* rows taken by this run, against the limit
    counter,        \* rows since the last checkpoint
    unit,           \* rows whose postings ROLLBK would undo
    crashes, failures

batchVars == <<job, pc, saved, posted, point, row, taken, counter, unit, crashes, failures>>

storage == <<saved, posted>>
program == <<point, row, taken, counter>>
trouble == <<crashes, failures>>

Running == pc \notin {"dead", "failed", "done"}

BatchTypes ==
    /\ job \in Jobs
    /\ pc \in {"restart", "loop", "count", "write", "commit", "end", "dead", "failed", "done"}
    /\ saved \in 0..Rows
    /\ posted \in [1..Rows -> Nat]
    /\ point \in 0..Rows
    /\ row \in 0..Rows
    /\ taken \in 0..job.limit
    /\ counter \in 0..job.every - 1
    /\ unit \subseteq 1..Rows
    /\ crashes \in 0..MaxCrashes
    /\ failures \in 0..MaxFailures

Post(rows)    == [r \in 1..Rows |-> posted[r] + (IF r \in rows THEN 1 ELSE 0)]
Unpost(rows) == [r \in 1..Rows |-> posted[r] - (IF r \in rows THEN 1 ELSE 0)]

-----------------------------------------------------------------------------
BatchInit ==
    /\ job \in Jobs
    /\ pc = "restart"
    /\ saved = 0
    /\ posted = [r \in 1..Rows |-> 0]
    /\ point = 0
    /\ row = 0
    /\ taken = 0
    /\ counter = 0
    /\ unit = {}
    /\ crashes = 0
    /\ failures = 0

(* READ ... INVALID KEY CONTINUE: the position found, or none and the      *)
(* record's own spaces.  The loop begins behind it.                        *)
FromTheTop == 0                                                 \* a mutant
Found == saved

ResumeAt(p) ==
    /\ pc = "restart"
    /\ pc' = "loop"
    /\ point' = p
    /\ row' = p
    /\ taken' = 0
    /\ counter' = 0
    /\ unit' = {}
    /\ UNCHANGED <<job, storage>>

Restart == ResumeAt(Found) /\ UNCHANGED trouble

(* A READ that fails otherwise takes neither phrase: nothing was found. *)
RestartUnread ==
    /\ job.faulty
    /\ failures < MaxFailures
    /\ ResumeAt(0)
    /\ failures' = failures + 1
    /\ UNCHANGED crashes

(* The next row, and the body's postings for it. *)
PostRow ==
    /\ pc = "loop"
    /\ taken < job.limit
    /\ row < Rows
    /\ pc' = "count"
    /\ row' = row + 1
    /\ taken' = taken + 1
    /\ unit' = unit \union {row'}
    /\ posted' = IF job.commitsSql THEN posted ELSE Post({row'})
    /\ UNCHANGED <<job, saved, point, counter, trouble>>

(* point.last = the row; ADD 1 TO the counter; IF it is due... *)
EveryOther == counter >= job.every                              \* a mutant
Due        == counter + 1 >= job.every

Count ==
    /\ pc = "count"
    /\ point' = row
    /\ pc' = IF Due THEN "write" ELSE "loop"
    /\ counter' = IF Due THEN 0 ELSE counter + 1
    /\ UNCHANGED <<job, storage, row, taken, unit, trouble>>

(* ...WRITE INVALID KEY REWRITE, then COMMIT in a program with SQL. *)
NoCommit   == "loop"                                            \* a mutant
AfterWrite == IF job.commitsSql THEN "commit" ELSE "loop"

WritePosition ==
    /\ pc = "write"
    /\ saved' = point
    /\ pc' = AfterWrite
    /\ UNCHANGED <<job, posted, program, unit, trouble>>

(* No status is looked at: the COMMIT follows a WRITE that failed. *)
WriteLost ==
    /\ pc = "write"
    /\ job.faulty
    /\ failures < MaxFailures
    /\ failures' = failures + 1
    /\ pc' = AfterWrite
    /\ UNCHANGED <<job, storage, program, unit, crashes>>

Commit ==
    /\ pc = "commit"
    /\ posted' = Post(unit)
    /\ unit' = {}
    /\ pc' = "loop"
    /\ UNCHANGED <<job, saved, program, trouble>>

(* +100 from the FETCH, or the end of the file. *)
LoopEnds ==
    /\ pc = "loop"
    /\ taken < job.limit
    /\ row = Rows
    /\ pc' = "end"
    /\ UNCHANGED <<job, storage, program, unit, trouble>>

-----------------------------------------------------------------------------
(* GOBACK: Db2 commits what a program that ends normally leaves. *)
LeftStanding == IF job.commitsSql THEN Post(unit) ELSE posted

(* The failure paragraph, which only a wrapped transaction has: ROLLBK. *)
Reversed   == IF job.commitsSql THEN posted ELSE Unpost(unit)
RolledBack == IF job.wrapped THEN Reversed ELSE LeftStanding

Abend ==
    /\ posted' = RolledBack
    /\ unit' = {}
    /\ pc' = "failed"
    /\ UNCHANGED <<job, saved, program>>

(* The bound stopped the loop. *)
LoopExhausted ==
    /\ pc = "loop"
    /\ taken >= job.limit
    /\ Abend
    /\ UNCHANGED trouble

(* Any other failure, of the FETCH, the body or what follows the loop. *)
Raise ==
    /\ pc \in {"loop", "count", "end"}
    /\ failures < MaxFailures
    /\ Abend
    /\ failures' = failures + 1
    /\ UNCHANGED crashes

End ==
    /\ pc = "end"
    /\ posted' = LeftStanding
    /\ unit' = {}
    /\ pc' = "done"
    /\ UNCHANGED <<job, saved, program, trouble>>

Crash ==
    /\ Running
    /\ crashes < MaxCrashes
    /\ crashes' = crashes + 1
    /\ unit' = {}
    /\ pc' = "dead"
    /\ UNCHANGED <<job, storage, program, failures>>

Rerun ==
    /\ pc \in {"dead", "failed"}
    /\ pc' = "restart"
    /\ UNCHANGED <<job, storage, program, unit, trouble>>

Step == \/ Restart \/ PostRow \/ Count \/ WritePosition \/ Commit
        \/ LoopEnds \/ LoopExhausted \/ End \/ Rerun

BatchNext == Step \/ RestartUnread \/ WriteLost \/ Raise \/ Crash

BatchSpec == BatchInit /\ [][BatchNext]_batchVars

(* The program runs on, and a job that died is rerun. *)
FairBatchSpec == BatchSpec /\ WF_batchVars(Step)

-----------------------------------------------------------------------------
Between == pc \in {"restart", "dead", "failed", "done"}

Sure(j) == j.commitsSql /\ j.wrapped /\ ~ j.faulty

(* "The rerun a checkpoint exists to make safe": however often the job     *)
(* dies or fails, no row of a job that commits its work is posted twice    *)
(* (emitRestartStatement), as long as its failures roll back and the       *)
(* restart file does what it is told.                                      *)
NothingTwice == Sure(job) => \A r \in 1..Rows : posted[r] <= 1

(* "Rework after a failure costs the records since the last one": without  *)
(* SQL each crash leaves at most one interval to be posted again           *)
(* (emitCheckpointStatement).                                              *)
Again == UNION {{r} \X (2..posted[r]) : r \in 1..Rows}
ReworkBounded == job.wrapped /\ ~ job.faulty => Cardinality(Again) <= job.every * crashes

(* A crash between the position and the commit loses the interval between  *)
(* them, and nothing loses more.                                           *)
Skipped == {r \in 1..saved : posted[r] = 0}
LossBounded == Sure(job) /\ Between => Cardinality(Skipped) <= job.every * crashes

(* Failures lose nothing: a job that never crashed, however often it left  *)
(* by the failure path or its bound, ends with every row posted once.      *)
FailuresLoseNothing ==
    Sure(job) /\ crashes = 0 /\ pc = "done" => \A r \in 1..Rows : posted[r] = 1

(* "A restart that finds a position can trust that everything up to it is  *)
(* durable" (emitCheckpointStatement).                                     *)
PositionIsDurable == pc = "restart" => \A r \in 1..saved : posted[r] > 0

(* A job whose runs can each reach a checkpoint is done in the end: every  *)
(* rerun goes on from where the last one got to.                           *)
JobCompletes == job.every <= job.limit => <>(pc = "done")
=============================================================================
