--------------------- MODULE CheckpointedBatchProofs ---------------------
(***************************************************************************)
(* That a job that commits its work, rolls it back when it fails and keeps *)
(* its position in a file that works, posts no row twice however often it  *)
(* dies, and leaves none out unless it dies: for every number of rows, of  *)
(* crashes and of failures, every interval and every bound.                *)
(*                                                                         *)
(* The inductive invariant says which side of the position the durable     *)
(* rows are on (Behind), where the open unit of work is (Ahead), and, as   *)
(* long as nothing crashed, that no row is missing from both (Covered).    *)
(***************************************************************************)
EXTENDS CheckpointedBatch, FiniteSetTheorems, TLAPS

Working == pc \in {"loop", "count", "write", "commit", "end"}

Behind ==
    /\ \A r \in 1..Rows : posted[r] <= 1
    /\ pc # "done" => \A r \in 1..Rows : posted[r] = 1 => r <= saved

Ahead ==
    /\ Working => /\ saved <= row
                  /\ \A r \in unit : r <= row /\ posted[r] = 0
    /\ pc \in {"write", "commit"} => point = row
    /\ pc = "commit" => saved = row
    /\ pc = "end" => row = Rows

Covered ==
    /\ Working => \A r \in 1..row : posted[r] = 1 \/ r \in unit
    /\ pc \notin {"commit", "done"} => \A r \in 1..saved : posted[r] = 1
    /\ pc = "done" => \A r \in 1..Rows : posted[r] = 1

Exact == Behind /\ Ahead /\ (crashes = 0 => Covered)

(* Without SQL the unit's rows are posted, and each can be reversed. *)
Reversible == ~ job.commitsSql => \A r \in unit : posted[r] > 0

IInv == BatchTypes /\ Reversible /\ (Sure(job) => Exact)

-----------------------------------------------------------------------------
LEMMA JobShape ==
    ASSUME job \in Jobs
    PROVE  /\ job.every \in Nat /\ job.every > 0
           /\ job.limit \in Nat /\ job.limit > 0
           /\ job.commitsSql \in BOOLEAN /\ job.wrapped \in BOOLEAN
           /\ Rows \in Nat /\ MaxCrashes \in Nat /\ MaxFailures \in Nat
BY BatchAssumption DEF BatchAssumption, Job

LEMMA InitInv == BatchInit => IInv
<1> SUFFICES ASSUME BatchInit PROVE IInv
    OBVIOUS
<1>1. job \in Jobs
    BY DEF BatchInit
<1>2. BatchTypes
    BY <1>1, JobShape DEF BatchInit, BatchTypes
<1>3. Reversible
    BY DEF BatchInit, Reversible
<1>4. Exact
  <2>1. /\ posted = [r \in 1..Rows |-> 0] /\ saved = 0
        /\ pc \notin {"loop", "count", "write", "commit", "end", "done"}
      BY DEF BatchInit
  <2>2. Behind
      BY <2>1 DEF Behind
  <2>3. Ahead /\ Covered
      BY <2>1 DEF Ahead, Covered, Working
  <2> QED
      BY <2>2, <2>3 DEF Exact
<1> QED
    BY <1>2, <1>3, <1>4 DEF IInv

LEMMA ResumeAtInv ==
    ASSUME IInv, NEW p \in {0, saved}, ResumeAt(p), p # saved => job.faulty,
           crashes' = crashes, failures' \in 0..MaxFailures
    PROVE  IInv'
<1>0. job \in Jobs /\ saved \in 0..Rows
    BY DEF IInv, BatchTypes
<1>1. job \in Jobs /\ 0 \in 0..job.limit /\ 0 \in 0..job.every - 1
    BY <1>0, JobShape
<1>a. p \in 0..Rows
    BY <1>0, JobShape
<1>b. /\ UNCHANGED <<job, saved, posted>> /\ pc' = "loop"
      /\ point' = p /\ row' = p /\ taken' = 0 /\ counter' = 0 /\ unit' = {}
    BY DEF ResumeAt, storage
<1>2. BatchTypes'
    BY <1>1, <1>a, <1>b DEF IInv, BatchTypes
<1>3. Reversible'
    BY DEF Reversible, ResumeAt
<1>4. ASSUME Sure(job)' PROVE Exact'
  <2>1. Sure(job) /\ Exact /\ p = saved
      BY <1>4 DEF IInv, ResumeAt, Sure
  <2>2. saved \in Int
      BY <1>1, JobShape DEF IInv, BatchTypes
  <2> QED
      BY <2>1, <2>2 DEF ResumeAt, storage, Exact, Behind, Ahead, Covered, Working
<1> QED
    BY <1>2, <1>3, <1>4 DEF IInv

LEMMA RestartInv == ASSUME IInv, Restart PROVE IInv'
<1>1. ResumeAt(saved) /\ crashes' = crashes /\ failures' = failures
    BY DEF Restart, Found, trouble
<1>2. failures' \in 0..MaxFailures
    BY <1>1 DEF IInv, BatchTypes
<1> QED
    BY <1>1, <1>2, ResumeAtInv

LEMMA RestartUnreadInv == ASSUME IInv, RestartUnread PROVE IInv'
<1>1. job \in Jobs
    BY DEF IInv, BatchTypes
<1>2. ResumeAt(0) /\ crashes' = crashes /\ job.faulty
    BY DEF RestartUnread
<1>3. failures' \in 0..MaxFailures
    BY <1>1, JobShape DEF IInv, BatchTypes, RestartUnread
<1> QED
    BY <1>2, <1>3, ResumeAtInv

LEMMA PostRowInv == ASSUME IInv, PostRow PROVE IInv'
<1>1. job \in Jobs /\ Rows \in Nat /\ job.limit \in Nat /\ row \in 0..Rows /\ taken \in 0..job.limit
    BY JobShape DEF IInv, BatchTypes
<1>2. /\ row' = row + 1 /\ row' \in 1..Rows /\ unit' = unit \union {row'}
      /\ pc = "loop" /\ pc' = "count" /\ taken' \in 0..job.limit
      /\ UNCHANGED <<job, saved, point, counter, crashes, failures>>
    BY <1>1 DEF PostRow, trouble
<1>3. posted' \in [1..Rows -> Nat]
    BY <1>2 DEF IInv, BatchTypes, PostRow, Post
<1>4. BatchTypes'
    BY <1>2, <1>3 DEF IInv, BatchTypes
<1>5. Reversible'
  <2>1. SUFFICES ASSUME ~ job.commitsSql, NEW r \in unit' PROVE posted'[r] > 0
      BY <1>2 DEF Reversible
  <2>2. posted' = Post({row'}) /\ r \in 1..Rows
      BY <2>1, <1>4 DEF PostRow, BatchTypes
  <2>3. posted'[r] = posted[r] + (IF r \in {row'} THEN 1 ELSE 0) /\ posted[r] \in Nat
      BY <2>2 DEF Post, IInv, BatchTypes
  <2>4. r \in unit => posted[r] > 0
      BY <2>1 DEF IInv, Reversible
  <2> QED
      BY <1>2, <2>1, <2>3, <2>4
<1>6. ASSUME Sure(job)' PROVE Exact'
  <2>1. Exact /\ posted' = posted
      BY <1>2, <1>6 DEF IInv, Sure, PostRow
  <2>2. saved \in Int
      BY <1>1 DEF IInv, BatchTypes
  <2>3. Behind'
      BY <1>2, <2>1 DEF Exact, Behind
  <2>4. posted[row'] = 0
    <3>1. posted[row'] \in Nat /\ posted[row'] <= 1 /\ (posted[row'] = 1 => row' <= saved)
        BY <1>2, <2>1 DEF IInv, BatchTypes, Exact, Behind
    <3>2. saved <= row
        BY <1>2, <2>1 DEF Exact, Ahead, Working
    <3> QED
        BY <1>1, <1>2, <2>2, <3>1, <3>2
  <2>5. Ahead'
    <3>1. saved <= row /\ \A r \in unit : r <= row /\ posted[r] = 0
        BY <1>2, <2>1 DEF Exact, Ahead, Working
    <3>2. saved <= row'
        BY <1>1, <1>2, <2>2, <3>1
    <3>3. \A r \in unit' : r <= row' /\ posted[r] = 0
      <4>1. unit \subseteq 1..Rows
          BY DEF IInv, BatchTypes
      <4> QED
          BY <1>1, <1>2, <2>4, <3>1, <4>1
    <3> QED
        BY <1>2, <2>1, <3>2, <3>3 DEF Ahead
  <2>6. crashes = 0 => Covered'
    <3>1. SUFFICES ASSUME crashes = 0 PROVE Covered'
        OBVIOUS
    <3>2. \A r \in 1..row : posted[r] = 1 \/ r \in unit
        BY <1>2, <2>1, <3>1 DEF Exact, Covered, Working
    <3>3. \A r \in 1..row' : posted[r] = 1 \/ r \in unit'
        BY <1>1, <1>2, <3>2
    <3> QED
        BY <1>2, <2>1, <3>1, <3>3 DEF Exact, Covered
  <2> QED
      BY <1>2, <2>3, <2>5, <2>6 DEF Exact
<1> QED
    BY <1>4, <1>5, <1>6 DEF IInv

LEMMA CountInv == ASSUME IInv, Count PROVE IInv'
<1>1. job \in Jobs /\ job.every \in Nat /\ row \in 0..Rows /\ counter \in 0..job.every - 1
    BY JobShape DEF IInv, BatchTypes
<1>2. /\ UNCHANGED <<job, saved, posted, row, taken, unit, crashes, failures>>
      /\ pc = "count" /\ pc' \in {"write", "loop"} /\ point' = row
      /\ counter' \in 0..job.every - 1
    BY <1>1 DEF Count, Due, storage, trouble
<1>3. BatchTypes'
    BY <1>1, <1>2 DEF IInv, BatchTypes
<1>4. Reversible'
    BY <1>2 DEF IInv, Reversible
<1>5. ASSUME Sure(job)' PROVE Exact'
  <2>1. Exact
      BY <1>2, <1>5 DEF IInv, Sure
  <2> QED
      BY <1>2, <2>1 DEF Exact, Behind, Ahead, Covered, Working
<1> QED
    BY <1>3, <1>4, <1>5 DEF IInv

LEMMA WritePositionInv == ASSUME IInv, WritePosition PROVE IInv'
<1>1. /\ UNCHANGED <<job, posted, point, row, taken, counter, unit, crashes, failures>>
      /\ pc = "write" /\ pc' = AfterWrite /\ saved' = point
    BY DEF WritePosition, program, trouble
<1>2. BatchTypes'
    BY <1>1 DEF IInv, BatchTypes, AfterWrite
<1>3. Reversible'
    BY <1>1 DEF IInv, Reversible
<1>4. ASSUME Sure(job)' PROVE Exact'
  <2>1. Exact /\ pc' = "commit"
      BY <1>1, <1>4 DEF IInv, Sure, AfterWrite
  <2>2. point = row /\ saved <= row /\ row \in 0..Rows /\ saved \in 0..Rows
      BY <1>1, <2>1 DEF Exact, Ahead, Working, IInv, BatchTypes
  <2>3. Rows \in Nat
      BY JobShape DEF IInv, BatchTypes
  <2>4. Behind'
      BY <1>1, <2>1, <2>2, <2>3 DEF Exact, Behind
  <2>5. Ahead'
      BY <1>1, <2>1, <2>2 DEF Exact, Ahead, Working
  <2>6. crashes = 0 => Covered'
      BY <1>1, <2>1, <2>2 DEF Exact, Covered, Working
  <2> QED
      BY <1>1, <2>4, <2>5, <2>6 DEF Exact
<1> QED
    BY <1>2, <1>3, <1>4 DEF IInv

LEMMA WriteLostInv == ASSUME IInv, WriteLost PROVE IInv'
<1>1. /\ UNCHANGED <<job, saved, posted, point, row, taken, counter, unit, crashes>>
      /\ pc' \in {"commit", "loop"} /\ job.faulty
      /\ failures' = failures + 1 /\ failures < MaxFailures
    BY DEF WriteLost, AfterWrite, storage, program
<1>2. failures' \in 0..MaxFailures
    BY <1>1, JobShape DEF IInv, BatchTypes
<1>3. BatchTypes'
    BY <1>1, <1>2 DEF IInv, BatchTypes
<1>4. Reversible'
    BY <1>1 DEF IInv, Reversible
<1>5. ~ Sure(job)'
    BY <1>1 DEF Sure
<1> QED
    BY <1>3, <1>4, <1>5 DEF IInv

(* Making a unit of work durable. *)
LEMMA Posted ==
    ASSUME BatchTypes
    PROVE  /\ Post(unit) \in [1..Rows -> Nat]
           /\ \A r \in 1..Rows : Post(unit)[r] = IF r \in unit THEN posted[r] + 1 ELSE posted[r]
BY DEF BatchTypes, Post

LEMMA CommitInv == ASSUME IInv, Commit PROVE IInv'
<1>1. /\ UNCHANGED <<job, saved, point, row, taken, counter, crashes, failures>>
      /\ pc = "commit" /\ pc' = "loop" /\ posted' = Post(unit) /\ unit' = {}
    BY DEF Commit, program, trouble
<1>2. BatchTypes'
    BY <1>1, Posted DEF IInv, BatchTypes
<1>3. Reversible'
    BY <1>1 DEF Reversible
<1>4. ASSUME Sure(job)' PROVE Exact'
  <2>1. Exact
      BY <1>1, <1>4 DEF IInv, Sure
  <2>2. /\ saved = row /\ \A r \in unit : r <= row /\ posted[r] = 0
        /\ saved \in 0..Rows /\ Rows \in Nat
      BY <1>1, <2>1, JobShape DEF Exact, Ahead, Working, IInv, BatchTypes
  <2>3. \A r \in 1..Rows : posted'[r] = IF r \in unit THEN posted[r] + 1 ELSE posted[r]
      BY <1>1, Posted DEF IInv
  <2>4. \A r \in unit : r \in 1..Rows /\ posted'[r] = 1
      BY <2>2, <2>3 DEF IInv, BatchTypes
  <2>5. Behind'
      BY <1>1, <2>1, <2>2, <2>3, <2>4 DEF Exact, Behind
  <2>6. Ahead'
      BY <1>1, <2>2 DEF Ahead
  <2>7. crashes = 0 => Covered'
    <3>1. SUFFICES ASSUME crashes = 0 PROVE Covered'
        OBVIOUS
    <3>2. \A r \in 1..row : posted[r] = 1 \/ r \in unit
        BY <1>1, <2>1, <3>1 DEF Exact, Covered, Working
    <3>3. \A r \in 1..row : posted'[r] = 1
        BY <2>2, <2>3, <2>4, <3>2
    <3> QED
        BY <1>1, <2>2, <3>3 DEF Covered
  <2> QED
      BY <1>1, <2>5, <2>6, <2>7 DEF Exact
<1> QED
    BY <1>2, <1>3, <1>4 DEF IInv

LEMMA LoopEndsInv == ASSUME IInv, LoopEnds PROVE IInv'
<1>1. /\ UNCHANGED <<job, saved, posted, point, row, taken, counter, unit, crashes, failures>>
      /\ pc = "loop" /\ pc' = "end" /\ row = Rows
    BY DEF LoopEnds, storage, program, trouble
<1>2. BatchTypes'
    BY <1>1 DEF IInv, BatchTypes
<1>3. Reversible'
    BY <1>1 DEF IInv, Reversible
<1>4. ASSUME Sure(job)' PROVE Exact'
  <2>1. Exact
      BY <1>1, <1>4 DEF IInv, Sure
  <2> QED
      BY <1>1, <2>1 DEF Exact, Behind, Ahead, Covered, Working
<1> QED
    BY <1>2, <1>3, <1>4 DEF IInv

LEMMA AbendInv ==
    ASSUME IInv, Abend, pc \in {"loop", "count", "end"},
           crashes' = crashes, failures' \in 0..MaxFailures
    PROVE  IInv'
<1>1. /\ UNCHANGED <<job, saved, point, row, taken, counter>>
      /\ pc' = "failed" /\ unit' = {} /\ posted' = RolledBack
    BY DEF Abend, program
<1>2. posted' \in [1..Rows -> Nat]
  <2>1. job.commitsSql \/ \A r \in unit : posted[r] > 0
      BY DEF IInv, Reversible
  <2>2. ~ job.commitsSql => Unpost(unit) \in [1..Rows -> Nat]
      BY <2>1 DEF IInv, BatchTypes, Unpost
  <2>3. posted \in [1..Rows -> Nat] /\ Post(unit) \in [1..Rows -> Nat]
      BY Posted DEF IInv, BatchTypes
  <2> QED
      BY <1>1, <2>2, <2>3 DEF RolledBack, Reversed, LeftStanding
<1>3. BatchTypes'
    BY <1>1, <1>2 DEF IInv, BatchTypes
<1>4. Reversible'
    BY <1>1 DEF Reversible
<1>5. ASSUME Sure(job)' PROVE Exact'
  <2>1. Exact /\ posted' = posted
      BY <1>1, <1>5 DEF IInv, Sure, RolledBack, Reversed
  <2> QED
      BY <1>1, <2>1 DEF Exact, Behind, Ahead, Covered, Working
<1> QED
    BY <1>3, <1>4, <1>5 DEF IInv

LEMMA LoopExhaustedInv == ASSUME IInv, LoopExhausted PROVE IInv'
BY AbendInv DEF LoopExhausted, trouble, IInv, BatchTypes

LEMMA RaiseInv == ASSUME IInv, Raise PROVE IInv'
<1>1. failures' \in 0..MaxFailures
    BY JobShape DEF Raise, IInv, BatchTypes
<1> QED
    BY <1>1, AbendInv DEF Raise

LEMMA EndInv == ASSUME IInv, End PROVE IInv'
<1>1. /\ UNCHANGED <<job, saved, point, row, taken, counter, crashes, failures>>
      /\ pc = "end" /\ pc' = "done" /\ unit' = {} /\ posted' = LeftStanding
    BY DEF End, program, trouble
<1>2. posted' \in [1..Rows -> Nat]
    BY <1>1, Posted DEF IInv, BatchTypes, LeftStanding
<1>3. BatchTypes'
    BY <1>1, <1>2 DEF IInv, BatchTypes
<1>4. Reversible'
    BY <1>1 DEF Reversible
<1>5. ASSUME Sure(job)' PROVE Exact'
  <2>1. Exact /\ posted' = Post(unit)
      BY <1>1, <1>5 DEF IInv, Sure, LeftStanding
  <2>2. \A r \in 1..Rows : posted'[r] = IF r \in unit THEN posted[r] + 1 ELSE posted[r]
      BY <2>1, Posted DEF IInv
  <2>3. row = Rows /\ \A r \in unit : posted[r] = 0
      BY <1>1, <2>1 DEF Exact, Ahead, Working
  <2>4. Behind'
      BY <1>1, <2>1, <2>2, <2>3 DEF Exact, Behind
  <2>5. Ahead'
      BY <1>1 DEF Ahead, Working
  <2>6. crashes = 0 => Covered'
      BY <1>1, <2>1, <2>2, <2>3 DEF Exact, Covered, Working
  <2> QED
      BY <1>1, <2>4, <2>5, <2>6 DEF Exact
<1> QED
    BY <1>3, <1>4, <1>5 DEF IInv

(* What a crash leaves is behind the position, but not all of it. *)
LEMMA CrashInv == ASSUME IInv, Crash PROVE IInv'
<1>1. /\ UNCHANGED <<job, saved, posted, point, row, taken, counter, failures>>
      /\ Running /\ pc' = "dead" /\ unit' = {} /\ crashes' = crashes + 1 /\ crashes < MaxCrashes
    BY DEF Crash, storage, program
<1>2. crashes' \in 0..MaxCrashes /\ crashes' # 0
    BY <1>1, JobShape DEF IInv, BatchTypes
<1>3. BatchTypes'
    BY <1>1, <1>2 DEF IInv, BatchTypes
<1>4. Reversible'
    BY <1>1 DEF Reversible
<1>5. ASSUME Sure(job)' PROVE Exact'
  <2>1. Exact
      BY <1>1, <1>5 DEF IInv, Sure
  <2> QED
      BY <1>1, <1>2, <2>1 DEF Exact, Behind, Ahead, Working, Running
<1> QED
    BY <1>3, <1>4, <1>5 DEF IInv

LEMMA RerunInv == ASSUME IInv, Rerun PROVE IInv'
<1>1. /\ UNCHANGED <<job, saved, posted, point, row, taken, counter, unit, crashes, failures>>
      /\ pc \in {"dead", "failed"} /\ pc' = "restart"
    BY DEF Rerun, storage, program, trouble
<1>2. BatchTypes'
    BY <1>1 DEF IInv, BatchTypes
<1>3. Reversible'
    BY <1>1 DEF IInv, Reversible
<1>4. ASSUME Sure(job)' PROVE Exact'
  <2>1. Exact
      BY <1>1, <1>4 DEF IInv, Sure
  <2> QED
      BY <1>1, <2>1 DEF Exact, Behind, Ahead, Covered, Working
<1> QED
    BY <1>2, <1>3, <1>4 DEF IInv

LEMMA StutterInv == ASSUME IInv, UNCHANGED batchVars PROVE IInv'
<1>1. BatchTypes' /\ Reversible' /\ (Sure(job)' <=> Sure(job))
    BY DEF batchVars, IInv, BatchTypes, Reversible, Sure
<1>2. Exact => Exact'
    BY DEF batchVars, Exact, Behind, Ahead, Covered, Working
<1> QED
    BY <1>1, <1>2 DEF IInv

LEMMA NextInv == IInv /\ [BatchNext]_batchVars => IInv'
BY RestartInv, PostRowInv, CountInv, WritePositionInv, CommitInv, LoopEndsInv,
   LoopExhaustedInv, EndInv, RerunInv, RestartUnreadInv, WriteLostInv, RaiseInv,
   CrashInv, StutterInv DEF BatchNext, Step

LEMMA Inductive == BatchSpec => []IInv
BY InitInv, NextInv, PTL DEF BatchSpec

-----------------------------------------------------------------------------
(* The counters stay within the interval and the bound, the position names *)
(* a row, and ROLLBK never takes back a posting that is not there.         *)
THEOREM BatchTypeOK == BatchSpec => []BatchTypes
<1>1. IInv => BatchTypes
    BY DEF IInv
<1> QED
    BY <1>1, Inductive, PTL

(* However often a job dies or fails, a rerun posts no row again: what is  *)
(* durable is never beyond the position the rerun starts from.             *)
THEOREM BatchNothingTwice == BatchSpec => []NothingTwice
<1>1. IInv => NothingTwice
    BY DEF IInv, Exact, Behind, NothingTwice
<1> QED
    BY <1>1, Inductive, PTL

(* A job that failed any number of times, and was rerun each time, but did *)
(* not die between its position and its commit, has posted every row once. *)
THEOREM BatchFailuresLoseNothing == BatchSpec => []FailuresLoseNothing
<1>1. IInv => FailuresLoseNothing
    BY DEF IInv, Exact, Covered, FailuresLoseNothing
<1> QED
    BY <1>1, Inductive, PTL
-----------------------------------------------------------------------------
(***************************************************************************)
(* What a crash can cost at most, for every interval, bound and number of  *)
(* rows, crashes and failures: one interval of rows that are never posted, *)
(* where a checkpoint commits after it wrote its position, or one interval *)
(* posted again, where postings stand as soon as they are made.            *)
(*                                                                         *)
(* Both count with the same invariant, Apart: the rows a run has taken     *)
(* since its position are at most an interval, and they are the open unit  *)
(* of work.                                                                *)
(***************************************************************************)

Steady(j) == j.wrapped /\ ~ j.faulty

(* How many rows a run may be ahead of its position. *)
Since == IF pc = "count" THEN counter + 1 ELSE IF pc = "write" THEN job.every ELSE counter

Apart ==
    /\ Working => /\ saved <= row
                  /\ row - saved <= Since
                  /\ unit \subseteq 1..row
    /\ pc = "write" => point = row
    /\ pc = "commit" => job.commitsSql /\ saved = row /\ Cardinality(unit) <= job.every
    /\ Working /\ pc # "commit" =>
          IF job.commitsSql THEN unit = saved + 1..row ELSE saved + 1..row \subseteq unit
    /\ ~ Working => unit = {}

-----------------------------------------------------------------------------
LEMMA Numbers ==
    ASSUME IInv
    PROVE  /\ job \in Jobs
           /\ job.every \in Nat /\ job.every > 0 /\ Rows \in Nat
           /\ row \in 0..Rows /\ saved \in 0..Rows /\ point \in 0..Rows
           /\ counter \in 0..job.every - 1
           /\ unit \subseteq 1..Rows
           /\ posted \in [1..Rows -> Nat]
           /\ crashes \in Nat
           /\ pc \in {"restart", "loop", "count", "write", "commit", "end", "dead", "failed", "done"}
BY JobShape DEF IInv, BatchTypes

LEMMA RunApart ==
    ASSUME IInv, Apart, Restart \/ PostRow \/ Count \/ LoopEnds
    PROVE  Apart'
<1> USE Numbers
<1>1. CASE Restart
    BY <1>1 DEF Restart, ResumeAt, Found, storage, Apart, Working, Since
<1>2. CASE PostRow
  <2>1. /\ row' = row + 1 /\ unit' = unit \union {row + 1} /\ pc = "loop" /\ pc' = "count"
        /\ UNCHANGED <<job, saved, point, counter>>
      BY <1>2 DEF PostRow
  <2>2. /\ saved <= row /\ row - saved <= counter /\ unit \subseteq 1..row
        /\ IF job.commitsSql THEN unit = saved + 1..row ELSE saved + 1..row \subseteq unit
      BY <2>1 DEF Apart, Working, Since
  <2>3. saved + 1..row' = (saved + 1..row) \union {row'}
      BY <2>1, <2>2
  <2>4. IF job.commitsSql THEN unit' = saved + 1..row' ELSE saved + 1..row' \subseteq unit'
      BY <2>1, <2>2, <2>3
  <2>5. unit' \subseteq 1..row'
    <3>1. row \in Nat /\ 1..row \subseteq 1..row + 1 /\ row + 1 \in 1..row + 1
        OBVIOUS
    <3> QED
        BY <2>1, <2>2, <3>1
  <2> QED
      BY <2>1, <2>2, <2>4, <2>5 DEF Apart, Working, Since
<1>3. CASE Count
    BY <1>3 DEF Count, Due, storage, Apart, Working, Since
<1>4. CASE LoopEnds
    BY <1>4 DEF LoopEnds, storage, program, Apart, Working, Since
<1> QED
    BY <1>1, <1>2, <1>3, <1>4

LEMMA CheckpointApart ==
    ASSUME IInv, Apart, Steady(job), WritePosition \/ Commit
    PROVE  Apart'
<1> USE Numbers
<1>1. CASE WritePosition
  <2>1. /\ UNCHANGED <<job, row, counter, unit>> /\ point' = row /\ saved' = row
        /\ pc = "write" /\ pc' = IF job.commitsSql THEN "commit" ELSE "loop"
        /\ saved <= row /\ row - saved <= job.every
        /\ unit \subseteq 1..row /\ (job.commitsSql => unit = saved + 1..row)
      BY <1>1 DEF WritePosition, AfterWrite, program, Apart, Working, Since
  <2>2. ASSUME job.commitsSql PROVE Cardinality(unit) <= job.every
    <3>1. Cardinality(saved + 1..row)
             = IF saved + 1 > row THEN 0 ELSE row - (saved + 1) + 1
      <4>1. saved + 1 \in Int /\ row \in Int
          OBVIOUS
      <4> QED
          BY <4>1, FS_Interval
    <3> QED
        BY <2>1, <2>2, <3>1
  <2> QED
      BY <2>1, <2>2 DEF Apart, Working, Since
<1>2. CASE Commit
  <2>1. /\ UNCHANGED <<job, saved, point, row, counter>> /\ unit' = {}
        /\ pc = "commit" /\ pc' = "loop" /\ saved = row
      BY <1>2 DEF Commit, program, Apart
  <2> QED
      BY <2>1 DEF Apart, Working, Since
<1> QED
    BY <1>1, <1>2

LEMMA EndApart ==
    ASSUME IInv, Apart, LoopExhausted \/ Raise \/ End \/ Crash \/ Rerun
    PROVE  Apart'
<1>1. CASE LoopExhausted \/ Raise
    BY <1>1 DEF LoopExhausted, Raise, Abend, Apart, Working
<1>2. CASE End \/ Crash
    BY <1>2 DEF End, Crash, Apart, Working
<1>3. CASE Rerun
    BY <1>3 DEF Rerun, program, Apart, Working
<1> QED
    BY <1>1, <1>2, <1>3

LEMMA SteadyStep ==
    ASSUME Steady(job), [BatchNext]_batchVars
    PROVE  Step \/ Raise \/ Crash \/ UNCHANGED batchVars
BY DEF Steady, BatchNext, RestartUnread, WriteLost

LEMMA ApartStep ==
    ASSUME IInv, Steady(job), Apart, [BatchNext]_batchVars
    PROVE  Apart'
<1>1. CASE UNCHANGED batchVars
    BY <1>1 DEF batchVars, Apart, Working, Since
<1> QED
    BY <1>1, SteadyStep, RunApart, CheckpointApart, EndApart DEF Step

-----------------------------------------------------------------------------
(* Losses: the rows behind the position that are neither durable nor still *)
(* in the open unit of work.                                               *)
Lost == Skipped \ unit
Few  == Cardinality(Lost) <= job.every * crashes

LEMMA SkippedFinite ==
    ASSUME IInv
    PROVE  /\ IsFiniteSet(Skipped) /\ IsFiniteSet(Lost) /\ IsFiniteSet(unit)
           /\ Cardinality(Skipped) \in Nat /\ Cardinality(Lost) \in Nat
           /\ Cardinality(unit) \in Nat
<1>1. IsFiniteSet(1..saved) /\ IsFiniteSet(1..Rows)
    BY Numbers, FS_Interval
<1>2. Skipped \in SUBSET (1..saved) /\ Lost \in SUBSET Skipped /\ unit \in SUBSET (1..Rows)
    BY Numbers DEF Skipped, Lost
<1>3. IsFiniteSet(Skipped) /\ IsFiniteSet(unit)
    BY <1>1, <1>2, FS_Subset
<1>4. IsFiniteSet(Lost)
    BY <1>2, <1>3, FS_Subset
<1> QED
    BY <1>3, <1>4, FS_CardinalityType

(* Short of a crash nothing is lost. *)
LEMMA LostShrinks ==
    ASSUME IInv, Few, Lost' \subseteq Lost, job' = job, crashes' = crashes
    PROVE  Few'
<1>1. Lost' \in SUBSET Lost
    OBVIOUS
<1>2. Cardinality(Lost') <= Cardinality(Lost)
    BY <1>1, SkippedFinite, FS_Subset
<1>3. IsFiniteSet(Lost')
    BY <1>1, SkippedFinite, FS_Subset
<1>4. Cardinality(Lost') \in Nat
    BY <1>3, FS_CardinalityType
<1> QED
    BY <1>2, <1>4, SkippedFinite, Numbers DEF Few

(* A unit of work is lost only between its position and its commit.        *)
LEMMA UnitAhead ==
    ASSUME IInv, Sure(job), Apart, pc # "commit"
    PROVE  Lost = Skipped
<1>1. \A r \in unit : r > saved
    BY Numbers DEF Apart, Working, Sure
<1> QED
    BY <1>1, Numbers DEF Lost, Skipped

(* A crash adds at most the unit of work. *)
LEMMA CrashFew ==
    ASSUME IInv, Sure(job), Apart, Few, Crash
    PROVE  Few'
<1>1. job' = job /\ crashes' = crashes + 1 /\ Lost' = Skipped
    BY DEF Crash, storage, Lost, Skipped
<1>2. Cardinality(Skipped) <= Cardinality(Lost) + job.every
  <2>1. CASE pc # "commit"
      BY <2>1, UnitAhead, SkippedFinite, Numbers
  <2>2. CASE pc = "commit"
    <3>1. Skipped \in SUBSET (Lost \union unit)
        BY DEF Lost
    <3>2. IsFiniteSet(Lost \union unit)
          /\ Cardinality(Lost \union unit) = Cardinality(Lost) + Cardinality(unit) - Cardinality(Lost \cap unit)
        BY SkippedFinite, FS_Union
    <3>3. Lost \cap unit = {}
        BY DEF Lost
    <3>4. Cardinality(Skipped) <= Cardinality(Lost \union unit)
        BY <3>1, <3>2, FS_Subset
    <3>5. Cardinality(Lost \cap unit) = 0
        BY <3>3, FS_EmptySet
    <3> HIDE DEF Lost, Skipped
    <3> QED
      <4> DEFINE l == Cardinality(Lost)
                 u == Cardinality(unit)
                 c == Cardinality(Lost \union unit)
                 k == Cardinality(Skipped)
      <4>1. l \in Nat /\ u \in Nat /\ k \in Nat /\ u <= job.every /\ job.every \in Nat
          BY <2>2, SkippedFinite, Numbers DEF Apart
      <4>2. c = l + u /\ k <= c
          BY <3>2, <3>4, <3>5, <4>1
      <4> HIDE DEF l, u, c, k
      <4>3. k <= l + job.every
          BY <4>1, <4>2
      <4> QED
          BY <4>3 DEF k, l
  <2> QED
      BY <2>1, <2>2
<1>3. /\ job.every * (crashes + 1) = job.every * crashes + job.every
      /\ job.every * crashes \in Int /\ job.every \in Int
  <2>1. job.every \in Nat /\ crashes \in Nat
      BY Numbers
  <2> DEFINE e == job.every
  <2> HIDE DEF e
  <2>2. e * (crashes + 1) = e * crashes + e /\ e * crashes \in Int
      BY <2>1 DEF e
  <2> QED
      BY <2>1, <2>2 DEF e
<1>5. Cardinality(Lost) <= job.every * crashes
    BY DEF Few
<1>6. Cardinality(Skipped) <= job.every * crashes + job.every
    BY <1>2, <1>3, <1>5, SkippedFinite
<1>7. Cardinality(Skipped) <= job.every * (crashes + 1)
    BY <1>3, <1>6
<1> QED
    BY <1>1, <1>7 DEF Few

LEMMA FewStep ==
    ASSUME IInv, Sure(job), Apart, Few, [BatchNext]_batchVars
    PROVE  Few'
<1> USE Numbers
<1>1. Step \/ Raise \/ Crash \/ UNCHANGED batchVars
    BY SteadyStep DEF Sure, Steady
<1>2. CASE Restart \/ Rerun \/ LoopEnds \/ Count \/ UNCHANGED batchVars
  <2>1. Skipped' = Skipped /\ job' = job /\ crashes' = crashes
      BY <1>2 DEF Restart, ResumeAt, Rerun, LoopEnds, Count, storage, trouble, batchVars, Skipped
  <2>2. unit' = unit \/ pc = "restart"
      BY <1>2 DEF Restart, ResumeAt, Rerun, LoopEnds, Count, batchVars
  <2>3. Lost' \subseteq Lost
      BY <2>1, <2>2 DEF Lost, Apart, Working
  <2> QED
      BY <2>1, <2>3, LostShrinks
<1>3. CASE PostRow
  <2>1. Lost' \subseteq Lost /\ job' = job /\ crashes' = crashes
      BY <1>3 DEF PostRow, Sure, Lost, Skipped, trouble
  <2> QED
      BY <2>1, LostShrinks
<1>4. CASE WritePosition
  <2>1. /\ UNCHANGED <<job, posted, unit, crashes>> /\ saved' = row
        /\ unit = saved + 1..row /\ saved <= row
      BY <1>4 DEF WritePosition, program, trouble, Apart, Working, Sure
  <2>2. Lost' \subseteq Lost
      BY <2>1 DEF Lost, Skipped
  <2> QED
      BY <2>1, <2>2, LostShrinks
<1>5. CASE Commit \/ End
  <2>1. /\ UNCHANGED <<job, saved, crashes>> /\ unit' = {} /\ posted' = Post(unit)
      BY <1>5 DEF Commit, End, LeftStanding, Sure, trouble, program
  <2>2. \A r \in 1..Rows : posted'[r] = IF r \in unit THEN posted[r] + 1 ELSE posted[r]
      BY <2>1, Posted DEF IInv
  <2>3. Lost' \subseteq Lost
      BY <2>1, <2>2 DEF Lost, Skipped
  <2> QED
      BY <2>1, <2>3, LostShrinks
<1>6. CASE LoopExhausted \/ Raise
  <2>1. /\ UNCHANGED <<job, saved, posted, crashes>> /\ unit' = {} /\ pc # "commit"
      BY <1>6 DEF LoopExhausted, Raise, Abend, RolledBack, Reversed, Sure, program, trouble
  <2>2. Lost' \subseteq Lost
      BY <2>1, UnitAhead DEF Lost, Skipped
  <2> QED
      BY <2>1, <2>2, LostShrinks
<1> QED
    BY <1>1, <1>2, <1>3, <1>4, <1>5, <1>6, CrashFew DEF Step

-----------------------------------------------------------------------------
(* Rework, without SQL: the postings that stand beside a first one, and    *)
(* those of rows the run, or the next one, has still to come to.           *)
Upto == IF pc \in {"restart", "dead", "failed"} THEN saved ELSE row

Counts(standing, upto, r, k) == 1 <= k /\ k <= standing[r] /\ (k >= 2 \/ r > upto)
Pairs(standing, upto) == {p \in (1..Rows) \X Nat : Counts(standing, upto, p[1], p[2])}

Repeated == Pairs(posted, Upto)

Bounded == IsFiniteSet(Repeated) /\ Cardinality(Repeated) <= job.every * crashes

(* What a step does to the postings of a row is to shift them. *)
LEMMA ShiftedPairs ==
    ASSUME NEW old, NEW new, NEW from, NEW to, NEW shift \in [1..Rows -> Int],
           IsFiniteSet(Pairs(old, from)),
           \A r \in 1..Rows, k \in Nat :
              Counts(new, to, r, k) => /\ k + shift[r] \in Nat
                                       /\ Counts(old, from, r, k + shift[r])
    PROVE  /\ IsFiniteSet(Pairs(new, to))
           /\ Cardinality(Pairs(new, to)) <= Cardinality(Pairs(old, from))
<1> DEFINE f == [p \in Pairs(new, to) |-> <<p[1], p[2] + shift[p[1]]>>]
<1>1. ASSUME NEW p \in Pairs(new, to)
      PROVE  /\ p[1] \in 1..Rows /\ p[2] \in Nat /\ p = <<p[1], p[2]>>
             /\ shift[p[1]] \in Int
             /\ Counts(new, to, p[1], p[2])
    BY DEF Pairs
<1>2. ASSUME NEW p \in Pairs(new, to)
      PROVE  f[p] \in Pairs(old, from)
  <2>1. p[1] \in 1..Rows /\ p[2] \in Nat /\ Counts(new, to, p[1], p[2])
      BY <1>1
  <2>2. p[2] + shift[p[1]] \in Nat /\ Counts(old, from, p[1], p[2] + shift[p[1]])
      BY <2>1
  <2> QED
      BY <2>1, <2>2 DEF Pairs
<1>3. ASSUME NEW p \in Pairs(new, to), NEW q \in Pairs(new, to), f[p] = f[q]
      PROVE  p = q
  <2>1. <<p[1], p[2] + shift[p[1]]>> = <<q[1], q[2] + shift[q[1]]>>
      BY <1>3
  <2>2. p[1] = q[1] /\ p[2] + shift[p[1]] = q[2] + shift[q[1]]
      BY <2>1
  <2>3. /\ p[2] \in Nat /\ p = <<p[1], p[2]>> /\ shift[p[1]] \in Int
        /\ q[2] \in Nat /\ q = <<q[1], q[2]>>
      BY <1>1
  <2>4. shift[p[1]] = shift[q[1]]
      BY <2>2
  <2>5. p[2] = q[2]
    <3> HIDE DEF f
    <3> QED
        BY <2>2, <2>3, <2>4
  <2> QED
      BY <2>2, <2>3, <2>5
<1>4. f \in Injection(Pairs(new, to), Pairs(old, from))
    BY <1>2, <1>3 DEF Injection, IsInjective
<1> QED
    BY <1>4, FS_Injection

(* Without a crash, then, no posting becomes repeated. *)
LEMMA RepeatedShifted ==
    ASSUME IInv, Bounded, job' = job, crashes' = crashes, NEW shift \in [1..Rows -> Int],
           \A r \in 1..Rows, k \in Nat :
              Counts(posted', Upto', r, k) => /\ k + shift[r] \in Nat
                                              /\ Counts(posted, Upto, r, k + shift[r])
    PROVE  Bounded'
<1>1. IsFiniteSet(Repeated') /\ Cardinality(Repeated') <= Cardinality(Repeated)
    BY ShiftedPairs DEF Bounded, Repeated
<1>2. Cardinality(Repeated') \in Nat /\ Cardinality(Repeated) \in Nat
    BY <1>1, FS_CardinalityType DEF Bounded
<1>3. job.every * crashes \in Int
    BY Numbers
<1> QED
    BY <1>1, <1>2, <1>3 DEF Bounded

LEMMA RepeatedKept ==
    ASSUME IInv, Bounded, UNCHANGED <<job, crashes, posted>>, Upto' = Upto
    PROVE  Bounded'
BY DEF Bounded, Repeated, Pairs, Counts

(* Posting a row: its earlier postings were waiting for it. *)
LEMMA PostBounded ==
    ASSUME IInv, Bounded, ~ job.commitsSql, PostRow
    PROVE  Bounded'
<1>1. /\ row' = row + 1 /\ Upto = row /\ Upto' = row + 1
      /\ UNCHANGED <<job, crashes>> /\ posted' = Post({row + 1})
    BY DEF PostRow, trouble, Upto
<1>2. row \in Nat /\ Rows \in Nat /\ posted \in [1..Rows -> Nat]
    BY Numbers
<1>3. ASSUME NEW r \in 1..Rows
      PROVE  posted'[r] = IF r = row + 1 THEN posted[r] + 1 ELSE posted[r]
    BY <1>1, <1>2 DEF Post
<1> DEFINE shift == [r \in 1..Rows |-> IF r = row + 1 THEN -1 ELSE 0]
<1>4. ASSUME NEW r \in 1..Rows, NEW k \in Nat, Counts(posted', Upto', r, k)
      PROVE  k + shift[r] \in Nat /\ Counts(posted, Upto, r, k + shift[r])
  <2>1. posted[r] \in Nat /\ r \in Nat /\ row \in Nat
      BY <1>2
  <2>a. 1 <= k /\ k <= posted'[r] /\ (k >= 2 \/ r > row + 1)
      BY <1>1, <1>4 DEF Counts
  <2>2. CASE r = row + 1
    <3>1. posted'[r] = posted[r] + 1 /\ shift[r] = -1 /\ r > row
        BY <1>3, <2>1, <2>2
    <3>2. k - 1 \in Nat /\ 1 <= k - 1 /\ k - 1 <= posted[r]
        BY <2>1, <2>a, <2>2, <3>1
    <3> QED
        BY <1>1, <3>1, <3>2 DEF Counts
  <2>3. CASE r # row + 1
    <3>1. posted'[r] = posted[r] /\ shift[r] = 0
        BY <1>3, <2>3
    <3>2. 1 <= k /\ k <= posted[r] /\ (k >= 2 \/ r > row)
        BY <2>1, <2>a, <3>1
    <3> QED
        BY <1>1, <3>1, <3>2 DEF Counts
  <2> QED
      BY <2>2, <2>3
<1>5. shift \in [1..Rows -> Int]
    OBVIOUS
<1> HIDE DEF shift
<1> QED
    BY <1>1, <1>4, <1>5, RepeatedShifted

(* ROLLBK: what stands of the unit's rows beyond the position waits for    *)
(* the next run instead of this one's posting.                             *)
LEMMA ReverseBounded ==
    ASSUME IInv, Steady(job), Apart, Bounded, ~ job.commitsSql,
           Abend, pc \in {"loop", "count", "end"}, crashes' = crashes
    PROVE  Bounded'
<1>1. /\ Upto = row /\ Upto' = saved
      /\ UNCHANGED <<job, saved>> /\ posted' = Unpost(unit)
    BY DEF Abend, RolledBack, Reversed, Steady, program, Upto
<1>2. /\ row \in Nat /\ saved \in Nat /\ Rows \in Nat /\ posted \in [1..Rows -> Nat]
      /\ saved <= row
    BY Numbers DEF Apart, Working
<1>3. /\ \A r \in 1..Rows : r > saved /\ r <= row => r \in unit
      /\ \A r \in unit : r <= row
    BY <1>2 DEF Apart, Working
<1>4. ASSUME NEW r \in 1..Rows
      PROVE  posted'[r] = IF r \in unit THEN posted[r] - 1 ELSE posted[r]
    BY <1>1, <1>2 DEF Unpost
<1> DEFINE shift == [r \in 1..Rows |-> IF r \in unit THEN 1 ELSE 0]
<1>5. ASSUME NEW r \in 1..Rows, NEW k \in Nat, Counts(posted', Upto', r, k)
      PROVE  k + shift[r] \in Nat /\ Counts(posted, Upto, r, k + shift[r])
  <2>1. posted[r] \in Nat
      BY <1>2
  <2>2. CASE r \in unit
      BY <1>1, <1>2, <1>4, <1>5, <2>1, <2>2 DEF Counts
  <2>3. CASE r \notin unit
      BY <1>1, <1>2, <1>3, <1>4, <1>5, <2>1, <2>3 DEF Counts
  <2> QED
      BY <2>2, <2>3
<1>6. shift \in [1..Rows -> Int]
    OBVIOUS
<1> HIDE DEF shift
<1> QED
    BY <1>1, <1>5, <1>6, RepeatedShifted

(* A crash leaves the rows since the position to be posted again. *)
LEMMA CrashBounded ==
    ASSUME IInv, Apart, Bounded, Crash
    PROVE  Bounded'
<1> DEFINE Ahead1 == (saved + 1..row) \X {1}
<1>1. /\ job' = job /\ crashes' = crashes + 1 /\ Repeated' = Pairs(posted, saved)
    BY DEF Crash, storage, Repeated, Upto, Pairs, Counts
<1>2. /\ saved \in Nat /\ row \in Nat /\ job.every \in Nat /\ crashes \in Nat
      /\ counter <= job.every - 1 /\ counter \in Nat /\ saved + 1 \in Int
    BY Numbers
<1>3. IsFiniteSet(Ahead1) /\ Cardinality(Ahead1) = Cardinality(saved + 1..row)
  <2>1. /\ IsFiniteSet(saved + 1..row) /\ Cardinality(saved + 1..row) \in Nat
        /\ IsFiniteSet({1}) /\ Cardinality({1}) = 1
    <3>1. IsFiniteSet(saved + 1..row)
        BY <1>2, FS_Interval
    <3>2. Cardinality(saved + 1..row) \in Nat
        BY <3>1, FS_CardinalityType
    <3> QED
        BY <3>1, <3>2, FS_Singleton
  <2>2. IsFiniteSet(Ahead1) /\ Cardinality(Ahead1) = Cardinality(saved + 1..row) * 1
      BY <2>1, FS_Product
  <2> QED
      BY <2>1, <2>2
<1>4. Working => Cardinality(saved + 1..row) <= job.every
  <2>1. SUFFICES ASSUME Working PROVE Cardinality(saved + 1..row) <= job.every
      OBVIOUS
  <2>2. saved <= row /\ row - saved <= job.every
      BY <1>2, <2>1 DEF Apart, Since
  <2>3. Cardinality(saved + 1..row)
           = IF saved + 1 > row THEN 0 ELSE row - (saved + 1) + 1
      BY <1>2, FS_Interval
  <2> QED
      BY <1>2, <2>2, <2>3
<1>5. /\ IsFiniteSet(Repeated') /\ Cardinality(Repeated') <= Cardinality(Repeated) + job.every
  <2>1. IsFiniteSet(Repeated) /\ Cardinality(Repeated) \in Nat
      BY FS_CardinalityType DEF Bounded
  <2>2. CASE pc = "restart"
      BY <1>1, <1>2, <2>1, <2>2 DEF Repeated, Upto
  <2>3. CASE Working
    <3>1. Repeated' \in SUBSET (Repeated \union Ahead1)
      <4>1. ASSUME NEW p \in Repeated' PROVE p \in Repeated \union Ahead1
        <5>1. /\ p \in (1..Rows) \X Nat /\ p[1] \in Int /\ p[2] \in Nat /\ p = <<p[1], p[2]>>
              /\ Counts(posted, saved, p[1], p[2])
            BY <1>1, <4>1 DEF Pairs
        <5>2. CASE p[2] >= 2 \/ p[1] > row
            BY <2>3, <5>1, <5>2 DEF Repeated, Pairs, Counts, Upto, Working
        <5>3. CASE ~ (p[2] >= 2) /\ ~ (p[1] > row)
          <6>1. p[2] = 1 /\ p[1] > saved /\ p[1] <= row
              BY <1>2, <5>1, <5>3 DEF Counts
          <6>2. p[1] \in saved + 1..row
              BY <1>2, <5>1, <6>1
          <6> QED
              BY <5>1, <6>1, <6>2
        <5> QED
            BY <5>2, <5>3
      <4> QED
          BY <4>1
    <3> HIDE DEF Ahead1
    <3>2. /\ IsFiniteSet(Repeated \union Ahead1)
          /\ Cardinality(Repeated \union Ahead1)
               = Cardinality(Repeated) + Cardinality(Ahead1) - Cardinality(Repeated \cap Ahead1)
        BY <1>3, <2>1, FS_Union
    <3>3. IsFiniteSet(Repeated \cap Ahead1) /\ Cardinality(Repeated \cap Ahead1) \in Nat
      <4>1. Repeated \cap Ahead1 \in SUBSET Repeated
          OBVIOUS
      <4>2. IsFiniteSet(Repeated \cap Ahead1)
          BY <2>1, <4>1, FS_Subset
      <4> QED
          BY <4>2, FS_CardinalityType
    <3>4. /\ IsFiniteSet(Repeated') /\ Cardinality(Repeated') <= Cardinality(Repeated \union Ahead1)
        BY <3>1, <3>2, FS_Subset
    <3>5. Cardinality(Ahead1) \in Nat /\ Cardinality(Repeated') \in Nat
        BY <1>3, <3>4, FS_CardinalityType
    <3>6. Cardinality(Ahead1) <= job.every
        BY <1>3, <1>4, <2>3
    <3> QED
        BY <1>2, <2>1, <3>2, <3>3, <3>4, <3>5, <3>6
  <2> QED
      BY <2>2, <2>3, Numbers DEF Crash, Running, Working
<1>6. job.every * (crashes + 1) = job.every * crashes + job.every /\ job.every * crashes \in Int
    BY <1>2
<1>7. Cardinality(Repeated') \in Nat /\ Cardinality(Repeated) \in Nat
    BY <1>5, FS_CardinalityType DEF Bounded
<1>8. Cardinality(Repeated') <= job.every * (crashes + 1)
  <2>1. Cardinality(Repeated) <= job.every * crashes
      BY DEF Bounded
  <2> QED
      BY <1>2, <1>5, <1>6, <1>7, <2>1
<1> QED
    BY <1>1, <1>5, <1>8 DEF Bounded

LEMMA BoundedStep ==
    ASSUME IInv, Steady(job), ~ job.commitsSql, Apart, Bounded, [BatchNext]_batchVars
    PROVE  Bounded'
<1>1. Step \/ Raise \/ Crash \/ UNCHANGED batchVars
    BY SteadyStep
<1>2. CASE Restart \/ Count \/ LoopEnds \/ Rerun \/ End \/ UNCHANGED batchVars
  <2>1. UNCHANGED <<job, crashes, posted>> /\ Upto' = Upto
      BY <1>2 DEF Restart, ResumeAt, Found, Count, LoopEnds, Rerun, End, LeftStanding,
                  storage, program, trouble, batchVars, Upto
  <2> QED
      BY <2>1, RepeatedKept
<1>3. CASE WritePosition
  <2>1. UNCHANGED <<job, crashes, posted>> /\ Upto' = Upto
      BY <1>3 DEF WritePosition, AfterWrite, program, trouble, Upto
  <2> QED
      BY <2>1, RepeatedKept
<1>4. ~ Commit
    BY DEF Commit, Apart
<1>5. CASE LoopExhausted \/ Raise
  <2>1. Abend /\ pc \in {"loop", "count", "end"} /\ crashes' = crashes
      BY <1>5 DEF LoopExhausted, Raise, trouble
  <2> QED
      BY <2>1, ReverseBounded
<1> QED
    BY <1>1, <1>2, <1>3, <1>4, <1>5, PostBounded, CrashBounded DEF Step

-----------------------------------------------------------------------------
(* The three together, of the jobs each is about. *)
Cost ==
    Steady(job) => /\ Apart
                   /\ Sure(job) => Few
                   /\ ~ job.commitsSql => Bounded

LEMMA InitCost == BatchInit => Cost
<1> SUFFICES ASSUME BatchInit PROVE Cost
    OBVIOUS
<1>1. Apart
    BY DEF BatchInit, Apart, Working
<1>2. IInv
    BY InitInv
<1>3. job.every * crashes = 0
    BY <1>2, Numbers DEF BatchInit
<1>4. Few
  <2>1. Lost = {}
      BY DEF BatchInit, Lost, Skipped
  <2> QED
      BY <1>3, <2>1, FS_EmptySet DEF Few
<1>5. Bounded
  <2>1. Repeated = {}
      BY DEF BatchInit, Repeated, Pairs, Counts
  <2> QED
      BY <1>3, <2>1, FS_EmptySet DEF Bounded
<1> QED
    BY <1>1, <1>4, <1>5 DEF Cost

LEMMA NextCost == IInv /\ Cost /\ [BatchNext]_batchVars => Cost'
<1> SUFFICES ASSUME IInv, Cost, [BatchNext]_batchVars PROVE Cost'
    OBVIOUS
<1>1. job' = job
    BY DEF BatchNext, Step, Restart, RestartUnread, ResumeAt, PostRow, Count, WritePosition, WriteLost,
           Commit, LoopEnds, LoopExhausted, Raise, Abend, End, Crash, Rerun, batchVars
<1>2. Steady(job)' = Steady(job) /\ Sure(job)' = Sure(job)
    BY <1>1
<1>3. Sure(job) => Steady(job)
    BY DEF Sure, Steady
<1> QED
    BY <1>1, <1>2, <1>3, ApartStep, FewStep, BoundedStep DEF Cost

LEMMA Costs == BatchSpec => [](IInv /\ Cost)
<1>1. IInv /\ Cost /\ [BatchNext]_batchVars => IInv' /\ Cost'
    BY NextInv, NextCost
<1> QED
    BY InitInv, InitCost, <1>1, PTL DEF BatchSpec

(* A crash between the position and the commit loses the interval between  *)
(* them, and whatever else happens to a job that commits loses nothing.    *)
THEOREM BatchLossBounded == BatchSpec => []LossBounded
<1>1. ASSUME IInv, Cost, Sure(job), Between
      PROVE  Cardinality(Skipped) <= job.every * crashes
  <2>1. Apart /\ Few
      BY <1>1 DEF Cost, Sure, Steady
  <2>2. Lost = Skipped
      BY <1>1, <2>1, UnitAhead DEF Between
  <2> QED
      BY <2>1, <2>2 DEF Few
<1>2. IInv /\ Cost => LossBounded
    BY <1>1 DEF LossBounded
<1> QED
    BY <1>2, Costs, PTL

(* Rework after a failure costs the records since the last checkpoint:     *)
(* where postings stand as soon as they are made, each crash leaves at     *)
(* most one interval to be posted again.                                   *)
THEOREM BatchReworkBounded == BatchSpec => []ReworkBounded
<1>1. ASSUME IInv, Cost, job.wrapped, ~ job.faulty
      PROVE  Cardinality(Again) <= job.every * crashes
  <2>1. job.every * crashes \in Nat
      BY <1>1, Numbers
  <2>2. CASE job.commitsSql
    <3>1. \A r \in 1..Rows : posted[r] \in Nat /\ posted[r] <= 1
        BY <1>1, <2>2, Numbers DEF IInv, Sure, Exact, Behind
    <3>2. Again = {}
        BY <3>1 DEF Again
    <3> QED
        BY <2>1, <3>2, FS_EmptySet
  <2>3. CASE ~ job.commitsSql
    <3>1. Bounded
        BY <1>1, <2>3 DEF Cost, Steady
    <3>2. Again \in SUBSET Repeated
      <4>1. ASSUME NEW p \in Again PROVE p \in Repeated
        <5>1. PICK r \in 1..Rows : p \in {r} \X (2..posted[r])
            BY <4>1 DEF Again
        <5>2. PICK k \in 2..posted[r] : p = <<r, k>>
            BY <5>1
        <5>3. posted[r] \in Nat
            BY <1>1, Numbers
        <5>4. k \in Nat /\ k >= 2 /\ k <= posted[r]
            BY <5>2, <5>3
        <5> QED
            BY <5>2, <5>4 DEF Repeated, Pairs, Counts
      <4> QED
          BY <4>1
    <3>3. IsFiniteSet(Again) /\ Cardinality(Again) <= Cardinality(Repeated)
        BY <3>1, <3>2, FS_Subset DEF Bounded
    <3>4. Cardinality(Again) \in Nat /\ Cardinality(Repeated) \in Nat
        BY <3>1, <3>3, FS_CardinalityType DEF Bounded
    <3> QED
        BY <2>1, <3>1, <3>3, <3>4 DEF Bounded
  <2> QED
      BY <2>2, <2>3
<1>2. IInv /\ Cost => ReworkBounded
    BY <1>1 DEF ReworkBounded
<1> QED
    BY <1>2, Costs, PTL
=============================================================================
