------------------------ MODULE MCCheckpointedBatch ------------------------
(***************************************************************************)
(* TLC's instance of CheckpointedBatch: intervals and loop bounds on       *)
(* either side of one another and of the number of rows.                   *)
(*                                                                         *)
(* A job that does not roll back and whose runs stop before a checkpoint   *)
(* posts its first rows on every rerun, without end: it is left out.       *)
(***************************************************************************)
EXTENDS CheckpointedBatch

Every  == 1..3
Limits == {2, 3, 6}

AllJobs == {j \in [every : Every, limit : Limits, commitsSql : BOOLEAN,
                   wrapped : BOOLEAN, faulty : BOOLEAN] :
            j.wrapped \/ j.every <= j.limit}

(* Jobs that commit, over a restart file that works. *)
SureJobs == {j \in AllJobs : Sure(j)}
=============================================================================
