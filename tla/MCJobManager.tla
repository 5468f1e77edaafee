---------------------------- MODULE MCJobManager ----------------------------
(***************************************************************************)
(* Small instances of JobManager. In the first, j1 and j2 are on one named *)
(* queue, j3 is free, and j4 is run from inside j1 and has the ID of j2.   *)
(* In the second, all are on one queue but the last, which is run from     *)
(* inside j1. In the third, no job has to do with any other.               *)
(***************************************************************************)
EXTENDS JobManager

CONSTANTS j1, j2, j3, j4, qa

FourJobs == {j1, j2, j3, j4}
ThreeJobs == {j1, j2, j3}

OwnId == [j \in Job |-> j]
SharedId == [j \in Job |-> IF j = j4 THEN j2 ELSE j]

OneQueue == {qa}
TwoQueued == [j \in Job |-> IF j \in {j1, j2} THEN qa ELSE NoQueue]
ThreeQueued == [j \in Job |-> IF j = j4 THEN NoQueue ELSE qa]
NoneQueued == [j \in Job |-> NoQueue]

J1RunsJ4 == [j \in Job |-> IF j = j4 THEN j1 ELSE Nil]
NoCaller == [j \in Job |-> Nil]

OnlyJ1 == {j1}
=============================================================================
