------------------------- MODULE MCJobStatusTracker -------------------------
(* Small instances of the Job tracker: two Jobs of the parent, so that two *)
(* handlers can interleave their read-modify-write of the parent, and one  *)
(* stray Job.                                                              *)
EXTENDS JobStatusTracker, TLC

CONSTANTS j1, j2, s1

MCJobs == {j1, j2, s1}
MCOneJob == {j1, s1}
MCStray == {s1}
MCNoStray == {}
MCTwoJobs == {j1, j2}

(* delete_from_status_list is a filter: on every list of up to three      *)
(* entries, DeleteFromStatusList keeps what SelectSeq keeps, in order.    *)
ASSUME DeleteIsFilter ==
    \A n \in 0..3 :
      \A lst \in [1..n -> [uid : MCJobs, status : {"Pending", "Running"}]] :
        \A j \in MCJobs :
          DeleteFromStatusList(lst, j) = SelectSeq(lst, LAMBDA e : e.uid # j)
=============================================================================
