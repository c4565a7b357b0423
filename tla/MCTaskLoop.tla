----------------------------- MODULE MCTaskLoop -----------------------------
(***************************************************************************)
(* TaskLoop for TLC: clusters 0, 1, ... of PerCluster threads each, as the *)
(* machine numbers them, and the tasks of MaxPhase intervals.              *)
(***************************************************************************)
EXTENDS TaskLoop

CONSTANT Clusters   \* number of clusters

MCCluster == 0 .. Clusters - 1
MCThread == 0 .. Clusters * PerCluster - 1
MCclusterOf == [t \in MCThread |-> t \div PerCluster]
MCnumber == [c \in MCCluster |-> c]

MCTask ==
  UNION {Elements(TasksIn(p, ShareOf(n, TotIters, ItersPerTask, Clusters,
                                     TASK_GROUP_SIZE))) :
           p \in 0 .. MaxPhase - 1, n \in MCCluster}
=============================================================================
