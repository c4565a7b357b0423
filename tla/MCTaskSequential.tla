-------------------------- MODULE MCTaskSequential --------------------------
(***************************************************************************)
(* TaskSequential for TLC: clusters 0, 1, ... of PerCluster threads each.  *)
(***************************************************************************)
EXTENDS TaskSequential

CONSTANT Clusters   \* number of clusters

MCCluster == 0 .. Clusters - 1
MCThread == 0 .. Clusters * PerCluster - 1
MCclusterOf == [t \in MCThread |-> t \div PerCluster]

MCTask == {<<p, b, e>> \in (0 .. MaxPhase - 1) \X (0 .. TotIters - 1)
                           \X (1 .. TotIters) : e = b + ItersPerTask}
=============================================================================
