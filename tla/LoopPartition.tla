--------------------------- MODULE LoopPartition ----------------------------
(***************************************************************************)
(* How SW_TaskQueue_Loop_PARALLEL (lib/libpar/rtm-sw-enqueue.c) splits the *)
(* iterations 0 .. tot_iters-1 of a loop among the clusters and into task  *)
(* groups: every cluster computes its own share from its number.           *)
(*                                                                         *)
(* Bound: the code computes in 32 bits and the operators in natural        *)
(* numbers, which agree as long as the end of the last cluster's share,    *)
(* num_clusters * PerClusterIters, is below 2^32.                          *)
(***************************************************************************)
EXTENDS Integers, Sequences

Least(a, b) == IF a < b THEN a ELSE b

\* The shifts of the switch statement are the divisions they stand for, and so
\* is the shift by GLOBAL_numclusters_SHIFT below: SW_TaskQueue_Init aborts
\* unless the number of clusters is a power of two.
TotTasks(tot_iters, iters_per_task) == tot_iters \div iters_per_task

TaskGroupsTotal(tot_tasks, size) == (tot_tasks + size - 1) \div size

\* Mutant: rounded down.
PerClusterRoundedDown(groups, num_clusters) == groups \div num_clusters

PerClusterTaskGroups(groups, num_clusters) ==
  (groups + num_clusters - 1) \div num_clusters

\* Iterations a cluster would get if none were left over.
PerClusterIters(tot_iters, iters_per_task, num_clusters, size) ==
  PerClusterTaskGroups(
    TaskGroupsTotal(TotTasks(tot_iters, iters_per_task), size), num_clusters)
  * iters_per_task * size

\* The iterations of cluster n are those in [IterStart, IterEnd).
IterStart(n, tot_iters, iters_per_task, num_clusters, size) ==
  n * PerClusterIters(tot_iters, iters_per_task, num_clusters, size)

IterEnd(n, tot_iters, iters_per_task, num_clusters, size) ==
  Least((n + 1) * PerClusterIters(tot_iters, iters_per_task, num_clusters, size),
        tot_iters)

\* The bounds <<begin, end>> of the tasks of cluster n, in the order in which
\* they are made; none if the cluster starts past the last iteration.
ShareOf(n, tot_iters, iters_per_task, num_clusters, size) ==
  LET start == IterStart(n, tot_iters, iters_per_task, num_clusters, size)
      end   == IterEnd(n, tot_iters, iters_per_task, num_clusters, size)
      count == IF start >= end THEN 0
               ELSE (end - start + iters_per_task - 1) \div iters_per_task
  IN  [i \in 1 .. count |->
         <<start + (i - 1) * iters_per_task,
           Least(start + i * iters_per_task, end)>>]

\* The same tasks in groups of up to "size".
GroupsOf(share, size) ==
  [g \in 1 .. (Len(share) + size - 1) \div size |->
     SubSeq(share, (g - 1) * size + 1, Least(g * size, Len(share)))]
=============================================================================
