------------------------------ MODULE LoopFill ------------------------------
(***************************************************************************)
(* The loops of SW_TaskQueue_Loop_PARALLEL (lib/libpar/rtm-sw-enqueue.c)   *)
(* that fill the task descriptors of a cluster's share, task by task and   *)
(* group by group, run for one cluster after the other: the clusters share *)
(* nothing here but the arguments.  Where the groups go is in TaskLoop.    *)
(***************************************************************************)
EXTENDS LoopPartition

CONSTANTS MaxIters,       \* bound: the longest loop
          MaxPerTask,     \* bound: iterations per task
          ClusterCounts,  \* numbers of clusters
          GroupSizes      \* values of __DEFAULT_TASK_GROUP_SIZE

ASSUME FillAssumption ==
  /\ MaxIters \in Nat /\ MaxPerTask \in Nat
  /\ ClusterCounts \subseteq Nat \ {0} /\ GroupSizes \subseteq Nat \ {0}

VARIABLES
  tot_iters, iters_per_task, num_clusters, size,    \* the inputs
  cluster_num,
  per_cluster_iter_start, per_cluster_iter_end,
  group,     \* descriptors of the group being filled
  groups,    \* by cluster, the groups it has filled
  pc

inputs == <<tot_iters, iters_per_task, num_clusters, size>>

vars == <<inputs, cluster_num, per_cluster_iter_start, per_cluster_iter_end,
          group, groups, pc>>

Init ==
  /\ tot_iters \in 0 .. MaxIters
  /\ iters_per_task \in 1 .. MaxPerTask
  /\ num_clusters \in ClusterCounts
  /\ size \in GroupSizes
  /\ cluster_num = 0
  /\ per_cluster_iter_start = 0 /\ per_cluster_iter_end = 0
  /\ group = <<>>
  /\ groups = [n \in 0 .. num_clusters - 1 |-> <<>>]
  /\ pc = "partition"

NextCluster ==
  /\ cluster_num' = cluster_num + 1
  /\ pc' = IF cluster_num + 1 = num_clusters THEN "done" ELSE "partition"

\* The bounds of the cluster's share; nothing to do if it starts too far.
Partition ==
  LET first == IterStart(cluster_num, tot_iters, iters_per_task, num_clusters, size)
      last  == IterEnd(cluster_num, tot_iters, iters_per_task, num_clusters, size) IN
  /\ pc = "partition"
  /\ IF first >= tot_iters
       THEN NextCluster
       ELSE pc' = "fill" /\ UNCHANGED cluster_num
  /\ per_cluster_iter_start' = first
  /\ per_cluster_iter_end' = last
  /\ UNCHANGED <<inputs, group, groups>>

\* Mutant: the end of the last task is not checked.
AddTaskUnchecked ==
  LET next == per_cluster_iter_start + iters_per_task IN
  /\ pc = "fill"
  /\ Len(group) < size /\ per_cluster_iter_start < per_cluster_iter_end
  /\ per_cluster_iter_start' = next
  /\ group' = Append(group, <<per_cluster_iter_start, next>>)
  /\ UNCHANGED <<inputs, cluster_num, per_cluster_iter_end, groups, pc>>

\* One round of the for loop: a task of iters_per_task iterations, its end cut
\* to the cluster's.
AddTask ==
  LET next == IF per_cluster_iter_start + iters_per_task > per_cluster_iter_end
                THEN per_cluster_iter_end
                ELSE per_cluster_iter_start + iters_per_task IN
  /\ pc = "fill"
  /\ Len(group) < size /\ per_cluster_iter_start < per_cluster_iter_end
  /\ per_cluster_iter_start' = next
  /\ group' = Append(group, <<per_cluster_iter_start, next>>)
  /\ UNCHANGED <<inputs, cluster_num, per_cluster_iter_end, groups, pc>>

\* Mutant: a group is closed before it is full.
CloseGroupEarly ==
  /\ pc = "fill" /\ group # <<>>
  /\ groups' = [groups EXCEPT ![cluster_num] = Append(@, group)]
  /\ group' = <<>>
  /\ UNCHANGED <<inputs, cluster_num, per_cluster_iter_start,
                 per_cluster_iter_end, pc>>

\* The for loop is over: the group is enqueued, and the while loop goes on.
CloseGroup ==
  /\ pc = "fill" /\ group # <<>>
  /\ Len(group) = size \/ per_cluster_iter_start >= per_cluster_iter_end
  /\ groups' = [groups EXCEPT ![cluster_num] = Append(@, group)]
  /\ group' = <<>>
  /\ UNCHANGED <<inputs, cluster_num, per_cluster_iter_start,
                 per_cluster_iter_end, pc>>

\* The while loop is over.
EndShare ==
  /\ pc = "fill" /\ group = <<>>
  /\ per_cluster_iter_start >= per_cluster_iter_end
  /\ NextCluster
  /\ UNCHANGED <<inputs, per_cluster_iter_start, per_cluster_iter_end, group,
                 groups>>

\* All clusters have filled their descriptors.
Done == pc = "done" /\ UNCHANGED vars

Next == Partition \/ AddTask \/ CloseGroup \/ EndShare \/ Done

Spec == Init /\ [][Next]_vars

-----------------------------------------------------------------------------

\* What the loops fill is the share that LoopPartition gives the cluster in
\* closed form, in its groups.
FillIsShare ==
  \A n \in 0 .. num_clusters - 1 : n < cluster_num =>
    groups[n] = GroupsOf(ShareOf(n, tot_iters, iters_per_task, num_clusters, size),
                         size)

\* The descriptors the clusters have filled, each by its cluster, its group
\* among those of the cluster and its place in the group.
Filled ==
  UNION {UNION {{<<n, g, h>> : h \in DOMAIN groups[n][g]} :
                  g \in DOMAIN groups[n]} : n \in DOMAIN groups}

\* At the end every iteration is in the task of exactly one descriptor of one
\* cluster: no two clusters, and no two tasks of one cluster, make it.  The
\* exception is what the code loses: of the last tot_iters % iters_per_task
\* iterations those past the last cluster's share are in no task at all,
\* because tot_tasks is rounded down before it is shared out.
IterationsOnce ==
  pc = "done" =>
    \A i \in 0 .. tot_iters - 1 :
      LET with == {d \in Filled : /\ groups[d[1]][d[2]][d[3]][1] <= i
                                  /\ i < groups[d[1]][d[2]][d[3]][2]} IN
      \/ \E d \in with : with = {d}
      \/ with = {} /\ i >= tot_iters - (tot_iters % iters_per_task)

\* A cluster fills no more descriptors than it has drawn from the pool with
\* TQ_DESC_POOL_GET: per_cluster_task_groups groups.
DescriptorsSuffice ==
  \A n \in 0 .. num_clusters - 1 :
    /\ Len(groups[n]) * size <=
         size * PerClusterTaskGroups(
                  TaskGroupsTotal(TotTasks(tot_iters, iters_per_task), size),
                  num_clusters)
    /\ \A g \in DOMAIN groups[n] : Len(groups[n][g]) \in 1 .. size
=============================================================================
