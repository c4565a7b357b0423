------------------------------ MODULE TaskLoop ------------------------------
(***************************************************************************)
(* A data-parallel program on the task queue, in the shape of              *)
(* testing/rtm_example: in every interval all threads call                 *)
(* SW_TaskQueue_Loop_PARALLEL (lib/libpar/rtm-sw-enqueue.c) and then       *)
(* dequeue and run tasks until TQ_RET_SYNC ends the interval.              *)
(*                                                                         *)
(* GLOBAL_tq_enqueue_lock is a blocking lock, taken here to store one      *)
(* group and advance the tail: the insertion is one step.                  *)
(***************************************************************************)
EXTENDS TaskQueue, LoopPartition

CONSTANTS number,                     \* cluster_num of each cluster
          TotIters, ItersPerTask,     \* arguments of every loop
          SWTQ_LOCAL_ENQUEUE_COUNT, SWTQ_DATAPAR_MODE,
          MaxPhase                    \* bound: intervals the program runs

VARIABLES
  LOCAL_percore_sense_enqueue_loop, CLUSTER_percluster_enqueue_loop,
  todo,                 \* groups a thread has still to enqueue
  local_enqueue_count

loopvars == <<LOCAL_percore_sense_enqueue_loop, CLUSTER_percluster_enqueue_loop,
              todo, local_enqueue_count>>

vars == <<dqvars, loopvars>>

\* A task is known by the interval it belongs to and its iterations.
Share(c) == ShareOf(number[c], TotIters, ItersPerTask, NumClusters,
                    TASK_GROUP_SIZE)

TasksIn(p, share) ==
  [i \in 1 .. Len(share) |-> <<p, share[i][1], share[i][2]>>]

Init ==
  /\ InitQueue
  /\ pc = [t \in Thread |-> "sync"]
  /\ LOCAL_percore_sense_enqueue_loop = [t \in Thread |-> 0]
  /\ CLUSTER_percluster_enqueue_loop = [c \in Cluster |-> 0]
  /\ todo = [t \in Thread |-> <<>>]
  /\ local_enqueue_count = [t \in Thread |-> 0]

\* The next interval begins: try the cluster's GTQ lock, flip the thread's
\* sense, and without the lock go on to dequeue.
LoopTry(t) ==
  LET c == clusterOf[t] IN
  /\ At(t, "sync") /\ phase[t] < MaxPhase
  /\ IF CLUSTER_gtq_lock[c] = Nobody
       THEN /\ CLUSTER_gtq_lock' = [CLUSTER_gtq_lock EXCEPT ![c] = t]
            /\ Goto(t, "loop_held")
       ELSE Goto(t, "fast") /\ UNCHANGED CLUSTER_gtq_lock
  /\ LOCAL_percore_sense_enqueue_loop' =
       [LOCAL_percore_sense_enqueue_loop EXCEPT ![t] = Not(@)]
  /\ UNCHANGED <<ring, senses, history, threads, CLUSTER_percore_sense,
                 CLUSTER_core_waitcount, CLUSTER_taskqueue, CLUSTER_ltq_lock,
                 CLUSTER_percluster_enqueue_loop, todo, local_enqueue_count>>

\* With the lock: enqueue the cluster's share unless another thread did so.
LoopHeld(t) ==
  LET c == clusterOf[t]
      tasks == TasksIn(phase[t], Share(c)) IN
  /\ At(t, "loop_held")
  /\ IF CLUSTER_percluster_enqueue_loop[c] # LOCAL_percore_sense_enqueue_loop[t]
       THEN /\ CLUSTER_percluster_enqueue_loop' =
                 [CLUSTER_percluster_enqueue_loop EXCEPT ![c] = Not(@)]
            /\ todo' = [todo EXCEPT ![t] = GroupsOf(tasks, TASK_GROUP_SIZE)]
            /\ local_enqueue_count' =
                 [local_enqueue_count EXCEPT ![t] = SWTQ_LOCAL_ENQUEUE_COUNT]
            /\ Goto(t, IF tasks = <<>> THEN "loop_unlock" ELSE "loop_group")
       ELSE /\ Goto(t, "loop_unlock")
            /\ UNCHANGED <<CLUSTER_percluster_enqueue_loop, todo,
                           local_enqueue_count>>
  /\ UNCHANGED <<ring, senses, history, threads, cluster,
                 LOCAL_percore_sense_enqueue_loop>>

NextGroup(t) ==
  /\ todo' = [todo EXCEPT ![t] = Tail(@)]
  /\ Goto(t, IF Tail(todo[t]) = <<>> THEN "loop_unlock" ELSE "loop_group")

Elements(seq) == {seq[i] : i \in DOMAIN seq}

\* Under the LTQ lock: the group goes into the LTQ if that is empty, if the
\* local count is not used up (it is counted down only when asked), or in
\* data-parallel mode.
LoopGroup(t) ==
  LET c == clusterOf[t]
      g == Head(todo[t])
      empty == CLUSTER_taskqueue[c] = <<>> IN
  /\ At(t, "loop_group")
  /\ LtqFree(t)
  /\ local_enqueue_count' =
       [local_enqueue_count EXCEPT ![t] = IF empty THEN @ ELSE @ - 1]
  /\ IF empty \/ local_enqueue_count[t] > 0 \/ SWTQ_DATAPAR_MODE
       THEN /\ CLUSTER_taskqueue' = [CLUSTER_taskqueue EXCEPT ![c] = g \o @]
            /\ made' = made \cup Elements(g)
            /\ NextGroup(t)
       ELSE /\ Goto(t, "loop_insert")
            /\ UNCHANGED <<CLUSTER_taskqueue, todo, made>>
  /\ UNCHANGED <<ring, senses, ran, phase, threads, CLUSTER_percore_sense,
                 CLUSTER_core_waitcount, CLUSTER_ltq_lock, CLUSTER_gtq_lock,
                 LOCAL_percore_sense_enqueue_loop,
                 CLUSTER_percluster_enqueue_loop>>

\* Otherwise it goes to the tail of the ring.  The slot is computed from the
\* tail index without TQ_IDX_MOD: past the end of the array nothing that
\* the dequeue side reads is written.
LoopInsert(t) ==
  LET g == Head(todo[t])
      slot == GLOBAL_tq_tail_index IN
  /\ At(t, "loop_insert")
  /\ GLOBAL_taskqueue_index' =
       IF slot \in DOMAIN GLOBAL_taskqueue_index
         THEN [GLOBAL_taskqueue_index EXCEPT ![slot] = g]
         ELSE GLOBAL_taskqueue_index
  /\ GLOBAL_tq_tail_index' = GLOBAL_tq_tail_index + 1
  /\ made' = made \cup Elements(g)
  /\ NextGroup(t)
  /\ UNCHANGED <<GLOBAL_tq_head_index, senses, ran, phase, threads, cluster,
                 LOCAL_percore_sense_enqueue_loop,
                 CLUSTER_percluster_enqueue_loop, local_enqueue_count>>

LoopUnlock(t) ==
  /\ At(t, "loop_unlock")
  /\ CLUSTER_gtq_lock' = [CLUSTER_gtq_lock EXCEPT ![clusterOf[t]] = Nobody]
  /\ local_enqueue_count' = [local_enqueue_count EXCEPT ![t] = 0]
  /\ Goto(t, "fast")
  /\ UNCHANGED <<ring, senses, history, threads, CLUSTER_percore_sense,
                 CLUSTER_core_waitcount, CLUSTER_taskqueue, CLUSTER_ltq_lock,
                 LOCAL_percore_sense_enqueue_loop,
                 CLUSTER_percluster_enqueue_loop, todo>>

Finished == \A t \in Thread : At(t, "sync") /\ phase[t] = MaxPhase

\* The program is over.
Stop == Finished /\ UNCHANGED vars

Step(t) ==
  \/ LoopTry(t) \/ LoopHeld(t) \/ LoopGroup(t) \/ LoopInsert(t)
  \/ LoopUnlock(t)
  \/ (Dequeue(t) \/ RunTask(t)) /\ UNCHANGED loopvars

Next == (\E t \in Thread : Step(t)) \/ Stop

Spec == Init /\ [][Next]_vars

\* Steps that wait for the LTQ lock.
TakesLtq(t) ==
  \/ LoopGroup(t)
  \/ /\ FastPop(t) \/ LockLocal(t) \/ PendingLocalBarrier(t) \/ InsertGroup(t)
     /\ UNCHANGED loopvars

\* Every hardware thread keeps executing, and the LTQ lock, being a ticket
\* lock, passes nobody over: who waits for it gets it.
FairSpec ==
  /\ Spec
  /\ \A t \in Thread : WF_vars(Step(t)) /\ SF_vars(TakesLtq(t))

-----------------------------------------------------------------------------

\* When a thread has passed the barrier of an interval, every iteration of its
\* loop has been run, by exactly one task that was run once.
LoopComplete ==
  \A t \in Thread, p \in 0 .. MaxPhase - 1, i \in 0 .. TotIters - 1 :
    p < phase[t] =>
      \E k \in Task : /\ k[1] = p /\ k[2] <= i /\ i < k[3] /\ ran[k] = 1
                      /\ \A j \in Task : j[1] = p /\ j[2] <= i /\ i < j[3] => j = k

\* Dequeue neither blocks forever nor spins forever: the barrier of every
\* interval is reached, and the program comes to its end.
Terminates == <>Finished
=============================================================================
