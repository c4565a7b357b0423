----------------------------- MODULE TaskQueue ------------------------------
(***************************************************************************)
(* The software task queue of the Rigel Task Model: the state of           *)
(* lib/libpar/rtm-sw-common.c as rtm-sw-init.c sets it up, and the         *)
(* dequeue side, lib/libpar/rtm-sw-dequeue.c.                              *)
(*                                                                         *)
(* Every cluster has a local queue (LTQ) under a ticket lock; a global     *)
(* queue (GTQ), a ring of task groups, is filled by the enqueuers.  A      *)
(* thread that finds its LTQ empty counts itself as waiting, and one       *)
(* waiting thread of the cluster, the holder of the cluster's GTQ lock,    *)
(* reserves a slot of the ring and waits for a group to appear there.      *)
(* When all clusters wait with all their threads, and the last reserved    *)
(* slot is as far past the tail as there are clusters, a barrier has been  *)
(* reached and every Dequeue returns TQ_RET_SYNC.                          *)
(*                                                                         *)
(* Memory is one coherent store: testing/rtm_example says that a program   *)
(* "would still work if these cache operations were omitted".  An LL/SC    *)
(* loop is one step.  The LTQ lock is a blocking lock, so its acquisition  *)
(* is one step with the first access it protects; that its ticket          *)
(* implementation is a fair lock is the subject of TicketLock.  The GTQ    *)
(* lock is only ever tried, so whether it is held is visible, and taking   *)
(* and releasing it are steps of their own.                                *)
(***************************************************************************)
EXTENDS Integers, Sequences, FiniteSets

CONSTANTS Thread, Cluster,
          clusterOf,         \* [Thread -> Cluster]
          PerCluster,        \* GLOBAL_numthreads_per_cluster
          SWTQ_TASK_GROUP_FETCH,
          TQ_SIZE,           \* __DEFAULT_GLOBAL_TQ_SIZE
          TASK_GROUP_SIZE,   \* __DEFAULT_TASK_GROUP_SIZE
          Task,              \* tasks <<interval, begin, end>>
          Nobody             \* not a thread: the lock is free

NumClusters == Cardinality(Cluster)

IndexSize == TQ_SIZE \div TASK_GROUP_SIZE

TQ_IDX_MOD(idx) == idx % IndexSize

ASSUME QueueAssumption ==
  /\ IsFiniteSet(Thread) /\ IsFiniteSet(Cluster) /\ Cluster # {}
  /\ clusterOf \in [Thread -> Cluster]
  /\ PerCluster \in Nat \ {0}
  /\ \A c \in Cluster :
       Cardinality({t \in Thread : clusterOf[t] = c}) = PerCluster
  /\ SWTQ_TASK_GROUP_FETCH \in Nat \ {0}
  /\ TASK_GROUP_SIZE \in Nat \ {0} /\ IndexSize \in Nat \ {0}
  /\ Nobody \notin Thread

VARIABLES
  GLOBAL_tq_head_index, GLOBAL_tq_tail_index, GLOBAL_taskqueue_index,
  GLOBAL_percluster_sense,
  GLOBAL_cluster_waitcount,  \* waitcount0 and waitcount1, by sense
  CLUSTER_percluster_sense, CLUSTER_percore_sense, CLUSTER_core_waitcount,
  CLUSTER_taskqueue,         \* the list from CLUSTER_taskqueue_head
  CLUSTER_ltq_lock, CLUSTER_gtq_lock,   \* holder or Nobody
  LOCAL_percore_sense,
  pc,        \* where each thread is
  frame,     \* locals of global_swtq_cluster_dequeue
  fetched,   \* prefetch_count of SW_TaskQueue_Dequeue_SLOW
  group,     \* tgroup, or the group being enqueued
  desc,      \* *tdesc: the task a thread was given
  made,      \* history: the tasks that were put into some queue
  ran,       \* history: how often each task was run to its end
  phase      \* history: how many TQ_RET_SYNC each thread has returned

ring    == <<GLOBAL_tq_head_index, GLOBAL_tq_tail_index, GLOBAL_taskqueue_index>>
senses  == <<GLOBAL_percluster_sense, GLOBAL_cluster_waitcount,
             CLUSTER_percluster_sense>>
cluster == <<CLUSTER_percore_sense, CLUSTER_core_waitcount, CLUSTER_taskqueue,
             CLUSTER_ltq_lock, CLUSTER_gtq_lock>>
threads == <<LOCAL_percore_sense, frame, fetched, group, desc>>
history == <<made, ran, phase>>

dqvars == <<ring, senses, cluster, threads, history, pc>>

\* A frame of global_swtq_cluster_dequeue that is not active.
NoFrame == [head_idx |-> 0, tail_idx |-> 0, entry_flag |-> FALSE]

\* SW_TaskQueue_Init, run by one thread before any other uses the queue.
InitQueue ==
  /\ GLOBAL_tq_head_index = 0
  /\ GLOBAL_tq_tail_index = 0
  /\ GLOBAL_taskqueue_index = [i \in 0 .. IndexSize - 1 |-> <<>>]
  /\ GLOBAL_percluster_sense = 0
  /\ GLOBAL_cluster_waitcount = [s \in {0, 1} |-> 0]
  /\ CLUSTER_percluster_sense = [c \in Cluster |-> 0]
  /\ CLUSTER_percore_sense = [c \in Cluster |-> 0]
  /\ CLUSTER_core_waitcount = [c \in Cluster |-> 0]
  /\ CLUSTER_taskqueue = [c \in Cluster |-> <<>>]
  /\ CLUSTER_ltq_lock = [c \in Cluster |-> Nobody]
  /\ CLUSTER_gtq_lock = [c \in Cluster |-> Nobody]
  /\ LOCAL_percore_sense = [t \in Thread |-> 0]
  /\ frame = [t \in Thread |-> NoFrame]
  /\ fetched = [t \in Thread |-> 0]
  /\ group = [t \in Thread |-> <<>>]
  /\ desc = [t \in Thread |-> <<>>]
  /\ made = {}
  /\ ran = [k \in Task |-> 0]
  /\ phase = [t \in Thread |-> 0]

Goto(t, label) == pc' = [pc EXCEPT ![t] = label]

At(t, label) == pc[t] = label

Not(sense) == 1 - sense

\* Dequeue returns TQ_RET_SYNC to its caller, having flipped the thread's sense.
ReturnSync(t) ==
  /\ LOCAL_percore_sense' = [LOCAL_percore_sense EXCEPT ![t] = Not(@)]
  /\ phase' = [phase EXCEPT ![t] = @ + 1]
  /\ Goto(t, "sync")

\* The barrier the thread waits for has been passed by its cluster.
Passed(t) == LOCAL_percore_sense[t] # CLUSTER_percore_sense[clusterOf[t]]

LtqFree(t) == CLUSTER_ltq_lock[clusterOf[t]] = Nobody

\* The first task of the cluster's list goes to *tdesc.
PopLocal(t) ==
  LET c == clusterOf[t] IN
  /\ desc' = [desc EXCEPT ![t] = <<Head(CLUSTER_taskqueue[c])>>]
  /\ CLUSTER_taskqueue' = [CLUSTER_taskqueue EXCEPT ![c] = Tail(@)]

-----------------------------------------------------------------------------
(* SW_TaskQueue_Dequeue_FAST: take from the LTQ or go the slow path.       *)

FastPop(t) ==
  /\ At(t, "fast")
  /\ LtqFree(t)
  /\ IF CLUSTER_taskqueue[clusterOf[t]] # <<>>
       THEN PopLocal(t) /\ Goto(t, "run")
       ELSE UNCHANGED <<desc, CLUSTER_taskqueue>> /\ Goto(t, "slow_enter")
  /\ UNCHANGED <<ring, senses, history, CLUSTER_percore_sense,
                 CLUSTER_core_waitcount, CLUSTER_ltq_lock, CLUSTER_gtq_lock,
                 LOCAL_percore_sense, frame, fetched, group>>

-----------------------------------------------------------------------------
(* SW_TaskQueue_Dequeue_SLOW                                               *)

\* Enter the cluster's provisional barrier.
CountSelf(t) ==
  /\ At(t, "slow_enter")
  /\ CLUSTER_core_waitcount' =
       [CLUSTER_core_waitcount EXCEPT ![clusterOf[t]] = @ + 1]
  /\ Goto(t, "slow_sense")
  /\ UNCHANGED <<ring, senses, history, threads, CLUSTER_percore_sense,
                 CLUSTER_taskqueue, CLUSTER_ltq_lock, CLUSTER_gtq_lock>>

CheckSense(t) ==
  /\ At(t, "slow_sense")
  /\ IF Passed(t)
       THEN ReturnSync(t)
       ELSE Goto(t, "slow_lock") /\ UNCHANGED <<LOCAL_percore_sense, phase>>
  /\ UNCHANGED <<ring, senses, cluster, frame, fetched, group, desc, made,
                 ran>>

\* Take the LTQ lock and check the sense again under it.
LockLocal(t) ==
  /\ At(t, "slow_lock")
  /\ LtqFree(t)
  /\ IF Passed(t)
       THEN ReturnSync(t) /\ UNCHANGED CLUSTER_ltq_lock
       ELSE /\ CLUSTER_ltq_lock' = [CLUSTER_ltq_lock EXCEPT ![clusterOf[t]] = t]
            /\ Goto(t, "slow_locked")
            /\ UNCHANGED <<LOCAL_percore_sense, phase>>
  /\ UNCHANGED <<ring, senses, CLUSTER_percore_sense, CLUSTER_core_waitcount,
                 CLUSTER_taskqueue, CLUSTER_gtq_lock, frame, fetched, group,
                 desc, made, ran>>

SlowPop(t) ==
  /\ At(t, "slow_locked")
  /\ IF CLUSTER_taskqueue[clusterOf[t]] # <<>>
       THEN PopLocal(t) /\ Goto(t, "slow_popped") /\ UNCHANGED CLUSTER_ltq_lock
       ELSE /\ CLUSTER_ltq_lock' =
                 [CLUSTER_ltq_lock EXCEPT ![clusterOf[t]] = Nobody]
            /\ Goto(t, "gtq_try")
            /\ UNCHANGED <<desc, CLUSTER_taskqueue>>
  /\ UNCHANGED <<ring, senses, history, CLUSTER_percore_sense,
                 CLUSTER_core_waitcount, CLUSTER_gtq_lock,
                 LOCAL_percore_sense, frame, fetched, group>>

\* Mutant: the thread stays counted.
KeepCounted(t) ==
  /\ At(t, "slow_popped")
  /\ CLUSTER_ltq_lock' = [CLUSTER_ltq_lock EXCEPT ![clusterOf[t]] = Nobody]
  /\ Goto(t, "run")
  /\ UNCHANGED <<ring, senses, history, threads, CLUSTER_percore_sense,
                 CLUSTER_core_waitcount, CLUSTER_taskqueue, CLUSTER_gtq_lock>>

\* Leave the provisional barrier, release the LTQ lock, return TQ_RET_SUCCESS.
UncountSelf(t) ==
  /\ At(t, "slow_popped")
  /\ CLUSTER_core_waitcount' =
       [CLUSTER_core_waitcount EXCEPT ![clusterOf[t]] = @ - 1]
  /\ CLUSTER_ltq_lock' = [CLUSTER_ltq_lock EXCEPT ![clusterOf[t]] = Nobody]
  /\ Goto(t, "run")
  /\ UNCHANGED <<ring, senses, history, threads, CLUSTER_percore_sense,
                 CLUSTER_taskqueue, CLUSTER_gtq_lock>>

TryGtqLock(t) ==
  /\ At(t, "gtq_try")
  /\ IF CLUSTER_gtq_lock[clusterOf[t]] = Nobody
       THEN /\ CLUSTER_gtq_lock' = [CLUSTER_gtq_lock EXCEPT ![clusterOf[t]] = t]
            /\ Goto(t, "gtq_held")
       ELSE Goto(t, "slow_sense") /\ UNCHANGED CLUSTER_gtq_lock
  /\ UNCHANGED <<ring, senses, history, threads, CLUSTER_percore_sense,
                 CLUSTER_core_waitcount, CLUSTER_taskqueue, CLUSTER_ltq_lock>>

\* With the GTQ lock: was the barrier passed, did somebody else fetch?  Only
\* the lock's holder flips CLUSTER_percore_sense or adds to the list.
GtqHeld(t) ==
  /\ At(t, "gtq_held")
  /\ \/ /\ Passed(t)
        /\ Goto(t, "gtq_sync")
        /\ UNCHANGED fetched
     \/ /\ ~Passed(t)
        /\ CLUSTER_taskqueue[clusterOf[t]] # <<>>
        /\ Goto(t, "gtq_unlock")
        /\ UNCHANGED fetched
     \/ /\ ~Passed(t)
        /\ CLUSTER_taskqueue[clusterOf[t]] = <<>>
        /\ Goto(t, "reserve")
        /\ fetched' = [fetched EXCEPT ![t] = 0]
  /\ UNCHANGED <<ring, senses, history, cluster, LOCAL_percore_sense, frame,
                 group, desc>>

\* Mutant: the GTQ lock is not released on this path.
GtqSyncLocked(t) ==
  /\ At(t, "gtq_sync")
  /\ ReturnSync(t)
  /\ fetched' = [fetched EXCEPT ![t] = 0]
  /\ UNCHANGED <<ring, senses, cluster, frame, group, desc, made, ran>>

\* Release the GTQ lock and return TQ_RET_SYNC.
GtqSync(t) ==
  /\ At(t, "gtq_sync")
  /\ ReturnSync(t)
  /\ CLUSTER_gtq_lock' = [CLUSTER_gtq_lock EXCEPT ![clusterOf[t]] = Nobody]
  /\ fetched' = [fetched EXCEPT ![t] = 0]
  /\ UNCHANGED <<ring, senses, CLUSTER_percore_sense, CLUSTER_core_waitcount,
                 CLUSTER_taskqueue, CLUSTER_ltq_lock, frame, group, desc, made,
                 ran>>

\* global_swtq_cluster_dequeue returned TQ_RET_SUCCESS: put the group in front
\* of the LTQ under its lock, and fetch again up to SWTQ_TASK_GROUP_FETCH times.
InsertGroup(t) ==
  /\ At(t, "insert")
  /\ LtqFree(t)
  /\ CLUSTER_taskqueue' =
       [CLUSTER_taskqueue EXCEPT ![clusterOf[t]] = group[t] \o @]
  /\ group' = [group EXCEPT ![t] = <<>>]
  /\ IF fetched[t] + 1 < SWTQ_TASK_GROUP_FETCH
       THEN /\ fetched' = [fetched EXCEPT ![t] = @ + 1]
            /\ Goto(t, "reserve")
       ELSE /\ fetched' = [fetched EXCEPT ![t] = 0]
            /\ Goto(t, "gtq_unlock")
  /\ UNCHANGED <<ring, senses, history, CLUSTER_percore_sense,
                 CLUSTER_core_waitcount, CLUSTER_ltq_lock, CLUSTER_gtq_lock,
                 LOCAL_percore_sense, frame, desc>>

GtqUnlock(t) ==
  /\ At(t, "gtq_unlock")
  /\ CLUSTER_gtq_lock' = [CLUSTER_gtq_lock EXCEPT ![clusterOf[t]] = Nobody]
  /\ Goto(t, "slow_sense")
  /\ UNCHANGED <<ring, senses, history, threads, CLUSTER_percore_sense,
                 CLUSTER_core_waitcount, CLUSTER_taskqueue, CLUSTER_ltq_lock>>

-----------------------------------------------------------------------------
(* global_swtq_cluster_dequeue, called with the GTQ lock of the cluster.   *)

\* A group has been put into slot h, by what the tail index says; with the
\* code's test for an index that has wrapped.
Inserted(h, tl) ==
  IF h > tl + TQ_SIZE THEN TQ_IDX_MOD(h) < tl + TQ_SIZE ELSE h < tl

\* The slot is the last one that all clusters together can reserve past the
\* tail.
LastReserved(h, tl) ==
  IF h > tl + TQ_SIZE
    THEN TQ_IDX_MOD(h) = tl + TQ_SIZE + NumClusters - 1
    ELSE h = tl + NumClusters - 1

FlipClusterSense(t) ==
  CLUSTER_percluster_sense' =
    [CLUSTER_percluster_sense EXCEPT ![clusterOf[t]] = Not(@)]

\* The waiting cluster's own sense, and the wait counter that goes with it.
ClusterSense(t) == CLUSTER_percluster_sense[clusterOf[t]]

TakeGroup(t) ==
  /\ group' = [group EXCEPT ![t] =
       GLOBAL_taskqueue_index[TQ_IDX_MOD(frame[t].head_idx)]]
  /\ frame' = [frame EXCEPT ![t] = NoFrame]
  /\ Goto(t, "insert")

\* atom.inc of the head index.  The path before it for calls that do not block
\* is never taken: allow_blocking is "prefetch_count != 0", evaluated after
\* the loop has incremented prefetch_count.
Reserve(t) ==
  /\ At(t, "reserve")
  /\ GLOBAL_tq_head_index' = GLOBAL_tq_head_index + 1
  /\ frame' = [frame EXCEPT ![t].head_idx = GLOBAL_tq_head_index]
  /\ Goto(t, "try_dequeue")
  /\ UNCHANGED <<GLOBAL_tq_tail_index, GLOBAL_taskqueue_index, senses, cluster,
                 history, LOCAL_percore_sense, fetched, group, desc>>

\* Take the group, or enter the barrier provisionally.
TryDequeue(t) ==
  /\ At(t, "try_dequeue")
  /\ IF Inserted(frame[t].head_idx, GLOBAL_tq_tail_index)
       THEN TakeGroup(t) /\ UNCHANGED CLUSTER_percluster_sense
       ELSE /\ FlipClusterSense(t)
            /\ Goto(t, "wait_sense")
            /\ UNCHANGED <<group, frame>>
  /\ UNCHANGED <<ring, GLOBAL_percluster_sense, GLOBAL_cluster_waitcount,
                 cluster, history, LOCAL_percore_sense, fetched, desc>>

\* The waiting loop: has somebody flipped the global sense?
WaitSense(t) ==
  /\ At(t, "wait_sense")
  /\ Goto(t, IF GLOBAL_percluster_sense = ClusterSense(t)
               THEN "release_count" ELSE "wait_tail")
  /\ UNCHANGED <<ring, senses, cluster, history, threads>>

\* What the loop does with the tail it has loaded: take the group, try to
\* detect the barrier, or go round again.
Examine(t, tl) ==
  LET h == frame[t].head_idx IN
  Goto(t, IF Inserted(h, tl) THEN "wait_found"
          ELSE IF LastReserved(h, tl) THEN "wait_detect"
          ELSE "wait_sense")

LoadTail(t) ==
  /\ At(t, "wait_tail")
  /\ frame' = [frame EXCEPT ![t].tail_idx = GLOBAL_tq_tail_index]
  /\ IF frame[t].entry_flag
       THEN Examine(t, GLOBAL_tq_tail_index)
       ELSE Goto(t, "wait_pending")
  /\ UNCHANGED <<ring, senses, cluster, history, LOCAL_percore_sense, fetched,
                 group, desc>>

\* Mutant: one waiting thread is enough.
PendingTooSoon(t) ==
  /\ At(t, "wait_pending")
  /\ LtqFree(t)
  /\ IF CLUSTER_core_waitcount[clusterOf[t]] > 0
       THEN Goto(t, "wait_count")
       ELSE Examine(t, frame[t].tail_idx)
  /\ UNCHANGED <<ring, senses, cluster, history, threads>>

\* Under the LTQ lock: do all threads of the cluster wait?
PendingLocalBarrier(t) ==
  /\ At(t, "wait_pending")
  /\ LtqFree(t)
  /\ IF CLUSTER_core_waitcount[clusterOf[t]] = PerCluster
       THEN Goto(t, "wait_count")
       ELSE Examine(t, frame[t].tail_idx)
  /\ UNCHANGED <<ring, senses, cluster, history, threads>>

\* Count the cluster as waiting.
CountCluster(t) ==
  /\ At(t, "wait_count")
  /\ GLOBAL_cluster_waitcount' =
       [GLOBAL_cluster_waitcount EXCEPT ![ClusterSense(t)] = @ + 1]
  /\ frame' = [frame EXCEPT ![t].entry_flag = TRUE]
  /\ Examine(t, frame[t].tail_idx)
  /\ UNCHANGED <<ring, GLOBAL_percluster_sense, CLUSTER_percluster_sense,
                 cluster, history, LOCAL_percore_sense, fetched, group, desc>>

\* The slot is filled.  If a barrier was passed meanwhile go round again.
FoundGroup(t) ==
  /\ At(t, "wait_found")
  /\ Goto(t, IF GLOBAL_percluster_sense = ClusterSense(t)
               THEN "wait_sense" ELSE "back_out")
  /\ UNCHANGED <<ring, senses, cluster, history, threads>>

\* Mutant: the cluster stays counted when it backs out.
BackOutCounted(t) ==
  /\ At(t, "back_out")
  /\ FlipClusterSense(t)
  /\ TakeGroup(t)
  /\ UNCHANGED <<ring, GLOBAL_percluster_sense, GLOBAL_cluster_waitcount,
                 cluster, history, LOCAL_percore_sense, fetched, desc>>

\* Back out of the barrier and take the group.
BackOut(t) ==
  /\ At(t, "back_out")
  /\ GLOBAL_cluster_waitcount' =
       IF frame[t].entry_flag
         THEN [GLOBAL_cluster_waitcount EXCEPT ![ClusterSense(t)] = @ - 1]
         ELSE GLOBAL_cluster_waitcount
  /\ FlipClusterSense(t)
  /\ TakeGroup(t)
  /\ UNCHANGED <<ring, GLOBAL_percluster_sense, cluster, history,
                 LOCAL_percore_sense, fetched, desc>>

\* Mutant: the wait counter is not consulted.
DetectUncounted(t) ==
  /\ At(t, "wait_detect")
  /\ Goto(t, "reset_head")
  /\ UNCHANGED <<ring, senses, cluster, history, threads>>

\* Is every cluster counted?
DetectBarrier(t) ==
  /\ At(t, "wait_detect")
  /\ Goto(t, IF GLOBAL_cluster_waitcount[ClusterSense(t)] = NumClusters
               THEN "reset_head" ELSE "wait_sense")
  /\ UNCHANGED <<ring, senses, cluster, history, threads>>

\* Mutant: the head index goes back to the beginning of the ring.
ResetHeadToZero(t) ==
  /\ At(t, "reset_head")
  /\ GLOBAL_tq_head_index' = 0
  /\ Goto(t, "reset_waitcount")
  /\ UNCHANGED <<GLOBAL_tq_tail_index, GLOBAL_taskqueue_index, senses, cluster,
                 history, threads>>

\* "Actual barrier reached.  No turning back": reset the head index to the
\* tail index the loop loaded, reset the other wait counter, broadcast the
\* sense.
ResetHead(t) ==
  /\ At(t, "reset_head")
  /\ GLOBAL_tq_head_index' = frame[t].tail_idx
  /\ Goto(t, "reset_waitcount")
  /\ UNCHANGED <<GLOBAL_tq_tail_index, GLOBAL_taskqueue_index, senses, cluster,
                 history, threads>>

ResetWaitcount(t) ==
  /\ At(t, "reset_waitcount")
  /\ GLOBAL_cluster_waitcount' =
       [GLOBAL_cluster_waitcount EXCEPT ![Not(ClusterSense(t))] = 0]
  /\ Goto(t, "flip_global")
  /\ UNCHANGED <<ring, GLOBAL_percluster_sense, CLUSTER_percluster_sense,
                 cluster, history, threads>>

FlipGlobalSense(t) ==
  /\ At(t, "flip_global")
  /\ GLOBAL_percluster_sense' = ClusterSense(t)
  /\ Goto(t, "release_count")
  /\ UNCHANGED <<ring, GLOBAL_cluster_waitcount, CLUSTER_percluster_sense,
                 cluster, history, threads>>

\* Mutant: the count is left as it is.
KeepLocalCount(t) ==
  /\ At(t, "release_count")
  /\ Goto(t, "release_sense")
  /\ UNCHANGED <<ring, senses, history, threads, cluster>>

\* Let the cluster go: nobody waits any more, then flip the sense its threads
\* poll.
ResetLocalCount(t) ==
  /\ At(t, "release_count")
  /\ CLUSTER_core_waitcount' =
       [CLUSTER_core_waitcount EXCEPT ![clusterOf[t]] = 0]
  /\ Goto(t, "release_sense")
  /\ UNCHANGED <<ring, senses, history, threads, CLUSTER_percore_sense,
                 CLUSTER_taskqueue, CLUSTER_ltq_lock, CLUSTER_gtq_lock>>

FlipLocalSense(t) ==
  /\ At(t, "release_sense")
  /\ CLUSTER_percore_sense' =
       [CLUSTER_percore_sense EXCEPT ![clusterOf[t]] = Not(@)]
  /\ frame' = [frame EXCEPT ![t] = NoFrame]
  /\ Goto(t, "gtq_sync")
  /\ UNCHANGED <<ring, senses, history, CLUSTER_core_waitcount,
                 CLUSTER_taskqueue, CLUSTER_ltq_lock, CLUSTER_gtq_lock,
                 LOCAL_percore_sense, fetched, group, desc>>

\* The steps of SW_TaskQueue_Dequeue.
Dequeue(t) ==
  \/ FastPop(t) \/ CountSelf(t) \/ CheckSense(t) \/ LockLocal(t)
  \/ SlowPop(t) \/ UncountSelf(t) \/ TryGtqLock(t) \/ GtqHeld(t)
  \/ GtqSync(t) \/ InsertGroup(t) \/ GtqUnlock(t)
  \/ Reserve(t) \/ TryDequeue(t) \/ WaitSense(t) \/ LoadTail(t)
  \/ PendingLocalBarrier(t) \/ CountCluster(t) \/ FoundGroup(t)
  \/ BackOut(t) \/ DetectBarrier(t) \/ ResetHead(t) \/ ResetWaitcount(t)
  \/ FlipGlobalSense(t) \/ ResetLocalCount(t) \/ FlipLocalSense(t)

\* The caller runs the task it was given to the end and asks for another.
RunTask(t) ==
  /\ At(t, "run")
  /\ ran' = [ran EXCEPT ![desc[t][1]] = @ + 1]
  /\ desc' = [desc EXCEPT ![t] = <<>>]
  /\ Goto(t, "fast")
  /\ UNCHANGED <<ring, senses, cluster, LOCAL_percore_sense, frame, fetched,
                 group, made, phase>>

-----------------------------------------------------------------------------

\* No task is run twice: not a slot reserved twice, not a group taken by a
\* cluster that backs out of a barrier and by the one that resets the head.
RunAtMostOnce == \A k \in Task : ran[k] <= 1

\* A thread to which Dequeue has returned TQ_RET_SYNC finds every task that
\* was enqueued for the interval it ends run to its end.
QuiescentAtSync ==
  \A t \in Thread, k \in made : k[1] < phase[t] => ran[k] = 1

Members(c) == {t \in Thread : clusterOf[t] = c}

\* Labels of the provisional barrier: from CountSelf to UncountSelf or to the
\* return of TQ_RET_SYNC.
Provisional ==
  {"slow_sense", "slow_lock", "slow_locked", "slow_popped", "gtq_try",
   "gtq_held", "gtq_unlock", "gtq_sync", "reserve", "try_dequeue", "insert",
   "wait_sense", "wait_tail", "wait_pending", "wait_count", "wait_found",
   "wait_detect", "back_out", "reset_head", "reset_waitcount", "flip_global",
   "release_count", "release_sense"}

Waits(t) == pc[t] \in Provisional /\ ~Passed(t)

\* When Dequeue returns TQ_RET_SYNC to a thread, everyone else is at the same
\* point: in the barrier, without a task.
EveryoneAtSync ==
  \A t, u \in Thread : phase[t] > phase[u] =>
    phase[t] = phase[u] + 1 /\ pc[u] \in Provisional /\ desc[u] = <<>>

\* CLUSTER_core_waitcount, which PendingLocalBarrier compares with the size of
\* the cluster, is the number of its threads in the provisional barrier, or
\* 0 while the end of the barrier is being announced to them.
WaitcountExact ==
  \A c \in Cluster :
    CLUSTER_core_waitcount[c] =
      IF \E t \in Members(c) : At(t, "release_sense") THEN 0
      ELSE Cardinality({t \in Members(c) : Waits(t)})

\* The wait counter of the coming sense is the number of clusters whose GTQ
\* lock holder has counted its cluster and not backed out.
ClusterCountExact ==
  LET coming == Not(GLOBAL_percluster_sense) IN
  GLOBAL_cluster_waitcount[coming] =
    Cardinality({t \in Thread : frame[t].entry_flag /\ ClusterSense(t) = coming})

\* Past "No turning back" there really is a barrier: every thread waits, no
\* local queue holds a task, no group is left in the ring, and no other
\* thread believes to be the one that ends it.
NoTurningBack ==
  \A t \in Thread : pc[t] \in {"reset_head", "reset_waitcount", "flip_global"} =>
    /\ \A u \in Thread : Waits(u) /\ group[u] = <<>> /\ desc[u] = <<>>
    /\ \A c \in Cluster : CLUSTER_taskqueue[c] = <<>>
    /\ GLOBAL_tq_tail_index = frame[t].tail_idx
    /\ \A u \in Thread \ {t} :
         pc[u] \notin {"reset_head", "reset_waitcount", "flip_global", "back_out"}

\* The counters stay within what they count, the senses are bits, a lock is
\* held by a thread of its own cluster.
TypeOK ==
  /\ GLOBAL_tq_head_index \in Nat /\ GLOBAL_tq_tail_index \in Nat
  /\ GLOBAL_taskqueue_index \in [0 .. IndexSize - 1 -> Seq(Task)]
  /\ GLOBAL_percluster_sense \in {0, 1}
  /\ GLOBAL_cluster_waitcount \in [{0, 1} -> 0 .. NumClusters]
  /\ CLUSTER_percluster_sense \in [Cluster -> {0, 1}]
  /\ CLUSTER_percore_sense \in [Cluster -> {0, 1}]
  /\ CLUSTER_core_waitcount \in [Cluster -> 0 .. PerCluster]
  /\ CLUSTER_taskqueue \in [Cluster -> Seq(Task)]
  /\ \A c \in Cluster : /\ CLUSTER_ltq_lock[c] \in Members(c) \cup {Nobody}
                        /\ CLUSTER_gtq_lock[c] \in Members(c) \cup {Nobody}
  /\ LOCAL_percore_sense \in [Thread -> {0, 1}]
  /\ frame \in [Thread -> [head_idx : Nat, tail_idx : Nat, entry_flag : BOOLEAN]]
  /\ fetched \in [Thread -> 0 .. SWTQ_TASK_GROUP_FETCH - 1]
  /\ group \in [Thread -> Seq(Task)]
  /\ desc \in [Thread -> {<<>>} \cup {<<k>> : k \in Task}]
  /\ made \subseteq Task
  /\ ran \in [Task -> Nat]
  /\ phase \in [Thread -> Nat]
=============================================================================
