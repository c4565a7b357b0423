--------------------------- MODULE TaskSequential ---------------------------
(***************************************************************************)
(* A program on the task queue in which one thread enqueues: every thread  *)
(* calls SW_TaskQueue_Loop_SEQUENTIAL (lib/libpar/rtm-sw-enqueue.c) and    *)
(* then dequeues until TQ_RET_SYNC, but the call does nothing except on    *)
(* thread 0.  SW_TaskQueue_Enqueue is the same call for one iteration.     *)
(*                                                                         *)
(* The enqueuing thread holds GLOBAL_tq_enqueue_lock throughout; nobody    *)
(* else ever takes it here.                                                *)
(***************************************************************************)
EXTENDS TaskQueue

CONSTANTS Thread0,                    \* the thread with number 0, in Thread
          TotIters, ItersPerTask,     \* arguments of every call
          MaxPhase                    \* bound: intervals the program runs

VARIABLE start     \* register 23 of the asm block: the next iteration

vars == <<dqvars, start>>

Init ==
  /\ InitQueue
  /\ pc = [t \in Thread |-> "sync"]
  /\ start = 0

\* The call: only thread 0 does something.
SeqCall(t) ==
  /\ At(t, "sync") /\ phase[t] < MaxPhase
  /\ Goto(t, IF t = Thread0 THEN "enq_while" ELSE "fast")
  /\ start' = IF t = Thread0 THEN 0 ELSE start
  /\ UNCHANGED <<ring, senses, cluster, threads, history>>

LOCAL Least(a, b) == IF a < b THEN a ELSE b

\* The group that begins at iteration "from": up to TASK_GROUP_SIZE tasks.
GroupFrom(p, from) ==
  LET rest  == TotIters - from
      count == Least(TASK_GROUP_SIZE,
                     (rest + ItersPerTask - 1) \div ItersPerTask)
  IN  [i \in 1 .. count |->
         <<p, from + (i - 1) * ItersPerTask,
              Least(from + i * ItersPerTask, TotIters)>>]

\* One round of the while loop: fill a slot, advance the tail.  When all
\* iterations are enqueued the call returns and the thread dequeues.  On the
\* way out the asm block reloads $20-$28 from the stack and adds 44 to $sp,
\* for which it has pushed nothing: registers and the stack are not modelled,
\* and what follows is the call as its caller is meant to see it.
EnqWhile(t) ==
  LET g == GroupFrom(phase[t], start)
      slot == TQ_IDX_MOD(GLOBAL_tq_tail_index) IN
  /\ At(t, "enq_while")
  /\ IF start < TotIters
       THEN /\ GLOBAL_taskqueue_index' =
                 [GLOBAL_taskqueue_index EXCEPT ![slot] = g]
            /\ GLOBAL_tq_tail_index' = GLOBAL_tq_tail_index + 1
            /\ made' = made \cup {g[i] : i \in DOMAIN g}
            /\ start' = g[Len(g)][3]
            /\ UNCHANGED pc
       ELSE /\ Goto(t, "fast")
            /\ UNCHANGED <<GLOBAL_taskqueue_index, GLOBAL_tq_tail_index, made,
                           start>>
  /\ UNCHANGED <<GLOBAL_tq_head_index, senses, cluster, threads, ran, phase>>

Finished == \A t \in Thread : At(t, "sync") /\ phase[t] = MaxPhase

\* The program is over.
Stop == Finished /\ UNCHANGED vars

Step(t) ==
  \/ SeqCall(t) \/ EnqWhile(t)
  \/ (Dequeue(t) \/ RunTask(t)) /\ UNCHANGED start

Next == (\E t \in Thread : Step(t)) \/ Stop

Spec == Init /\ [][Next]_vars
=============================================================================
