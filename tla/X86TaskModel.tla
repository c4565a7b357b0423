---------------------------- MODULE X86TaskModel ----------------------------
(***************************************************************************)
(* The task model emulated on x86 (lib/taskmodel-x86/lib/librtm-x86.c): a  *)
(* ring of tasks, its reservations, the barrier inside TaskQueue_Dequeue,  *)
(* the sense-reversing barrier of RigelBarrier_EnterFull, and the programs *)
(* of tests/ that run on them.                                             *)
(*                                                                         *)
(* A program is a sequence of intervals.  In each, core 0 enqueues a loop  *)
(* (heat.c, cg.c, mri.c), whose tasks may enqueue loops of their own       *)
(* (sobel.c), and every core dequeues until it gets SYNC; cg.c then enters *)
(* the barrier, heat.c and rtm-test.c do not.                              *)
(*                                                                         *)
(* A section under GLOBAL_GTQ_mutex or under the barrier's mutex is one    *)
(* step.  A round of a spin loop that changes nothing is not a step.       *)
(***************************************************************************)
EXTENDS Integers, Sequences, FiniteSets

CONSTANTS
  Cores,     \* CORES_TOTAL
  Size,      \* max_size of TaskQueue_Init
  Programs   \* sequences of [iters, per, inner, barrier]

ASSUME X86Assumption ==
  /\ Cores \in Nat \ {0}
  /\ Size \in Nat \ {0}
  /\ Programs \subseteq
       Seq([iters : Nat, per : Nat \ {0}, inner : Nat, barrier : BOOLEAN])
  /\ <<>> \notin Programs

Core == 0 .. Cores - 1
Slot == 0 .. Size - 1
NoTask == <<>>

VARIABLES
  prog,          \* the program that runs; it never changes
  ready,         \* TaskQueue_Init is done and the program's flag is set
  data, head, tail, count,              \* the ring and its three indices
  wait_count, globalsense, localsense,  \* the barrier in TaskQueue_Dequeue
  barrier_count, barrier_global, barrier_local,  \* RigelBarrier_EnterFull
  pc,            \* where each core is
  interval,      \* the interval of the program it is in
  loop, start,   \* TaskQueue_Loop: its arguments and the next iteration
  head_idx, did_waitcount,  \* TaskQueue_Dequeue's locals
  td,            \* the task descriptor the core works on
  unread,        \* history: slots enqueued and not dequeued
  closed         \* history: how often the barrier in TaskQueue_Dequeue is reached

ring == <<data, head, tail, count, unread>>
senses == <<wait_count, globalsense, localsense, closed>>
barrier == <<barrier_count, barrier_global, barrier_local>>
locals == <<loop, start, head_idx, did_waitcount, td>>
vars == <<prog, ready, ring, senses, barrier, pc, interval, locals>>

Labels == {"start", "loop", "reserve", "wait", "run", "flip", "enter", "spin",
           "end", "done"}

\* X86_TASK_MODEL_INIT: the globals, and the cores as threads.
Init ==
  /\ prog \in Programs
  /\ ready = FALSE
  /\ data = [s \in Slot |-> NoTask] /\ unread = {}
  /\ head = 0 /\ tail = 0 /\ count = 0
  /\ wait_count = 0 /\ globalsense = 0 /\ closed = 0
  /\ localsense = [c \in Core |-> 0]
  /\ barrier_count = 0 /\ barrier_global = 0
  /\ barrier_local = [c \in Core |-> 0]
  /\ pc = [c \in Core |-> "start"]
  /\ interval = [c \in Core |-> 1]
  /\ loop = [c \in Core |-> <<>>]
  /\ start = [c \in Core |-> 0]
  /\ head_idx = [c \in Core |-> 0]
  /\ did_waitcount = [c \in Core |-> FALSE]
  /\ td = [c \in Core |-> NoTask]

At(c, l) == pc[c] = l
Goto(c, l) == pc' = [pc EXCEPT ![c] = l] /\ UNCHANGED <<prog, interval>>

\* A call of TaskQueue_Loop.  A job names the loop: its interval and, for a
\* loop that a task enqueues, the first iteration of that task.
Loop(c, job, iters, per, inner) ==
  /\ loop' = [loop EXCEPT ![c] = [job |-> job, iters |-> iters, per |-> per,
                                  inner |-> inner]]
  /\ start' = [start EXCEPT ![c] = 0]

\* The core comes to interval i: core 0 calls TaskQueue_Loop, the others
\* TaskQueue_Dequeue.
Begin(c, i) ==
  /\ UNCHANGED <<prog, head_idx, did_waitcount, td>>
  /\ interval' = [interval EXCEPT ![c] = i]
  /\ IF c = 0
       THEN /\ pc' = [pc EXCEPT ![c] = "loop"]
            /\ Loop(c, <<i>>, prog[i].iters, prog[i].per, prog[i].inner)
       ELSE /\ pc' = [pc EXCEPT ![c] = "reserve"]
            /\ UNCHANGED <<loop, start>>

\* TaskQueue_Init by core 0, then the flag that lets the others go.
TaskQueue_Init ==
  /\ At(0, "start")
  /\ ready' = TRUE
  /\ data' = [s \in Slot |-> NoTask]
  /\ head' = 0 /\ tail' = 0
  /\ Begin(0, 1)
  /\ UNCHANGED <<count, unread, senses, barrier>>

\* atomic_flag_spin_until_set.
FlagSeen(c) ==
  /\ At(c, "start") /\ c # 0
  /\ ready
  /\ Begin(c, 1)
  /\ UNCHANGED <<ready, ring, senses, barrier>>

\* One round of TaskQueue_Loop: the last task gets what is left.
LoopEnd(c) ==
  IF start[c] + loop[c].per > loop[c].iters
    THEN loop[c].iters ELSE start[c] + loop[c].per

\* TaskQueue_Enqueue waits while the ring is full.
TaskQueue_Enqueue(c) ==
  /\ At(c, "loop") /\ start[c] < loop[c].iters
  /\ count # Size
  /\ data' = [data EXCEPT ![tail] =
                [job |-> loop[c].job, begin |-> start[c], end |-> LoopEnd(c),
                 inner |-> loop[c].inner]]
  /\ tail' = (tail + 1) % Size
  /\ count' = count + 1
  /\ unread' = unread \cup {tail}
  /\ start' = [start EXCEPT ![c] = LoopEnd(c)]
  /\ UNCHANGED <<prog, ready, head, senses, barrier, pc, interval, loop,
                 head_idx, did_waitcount, td>>

\* TaskQueue_Loop returns; the task that called it, if one did, is finished.
LoopReturn(c) ==
  /\ At(c, "loop") /\ start[c] >= loop[c].iters
  /\ Goto(c, "reserve")
  /\ td' = [td EXCEPT ![c] = NoTask]
  /\ UNCHANGED <<ready, ring, senses, barrier, loop, start, head_idx, did_waitcount>>

\* Mutant: the head never wraps.
ReserveNoWrap(c) ==
  /\ At(c, "reserve")
  /\ head_idx' = [head_idx EXCEPT ![c] = head]
  /\ head' = head + 1
  /\ did_waitcount' = [did_waitcount EXCEPT ![c] = FALSE]
  /\ Goto(c, "wait")
  /\ UNCHANGED <<ready, data, tail, count, unread, senses, barrier, loop, start, td>>

\* Mutant: the reservation is read and the head not moved on.
ReserveSame(c) ==
  /\ At(c, "reserve")
  /\ head_idx' = [head_idx EXCEPT ![c] = head]
  /\ did_waitcount' = [did_waitcount EXCEPT ![c] = FALSE]
  /\ Goto(c, "wait")
  /\ UNCHANGED <<ready, ring, senses, barrier, loop, start, td>>

\* TaskQueue_Dequeue takes the next reservation.  The head wraps past Size.
Reserve(c) ==
  /\ At(c, "reserve")
  /\ head_idx' = [head_idx EXCEPT ![c] = head]
  /\ head' = IF head + 1 > Size THEN (head + 1) % Size ELSE head + 1
  /\ did_waitcount' = [did_waitcount EXCEPT ![c] = FALSE]
  /\ Goto(c, "wait")
  /\ UNCHANGED <<ready, data, tail, count, unread, senses, barrier, loop, start, td>>

Flipped(c) == [localsense EXCEPT ![c] = 1 - @]

\* Mutant: a core that had arrived is still counted.
TakeStillCounted(c) ==
  /\ At(c, "wait")
  /\ count > 0 /\ head_idx[c] < tail
  /\ td' = [td EXCEPT ![c] = data[head_idx[c]]]
  /\ count' = count - 1
  /\ unread' = unread \ {head_idx[c]}
  /\ localsense' = IF did_waitcount[c] THEN Flipped(c) ELSE localsense
  /\ Goto(c, "run")
  /\ UNCHANGED <<ready, data, head, tail, wait_count, globalsense, closed,
                 barrier, loop, start, head_idx, did_waitcount>>

\* There are tasks, and the reservation is for one of them.  A core that had
\* arrived at the barrier leaves it again.
Take(c) ==
  /\ At(c, "wait")
  /\ count > 0 /\ head_idx[c] < tail
  /\ td' = [td EXCEPT ![c] = data[head_idx[c]]]
  /\ count' = count - 1
  /\ unread' = unread \ {head_idx[c]}
  /\ IF did_waitcount[c]
       THEN localsense' = Flipped(c) /\ wait_count' = wait_count - 1
       ELSE UNCHANGED <<localsense, wait_count>>
  /\ Goto(c, "run")
  /\ UNCHANGED <<ready, data, head, tail, globalsense, closed, barrier, loop,
                 start, head_idx, did_waitcount>>

\* Mutant: the barrier opens one core early.
ArriveEarly(c) ==
  /\ At(c, "wait")
  /\ count = 0 /\ ~did_waitcount[c]
  /\ did_waitcount' = [did_waitcount EXCEPT ![c] = TRUE]
  /\ localsense' = Flipped(c)
  /\ IF wait_count + 2 = Cores
       THEN /\ globalsense' = localsense'[c]
            /\ wait_count' = 0
            /\ head' = 0 /\ tail' = 0
            /\ closed' = closed + 1
       ELSE /\ wait_count' = wait_count + 1
            /\ UNCHANGED <<globalsense, head, tail, closed>>
  /\ UNCHANGED <<prog, ready, data, count, unread, barrier, pc, interval, loop,
                 start, head_idx, td>>

\* Mutant: the head is not set back.
ArriveKeepHead(c) ==
  /\ At(c, "wait")
  /\ count = 0 /\ ~did_waitcount[c]
  /\ did_waitcount' = [did_waitcount EXCEPT ![c] = TRUE]
  /\ localsense' = Flipped(c)
  /\ IF wait_count + 1 = Cores
       THEN /\ globalsense' = localsense'[c]
            /\ wait_count' = 0
            /\ tail' = 0
            /\ closed' = closed + 1
       ELSE /\ wait_count' = wait_count + 1
            /\ UNCHANGED <<globalsense, tail, closed>>
  /\ UNCHANGED <<prog, ready, data, head, count, unread, barrier, pc, interval,
                 loop, start, head_idx, td>>

\* The core arrives at the barrier.  The last to arrive opens it and sets the
\* indices back.
Arrive(c) ==
  /\ At(c, "wait")
  /\ count = 0 /\ ~did_waitcount[c]
  /\ did_waitcount' = [did_waitcount EXCEPT ![c] = TRUE]
  /\ localsense' = Flipped(c)
  /\ IF wait_count + 1 = Cores
       THEN /\ globalsense' = localsense'[c]
            /\ wait_count' = 0
            /\ head' = 0 /\ tail' = 0
            /\ closed' = closed + 1
       ELSE /\ wait_count' = wait_count + 1
            /\ UNCHANGED <<globalsense, head, tail, closed>>
  /\ UNCHANGED <<prog, ready, data, count, unread, barrier, pc, interval, loop,
                 start, head_idx, td>>

\* The core leaves interval i of the program.
NextInterval(c) ==
  IF interval[c] = Len(prog)
    THEN /\ pc' = [pc EXCEPT ![c] = "end"]
         /\ interval' = [interval EXCEPT ![c] = @ + 1]
         /\ UNCHANGED <<prog, locals>>
    ELSE Begin(c, interval[c] + 1)

\* The barrier is open: TQ_RET_SYNC.
Sync(c) ==
  /\ At(c, "wait")
  /\ count = 0 /\ did_waitcount[c]
  /\ globalsense = localsense[c]
  /\ IF prog[interval[c]].barrier
       THEN Goto(c, "flip") /\ UNCHANGED locals
       ELSE NextInterval(c)
  /\ UNCHANGED <<ready, ring, senses, barrier>>

\* The program runs the task; one with inner iterations enqueues them.
Run(c) ==
  /\ At(c, "run")
  /\ IF td[c].inner > 0
       THEN /\ Loop(c, Append(td[c].job, td[c].begin), td[c].inner, 1, 0)
            /\ Goto(c, "loop")
            /\ UNCHANGED td
       ELSE /\ td' = [td EXCEPT ![c] = NoTask]
            /\ Goto(c, "reserve")
            /\ UNCHANGED <<loop, start>>
  /\ UNCHANGED <<ready, ring, senses, barrier, head_idx, did_waitcount>>

\* rtmx86_enter_barrier flips its own sense, ...
BarrierFlip(c) ==
  /\ At(c, "flip")
  /\ barrier_local' = [barrier_local EXCEPT ![c] = 1 - @]
  /\ Goto(c, "enter")
  /\ UNCHANGED <<ready, ring, senses, barrier_count, barrier_global, locals>>

\* Mutant: the count is not set back.
BarrierEnterKeep(c) ==
  /\ At(c, "enter")
  /\ barrier_count' = barrier_count + 1
  /\ barrier_global' = IF barrier_count' >= Cores THEN barrier_local[c]
                       ELSE barrier_global
  /\ Goto(c, "spin")
  /\ UNCHANGED <<ready, ring, senses, barrier_local, locals>>

\* ... counts itself, lets all go if it is the last, ...
BarrierEnter(c) ==
  /\ At(c, "enter")
  /\ IF barrier_count + 1 = Cores
       THEN barrier_count' = 0 /\ barrier_global' = barrier_local[c]
       ELSE barrier_count' = barrier_count + 1 /\ UNCHANGED barrier_global
  /\ Goto(c, "spin")
  /\ UNCHANGED <<ready, ring, senses, barrier_local, locals>>

\* ... and waits for the sense of all to be its own.
BarrierLeave(c) ==
  /\ At(c, "spin")
  /\ barrier_local[c] = barrier_global
  /\ NextInterval(c)
  /\ UNCHANGED <<ready, ring, senses, barrier>>

\* The core is through; core 0 frees the ring.
TaskQueue_End(c) ==
  /\ At(c, "end")
  /\ data' = IF c = 0 THEN [s \in Slot |-> NoTask] ELSE data
  /\ Goto(c, "done")
  /\ UNCHANGED <<ready, head, tail, count, unread, senses, barrier, locals>>

Step(c) ==
  \/ c = 0 /\ TaskQueue_Init
  \/ FlagSeen(c) \/ TaskQueue_Enqueue(c) \/ LoopReturn(c) \/ Reserve(c)
  \/ Take(c) \/ Arrive(c) \/ Sync(c) \/ Run(c)
  \/ BarrierFlip(c) \/ BarrierEnter(c) \/ BarrierLeave(c) \/ TaskQueue_End(c)

Done == (\A c \in Core : At(c, "done")) /\ UNCHANGED vars

Next == (\E c \in Core : Step(c)) \/ Done

Spec == Init /\ [][Next]_vars

\* Every core is a thread of its own that the system keeps running.
FairSpec == Spec /\ \A c \in Core : WF_vars(Step(c))

-----------------------------------------------------------------------------

JobTask == [job : Seq(Nat), begin : Nat, end : Nat, inner : Nat]

TypeOK ==
  /\ prog \in Programs
  /\ ready \in BOOLEAN
  /\ data \in [Slot -> JobTask \cup {NoTask}]
  /\ head \in 0 .. Size /\ tail \in Slot /\ count \in 0 .. Size
  /\ unread \subseteq Slot
  /\ wait_count \in 0 .. Cores - 1 /\ globalsense \in {0, 1}
  /\ localsense \in [Core -> {0, 1}]
  /\ barrier_count \in 0 .. Cores - 1 /\ barrier_global \in {0, 1}
  /\ barrier_local \in [Core -> {0, 1}]
  /\ pc \in [Core -> Labels]
  /\ interval \in [Core -> 1 .. Len(prog) + 1]
  /\ start \in [Core -> Nat]
  /\ head_idx \in [Core -> 0 .. Size]
  /\ did_waitcount \in [Core -> BOOLEAN]
  /\ td \in [Core -> JobTask \cup {NoTask}]
  /\ closed \in Nat

\* Cores that have arrived at the barrier of TaskQueue_Dequeue and that it has
\* not let go.
Arrived ==
  {c \in Core : At(c, "wait") /\ did_waitcount[c] /\ localsense[c] # globalsense}

\* GLOBAL_wait_count counts the cores that have arrived, and never falls below
\* zero, which TaskQueue_Dequeue asserts where it counts down.
WaitCountExact == wait_count = Cardinality(Arrived)

\* "Number of tasks in the queue currently" (of GLOBAL_tq_count): no task is
\* read twice and none is left behind by the reservations.
CountExact == count = Cardinality(unread)

\* The program sees a pool of tasks: each task once, and SYNC only when every
\* task of the interval is finished.
Synced(c) ==
  interval[c] - 1 + IF pc[c] \in {"flip", "enter", "spin"} THEN 1 ELSE 0

Pool == INSTANCE TaskPool WITH
          waiting <- {data[s] : s \in unread},
          busy <- td,
          synced <- [c \in Core |-> Synced(c)]

TasksArePooled == Pool!Spec

\* RigelBarrier_EnterFull is a barrier: nobody leaves before all have come.
Stage(c) ==
  IF pc[c] \notin {"enter", "spin"} THEN "outside"
  ELSE IF barrier_local[c] = barrier_global THEN "letgo" ELSE "held"

Phase == INSTANCE PhaseBarrier WITH
           Thread <- Core, stage <- [c \in Core |-> Stage(c)]

BarrierIsPhased == Phase!Spec

\* Every core comes to the end of the program: no core waits for ever for a
\* task, for the SYNC or for the barrier.
Terminates == <>(\A c \in Core : At(c, "done"))
=============================================================================
