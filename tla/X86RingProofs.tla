--------------------------- MODULE X86RingProofs ----------------------------
(***************************************************************************)
(* The ring of the x86 task model: count is the number of the tasks in it, *)
(* and what the program sees of it is a pool of tasks, for any number of   *)
(* cores and any programs whose loops fit and enqueue no others.           *)
(***************************************************************************)
EXTENDS X86TaskModelProofs

\* Leaves that name no prover go to SMT, then to Zenon, then to SMT once more.
USE SMTT(30), ZenonT(30), SMTT(31)

-----------------------------------------------------------------------------
(* The count of tasks in the ring, where no task enqueues others and every *)
(* interval leaves a slot for each core: then neither index wraps.         *)

\* The task after n others exists only if there is room for it and the cores.
RingHasRoom ==
  /\ Cores <= Size
  /\ \A p \in Programs : \A i \in 1 .. Len(p) : \A n \in Nat :
       n * p[i].per < p[i].iters => n + 1 + Cores <= Size

\* The loop of core 0 is that of its interval.
LoopOfInterval ==
  /\ interval[0] \in 1 .. Len(prog)
  /\ loop[0].iters = prog[interval[0]].iters
  /\ loop[0].per = prog[interval[0]].per

\* Only core 0 enqueues, the loop of its interval, and not before the flag.
FlatInv ==
  /\ \A c \in Core : At(c, "loop") => c = 0 /\ LoopOfInterval
  /\ ~ready => (\A c \in Core : At(c, "start")) /\ head = 0
  /\ At(0, "start") => ~ready

\* The tail is the number of tasks enqueued in the interval.
TailInv ==
  /\ tail + Cores <= Size
  /\ (interval[0] = closed \/ At(0, "start")) => tail = 0
  /\ At(0, "loop") /\ start[0] < loop[0].iters => start[0] = tail * loop[0].per

\* The core waits for the task that its reservation names.
Reserves(c) == At(c, "wait") /\ interval[c] # closed

Held(s) == \E c \in Core : Reserves(c) /\ head_idx[c] = s

\* The reservations are apart and below the head, those without a task are
\* all held, and the tasks not yet read are those held or not yet reserved.
ReserveInv ==
  /\ \A c \in Core : Reserves(c) => head_idx[c] < head
  /\ \A c, d \in Core :
       Reserves(c) /\ Reserves(d) /\ head_idx[c] = head_idx[d] => c = d
  /\ \A s \in tail .. head - 1 : Held(s)
  /\ unread = {s \in 0 .. tail - 1 : s >= head \/ Held(s)}
  /\ CountExact

CountInv == FlatInv /\ TailInv /\ ReserveInv

LEMMA CountInit == RingHasRoom /\ Init => CountInv
<1> SUFFICES ASSUME RingHasRoom, Init PROVE CountInv
  OBVIOUS
<1>0. Size \in Nat /\ Cores \in Nat /\ Cores <= Size
  BY X86Assumption DEF RingHasRoom
<1>1. (\A c \in Core : pc[c] = "start") /\ head = 0 /\ tail = 0 /\ unread = {} /\ count = 0
      /\ ready = FALSE
  BY DEF Init
<1>3. FlatInv
  BY <1>1 DEF FlatInv, At
<1>4. TailInv
  BY <1>0, <1>1, CoresCount DEF TailInv, At
<1>5. \A c \in Core : ~Reserves(c)
  BY <1>1 DEF Reserves, At
<1>6. 0 .. 0 - 1 = {}
  OBVIOUS
<1>7. CountExact
  BY <1>1, FS_EmptySet DEF CountExact
<1> QED BY <1>1, <1>3, <1>4, <1>5, <1>6, <1>7 DEF CountInv, ReserveInv

\* A core that comes to an interval comes to one of the program.
LEMMA BeginsAt ==
  ASSUME SyncTypes, TypesInv, NEW c \in Core, NEW i \in 1 .. Len(prog), Begin(c, i)
  PROVE  /\ pc' = [pc EXCEPT ![c] = IF c = 0 THEN "loop" ELSE "reserve"]
         /\ interval' = [interval EXCEPT ![c] = i]
         /\ UNCHANGED <<prog, td, head_idx, did_waitcount>>
         /\ c = 0 => /\ interval'[0] = i /\ start'[0] = 0
                     /\ loop'[0].iters = prog[i].iters /\ loop'[0].per = prog[i].per
         /\ c # 0 => UNCHANGED <<loop, start>>
<1>1. CASE c = 0
  <2>1. /\ pc' = [pc EXCEPT ![0] = "loop"] /\ interval' = [interval EXCEPT ![0] = i]
        /\ UNCHANGED <<prog, td, head_idx, did_waitcount>>
        /\ Loop(0, <<i>>, prog[i].iters, prog[i].per, prog[i].inner)
    BY <1>1 DEF Begin
  <2>2. PICK a : a = [job |-> <<i>>, iters |-> prog[i].iters, per |-> prog[i].per,
                      inner |-> prog[i].inner]
    BY ZenonT(30)
  <2>3. loop' = [loop EXCEPT ![0] = a] /\ start' = [start EXCEPT ![0] = 0]
    BY <2>1, <2>2 DEF Loop
  <2>4. loop'[0] = a /\ start'[0] = 0
    BY <2>3, CoresCount DEF TypesInv, LoopTypes
  <2>5. a.iters = prog[i].iters /\ a.per = prog[i].per 
    BY <2>2
  <2>6. interval'[0] = i
    BY <2>1, CoresCount DEF SyncTypes
  <2> QED BY <1>1, <2>1, <2>4, <2>5, <2>6
<1>2. CASE c # 0
  BY <1>2 DEF Begin
<1> QED BY <1>1, <1>2

\* A core leaves the interval: for the next one, or for its end.
LEMMA NextBegins ==
  ASSUME SyncInv, NEW c \in Core, NextInterval(c), ~Over(c)
  PROVE  \/ /\ pc' = [pc EXCEPT ![c] = "end"] /\ interval' = [interval EXCEPT ![c] = @ + 1]
            /\ UNCHANGED <<prog, loop, start, head_idx>>
         \/ interval[c] + 1 \in 1 .. Len(prog) /\ Begin(c, interval[c] + 1)
<1>1. /\ Len(prog) \in Nat /\ interval[c] \in 1 .. Len(prog) + 1
      /\ interval[c] # Len(prog) + 1
  BY X86Assumption DEF SyncInv, SyncTypes, SyncCore
<1>2. CASE interval[c] = Len(prog)
  BY <1>2 DEF NextInterval, locals
<1>3. CASE interval[c] # Len(prog)
  BY <1>1, <1>3 DEF NextInterval
<1> QED BY <1>2, <1>3

\* A step of c that calls no loop.
NoCall(c) ==
  /\ \E l \in Labels \ {"loop", "start"} : pc' = [pc EXCEPT ![c] = l]
  /\ interval' = interval \/ interval' = [interval EXCEPT ![c] = @ + 1]
  /\ UNCHANGED <<prog, loop, start>>

\* The steps that come to an interval.
Comes(c) == (c = 0 /\ TaskQueue_Init) \/ FlagSeen(c) \/ Sync(c) \/ BarrierLeave(c)

\* In a program without inner loops running a task calls no loop.
LEMMA RunEnds ==
  ASSUME NoInnerLoops, TypesInv, NEW c \in Core, Run(c)
  PROVE  /\ pc[c] = "run" /\ td[c] \in LoopTask /\ pc' = [pc EXCEPT ![c] = "reserve"]
         /\ td' = [td EXCEPT ![c] = NoTask]
         /\ UNCHANGED <<prog, interval, loop, start>>
<1>1. td[c] \in LoopTask /\ pc[c] = "run"
  BY DEF Run, At, TypesInv, TaskTypes
<1>2. td[c].inner = 0
  BY <1>1 DEF LoopTask, Inner
<1> QED BY <1>1, <1>2 DEF Run, Goto

LEMMA Calls ==
  ASSUME NoInnerLoops, BarrierTypes, SyncInv, TypesInv, NEW c \in Core, Step(c)
  PROVE  \/ Comes(c) /\ \E i \in 1 .. Len(prog) : Begin(c, i)
         \/ TaskQueue_Enqueue(c)
         \/ NoCall(c)
<1>0. 1 \in 1 .. Len(prog) /\ pc = [pc EXCEPT ![c] = pc[c]]
  BY X86Assumption DEF SyncInv, SyncTypes, BarrierTypes
<1>1. CASE c = 0 /\ TaskQueue_Init
  BY <1>0, <1>1 DEF TaskQueue_Init, Comes
<1>2. CASE FlagSeen(c)
  BY <1>0, <1>2 DEF FlagSeen, Comes
<1>3. CASE LoopReturn(c) \/ Reserve(c) \/ Take(c) \/ BarrierFlip(c) \/ BarrierEnter(c)
             \/ TaskQueue_End(c)
  BY <1>0, <1>3, ZenonT(30) DEF LoopReturn, Reserve, Take, BarrierFlip, BarrierEnter,
     TaskQueue_End, Goto,
              locals, Labels, NoCall
<1>4. CASE Arrive(c)
  BY <1>0, <1>4 DEF Arrive, At, NoCall, Labels
<1>5. ASSUME NextInterval(c), ~Over(c)
      PROVE  NoCall(c) \/ \E i \in 1 .. Len(prog) : Begin(c, i)
  BY <1>5, NextBegins DEF NoCall, Labels
<1>6. CASE Sync(c)
  <2>1. CASE Goto(c, "flip") /\ UNCHANGED locals
    BY <1>0, <2>1, ZenonT(30) DEF Goto, locals, NoCall, Labels
  <2> QED BY <1>5, <1>6, <2>1, ZenonT(30) DEF Sync, At, Over, Comes
<1>7. CASE BarrierLeave(c)
  BY <1>5, <1>7 DEF BarrierLeave, At, Over, Comes
<1>8. CASE Run(c)
  BY <1>8, RunEnds, ZenonT(30) DEF NoCall, Labels
<1> QED BY <1>1, <1>2, <1>3, <1>4, <1>6, <1>7, <1>8 DEF Step

LEMMA FlatStep ==
  ASSUME NoInnerLoops, BarrierTypes, SyncInv, TypesInv, FlatInv, NEW c \in Core, Step(c)
  PROVE  FlatInv' /\ ready' /\ ~At(0, "start")'
<1>1. ready'
  <2>1. CASE pc[c] = "start"
    BY <2>1 DEF Step, TaskQueue_Init, FlagSeen, TaskQueue_Enqueue, LoopReturn, Reserve, Take,
           Arrive, Sync, Run, BarrierFlip, BarrierEnter, BarrierLeave, TaskQueue_End, At
  <2>2. CASE pc[c] # "start"
    <3>1. ready
      BY <2>2 DEF FlatInv, At
    <3> QED BY <3>1, ZenonT(30) DEF Step, TaskQueue_Init, FlagSeen, TaskQueue_Enqueue,
           LoopReturn, Reserve, Take, Arrive, Sync, Run, BarrierFlip, BarrierEnter, BarrierLeave,
           TaskQueue_End
  <2> QED BY <2>1, <2>2
<1>2. SyncTypes
  BY DEF SyncInv
<1>3. \/ \E i \in 1 .. Len(prog) : Begin(c, i)
      \/ TaskQueue_Enqueue(c)
      \/ NoCall(c)
  BY Calls
<1>4. pc'[c] # "start" /\ \A d \in Core : d # c => pc'[d] = pc[d]
  <2>1. CASE \E i \in 1 .. Len(prog) : Begin(c, i)
    <3>1. PICK i \in 1 .. Len(prog) : Begin(c, i)
      BY <2>1
    <3>2. pc' = [pc EXCEPT ![c] = IF c = 0 THEN "loop" ELSE "reserve"]
      BY <1>2, <3>1, BeginsAt, ZenonT(30)
    <3> QED BY <3>2 DEF BarrierTypes
  <2>2. CASE TaskQueue_Enqueue(c)
    BY <2>2 DEF TaskQueue_Enqueue, At
  <2>3. CASE NoCall(c)
    BY <2>3 DEF NoCall, BarrierTypes
  <2> QED BY <1>3, <2>1, <2>2, <2>3
<1>5. ~At(0, "start")'
  <2> SUFFICES ASSUME pc'[0] = "start" PROVE FALSE
    BY DEF At
  <2>1. pc[0] = "start" /\ c # 0
    BY <1>4, CoresCount
  <2>2. ~ready /\ pc[c] = "start"
    BY <2>1 DEF FlatInv, At
  <2> QED BY <2>1, <2>2, ZenonT(30) DEF Step, FlagSeen, TaskQueue_Enqueue, LoopReturn,
             Reserve, Take, Arrive,
        Sync, Run, BarrierFlip, BarrierEnter, BarrierLeave, TaskQueue_End, At
<1>6. ASSUME NEW d \in Core, pc'[d] = "loop"
      PROVE  d = 0 /\ LoopOfInterval'
  <2>1. ASSUME NEW i \in 1 .. Len(prog), Begin(c, i), c = 0
        PROVE  d = 0 /\ LoopOfInterval'
    <3>1. d = 0
      <4>1. d # 0 => pc[d] = "loop"
        BY <1>4, <1>6, <2>1
      <4> QED BY <4>1 DEF FlatInv, At
    <3> QED BY <1>2, <2>1, <3>1, BeginsAt DEF LoopOfInterval
  <2>2. ASSUME pc[d] = "loop", UNCHANGED prog, loop'[0] = loop[0], interval'[0] = interval[0]
        PROVE  d = 0 /\ LoopOfInterval'
    BY <2>2, ZenonT(30) DEF FlatInv, At, LoopOfInterval
  <2>3. ASSUME NEW i \in 1 .. Len(prog), Begin(c, i), c # 0
        PROVE  d = 0 /\ LoopOfInterval'
    <3>1. /\ pc' = [pc EXCEPT ![c] = "reserve"] /\ interval' = [interval EXCEPT ![c] = i]
          /\ UNCHANGED <<prog, loop>>
      BY <1>2, <2>3, BeginsAt
    <3>2. pc[d] = "loop" /\ interval'[0] = interval[0]
      BY <1>2, <1>6, <2>3, <3>1, CoresCount DEF BarrierTypes, SyncTypes
    <3> QED BY <2>2, <3>1, <3>2
  <2>4. CASE TaskQueue_Enqueue(c)
    BY <1>6, <2>2, <2>4, ZenonT(30) DEF TaskQueue_Enqueue
  <2>5. CASE NoCall(c)
    <3>1. PICK l \in Labels \ {"loop", "start"} : pc' = [pc EXCEPT ![c] = l]
      BY <2>5, ZenonT(30) DEF NoCall
    <3>2. interval' = interval \/ interval' = [interval EXCEPT ![c] = @ + 1]
      BY <2>5 DEF NoCall
    <3>3. d # c /\ pc[d] = "loop"
      BY <1>6, <3>1 DEF BarrierTypes
    <3>4. d = 0
      BY <3>3 DEF FlatInv, At
    <3>5. interval'[0] = interval[0]
      BY <1>2, <3>2, <3>3, <3>4 DEF SyncTypes
    <3> QED BY <2>2, <2>5, <3>3, <3>5 DEF NoCall
  <2> QED BY <1>3, <2>1, <2>3, <2>4, <2>5
<1> QED BY <1>1, <1>5, <1>6 DEF FlatInv, At

\* The tail does not wrap.
LEMMA EnqueueTail ==
  ASSUME RingHasRoom, SyncTypes, TypesInv, FlatInv, TailInv, NEW c \in Core,
         TaskQueue_Enqueue(c)
  PROVE  /\ c = 0 /\ tail' = tail + 1 /\ tail + 1 + Cores <= Size
         /\ start'[0] < loop[0].iters => start'[0] = (tail + 1) * loop[0].per
<1>1. /\ pc[c] = "loop" /\ start[c] < loop[c].iters /\ tail' = (tail + 1) % Size
      /\ start' = [start EXCEPT ![c] = LoopEnd(c)]
  BY DEF TaskQueue_Enqueue, At
<1>2. c = 0 /\ LoopOfInterval
  BY <1>1 DEF FlatInv, At
<1>3. PICK n \in Nat : n = tail
  BY X86Assumption DEF TypesInv, RingTypes, Slot
<1>4. PICK P \in Nat \ {0}, I \in Nat, S \in Nat :
         P = loop[0].per /\ I = loop[0].iters /\ S = start[0]
  <2>1. loop[0] \in LoopArgs /\ start[0] \in Nat
    BY <1>1, <1>2, CoresCount DEF TypesInv, LoopTypes, At
  <2> QED BY <2>1 DEF LoopArgs
<1>5. S < I /\ S = n * P
  BY <1>1, <1>2, <1>3, <1>4 DEF TailInv, At
<1>6. n + 1 + Cores <= Size
  <2>1. /\ prog \in Programs /\ interval[0] \in 1 .. Len(prog)
        /\ prog[interval[0]].per = P /\ prog[interval[0]].iters = I
    BY <1>2, <1>4 DEF LoopOfInterval, SyncTypes
  <2> QED BY <1>5, <2>1, ZenonT(30) DEF RingHasRoom
<1>7. tail' = n + 1
  <2>1. Cores \in Nat \ {0} /\ Size \in Nat \ {0}
    BY X86Assumption
  <2> QED BY <1>1, <1>3, <1>6, <2>1
<1>8. start'[0] = IF S + P > I THEN I ELSE S + P
  BY <1>1, <1>2, <1>4, CoresCount DEF LoopEnd, TypesInv, LoopTypes
<1>9. start'[0] < I => start'[0] = (n + 1) * P
  <2>1. PICK q \in Nat : q = n * P
    OBVIOUS
  <2>2. (n + 1) * P = q + P
    BY <2>1
  <2> QED BY <1>5, <1>8, <2>1, <2>2
<1> QED BY <1>2, <1>3, <1>4, <1>6, <1>7, <1>9

\* When the last core has arrived all are let go.
LEMMA AllOpened ==
  ASSUME SyncInv, SyncInv', NEW c \in Core, Arrive(c), closed' = closed + 1, NEW d \in Core
  PROVE  Opened(d)' /\ interval'[d] = closed'
<1>1. interval' = interval /\ interval[d] \in Nat /\ closed \in Nat
  BY X86Assumption DEF Arrive, SyncInv, SyncTypes
<1>2. interval[d] = closed \/ interval[d] = closed + 1
  BY <1>1 DEF SyncInv, SyncCore
<1>3. Opened(d)' => interval'[d] = closed' + 0
  BY DEF SyncInv, SyncCore
<1>4. ~Opened(d)' => interval'[d] = closed' + 1
  BY DEF SyncInv, SyncCore
<1>5. Opened(d)'
  BY <1>1, <1>2, <1>4
<1> QED BY <1>1, <1>3, <1>5

\* Core 0 comes to an interval with the ring empty.
LEMMA ComesEmpty ==
  ASSUME SyncInv, TailInv, Comes(0)
  PROVE  tail' = 0
<1>1. CASE TaskQueue_Init
  BY <1>1 DEF TaskQueue_Init
<1>2. CASE Sync(0) \/ BarrierLeave(0)
  <2>1. Opened(0) /\ tail' = tail
    BY <1>2 DEF Sync, BarrierLeave, Opened, Syncing, At, ring
  <2>2. interval[0] = closed + 0 /\ closed \in Nat
    BY <2>1, CoresCount DEF SyncInv, SyncCore, SyncTypes
  <2> QED BY <2>1, <2>2 DEF TailInv
<1> QED BY <1>1, <1>2 DEF Comes, FlagSeen

LEMMA TailStep ==
  ASSUME NoInnerLoops, RingHasRoom, BarrierTypes, SyncInv, SyncInv', TypesInv, TypesInv',
         FlatInv, TailInv, NEW c \in Core, Step(c)
  PROVE  TailInv'
<1>0. /\ SyncTypes /\ 0 \in Core /\ interval[0] \in Nat /\ closed \in Nat
      /\ interval[0] >= closed /\ (Opened(0) => interval[0] = closed)
      /\ interval[0] \in 1 .. Len(prog) + 1 /\ Len(prog) \in Nat
  <2>1. SyncTypes /\ 0 \in Core /\ SyncCore(0)
    BY CoresCount DEF SyncInv
  <2>2. Len(prog) \in Nat /\ interval[0] \in 1 .. Len(prog) + 1 /\ closed \in Nat
    BY <2>1, X86Assumption DEF SyncTypes
  <2>3. CASE Opened(0)
    BY <2>1, <2>2, <2>3 DEF SyncCore
  <2>4. CASE ~Opened(0)
    BY <2>1, <2>2, <2>4 DEF SyncCore
  <2> QED BY <2>1, <2>2, <2>3, <2>4
<1>1. ~At(0, "start")'
  BY FlatStep
<1>2. Size \in Nat /\ Cores \in Nat /\ Cores <= Size
  BY X86Assumption DEF RingHasRoom
<1>3. CASE TaskQueue_Enqueue(c)
  <2>1. /\ c = 0 /\ tail' = tail + 1 /\ tail + 1 + Cores <= Size
        /\ start'[0] < loop[0].iters => start'[0] = (tail + 1) * loop[0].per
    BY <1>0, <1>3, EnqueueTail
  <2>2. UNCHANGED <<pc, loop, interval, closed>> /\ pc[0] = "loop"
    BY <1>3, <2>1, ZenonT(30) DEF TaskQueue_Enqueue, At, senses
  <2>3. interval[0] # closed
    <3>1. ~Opened(0)
      BY <2>2 DEF Opened, Syncing, At
    <3>2. interval[0] = closed + 1
      BY <1>0, <3>1 DEF SyncInv, SyncCore
    <3> QED BY <1>0, <3>2
  <2>4. tail' + Cores <= Size
    BY <2>1
  <2> QED BY <1>1, <2>1, <2>2, <2>3, <2>4 DEF TailInv, At
<1>4. CASE Arrive(c)
  <2>1. UNCHANGED <<pc, loop, start, interval>>
    BY <1>4 DEF Arrive
  <2>2. CASE tail' = tail /\ closed' = closed
    BY <1>1, <2>1, <2>2 DEF TailInv, At
  <2>3. CASE tail' = 0 /\ closed' = closed + 1
    <3>1. Opened(0)'
      BY <1>0, <2>3, AllOpened, <1>4
    <3>2. pc'[0] # "loop"
      BY <3>1 DEF Opened, Syncing, At
    <3> QED BY <1>2, <2>3, <3>2 DEF TailInv, At
  <2> QED BY <1>4, <2>2, <2>3 DEF Arrive
<1>5. ASSUME c = 0, NEW i \in 1 .. Len(prog), Begin(c, i), tail' = 0
      PROVE  TailInv'
  <2>1. start'[0] = 0 /\ pc'[0] = "loop"
    BY <1>0, <1>5, BeginsAt DEF BarrierTypes
  <2>2. loop'[0].per \in Nat
    <3>1. loop'[0] \in LoopArgs
      BY <1>0, <2>1 DEF TypesInv, LoopTypes, At
    <3> QED BY <3>1 DEF LoopArgs
  <2>3. 0 = 0 * loop'[0].per
    BY <2>2
  <2>4. tail' + Cores <= Size
    BY <1>2, <1>5
  <2> QED BY <1>5, <2>1, <2>3, <2>4 DEF TailInv, At
<1>6. ASSUME UNCHANGED <<tail, closed>>, pc'[0] = "loop" => pc[0] = "loop",
             pc'[0] = "loop" => loop'[0] = loop[0] /\ start'[0] = start[0],
             interval'[0] = interval[0] \/ interval'[0] = interval[0] + 1
      PROVE  TailInv'
  <2>1. interval'[0] = closed' => interval[0] = closed
    BY <1>0, <1>6
  <2> QED BY <1>1, <1>6, <2>1 DEF TailInv, At
<1>7. CASE NoCall(c) /\ UNCHANGED <<tail, closed>>
  <2>1. interval'[0] = interval[0] \/ interval'[0] = interval[0] + 1
    BY <1>0, <1>7 DEF NoCall, SyncTypes
  <2>2. pc'[0] = "loop" => pc[0] = "loop"
    BY <1>0, <1>7 DEF NoCall, BarrierTypes
  <2> QED BY <1>6, <1>7, <2>1, <2>2 DEF NoCall
<1>8. CASE Comes(c) /\ \E i \in 1 .. Len(prog) : Begin(c, i)
  <2>1. PICK i \in 1 .. Len(prog) : Begin(c, i)
    BY <1>8
  <2>2. CASE c = 0
    <3>1. tail' = 0
      BY <1>8, <2>2, ComesEmpty
    <3> QED BY <1>5, <2>1, <2>2, <3>1
  <2>3. CASE c # 0
    <3>1. UNCHANGED <<tail, closed>>
      BY <1>8, <2>3, ZenonT(30) DEF Comes, FlagSeen, Sync, BarrierLeave, ring, senses
    <3>2. /\ pc' = [pc EXCEPT ![c] = "reserve"] /\ interval' = [interval EXCEPT ![c] = i]
          /\ UNCHANGED <<loop, start>>
      BY <1>0, <2>1, <2>3, BeginsAt, ZenonT(30)
    <3>3. pc'[0] = pc[0] /\ interval'[0] = interval[0]
      BY <1>0, <2>3, <3>2 DEF BarrierTypes, SyncTypes
    <3> QED BY <1>6, <3>1, <3>2, <3>3
  <2> QED BY <2>2, <2>3
<1>9. UNCHANGED <<tail, closed>> \/ TaskQueue_Enqueue(c) \/ Arrive(c) \/ (c = 0 /\ TaskQueue_Init)
  BY ZenonT(30) DEF Step, FlagSeen, LoopReturn, Reserve, Take, Sync, Run, BarrierFlip,
         BarrierEnter, BarrierLeave, TaskQueue_End, ring, senses
<1>10. CASE c = 0 /\ TaskQueue_Init
  <2>1. 1 \in 1 .. Len(prog)
    BY X86Assumption DEF SyncInv, SyncTypes
  <2> QED BY <1>5, <1>10, <2>1 DEF TaskQueue_Init
<1> QED BY <1>3, <1>4, <1>7, <1>8, <1>9, <1>10, Calls

\* The head does not wrap either: the reservations past the tail are held by
\* other cores than the one that takes the next.
LEMMA HeadRoom ==
  ASSUME TypesInv, TailInv, ReserveInv, NEW c \in Core, ~Reserves(c)
  PROVE  head + 1 <= Size
<1>0. /\ head \in Nat /\ tail \in Nat /\ Size \in Nat /\ Cores \in Nat \ {0}
      /\ tail + Cores <= Size
  BY X86Assumption DEF TypesInv, RingTypes, Slot, TailInv
<1>1. IsFiniteSet(Core \ {c}) /\ Cardinality(Core \ {c}) = Cores - 1
  BY CoresCount, FS_RemoveElement
<1>2. PICK f : f = [s \in tail .. head - 1 |-> CHOOSE d \in Core : Reserves(d) /\ head_idx[d] = s]
  BY ZenonT(30)
<1>3. \A s \in tail .. head - 1 : f[s] \in Core /\ Reserves(f[s]) /\ head_idx[f[s]] = s
  BY <1>2 DEF ReserveInv, Held
<1>4. f \in Injection(tail .. head - 1, Core \ {c})
  <2>1. f \in [tail .. head - 1 -> Core \ {c}]
    BY <1>2, <1>3
  <2>2. \A r, s \in tail .. head - 1 : f[r] = f[s] => r = s
    BY <1>3
  <2> QED BY <2>1, <2>2 DEF Injection, IsInjective
<1>5. Cardinality(tail .. head - 1) <= Cores - 1
  BY <1>1, <1>4, FS_Injection
<1>6. head - 1 \in Int /\ tail \in Int
  BY <1>0
<1>7. Cardinality(tail .. head - 1) = IF tail > head - 1 THEN 0 ELSE head - 1 - tail + 1
  BY <1>6, FS_Interval
<1> QED BY <1>0, <1>5, <1>7

\* Steps that neither take nor give up a reservation nor touch the ring.
LEMMA ReservesKept ==
  ASSUME ReserveInv, UNCHANGED <<head, tail, count, unread>>,
         \A d \in Core : /\ Reserves(d)' <=> Reserves(d)
                         /\ Reserves(d) => head_idx'[d] = head_idx[d]
  PROVE  ReserveInv'
<1>1. \A s : Held(s)' <=> Held(s)
  BY DEF Held
<1>2. CountExact'
  BY DEF ReserveInv, CountExact
<1> QED BY <1>1, <1>2, ZenonT(30) DEF ReserveInv

\* A core that reserves, takes or enqueues is not coming out of the barrier.
LEMMA InInterval ==
  ASSUME SyncInv, NEW c \in Core,
         pc[c] \in {"loop", "reserve", "run"} \/ (pc[c] = "wait" /\ count > 0)
  PROVE  interval[c] # closed
<1>1. ~Opened(c)
  <2>1. CASE pc[c] \in {"loop", "reserve", "run"}
    BY <2>1 DEF Opened, Syncing, At
  <2>2. CASE pc[c] = "wait" /\ count > 0
    BY <2>2 DEF SyncInv, SyncTypes, AllSyncing, Opened, At
  <2> QED BY <2>1, <2>2
<1>2. interval[c] = closed + 1 /\ closed \in Nat
  BY <1>1 DEF SyncInv, SyncCore, SyncTypes
<1> QED BY <1>2

LEMMA ReserveEnqueue ==
  ASSUME TypesInv, ReserveInv, NEW c \in Core, TaskQueue_Enqueue(c), tail' = tail + 1
  PROVE  ReserveInv'
<1>0. head \in Nat /\ tail \in Nat
  BY X86Assumption DEF TypesInv, RingTypes, Slot
<1>1. /\ count' = count + 1 /\ unread' = unread \cup {tail}
      /\ UNCHANGED <<head, pc, interval, closed, head_idx>>
  BY ZenonT(30) DEF TaskQueue_Enqueue, senses
<1>2. \A d \in Core : Reserves(d)' <=> Reserves(d)
  BY <1>1 DEF Reserves, At
<1>3. \A s : Held(s)' <=> Held(s)
  BY <1>1, <1>2 DEF Held
<1>4. tail >= head \/ Held(tail)
  BY <1>0 DEF ReserveInv
<1>5. unread' = {s \in 0 .. tail' - 1 : s >= head' \/ Held(s)'}
  <2>1. unread = {s \in 0 .. tail - 1 : s >= head \/ Held(s)}
    BY DEF ReserveInv
  <2>2. 0 .. tail' - 1 = (0 .. tail - 1) \cup {tail}
    BY <1>0
  <2> QED BY <1>1, <1>3, <1>4, <2>1, <2>2
<1>6. tail \notin unread
  BY <1>0 DEF ReserveInv
<1>7. IsFiniteSet(unread)
  <2>1. unread \in SUBSET (0 .. tail - 1)
    BY DEF ReserveInv
  <2>2. IsFiniteSet(0 .. tail - 1)
    BY <1>0, FS_Interval
  <2> QED BY <2>1, <2>2, FS_Subset, ZenonT(30)
<1>8. CountExact'
  BY <1>1, <1>6, <1>7, FS_AddElement, ZenonT(30) DEF ReserveInv, CountExact
<1>9. \A s \in tail' .. head' - 1 : Held(s)'
  BY <1>0, <1>1, <1>3 DEF ReserveInv
<1>10. /\ \A d \in Core : Reserves(d)' => head_idx'[d] < head'
       /\ \A d, e \in Core :
            Reserves(d)' /\ Reserves(e)' /\ head_idx'[d] = head_idx'[e] => d = e
  BY <1>1, <1>2 DEF ReserveInv
<1> QED BY <1>5, <1>8, <1>9, <1>10, ZenonT(30) DEF ReserveInv

LEMMA ReserveTakes ==
  ASSUME BarrierTypes, SyncInv, TypesInv, ReserveInv, NEW c \in Core, Take(c)
  PROVE  ReserveInv'
<1>0. head \in Nat /\ tail \in Nat /\ head_idx[c] \in Nat /\ count \in Nat
  BY X86Assumption DEF TypesInv, RingTypes, TaskTypes, Slot
<1>1. /\ pc[c] = "wait" /\ pc' = [pc EXCEPT ![c] = "run"] /\ count > 0
      /\ head_idx[c] < tail /\ count' = count - 1 /\ unread' = unread \ {head_idx[c]}
      /\ UNCHANGED <<head, tail, interval, closed, head_idx>>
  BY DEF Take, At, Goto
<1>2. Reserves(c)
  BY <1>1, InInterval DEF Reserves, At
<1>3. \A d \in Core : Reserves(d)' <=> Reserves(d) /\ d # c
  BY <1>1 DEF Reserves, At, BarrierTypes
<1>4. \A s : Held(s)' <=> Held(s) /\ s # head_idx[c]
  BY <1>1, <1>2, <1>3 DEF Held, ReserveInv
<1>5. head_idx[c] \in unread
  BY <1>0, <1>1, <1>2 DEF ReserveInv, Held
<1>6. unread' = {s \in 0 .. tail' - 1 : s >= head' \/ Held(s)'}
  <2>1. unread = {s \in 0 .. tail - 1 : s >= head \/ Held(s)}
    BY DEF ReserveInv
  <2>2. head_idx[c] < head
    BY <1>2 DEF ReserveInv
  <2>3. \A s \in 0 .. tail - 1 : s >= head => s # head_idx[c]
    BY <1>0, <2>2
  <2> QED BY <1>1, <1>4, <2>1, <2>3
<1>7. IsFiniteSet(unread)
  <2>1. unread \in SUBSET (0 .. tail - 1)
    BY DEF ReserveInv
  <2>2. IsFiniteSet(0 .. tail - 1)
    BY <1>0, FS_Interval
  <2> QED BY <2>1, <2>2, FS_Subset, ZenonT(30)
<1>8. CountExact'
  BY <1>1, <1>5, <1>7, FS_RemoveElement, ZenonT(30) DEF ReserveInv, CountExact
<1>9. \A s \in tail' .. head' - 1 : Held(s)'
  BY <1>0, <1>1, <1>4 DEF ReserveInv
<1>10. /\ \A d \in Core : Reserves(d)' => head_idx'[d] < head'
       /\ \A d, e \in Core :
            Reserves(d)' /\ Reserves(e)' /\ head_idx'[d] = head_idx'[e] => d = e
  BY <1>1, <1>3 DEF ReserveInv
<1> QED BY <1>6, <1>8, <1>9, <1>10 DEF ReserveInv

LEMMA ReserveReserves ==
  ASSUME BarrierTypes, SyncInv, TypesInv, TailInv, ReserveInv, NEW c \in Core, Reserve(c)
  PROVE  ReserveInv'
<1>0. head \in Nat /\ tail \in Nat /\ Size \in Nat /\ \A d \in Core : head_idx[d] \in Nat
  BY X86Assumption DEF TypesInv, RingTypes, TaskTypes, Slot
<1>1. /\ pc[c] = "reserve" /\ pc' = [pc EXCEPT ![c] = "wait"]
      /\ head_idx' = [head_idx EXCEPT ![c] = head]
      /\ UNCHANGED <<tail, count, unread, interval, closed>>
  BY DEF Reserve, At, Goto, senses
<1>2. ~Reserves(c)
  BY <1>1 DEF Reserves, At
<1>3. head' = head + 1
  <2>1. head + 1 <= Size
    BY <1>2, HeadRoom
  <2> QED BY <1>0, <2>1 DEF Reserve
<1>4. \A d \in Core : Reserves(d)' <=> Reserves(d) \/ d = c
  <2>1. interval[c] # closed
    BY <1>1, InInterval
  <2> QED BY <1>1, <2>1 DEF Reserves, At, BarrierTypes
<1>5. head_idx'[c] = head /\ \A d \in Core : d # c => head_idx'[d] = head_idx[d]
  BY <1>1 DEF TypesInv, TaskTypes
<1>6. \A s : Held(s)' <=> Held(s) \/ s = head
  BY <1>2, <1>4, <1>5, ZenonT(30) DEF Held
<1>7. unread' = {s \in 0 .. tail' - 1 : s >= head' \/ Held(s)'}
  <2>1. unread = {s \in 0 .. tail - 1 : s >= head \/ Held(s)}
    BY DEF ReserveInv
  <2>2. \A s \in 0 .. tail - 1 : s >= head <=> s >= head + 1 \/ s = head
    BY <1>0
  <2> QED BY <1>1, <1>3, <1>6, <2>1, <2>2
<1>8. CountExact'
  BY <1>1 DEF ReserveInv, CountExact
<1>9. \A s \in tail' .. head' - 1 : Held(s)'
  <2>1. \A s \in tail .. head : s \in tail .. head - 1 \/ s = head
    BY <1>0
  <2>2. head' - 1 = head
    BY <1>0, <1>3
  <2> QED BY <1>1, <1>6, <2>1, <2>2 DEF ReserveInv
<1>10. \A d \in Core : Reserves(d)' => head_idx'[d] < head'
  BY <1>0, <1>3, <1>4, <1>5 DEF ReserveInv
<1>11. \A d, e \in Core :
            Reserves(d)' /\ Reserves(e)' /\ head_idx'[d] = head_idx'[e] => d = e
  <2>1. \A d \in Core : Reserves(d) => head_idx[d] # head
    BY <1>0 DEF ReserveInv
  <2> QED BY <1>2, <1>4, <1>5, <2>1, ZenonT(30) DEF ReserveInv
<1> QED BY <1>7, <1>8, <1>9, <1>10, <1>11 DEF ReserveInv

LEMMA ReserveArrives ==
  ASSUME SyncInv, SyncInv', TypesInv, ReserveInv, NEW c \in Core, Arrive(c)
  PROVE  ReserveInv'
<1>1. UNCHANGED <<pc, interval, head_idx, count, unread>> /\ count = 0
  BY DEF Arrive
<1>2. CASE UNCHANGED <<head, tail, closed>>
  BY <1>1, <1>2, ReservesKept, ZenonT(30) DEF Reserves, At
<1>3. CASE head' = 0 /\ tail' = 0 /\ closed' = closed + 1
  <2>1. \A d \in Core : ~Reserves(d)'
    BY <1>3, AllOpened DEF Reserves
  <2>2. tail \in Nat
    BY X86Assumption DEF TypesInv, RingTypes, Slot
  <2>3. unread \in SUBSET (0 .. tail - 1) /\ IsFiniteSet(0 .. tail - 1)
    BY <2>2, FS_Interval DEF ReserveInv
  <2>4. unread = {}
    BY <1>1, <2>3, FS_Subset, FS_EmptySet, ZenonT(30) DEF ReserveInv, CountExact
  <2>5. 0 .. 0 - 1 = {}
    OBVIOUS
  <2>6. CountExact'
    BY <1>1 DEF ReserveInv, CountExact
  <2> QED BY <1>1, <1>3, <2>1, <2>4, <2>5, <2>6 DEF ReserveInv
<1> QED BY <1>2, <1>3 DEF Arrive

LEMMA ReserveStep ==
  ASSUME RingHasRoom, BarrierTypes, SyncInv, SyncInv', TypesInv, FlatInv, TailInv,
         ReserveInv, NEW c \in Core, Step(c)
  PROVE  ReserveInv'
<1>0. SyncTypes
  BY DEF SyncInv
<1>1. CASE TaskQueue_Enqueue(c)
  BY <1>0, <1>1, EnqueueTail, ReserveEnqueue
<1>2. CASE Reserve(c)
  BY <1>2, ReserveReserves
<1>3. CASE Take(c)
  BY <1>3, ReserveTakes
<1>4. CASE Arrive(c)
  BY <1>4, ReserveArrives
<1>5. ASSUME UNCHANGED <<head, tail, count, unread, closed, head_idx>>, ~Reserves(c),
             \E l \in Labels \ {"wait"} : pc' = [pc EXCEPT ![c] = l],
             \E i : interval' = [interval EXCEPT ![c] = i]
      PROVE  ReserveInv'
  <2>1. \A d \in Core : Reserves(d)' <=> Reserves(d)
    <3>1. ~Reserves(c)'
      BY <1>5 DEF Reserves, At, BarrierTypes
    <3>2. \A d \in Core : d # c => pc'[d] = pc[d] /\ interval'[d] = interval[d]
      BY <1>0, <1>5 DEF BarrierTypes, SyncTypes
    <3> QED BY <1>5, <3>1, <3>2 DEF Reserves, At
  <2> QED BY <1>5, <2>1, ReservesKept
<1>6. \E i : interval = [interval EXCEPT ![c] = i]
  BY <1>0 DEF SyncTypes
<1>7. CASE c = 0 /\ TaskQueue_Init
  <2>1. /\ pc[0] = "start" /\ Begin(0, 1) /\ head' = 0 /\ tail' = 0
        /\ UNCHANGED <<count, unread, closed>>
    BY <1>7 DEF TaskQueue_Init, At, senses
  <2>2. head = 0 /\ tail = 0
    BY <2>1, ZenonT(30) DEF FlatInv, TailInv, At
  <2>3. ~Reserves(c)
    BY <1>7, <2>1 DEF Reserves, At
  <2>4. /\ pc' = [pc EXCEPT ![0] = "loop"] /\ interval' = [interval EXCEPT ![0] = 1]
        /\ UNCHANGED head_idx
    BY <2>1 DEF Begin
  <2> QED BY <1>5, <1>7, <2>1, <2>2, <2>3, <2>4, ZenonT(30) DEF Labels
<1>8. CASE FlagSeen(c)
  <2>1. pc[c] = "start" /\ Begin(c, 1) /\ UNCHANGED <<head, tail, count, unread, closed>>
    BY <1>8 DEF FlagSeen, At, ring, senses
  <2>2. ~Reserves(c)
    BY <2>1, ZenonT(30) DEF Reserves, At
  <2> QED BY <1>5, <2>1, <2>2, ZenonT(30) DEF Begin, Labels
<1>9. CASE LoopReturn(c) \/ Run(c) \/ BarrierFlip(c) \/ BarrierEnter(c) \/ TaskQueue_End(c)
  <2>1. /\ pc[c] # "wait" /\ UNCHANGED <<head, tail, count, unread, closed, head_idx, interval>>
        /\ \E l \in Labels \ {"wait"} : pc' = [pc EXCEPT ![c] = l]
    BY <1>9, ZenonT(30) DEF LoopReturn, Run, BarrierFlip, BarrierEnter, TaskQueue_End, At,
       Goto, ring,
                senses, locals, Labels
  <2>2. ~Reserves(c)
    BY <2>1 DEF Reserves, At
  <2> QED BY <1>5, <1>6, <2>1, <2>2, ZenonT(30)
<1>10. ASSUME NextInterval(c), ~Over(c), ~Reserves(c),
              UNCHANGED <<head, tail, count, unread, closed>>
       PROVE  ReserveInv'
  <2>1. CASE /\ pc' = [pc EXCEPT ![c] = "end"] /\ interval' = [interval EXCEPT ![c] = @ + 1]
             /\ UNCHANGED head_idx
    BY <1>5, <1>10, <2>1, ZenonT(30) DEF Labels
  <2>2. CASE Begin(c, interval[c] + 1)
    BY <1>5, <1>10, <2>2, ZenonT(30) DEF Begin, Labels
  <2> QED BY <1>10, <2>1, <2>2, NextBegins
<1>11. CASE Sync(c)
  <2>1. /\ pc[c] = "wait" /\ did_waitcount[c] /\ globalsense = localsense[c]
        /\ UNCHANGED <<head, tail, count, unread, closed>>
    BY <1>11 DEF Sync, At, ring, senses
  <2>2. Opened(c) /\ ~Over(c)
    BY <2>1 DEF Opened, Syncing, At, Over
  <2>3. interval[c] = closed + 0 /\ closed \in Nat
    BY <2>2 DEF SyncInv, SyncCore, SyncTypes
  <2>4. ~Reserves(c)
    BY <2>3 DEF Reserves
  <2>5. CASE Goto(c, "flip") /\ UNCHANGED locals
    BY <1>5, <1>6, <2>1, <2>4, <2>5, ZenonT(30) DEF Goto, locals, Labels
  <2> QED BY <1>10, <1>11, <2>1, <2>2, <2>4, <2>5, ZenonT(30) DEF Sync
<1>12. CASE BarrierLeave(c)
  <2>1. /\ pc[c] = "spin" /\ NextInterval(c) /\ UNCHANGED <<head, tail, count, unread, closed>>
    BY <1>12, ZenonT(30) DEF BarrierLeave, At, ring, senses
  <2> QED BY <1>10, <2>1, ZenonT(30) DEF Reserves, At, Over
<1> QED BY <1>1, <1>2, <1>3, <1>4, <1>7, <1>8, <1>9, <1>11, <1>12 DEF Step

LEMMA CountStep ==
  /\ NoInnerLoops /\ RingHasRoom
  /\ BarrierInv /\ SyncInv /\ SyncInv' /\ TypesInv /\ TypesInv' /\ CountInv /\ [Next]_vars
  => CountInv'
<1> SUFFICES ASSUME NoInnerLoops, RingHasRoom, BarrierInv, SyncInv, SyncInv', TypesInv,
                    TypesInv', CountInv, [Next]_vars
             PROVE  CountInv'
  OBVIOUS
<1>1. BarrierTypes /\ FlatInv /\ TailInv /\ ReserveInv
  BY DEF BarrierInv, CountInv
<1>2. CASE UNCHANGED vars
  <2>1. UNCHANGED <<prog, ready, head, tail, count, unread, closed, pc, interval, loop, start,
                    head_idx>>
    BY <1>2 DEF vars, ring, senses, locals
  <2>2. FlatInv' /\ TailInv'
    BY <1>1, <2>1 DEF FlatInv, LoopOfInterval, TailInv, At
  <2>3. ReserveInv'
    BY <1>1, <2>1, ReservesKept DEF Reserves, At
  <2> QED BY <2>2, <2>3 DEF CountInv
<1>3. ASSUME NEW c \in Core, Step(c)
      PROVE  CountInv'
  BY <1>1, <1>3, FlatStep, TailStep, ReserveStep DEF CountInv
<1> QED BY <1>2, <1>3 DEF Next, Done

\* CountInv is an inductive invariant where moreover no task enqueues others
\* and every interval leaves room for its tasks and one reservation of each
\* core.
THEOREM CountInvariant ==
  ASSUME BarrierAfterSync, NoInnerLoops, RingHasRoom
  PROVE  Spec => [](BarrierInv /\ SyncInv /\ TypesInv /\ CountInv)
<1>1. Spec => [](BarrierInv /\ SyncInv /\ TypesInv)
  BY TypesInvariant
<1>2. BarrierInv /\ SyncInv /\ SyncInv' /\ TypesInv /\ TypesInv' /\ CountInv /\ [Next]_vars
      => CountInv'
  BY CountStep
<1>3. Init => CountInv
  BY CountInit
<1> QED BY <1>1, <1>2, <1>3, PTL DEF Spec

\* In these programs GLOBAL_tq_count is at every step the number of tasks in
\* the ring: none is read twice, none is lost.
THEOREM CountIsExact ==
  ASSUME BarrierAfterSync, NoInnerLoops, RingHasRoom
  PROVE  Spec => []CountExact
<1>1. Spec => [](BarrierInv /\ SyncInv /\ TypesInv /\ CountInv)
  BY CountInvariant
<1>2. CountInv => CountExact
  BY DEF CountInv, ReserveInv
<1> QED BY <1>1, <1>2, PTL

-----------------------------------------------------------------------------
(* What the program sees of the ring is a pool of tasks.                   *)

\* A core has a task only while it runs it.
BusyInv == \A c \in Core : ~At(c, "run") => td[c] = NoTask

\* The tasks of a loop are enqueued in the order of their iterations, so no
\* two are the same, and there are none once core 0 is through.
ContentInv ==
  /\ At(0, "loop") =>
       \A s \in 0 .. tail - 1 : data[s].begin \in Nat /\ data[s].begin < start[0]
  /\ \A s, t \in 0 .. tail - 1 : s # t => data[s] # data[t]
  /\ Over(0) => tail = 0

\* The state and the steps of the pool.
PoolState == <<{data[s] : s \in unread}, td, closed, [c \in Core |-> Synced(c)]>>

PoolStep == [Pool!Next]_PoolState

LEMMA PoolInit == Init => BusyInv /\ ContentInv /\ Pool!Init
<1> SUFFICES ASSUME Init PROVE BusyInv /\ ContentInv /\ Pool!Init
  OBVIOUS
<1>1. /\ \A c \in Core : pc[c] = "start" /\ interval[c] = 1
      /\ tail = 0 /\ unread = {} /\ td = [c \in Core |-> NoTask] /\ closed = 0 /\ 0 \in Core
  BY CoresCount DEF Init
<1>2. BusyInv
  BY <1>1 DEF BusyInv
<1>3. 0 .. 0 - 1 = {}
  OBVIOUS
<1>4. ContentInv
  BY <1>1, <1>3, ZenonT(30) DEF ContentInv, At, Over
<1>5. \A c \in Core : Synced(c) = 0
  BY <1>1 DEF Synced
<1>6. [c \in Core |-> Synced(c)] = [c \in Core |-> 0]
  BY <1>5
<1>7. {data[s] : s \in unread} = {}
  BY <1>1
<1>8. Pool!Init
  BY <1>1, <1>6, <1>7 DEF Pool!Init
<1> QED BY <1>2, <1>4, <1>8

LEMMA ContentEnqueue ==
  ASSUME RingHasRoom, SyncTypes, TypesInv, FlatInv, TailInv, ContentInv, NEW c \in Core,
         TaskQueue_Enqueue(c)
  PROVE  /\ ContentInv'
         /\ \A s \in 0 .. tail - 1 : data'[s] = data[s] /\ data[s] # data'[tail]
<1>1. c = 0 /\ tail' = tail + 1 /\ tail + 1 + Cores <= Size
  BY EnqueueTail
<1>2. PICK n \in Nat : n = tail
  BY X86Assumption DEF TypesInv, RingTypes, Slot
<1>3. PICK k : k = [job |-> loop[c].job, begin |-> start[c], end |-> LoopEnd(c),
                    inner |-> loop[c].inner]
  BY ZenonT(30)
<1>4. /\ pc[0] = "loop" /\ start[0] < loop[0].iters /\ UNCHANGED pc
      /\ data' = [data EXCEPT ![tail] = k] /\ start' = [start EXCEPT ![0] = LoopEnd(0)]
  BY <1>1, <1>3 DEF TaskQueue_Enqueue, At
<1>5. start[0] \in Nat /\ start'[0] \in Nat /\ start[0] < start'[0] /\ k.begin = start[0]
  <2>1. loop[0] \in LoopArgs /\ start \in [Core -> Nat] /\ 0 \in Core
    BY <1>4, CoresCount DEF TypesInv, LoopTypes, At
  <2>2. loop[0].iters \in Nat /\ loop[0].per \in Nat \ {0} /\ start[0] \in Nat
    BY <2>1 DEF LoopArgs
  <2>3. LoopEnd(0) \in Nat /\ start[0] < LoopEnd(0)
    BY <1>4, <2>2 DEF LoopEnd
  <2>4. start'[0] = LoopEnd(0)
    BY <1>4, <2>1
  <2>5. k.begin = start[0]
    BY <1>1, <1>3
  <2> QED BY <2>2, <2>3, <2>4, <2>5
<1>6. data'[n] = k /\ \A s \in 0 .. n - 1 : data'[s] = data[s]
  <2>1. data \in [Slot -> LoopTask \cup {NoTask}] /\ n \in Slot
    BY <1>2 DEF TypesInv, RingTypes
  <2>2. \A s \in 0 .. n - 1 : s \in Slot /\ s # n
    BY <2>1, X86Assumption DEF Slot
  <2> QED BY <1>2, <1>4, <2>1, <2>2, ZenonT(30)
<1>7. \A s \in 0 .. n - 1 : data[s].begin \in Nat /\ data[s].begin < start[0]
  BY <1>2, <1>4 DEF ContentInv, At
<1>8. \A s \in 0 .. n - 1 : data[s] # k
  BY <1>5, <1>7
<1>9. 0 .. tail' - 1 = (0 .. n - 1) \cup {n}
  BY <1>1, <1>2
<1>10. \A s \in 0 .. tail' - 1 : data'[s].begin \in Nat /\ data'[s].begin < start'[0]
  BY <1>5, <1>6, <1>7, <1>9
<1>11. \A s, t \in 0 .. n - 1 : s # t => data[s] # data[t]
  BY <1>2 DEF ContentInv
<1>12. \A s, t \in 0 .. tail' - 1 : s # t => data'[s] # data'[t]
  BY <1>6, <1>8, <1>9, <1>11, ZenonT(30)
<1>13. ~Over(0)'
  BY <1>4 DEF Over
<1> QED BY <1>2, <1>6, <1>8, <1>10, <1>12, <1>13, ZenonT(30) DEF ContentInv

LEMMA ContentStep ==
  ASSUME NoInnerLoops, RingHasRoom, BarrierTypes, SyncInv, TypesInv, FlatInv, TailInv,
         ContentInv, NEW c \in Core, Step(c)
  PROVE  ContentInv'
<1>0. SyncTypes /\ 0 \in Core
  BY CoresCount DEF SyncInv
<1>1. CASE TaskQueue_Enqueue(c)
  BY <1>0, <1>1, ContentEnqueue
<1>2. CASE tail' = 0
  <2>1. 0 .. 0 - 1 = {}
    OBVIOUS
  <2> QED BY <1>2, <2>1, ZenonT(30) DEF ContentInv
<1>3. ASSUME UNCHANGED <<data, tail>>,
             pc'[0] = "loop" => pc[0] = "loop" /\ start'[0] = start[0], Over(0)' => Over(0)
      PROVE  ContentInv'
  BY <1>3 DEF ContentInv, At
<1>4. CASE Arrive(c)
  <2>1. UNCHANGED <<data, pc, start>> /\ (tail' = tail \/ tail' = 0)
    BY <1>4 DEF Arrive
  <2> QED BY <1>2, <1>3, <2>1 DEF Over
<1>5. CASE c # 0 /\ ~Arrive(c)
  <2>1. UNCHANGED <<data, tail>> \/ TaskQueue_Enqueue(c)
    BY <1>5, ZenonT(30) DEF Step, FlagSeen, LoopReturn, Reserve, Take, Sync, Run, BarrierFlip,
           BarrierEnter, BarrierLeave, TaskQueue_End, ring
  <2>2. \/ (\E l : pc' = [pc EXCEPT ![c] = l]) /\ UNCHANGED start
        \/ TaskQueue_Enqueue(c)
    BY <1>0, <1>5, Calls, BeginsAt, ZenonT(30) DEF NoCall
  <2>3. \/ pc'[0] = pc[0] /\ UNCHANGED start
        \/ TaskQueue_Enqueue(c)
    BY <1>0, <1>5, <2>2 DEF BarrierTypes
  <2> QED BY <1>1, <1>3, <2>1, <2>3 DEF Over
<1>6. CASE c = 0 /\ Comes(c)
  BY <1>2, <1>6, ComesEmpty
<1>7. CASE c = 0 /\ TaskQueue_End(c)
  <2>1. tail' = tail /\ Over(0)
    BY <1>7 DEF TaskQueue_End, Over, At
  <2> QED BY <1>2, <2>1 DEF ContentInv
<1>8. CASE c = 0 /\ (LoopReturn(c) \/ Reserve(c) \/ Take(c) \/ Run(c) \/ BarrierFlip(c)
                     \/ BarrierEnter(c))
  <2>1. UNCHANGED <<data, tail>>
    BY <1>8, ZenonT(30) DEF LoopReturn, Reserve, Take, Run, BarrierFlip, BarrierEnter, ring
  <2>2. \E l \in {"reserve", "wait", "run", "enter", "spin"} : pc' = [pc EXCEPT ![0] = l]
    BY <1>8, RunEnds, ZenonT(30) DEF LoopReturn, Reserve, Take, BarrierFlip, BarrierEnter, Goto
  <2>3. pc'[0] # "loop" /\ ~Over(0)'
    BY <1>0, <2>2 DEF BarrierTypes, Over
  <2> QED BY <1>3, <2>1, <2>3
<1> QED BY <1>1, <1>4, <1>5, <1>6, <1>7, <1>8, ZenonT(30) DEF Step, Comes, FlagSeen

\* How the number of SYNCs of the cores follows from where the cores are.
LEMMA SyncedAt ==
  ASSUME BarrierTypes, SyncTypes, NEW c \in Core, NEW l, NEW i, NEW n,
         pc' = [pc EXCEPT ![c] = l], interval' = [interval EXCEPT ![c] = i],
         n = i - 1 + IF l \in {"flip", "enter", "spin"} THEN 1 ELSE 0
  PROVE  [d \in Core |-> Synced(d)]' = [[d \in Core |-> Synced(d)] EXCEPT ![c] = n]
<1>1. pc'[c] = l /\ interval'[c] = i
  BY DEF BarrierTypes, SyncTypes
<1>2. \A d \in Core : d # c => pc'[d] = pc[d] /\ interval'[d] = interval[d]
  BY DEF BarrierTypes, SyncTypes
<1>3. Synced(c)' = n
  BY <1>1 DEF Synced
<1>4. \A d \in Core : d # c => Synced(d)' = Synced(d)
  BY <1>2 DEF Synced
<1> QED BY <1>3, <1>4, ZenonT(30)

\* A step that the pool does not see.
LEMMA PoolQuiet ==
  ASSUME BarrierTypes, SyncTypes, NEW c \in Core, NEW l, NEW i,
         pc' = [pc EXCEPT ![c] = l], interval' = [interval EXCEPT ![c] = i],
         Synced(c) = i - 1 + IF l \in {"flip", "enter", "spin"} THEN 1 ELSE 0,
         {data[s] : s \in unread}' = {data[s] : s \in unread}, UNCHANGED <<td, closed>>
  PROVE  PoolStep
<1>1. [d \in Core |-> Synced(d)]' = [[d \in Core |-> Synced(d)] EXCEPT ![c] = Synced(c)]
  BY SyncedAt, ZenonT(30)
<1>2. [d \in Core |-> Synced(d)]' = [d \in Core |-> Synced(d)]
  BY <1>1, ZenonT(30)
<1>3. UNCHANGED PoolState
  BY <1>2, ZenonT(30) DEF PoolState
<1> QED BY <1>3 DEF PoolStep

\* TaskQueue_Enqueue puts a task into the pool that was not there.
LEMMA PoolEnqueue ==
  ASSUME RingHasRoom, SyncTypes, TypesInv, FlatInv, TailInv, ReserveInv, ContentInv,
         NEW c \in Core, TaskQueue_Enqueue(c)
  PROVE  PoolStep
<1>1. /\ unread' = unread \cup {tail}
      /\ UNCHANGED <<td, closed, pc, interval>>
  BY ZenonT(30) DEF TaskQueue_Enqueue, senses
<1>2. unread \subseteq 0 .. tail - 1
  BY DEF ReserveInv
<1>3. \A s \in 0 .. tail - 1 : data'[s] = data[s] /\ data[s] # data'[tail]
  BY ContentEnqueue, ZenonT(30)
<1>4. {data'[s] : s \in unread'} = {data[s] : s \in unread} \cup {data'[tail]}
  BY <1>1, <1>2, <1>3, ZenonT(30)
<1>5. data'[tail] \notin {data[s] : s \in unread}
  BY <1>2, <1>3, ZenonT(30)
<1>6. [d \in Core |-> Synced(d)]' = [d \in Core |-> Synced(d)]
  BY <1>1 DEF Synced
<1>7. Pool!Enqueue
  BY <1>1, <1>4, <1>5, <1>6, ZenonT(30) DEF Pool!Enqueue
<1> QED BY <1>7, ZenonT(30) DEF PoolStep, Pool!Next

\* TaskQueue_Dequeue gives one core the task that its reservation names.
LEMMA PoolTakes ==
  ASSUME BarrierTypes, SyncInv, TypesInv, ReserveInv, BusyInv, ContentInv, NEW c \in Core,
         Take(c)
  PROVE  PoolStep
<1>0. /\ head_idx[c] \in Nat /\ tail \in Nat /\ SyncTypes /\ interval[c] \in Nat
      /\ closed \in Nat
  BY X86Assumption DEF TypesInv, RingTypes, TaskTypes, Slot, SyncInv, SyncTypes
<1>1. /\ pc[c] = "wait" /\ pc' = [pc EXCEPT ![c] = "run"] /\ count > 0
      /\ head_idx[c] < tail /\ unread' = unread \ {head_idx[c]}
      /\ td' = [td EXCEPT ![c] = data[head_idx[c]]]
      /\ UNCHANGED <<data, interval, closed>>
  BY DEF Take, At, Goto
<1>2. Reserves(c) /\ interval[c] # closed
  BY <1>1, InInterval DEF Reserves, At
<1>3. head_idx[c] \in unread
  BY <1>0, <1>1, <1>2 DEF ReserveInv, Held
<1>4. unread \subseteq 0 .. tail - 1
  BY DEF ReserveInv
<1>5. {data'[s] : s \in unread'} = {data[s] : s \in unread} \ {data[head_idx[c]]}
  BY <1>1, <1>3, <1>4, ZenonT(30) DEF ContentInv
<1>6. interval[c] = closed + 1
  <2>1. interval[c] = closed + IF Opened(c) THEN 0 ELSE 1
    BY ZenonT(30) DEF SyncInv, SyncCore
  <2> QED BY <1>0, <1>2, <2>1
<1>7. Synced(c) = closed
  BY <1>0, <1>1, <1>6 DEF Synced
<1>8. [d \in Core |-> Synced(d)]' = [d \in Core |-> Synced(d)]
  <2>1. \A d \in Core : Synced(d)' = Synced(d)
    BY <1>0, <1>1 DEF Synced, BarrierTypes
  <2> QED BY <2>1
<1>9. td[c] = NoTask
  BY <1>1 DEF BusyInv, At
<1>10. Pool!Dequeue(c)
  BY <1>1, <1>3, <1>5, <1>7, <1>8, <1>9, ZenonT(30) DEF Pool!Dequeue
<1> QED BY <1>10, ZenonT(30) DEF PoolStep, Pool!Next

\* A core that an arrival opens was waiting in the interval that it closes.
LEMMA WaitsAtClose ==
  ASSUME NEW d \in Core, closed \in Nat, SyncCore(d), UNCHANGED pc, UNCHANGED interval,
         Opened(d)', interval'[d] = closed + 1
  PROVE  At(d, "wait") /\ interval[d] = closed + 1
<1>1. interval[d] = closed + 1
  OBVIOUS
<1>2. ~Opened(d)
  BY <1>1 DEF SyncCore
<1>3. At(d, "wait")
  BY <1>2, ZenonT(30) DEF Opened, Syncing, At
<1> QED BY <1>1, <1>3

\* The interval is closed when nobody has a task and none is left.
LEMMA PoolArrives ==
  ASSUME SyncInv, SyncInv', TypesInv, ReserveInv, BusyInv, NEW c \in Core, Arrive(c)
  PROVE  PoolStep
<1>1. UNCHANGED <<pc, interval, data, unread, td>> /\ count = 0
  BY DEF Arrive
<1>2. [d \in Core |-> Synced(d)]' = [d \in Core |-> Synced(d)]
  BY <1>1 DEF Synced
<1>3. CASE closed' = closed
  <2>1. UNCHANGED PoolState
    BY <1>1, <1>2, <1>3, ZenonT(30) DEF PoolState
  <2> QED BY <2>1 DEF PoolStep
<1>4. CASE closed' = closed + 1
  <2>1. \A d \in Core : At(d, "wait") /\ interval[d] = closed + 1
    <3>1. closed \in Nat /\ \A d \in Core : SyncCore(d)
      BY ZenonT(30) DEF SyncInv, SyncTypes
    <3>2. \A d \in Core : Opened(d)' /\ interval'[d] = closed'
      BY <1>4, AllOpened, ZenonT(30)
    <3>3. \A d \in Core : interval'[d] = closed + 1
      BY <1>4, <3>2, ZenonT(30)
    <3> QED BY <1>1, <3>1, <3>2, <3>3, WaitsAtClose, ZenonT(30)
  <2>2. closed \in Nat
    BY DEF SyncInv, SyncTypes
  <2>3. \A d \in Core : td[d] = NoTask /\ Synced(d) = closed
    BY <2>1, <2>2 DEF BusyInv, Synced, At
  <2>4. tail \in Nat
    BY X86Assumption DEF TypesInv, RingTypes, Slot
  <2>5. unread \in SUBSET (0 .. tail - 1) /\ IsFiniteSet(0 .. tail - 1)
    BY <2>4, FS_Interval DEF ReserveInv
  <2>6. unread = {}
    BY <1>1, <2>5, FS_Subset, FS_EmptySet, ZenonT(30) DEF ReserveInv, CountExact
  <2>7. {data[s] : s \in unread} = {} /\ {data[s] : s \in unread}' = {}
    BY <1>1, <2>6, ZenonT(30)
  <2>8. Pool!Close
    BY <1>1, <1>2, <1>4, <2>3, <2>7, ZenonT(30) DEF Pool!Close
  <2> QED BY <2>8, ZenonT(30) DEF PoolStep, Pool!Next
<1> QED BY <1>3, <1>4 DEF Arrive

\* Where the core is when it leaves an interval.
LEMMA NextPlace ==
  ASSUME NEW c \in Core, NextInterval(c), SyncTypes
  PROVE  /\ \E l \in {"end", "loop", "reserve"} : pc' = [pc EXCEPT ![c] = l]
         /\ interval' = [interval EXCEPT ![c] = interval[c] + 1]
         /\ UNCHANGED td
<1>1. CASE interval[c] = Len(prog)
  BY <1>1 DEF NextInterval, locals
<1>2. CASE Begin(c, interval[c] + 1)
  BY <1>2, ZenonT(30) DEF Begin
<1> QED BY <1>1, <1>2 DEF NextInterval

LEMMA TasksAreTasks == \A k \in LoopTask : k # NoTask
<1> SUFFICES ASSUME NEW k \in LoopTask, k = NoTask PROVE FALSE
  OBVIOUS
<1>1. DOMAIN k = {"job", "begin", "end", "inner"}
  BY DEF LoopTask
<1>2. DOMAIN NoTask = 1 .. 0
  BY DEF NoTask
<1>3. "job" \in 1 .. 0
  BY <1>1, <1>2
<1> QED BY <1>3

\* TQ_RET_SYNC: the core learns that one interval more is over.
LEMMA PoolSyncs ==
  ASSUME BarrierTypes, SyncInv, NEW c \in Core, Sync(c)
  PROVE  PoolStep
<1>1. /\ pc[c] = "wait" /\ did_waitcount[c] /\ globalsense = localsense[c]
      /\ UNCHANGED <<data, unread, closed>>
  BY DEF Sync, At, ring, senses
<1>2. Opened(c) /\ ~Over(c)
  BY <1>1 DEF Opened, Syncing, At, Over
<1>3. SyncTypes /\ interval[c] = closed /\ closed \in Nat
  BY <1>2 DEF SyncInv, SyncCore, SyncTypes
<1>4. Synced(c) = closed - 1
  BY <1>1, <1>3 DEF Synced
<1>5. /\ [d \in Core |-> Synced(d)]' = [[d \in Core |-> Synced(d)] EXCEPT ![c] = closed]
      /\ UNCHANGED td
  <2>1. CASE Goto(c, "flip") /\ UNCHANGED locals
    <3>1. /\ pc' = [pc EXCEPT ![c] = "flip"] /\ interval' = [interval EXCEPT ![c] = closed]
          /\ UNCHANGED td
      BY <1>3, <2>1 DEF Goto, locals, SyncTypes
    <3>2. closed = closed - 1 + IF "flip" \in {"flip", "enter", "spin"} THEN 1 ELSE 0
      BY <1>3
    <3> QED BY <1>3, <3>1, <3>2, SyncedAt, ZenonT(30)
  <2>2. CASE NextInterval(c)
    <3>1. /\ \E l \in {"end", "loop", "reserve"} : pc' = [pc EXCEPT ![c] = l]
          /\ interval' = [interval EXCEPT ![c] = closed + 1] /\ UNCHANGED td
      BY <1>2, <1>3, <2>2, NextPlace
    <3>2. PICK l \in {"end", "loop", "reserve"} : pc' = [pc EXCEPT ![c] = l]
      BY <3>1, ZenonT(30)
    <3>3. PICK i : i = closed + 1
      BY ZenonT(30)
    <3>4. closed = i - 1 + IF l \in {"flip", "enter", "spin"} THEN 1 ELSE 0
      BY <1>3, <3>3
    <3>5. interval' = [interval EXCEPT ![c] = i] /\ SyncTypes /\ UNCHANGED td
      BY <1>3, <3>1, <3>3
    <3> QED BY <3>2, <3>4, <3>5, SyncedAt, ZenonT(30)
  <2> QED BY <2>1, <2>2, ZenonT(30) DEF Sync
<1>6. closed = Synced(c) + 1 /\ Synced(c) < closed
  BY <1>3, <1>4
<1>7. [d \in Core |-> Synced(d)][c] = Synced(c)
  OBVIOUS
<1>8. Pool!Sync(c)
  BY <1>1, <1>5, <1>6, <1>7, ZenonT(30) DEF Pool!Sync
<1> QED BY <1>8, ZenonT(30) DEF PoolStep, Pool!Next

\* A task is no longer a core's when it is run.
LEMMA PoolRuns ==
  ASSUME NoInnerLoops, BarrierTypes, SyncTypes, TypesInv, NEW c \in Core, Run(c)
  PROVE  PoolStep
<1>1. /\ pc[c] = "run" /\ td[c] \in LoopTask /\ pc' = [pc EXCEPT ![c] = "reserve"]
      /\ td' = [td EXCEPT ![c] = NoTask] /\ UNCHANGED <<interval, data, unread, closed>>
  BY RunEnds DEF Run, ring, senses
<1>2. td[c] # NoTask
  BY <1>1, TasksAreTasks, ZenonT(30)
<1>3. \A d \in Core : Synced(d)' = Synced(d)
  BY <1>1 DEF Synced, BarrierTypes
<1>4. [d \in Core |-> Synced(d)]' = [d \in Core |-> Synced(d)]
  BY <1>3
<1>5. Pool!Finish(c)
  BY <1>1, <1>2, <1>4, ZenonT(30) DEF Pool!Finish
<1> QED BY <1>5, ZenonT(30) DEF PoolStep, Pool!Next

\* The steps that the pool does not see.
LEMMA PoolElse ==
  ASSUME BarrierTypes, SyncInv, TypesInv, TailInv, ReserveInv, BusyInv, ContentInv,
         NEW c \in Core,
         \/ c = 0 /\ TaskQueue_Init
         \/ FlagSeen(c) \/ LoopReturn(c) \/ Reserve(c) \/ BarrierFlip(c) \/ BarrierEnter(c)
         \/ BarrierLeave(c) \/ TaskQueue_End(c)
  PROVE  PoolStep
<1>0. /\ SyncTypes /\ SyncCore(c) /\ interval[c] \in Nat /\ closed \in Nat
      /\ interval = [interval EXCEPT ![c] = interval[c]]
  BY X86Assumption DEF SyncInv, SyncTypes
<1>1. tail = 0 => unread = {}
  <2>1. 0 .. 0 - 1 = {}
    OBVIOUS
  <2> QED BY <2>1 DEF ReserveInv
<1>2. {data[s] : s \in unread}' = {data[s] : s \in unread} /\ UNCHANGED closed
  <2>1. CASE c = 0 /\ TaskQueue_Init
    <3>1. tail = 0 /\ UNCHANGED <<unread, closed>>
      BY <2>1 DEF TaskQueue_Init, TailInv, senses
    <3> QED BY <1>1, <3>1, ZenonT(30)
  <2>2. CASE TaskQueue_End(c) /\ c = 0
    <3>1. tail = 0 /\ UNCHANGED <<unread, closed>>
      BY <2>2 DEF TaskQueue_End, ContentInv, Over, At, senses
    <3> QED BY <1>1, <3>1, ZenonT(30)
  <2>3. CASE UNCHANGED <<data, unread, closed>>
    BY <2>3, ZenonT(30)
  <2> QED BY <2>1, <2>2, <2>3, ZenonT(30) DEF FlagSeen, LoopReturn, Reserve, BarrierFlip,
             BarrierEnter,
             BarrierLeave, TaskQueue_End, ring, senses
<1>3. UNCHANGED td
  <2>1. CASE LoopReturn(c)
    <3>1. td[c] = NoTask /\ td' = [td EXCEPT ![c] = NoTask]
      BY <2>1, ZenonT(30) DEF LoopReturn, BusyInv, At
    <3> QED BY <3>1 DEF TypesInv, TaskTypes
  <2> QED BY <2>1, ZenonT(30) DEF TaskQueue_Init, FlagSeen, Reserve, BarrierFlip, BarrierEnter,
             BarrierLeave, TaskQueue_End, Begin, NextInterval, locals
<1>4. CASE (c = 0 /\ TaskQueue_Init) \/ FlagSeen(c)
  <2>1. /\ pc[c] = "start" /\ interval' = [interval EXCEPT ![c] = 1]
        /\ \E l \in {"loop", "reserve"} : pc' = [pc EXCEPT ![c] = l]
    BY <1>4, ZenonT(30) DEF TaskQueue_Init, FlagSeen, Begin, At
  <2>2. PICK l \in {"loop", "reserve"} : pc' = [pc EXCEPT ![c] = l]
    BY <2>1, ZenonT(30)
  <2>3. interval[c] = 1
    BY <1>0, <2>1 DEF SyncCore, At
  <2>4. Synced(c) = 1 - 1 + IF l \in {"flip", "enter", "spin"} THEN 1 ELSE 0
    BY <2>1, <2>3 DEF Synced
  <2> QED BY <1>0, <1>2, <1>3, <2>1, <2>2, <2>4, PoolQuiet, ZenonT(30)
<1>5. CASE LoopReturn(c) \/ Reserve(c) \/ TaskQueue_End(c)
  <2>1. /\ pc[c] \in {"loop", "reserve", "end"} /\ UNCHANGED interval
        /\ \E l \in {"reserve", "wait", "done"} : pc' = [pc EXCEPT ![c] = l]
    BY <1>5, ZenonT(30) DEF LoopReturn, Reserve, TaskQueue_End, Goto, At
  <2>2. PICK l \in {"reserve", "wait", "done"} : pc' = [pc EXCEPT ![c] = l]
    BY <2>1, ZenonT(30)
  <2>3. Synced(c) = interval[c] - 1 + IF l \in {"flip", "enter", "spin"} THEN 1 ELSE 0
    BY <2>1 DEF Synced
  <2> QED BY <1>0, <1>2, <1>3, <2>1, <2>2, <2>3, PoolQuiet, ZenonT(30)
<1>6. CASE BarrierFlip(c) \/ BarrierEnter(c)
  <2>1. /\ pc[c] \in {"flip", "enter"} /\ UNCHANGED interval
        /\ \E l \in {"enter", "spin"} : pc' = [pc EXCEPT ![c] = l]
    BY <1>6, ZenonT(30) DEF BarrierFlip, BarrierEnter, Goto, At
  <2>2. PICK l \in {"enter", "spin"} : pc' = [pc EXCEPT ![c] = l]
    BY <2>1, ZenonT(30)
  <2>3. Synced(c) = interval[c] - 1 + IF l \in {"flip", "enter", "spin"} THEN 1 ELSE 0
    BY <2>1 DEF Synced
  <2> QED BY <1>0, <1>2, <1>3, <2>1, <2>2, <2>3, PoolQuiet, ZenonT(30)
<1>7. CASE BarrierLeave(c)
  <2>1. pc[c] = "spin" /\ NextInterval(c)
    BY <1>7 DEF BarrierLeave, At
  <2>2. /\ \E l \in {"end", "loop", "reserve"} : pc' = [pc EXCEPT ![c] = l]
        /\ interval' = [interval EXCEPT ![c] = interval[c] + 1]
    BY <1>0, <2>1, NextPlace
  <2>3. PICK l \in {"end", "loop", "reserve"} : pc' = [pc EXCEPT ![c] = l]
    BY <2>2, ZenonT(30)
  <2>4. PICK i : i = interval[c] + 1
    BY ZenonT(30)
  <2>5. Synced(c) = i - 1 + IF l \in {"flip", "enter", "spin"} THEN 1 ELSE 0
    BY <1>0, <2>1, <2>4 DEF Synced
  <2> QED BY <1>0, <1>2, <1>3, <2>2, <2>3, <2>4, <2>5, PoolQuiet, ZenonT(30)
<1> QED BY <1>4, <1>5, <1>6, <1>7

LEMMA BusyStep ==
  ASSUME NoInnerLoops, BarrierTypes, SyncInv, TypesInv, BusyInv, NEW c \in Core, Step(c)
  PROVE  BusyInv'
<1>0. SyncTypes /\ td \in [Core -> LoopTask \cup {NoTask}]
  BY DEF SyncInv, TypesInv, TaskTypes
<1>1. ASSUME NEW l, pc' = [pc EXCEPT ![c] = l], NEW t, td' = [td EXCEPT ![c] = t],
             l # "run" => t = NoTask
      PROVE  BusyInv'
  <2>1. pc'[c] = l /\ td'[c] = t
    BY <1>0, <1>1 DEF BarrierTypes
  <2>2. \A d \in Core : d # c => pc'[d] = pc[d] /\ td'[d] = td[d]
    BY <1>0, <1>1 DEF BarrierTypes
  <2> QED BY <1>1, <2>1, <2>2, ZenonT(30) DEF BusyInv, At
<1>2. CASE Take(c)
  BY <1>1, <1>2, ZenonT(30) DEF Take, Goto
<1>3. CASE Run(c)
  BY <1>1, <1>3, RunEnds, ZenonT(30)
<1>4. CASE LoopReturn(c)
  BY <1>1, <1>4, ZenonT(30) DEF LoopReturn, Goto
<1>5. CASE Arrive(c) \/ TaskQueue_Enqueue(c)
  <2>1. UNCHANGED <<pc, td>>
    BY <1>5, ZenonT(30) DEF Arrive, TaskQueue_Enqueue
  <2> QED BY <2>1, ZenonT(30) DEF BusyInv, At
<1>6. CASE ~(Take(c) \/ Run(c) \/ LoopReturn(c) \/ Arrive(c) \/ TaskQueue_Enqueue(c))
  <2>1. pc[c] # "run" /\ UNCHANGED td
    BY <1>6, ZenonT(30) DEF Step, TaskQueue_Init, FlagSeen, Reserve, Sync, BarrierFlip,
       BarrierEnter,
           BarrierLeave, TaskQueue_End, Begin, NextInterval, Goto, locals, At
  <2>2. td = [td EXCEPT ![c] = NoTask]
    BY <1>0, <2>1 DEF BusyInv, At
  <2>3. \E l : l # "run" /\ pc' = [pc EXCEPT ![c] = l]
    BY <1>6, ZenonT(30) DEF Step, TaskQueue_Init, FlagSeen, Reserve, Sync, BarrierFlip,
           BarrierEnter, BarrierLeave, TaskQueue_End, Begin, NextInterval, Goto
  <2> QED BY <1>1, <2>1, <2>2, <2>3, ZenonT(30)
<1> QED BY <1>2, <1>3, <1>4, <1>5, <1>6

LEMMA PoolSteps ==
  /\ NoInnerLoops /\ RingHasRoom
  /\ BarrierInv /\ SyncInv /\ SyncInv' /\ TypesInv /\ CountInv /\ BusyInv /\ ContentInv
  /\ [Next]_vars
  => BusyInv' /\ ContentInv' /\ PoolStep
<1> SUFFICES ASSUME NoInnerLoops, RingHasRoom, BarrierInv, SyncInv, SyncInv', TypesInv,
                    CountInv, BusyInv, ContentInv, [Next]_vars
             PROVE  BusyInv' /\ ContentInv' /\ PoolStep
  OBVIOUS
<1>1. BarrierTypes /\ FlatInv /\ TailInv /\ ReserveInv /\ SyncTypes
  BY DEF BarrierInv, CountInv, SyncInv
<1>2. CASE UNCHANGED vars
  <2>1. UNCHANGED <<data, tail, unread, closed, pc, interval, start, td>>
    BY <1>2, ZenonT(30) DEF vars, ring, senses, locals
  <2>2. BusyInv' /\ ContentInv'
    BY <2>1, ZenonT(30) DEF BusyInv, ContentInv, At, Over
  <2>3. UNCHANGED PoolState
    BY <2>1 DEF PoolState, Synced
  <2> QED BY <2>2, <2>3 DEF PoolStep
<1>3. ASSUME NEW c \in Core, Step(c)
      PROVE  BusyInv' /\ ContentInv' /\ PoolStep
  <2>1. BusyInv'
    BY <1>1, <1>3, BusyStep
  <2>2. ContentInv'
    BY <1>1, <1>3, ContentStep
  <2>3. PoolStep
    BY <1>1, <1>3, PoolEnqueue, PoolTakes, PoolArrives, PoolSyncs, PoolRuns, PoolElse,
       ZenonT(30) DEF Step
  <2> QED BY <2>1, <2>2, <2>3
<1> QED BY <1>2, <1>3 DEF Next, Done

\* In the same programs the ring is a pool of tasks: each task that core 0
\* enqueues is given to one core, and a core gets TQ_RET_SYNC only for an
\* interval of which every task is finished.
THEOREM ImplementsPool ==
  ASSUME BarrierAfterSync, NoInnerLoops, RingHasRoom
  PROVE  Spec => TasksArePooled
<1>1. Spec => [](BarrierInv /\ SyncInv /\ TypesInv /\ CountInv)
  BY CountInvariant
<1>2. BarrierInv /\ SyncInv /\ SyncInv' /\ TypesInv /\ CountInv /\ BusyInv /\ ContentInv
        /\ [Next]_vars
      => BusyInv' /\ ContentInv' /\ [Pool!Next]_(Pool!vars)
  BY PoolSteps, ZenonT(30) DEF PoolStep, PoolState, Pool!vars
<1> QED BY <1>1, <1>2, PoolInit, PTL DEF Spec, TasksArePooled, Pool!Spec
=============================================================================
