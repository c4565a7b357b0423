------------------------- MODULE X86TaskModelProofs -------------------------
(***************************************************************************)
(* The two barriers of the x86 task model and its types, for any number of *)
(* cores, any ring and any loops.  rtmx86_enter_barrier is a barrier in    *)
(* any program; the count of the one inside TaskQueue_Dequeue is exact in  *)
(* programs that use the first between one SYNC and the next loop, as cg.c *)
(* does.                                                                   *)
(***************************************************************************)
EXTENDS X86TaskModel, FiniteSetTheorems, TLAPS

\* Leaves that name no prover go to SMT, then to Zenon, then to SMT once more.
USE SMTT(30), ZenonT(30), SMTT(31)

\* The labels between the flip of a core's sense and the end of its wait.
InBarrier == {"enter", "spin"}

\* The cores that the barrier holds and has counted.
Waiting == {c \in Core : pc[c] = "spin" /\ barrier_local[c] # barrier_global}

BarrierTypes ==
  /\ pc \in [Core -> Labels]
  /\ barrier_local \in [Core -> {0, 1}]
  /\ barrier_global \in {0, 1}
  /\ barrier_count \in 0 .. Cores - 1

\* A core outside has the sense of all, one that has flipped and is not yet
\* counted has the other one, and the count is the number of those held.
BarrierInv ==
  /\ BarrierTypes
  /\ \A c \in Core : /\ pc[c] \notin InBarrier => barrier_local[c] = barrier_global
                     /\ pc[c] = "enter" => barrier_local[c] # barrier_global
  /\ barrier_count = Cardinality(Waiting)

\* The cores are finitely many, and as many as CORES_TOTAL says.
LEMMA CoresCount ==
  /\ IsFiniteSet(Core) /\ Cardinality(Core) = Cores /\ Cores \in Nat \ {0} /\ 0 \in Core
<1>1. Cores \in Nat \ {0}
  BY X86Assumption
<1>2. IsFiniteSet(0 .. Cores - 1) /\ Cardinality(0 .. Cores - 1) = Cores - 1 - 0 + 1
  BY <1>1, FS_Interval
<1> QED BY <1>1, <1>2 DEF Core

\* One core more has entered: how the count of a set of cores steps, and that
\* it is complete exactly when all have entered.
LEMMA OneCoreMore ==
  ASSUME NEW A \in SUBSET Core, NEW c \in Core \ A
  PROVE  /\ Cardinality(A \cup {c}) = Cardinality(A) + 1
         /\ Cardinality(A) + 1 = Cores <=> A \cup {c} = Core
<1>1. IsFiniteSet(A)
  BY CoresCount, FS_Subset
<1>2. Cardinality(A \cup {c}) = Cardinality(A) + 1
  BY <1>1, FS_AddElement
<1>3. A \cup {c} \in SUBSET Core
  OBVIOUS
<1>4. Cardinality(A \cup {c}) = Cardinality(Core) => A \cup {c} = Core
  BY <1>3, CoresCount, FS_Subset
<1> QED BY <1>2, <1>4, CoresCount

\* X86_TASK_MODEL_INIT sets all senses alike and holds nobody.
LEMMA BarrierInit == Init => BarrierInv
<1> SUFFICES ASSUME Init PROVE BarrierInv
  OBVIOUS
<1>1. BarrierTypes /\ \A c \in Core : pc[c] = "start" /\ barrier_local[c] = barrier_global
  BY CoresCount DEF Init, BarrierTypes, Labels
<1>2. Waiting = {}
  BY <1>1 DEF Waiting
<1> QED BY <1>1, <1>2, FS_EmptySet DEF BarrierInv, InBarrier, Init

\* Outside the barrier nothing that it uses is changed.
Elsewhere(c) ==
  /\ UNCHANGED barrier
  /\ \E l \in Labels \ InBarrier :
       pc[c] \notin InBarrier /\ pc' = [pc EXCEPT ![c] = l]

\* Where a core goes after an interval.
LEMMA NextLabel ==
  ASSUME NEW c, NextInterval(c)
  PROVE  \E l \in Labels \ InBarrier : pc' = [pc EXCEPT ![c] = l]
BY DEF NextInterval, Begin, Labels, InBarrier

\* The queue and the programs do not touch the barrier.
LEMMA QueueSteps ==
  ASSUME BarrierTypes, NEW c \in Core,
         \/ c = 0 /\ TaskQueue_Init
         \/ FlagSeen(c) \/ TaskQueue_Enqueue(c) \/ LoopReturn(c) \/ Reserve(c)
         \/ Take(c) \/ Arrive(c) \/ Sync(c) \/ Run(c) \/ TaskQueue_End(c)
  PROVE  Elsewhere(c)
<1> USE DEF At, Labels, InBarrier, Elsewhere
<1>0. \A l \in Labels : pc[c] = l => pc = [pc EXCEPT ![c] = l]
  BY DEF BarrierTypes
<1>1. CASE c = 0 /\ TaskQueue_Init
  BY <1>1 DEF TaskQueue_Init, Begin
<1>2. CASE FlagSeen(c)
  BY <1>2 DEF FlagSeen, Begin
<1>3. CASE TaskQueue_Enqueue(c)
  BY <1>0, <1>3 DEF TaskQueue_Enqueue
<1>4. CASE LoopReturn(c) \/ Reserve(c) \/ Take(c) \/ Run(c) \/ TaskQueue_End(c)
  BY <1>4 DEF LoopReturn, Reserve, Take, Run, TaskQueue_End, Goto
<1>5. CASE Arrive(c)
  BY <1>0, <1>5 DEF Arrive
<1>6. CASE Sync(c)
  BY <1>6, NextLabel DEF Sync, Goto
<1> QED BY <1>1, <1>2, <1>3, <1>4, <1>5, <1>6

\* Such a step keeps the invariant, and every core its stage.
LEMMA ElsewhereStep ==
  ASSUME BarrierInv, NEW c \in Core, Elsewhere(c)
  PROVE  BarrierInv' /\ \A d \in Core : Stage(d)' = Stage(d)
<1> USE DEF BarrierTypes, InBarrier
<1>1. PICK l \in Labels \ InBarrier : pc[c] \notin InBarrier /\ pc' = [pc EXCEPT ![c] = l]
  BY ZenonT(30) DEF Elsewhere
<1>2. UNCHANGED barrier
  BY DEF Elsewhere
<1>3. \A d \in Core : pc'[d] \in InBarrier \/ pc[d] \in InBarrier => pc'[d] = pc[d]
  BY <1>1 DEF BarrierInv
<1>4. Waiting' = Waiting
  BY <1>2, <1>3 DEF Waiting, barrier
<1>5. BarrierTypes'
  BY <1>1, <1>2 DEF BarrierInv, barrier
<1>6. BarrierInv'
  BY <1>2, <1>3, <1>4, <1>5 DEF BarrierInv, barrier
<1>7. \A d \in Core : Stage(d)' = Stage(d)
  BY <1>2, <1>3 DEF Stage, barrier
<1> QED BY <1>6, <1>7

\* The stages as the abstract barrier sees them.
Stages == [d \in Core |-> Stage(d)]

\* The flip of its own sense is what makes a core one that is held.
LEMMA FlipStep ==
  ASSUME BarrierInv, NEW c \in Core, BarrierFlip(c)
  PROVE  BarrierInv' /\ Phase!Join(c)
<1> USE DEF BarrierTypes, InBarrier
<1>1. /\ pc[c] = "flip" /\ pc' = [pc EXCEPT ![c] = "enter"]
      /\ barrier_local' = [barrier_local EXCEPT ![c] = 1 - @]
      /\ UNCHANGED <<barrier_count, barrier_global>>
  BY DEF BarrierFlip, At, Goto
<1>2. barrier_local[c] = barrier_global /\ barrier_local'[c] = 1 - barrier_global
  BY <1>1 DEF BarrierInv
<1>3. barrier_local'[c] # barrier_global
  BY <1>2 DEF BarrierInv
<1>4. \A d \in Core \ {c} : pc'[d] = pc[d] /\ barrier_local'[d] = barrier_local[d]
  BY <1>1 DEF BarrierInv
<1>5. BarrierTypes' /\ pc'[c] = "enter"
  BY <1>1, <1>2 DEF BarrierInv, Labels
<1>6. Waiting' = Waiting
  BY <1>1, <1>4, <1>5 DEF Waiting
<1>7. BarrierInv'
  BY <1>1, <1>3, <1>4, <1>5, <1>6 DEF BarrierInv
<1>8. Stage(c) = "outside" /\ Stage(c)' = "held"
  BY <1>1, <1>3, <1>5 DEF Stage
<1>9. \A d \in Core \ {c} : Stage(d)' = Stage(d)
  BY <1>1, <1>4 DEF Stage
<1>10. Stages[c] = "outside" /\ Stages' = [Stages EXCEPT ![c] = "held"]
  BY <1>8, <1>9, ZenonT(30) DEF Stages
<1> QED BY <1>7, <1>10 DEF Phase!Join, Phase!Outside, Phase!Held, Stages

\* A core that is not the last is counted and nobody sees it.  The last one
\* finds all the others counted and turns the sense that they wait for.
LEMMA EnterStep ==
  ASSUME BarrierInv, NEW c \in Core, BarrierEnter(c)
  PROVE  BarrierInv' /\ (Phase!Release \/ Stages' = Stages)
<1> USE DEF BarrierTypes, InBarrier
<1>1. pc[c] = "enter" /\ pc' = [pc EXCEPT ![c] = "spin"] /\ UNCHANGED barrier_local
  BY DEF BarrierEnter, At, Goto
<1>2. barrier_local[c] # barrier_global
  BY <1>1 DEF BarrierInv
<1>3. pc'[c] = "spin" /\ \A d \in Core \ {c} : pc'[d] = pc[d]
  BY <1>1 DEF BarrierInv
<1>4. Waiting \in SUBSET Core /\ c \in Core \ Waiting
  BY <1>1 DEF Waiting
<1>5. /\ Cardinality(Waiting \cup {c}) = Cardinality(Waiting) + 1
      /\ Cardinality(Waiting) + 1 = Cores <=> Waiting \cup {c} = Core
  BY <1>4, OneCoreMore
<1>6. pc' \in [Core -> Labels]
  BY <1>1 DEF BarrierInv, Labels
<1>7. CASE barrier_count + 1 = Cores
  <2>1. barrier_count' = 0 /\ barrier_global' = barrier_local[c]
    BY <1>7 DEF BarrierEnter
  <2>2. \A d \in Core : d = c \/ (pc[d] = "spin" /\ barrier_local[d] # barrier_global)
    BY <1>5, <1>7 DEF BarrierInv, Waiting
  <2>3. \A d \in Core : barrier_local'[d] = barrier_global' /\ pc'[d] = "spin"
    BY <1>1, <1>2, <1>3, <2>1, <2>2 DEF BarrierInv
  <2>4. Waiting' = {}
    BY <2>3 DEF Waiting
  <2>5. BarrierTypes'
    BY <1>1, <1>6, <2>1, CoresCount DEF BarrierInv
  <2>6. BarrierInv'
    BY <2>1, <2>3, <2>4, <2>5, FS_EmptySet DEF BarrierInv
  <2>7. \A d \in Core : Stage(d) = "held"
    BY <1>1, <1>2, <2>2 DEF Stage
  <2>8. \A d \in Core : Stage(d)' = "letgo"
    BY <2>3 DEF Stage
  <2>9. Phase!Release
    BY <2>7, <2>8 DEF Phase!Release, Phase!Held, Phase!LetGo
  <2> QED BY <2>6, <2>9
<1>8. CASE barrier_count + 1 # Cores
  <2>1. barrier_count' = barrier_count + 1 /\ UNCHANGED barrier_global
    BY <1>8 DEF BarrierEnter
  <2>2. Waiting' = Waiting \cup {c}
    BY <1>1, <1>2, <1>3, <2>1 DEF Waiting
  <2>3. barrier_count' \in 0 .. Cores - 1
    BY <1>8, <2>1, CoresCount DEF BarrierInv
  <2>4. BarrierTypes'
    BY <1>1, <1>6, <2>1, <2>3 DEF BarrierInv
  <2>5. barrier_count' = Cardinality(Waiting')
    BY <1>5, <2>1, <2>2 DEF BarrierInv
  <2>6. BarrierInv'
    BY <1>1, <1>3, <2>1, <2>4, <2>5 DEF BarrierInv
  <2>7. \A d \in Core : Stage(d)' = Stage(d)
    BY <1>1, <1>3, <2>1 DEF Stage
  <2> QED BY <2>6, <2>7 DEF Stages
<1> QED BY <1>7, <1>8

\* A core that leaves was let go.
LEMMA LeaveStep ==
  ASSUME BarrierInv, NEW c \in Core, BarrierLeave(c)
  PROVE  BarrierInv' /\ Phase!Leave(c)
<1> USE DEF BarrierTypes, InBarrier
<1>1. pc[c] = "spin" /\ barrier_local[c] = barrier_global /\ UNCHANGED barrier
  BY DEF BarrierLeave, At
<1>2. PICK l \in Labels \ InBarrier : pc' = [pc EXCEPT ![c] = l]
  BY NextLabel DEF BarrierLeave
<1>3. pc'[c] \notin InBarrier /\ \A d \in Core \ {c} : pc'[d] = pc[d]
  BY <1>2 DEF BarrierInv
<1>4. Waiting' = Waiting
  BY <1>1, <1>3 DEF Waiting, barrier
<1>5. BarrierTypes'
  BY <1>1, <1>2 DEF BarrierInv, barrier
<1>6. BarrierInv'
  BY <1>1, <1>3, <1>4, <1>5 DEF BarrierInv, barrier
<1>7. Stage(c) = "letgo" /\ Stage(c)' = "outside"
  BY <1>1, <1>3 DEF Stage
<1>8. \A d \in Core \ {c} : Stage(d)' = Stage(d)
  BY <1>1, <1>3 DEF Stage, barrier
<1>9. Stages[c] = "letgo" /\ Stages' = [Stages EXCEPT ![c] = "outside"]
  BY <1>7, <1>8, ZenonT(30) DEF Stages
<1> QED BY <1>6, <1>9 DEF Phase!Leave, Phase!Outside, Phase!LetGo, Stages

\* Every step keeps the invariant and is a step of the abstract barrier, or
\* is not seen there.
LEMMA BarrierStep ==
  BarrierInv /\ [Next]_vars => BarrierInv' /\ [Phase!Next]_Stages
<1> SUFFICES ASSUME BarrierInv, [Next]_vars
             PROVE  BarrierInv' /\ [Phase!Next]_Stages
  OBVIOUS
<1>1. CASE UNCHANGED vars
  <2>1. UNCHANGED <<pc, barrier_count, barrier_global, barrier_local>>
    BY <1>1 DEF vars, barrier
  <2>2. Waiting' = Waiting /\ \A d \in Core : Stage(d)' = Stage(d)
    BY <2>1 DEF Waiting, Stage
  <2> QED BY <2>1, <2>2 DEF BarrierInv, BarrierTypes, Stages
<1>2. ASSUME NEW c \in Core, Step(c)
      PROVE  BarrierInv' /\ [Phase!Next]_Stages
  <2>1. CASE BarrierFlip(c)
    BY <2>1, FlipStep DEF Phase!Next
  <2>2. CASE BarrierEnter(c)
    BY <2>2, EnterStep DEF Phase!Next
  <2>3. CASE BarrierLeave(c)
    BY <2>3, LeaveStep DEF Phase!Next
  <2>4. CASE Elsewhere(c)
    BY <2>4, ElsewhereStep DEF Stages
  <2>5. BarrierTypes
    BY DEF BarrierInv
  <2> QED BY <1>2, <2>1, <2>2, <2>3, <2>4, <2>5, QueueSteps DEF Step
<1> QED BY <1>1, <1>2 DEF Next, Done

\* The count of rtmx86_enter_barrier is at every step the number of cores
\* that it holds, and the two senses tell them from those it has let go.
THEOREM BarrierInvariant == Spec => []BarrierInv
<1> QED BY BarrierInit, BarrierStep, PTL DEF Spec

\* rtmx86_enter_barrier is a barrier for any number of cores: nobody leaves it
\* before all have come, however the rounds overlap.
THEOREM ImplementsBarrier == Spec => BarrierIsPhased
<1>1. Init => Phase!Init
  <2> SUFFICES ASSUME Init PROVE Phase!Init
    OBVIOUS
  <2>1. \A d \in Core : Stage(d) = "outside"
    BY DEF Init, Stage
  <2> QED BY <2>1 DEF Phase!Init, Phase!Outside
<1>2. BarrierInv /\ [Next]_vars => [Phase!Next]_([c \in Core |-> Stage(c)])
  BY BarrierStep DEF Stages
<1> QED BY <1>1, <1>2, BarrierInvariant, PTL
        DEF Spec, BarrierIsPhased, Phase!Spec

-----------------------------------------------------------------------------
(* The barrier inside TaskQueue_Dequeue, in programs that follow cg.c:     *)
(* after every SYNC but the last all cores enter the other barrier.        *)

BarrierAfterSync == \A p \in Programs : \A i \in 1 .. Len(p) - 1 : p[i].barrier

\* The core was let go by the barrier of TaskQueue_Dequeue, and not yet by
\* the one that follows it.
Syncing(c) ==
  \/ At(c, "wait") /\ did_waitcount[c] /\ localsense[c] = globalsense
  \/ pc[c] \in {"flip", "enter"}
  \/ At(c, "spin") /\ barrier_local[c] # barrier_global

Opened(c) == Syncing(c) \/ At(c, "spin")

Over(c) == pc[c] \in {"end", "done"}

SyncTypes ==
  /\ prog \in Programs
  /\ count \in Nat /\ closed \in Nat
  /\ globalsense \in {0, 1}
  /\ localsense \in [Core -> {0, 1}]
  /\ did_waitcount \in [Core -> BOOLEAN]
  /\ interval \in [Core -> 1 .. Len(prog) + 1]

\* Only a core that has arrived has the other sense, and its interval is one
\* behind the barriers reached while it comes out of one.
SyncCore(c) ==
  /\ localsense[c] # globalsense => At(c, "wait") /\ did_waitcount[c]
  /\ interval[c] = closed + IF Opened(c) THEN 0 ELSE 1
  /\ Over(c) <=> interval[c] = Len(prog) + 1
  /\ At(c, "start") => interval[c] = 1

\* While one core comes out, there are no tasks and all cores come out.
AllSyncing ==
  \A c \in Core :
    Syncing(c) => count = 0 /\ \A d \in Core : Syncing(d) \/ Over(d)

SyncInv ==
  /\ SyncTypes
  /\ WaitCountExact
  /\ \A c \in Core : SyncCore(c)
  /\ AllSyncing

LEMMA SyncInit == Init => SyncInv
<1> SUFFICES ASSUME Init PROVE SyncInv
  OBVIOUS
<1>1. prog \in Programs /\ Len(prog) \in Nat \ {0}
  BY X86Assumption DEF Init
<1>2. SyncTypes
  BY <1>1 DEF Init, SyncTypes
<1>3. \A c \in Core : /\ pc[c] = "start" /\ ~did_waitcount[c] /\ interval[c] = 1
                      /\ localsense[c] = globalsense
  BY DEF Init
<1>4. Arrived = {}
  BY <1>3 DEF Arrived
<1>5. WaitCountExact
  BY <1>4, FS_EmptySet DEF WaitCountExact, Init
<1>6. \A c \in Core : ~Syncing(c) /\ ~Opened(c) /\ ~Over(c)
  BY <1>3 DEF Syncing, Opened, Over, At
<1>7. closed = 0
  BY DEF Init
<1>8. \A c \in Core : SyncCore(c)
  BY <1>1, <1>3, <1>6, <1>7 DEF SyncCore
<1> QED BY <1>2, <1>5, <1>6, <1>8 DEF SyncInv, AllSyncing

\* A step away from both barriers.
Plain(c) ==
  /\ pc[c] \in {"start", "loop", "reserve", "run", "end"}
  /\ \E l \in {"loop", "reserve", "wait", "done"} :
       /\ pc' = [pc EXCEPT ![c] = l]
       /\ l = "done" <=> pc[c] = "end"
       /\ did_waitcount' = IF l = "wait" THEN [did_waitcount EXCEPT ![c] = FALSE]
                           ELSE did_waitcount
  /\ UNCHANGED <<prog, interval, senses, barrier>>
  /\ count' \in Nat /\ (pc[c] # "loop" => count' = count)

LEMMA PlainSteps ==
  ASSUME BarrierTypes, SyncInv, NEW c \in Core,
         \/ c = 0 /\ TaskQueue_Init
         \/ FlagSeen(c) \/ TaskQueue_Enqueue(c) \/ LoopReturn(c) \/ Reserve(c)
         \/ Run(c) \/ TaskQueue_End(c)
  PROVE  Plain(c)
<1> USE DEF At, Plain
<1>0. pc = [pc EXCEPT ![c] = pc[c]] /\ count \in Nat
  BY DEF BarrierTypes, SyncInv, SyncTypes
<1>1. pc[c] = "start" => interval = [interval EXCEPT ![c] = 1]
  BY DEF SyncInv, SyncTypes, SyncCore
<1>2. CASE c = 0 /\ TaskQueue_Init
  BY <1>0, <1>1, <1>2 DEF TaskQueue_Init, Begin
<1>3. CASE FlagSeen(c)
  BY <1>0, <1>1, <1>3 DEF FlagSeen, Begin, ring
<1>4. CASE TaskQueue_Enqueue(c)
  BY <1>0, <1>4 DEF TaskQueue_Enqueue
<1>5. CASE LoopReturn(c) \/ Run(c) \/ TaskQueue_End(c)
  BY <1>0, <1>5 DEF LoopReturn, Run, TaskQueue_End, Goto, ring, locals
<1>6. CASE Reserve(c)
  BY <1>0, <1>6 DEF Reserve, Goto
<1> QED BY <1>2, <1>3, <1>4, <1>5, <1>6

\* What the other cores see of a step of c that leaves the two senses alone.
LEMMA OthersSame ==
  ASSUME BarrierTypes, SyncTypes, NEW c \in Core, NEW d \in Core, d # c,
         NEW l, pc' = [pc EXCEPT ![c] = l],
         NEW b, did_waitcount' = [did_waitcount EXCEPT ![c] = b],
         NEW s, localsense' = [localsense EXCEPT ![c] = s],
         NEW i, interval' = [interval EXCEPT ![c] = i],
         NEW o, barrier_local' = [barrier_local EXCEPT ![c] = o],
         UNCHANGED <<prog, closed, globalsense, barrier_global>>
  PROVE  /\ Syncing(d)' <=> Syncing(d)
         /\ Over(d)' <=> Over(d)
         /\ SyncCore(d) => SyncCore(d)'
         /\ (d \in Arrived') <=> (d \in Arrived)
<1>1. /\ pc'[d] = pc[d] /\ did_waitcount'[d] = did_waitcount[d]
      /\ localsense'[d] = localsense[d] /\ interval'[d] = interval[d]
      /\ barrier_local'[d] = barrier_local[d]
  BY DEF BarrierTypes, SyncTypes
<1>2. (Syncing(d)' <=> Syncing(d)) /\ (Opened(d)' <=> Opened(d)) /\ (Over(d)' <=> Over(d))
  BY <1>1 DEF Syncing, Opened, Over, At
<1>3. SyncCore(d) => SyncCore(d)'
  BY <1>1, <1>2 DEF SyncCore, At
<1>4. (d \in Arrived') <=> (d \in Arrived)
  BY <1>1 DEF Arrived, At
<1> QED BY <1>2, <1>3, <1>4

LEMMA PlainStep ==
  ASSUME BarrierTypes, SyncInv, NEW c \in Core, Plain(c)
  PROVE  SyncInv'
<1>0. SyncTypes /\ \A d \in Core : SyncCore(d)
  BY DEF SyncInv
<1>1. PICK l \in {"loop", "reserve", "wait", "done"} :
        /\ pc' = [pc EXCEPT ![c] = l]
        /\ l = "done" <=> pc[c] = "end"
        /\ did_waitcount' = IF l = "wait" THEN [did_waitcount EXCEPT ![c] = FALSE]
                            ELSE did_waitcount
  BY ZenonT(30) DEF Plain
<1>2. /\ pc[c] \in {"start", "loop", "reserve", "run", "end"}
      /\ UNCHANGED <<prog, interval, wait_count, globalsense, localsense, closed,
                     barrier_global, barrier_local>>
      /\ count' \in Nat /\ (pc[c] # "loop" => count' = count)
  BY DEF Plain, senses, barrier
<1>3. pc'[c] = l
  BY <1>1 DEF BarrierTypes
<1>4. PICK b \in BOOLEAN : /\ did_waitcount' = [did_waitcount EXCEPT ![c] = b]
                           /\ l = "wait" => ~b
  BY <1>0, <1>1, ZenonT(30) DEF SyncTypes
<1>5. /\ localsense' = [localsense EXCEPT ![c] = localsense[c]]
      /\ interval' = [interval EXCEPT ![c] = interval[c]]
      /\ barrier_local' = [barrier_local EXCEPT ![c] = barrier_local[c]]
  BY <1>0, <1>2 DEF BarrierTypes, SyncTypes
<1>6. \A d \in Core : d # c =>
        /\ Syncing(d)' <=> Syncing(d)
        /\ Over(d)' <=> Over(d)
        /\ SyncCore(d) => SyncCore(d)'
        /\ (d \in Arrived') <=> (d \in Arrived)
  BY <1>0, <1>1, <1>2, <1>4, <1>5, OthersSame, ZenonT(30)
<1>7. did_waitcount'[c] = b
  BY <1>0, <1>4 DEF SyncTypes
<1>8. /\ ~Syncing(c) /\ ~Opened(c) /\ ~Syncing(c)' /\ ~Opened(c)'
      /\ Over(c)' <=> Over(c)
      /\ c \notin Arrived /\ c \notin Arrived'
  BY <1>1, <1>2, <1>3, <1>4, <1>7, ZenonT(30) DEF Syncing, Opened, Over, At, Arrived
<1>9. SyncTypes'
  BY <1>0, <1>2, <1>4 DEF SyncTypes
<1>10. Arrived' = Arrived
  BY <1>6, <1>8 DEF Arrived
<1>11. SyncCore(c)'
  BY <1>0, <1>1, <1>2, <1>3, <1>8 DEF SyncCore, At
<1>12. AllSyncing'
  <2> SUFFICES ASSUME NEW d \in Core, Syncing(d)'
               PROVE  count' = 0 /\ \A e \in Core : Syncing(e)' \/ Over(e)'
    BY DEF AllSyncing
  <2>1. Syncing(d)
    BY <1>6, <1>8
  <2>2. count = 0 /\ \A e \in Core : Syncing(e) \/ Over(e)
    BY <2>1 DEF SyncInv, AllSyncing
  <2>3. pc[c] # "loop"
    BY <1>8, <2>2 DEF Over
  <2> QED BY <1>2, <1>6, <1>8, <2>2, <2>3
<1>13. WaitCountExact'
  BY <1>2, <1>10 DEF SyncInv, WaitCountExact
<1> QED BY <1>0, <1>6, <1>9, <1>11, <1>12, <1>13 DEF SyncInv

\* A core that takes a task after it had arrived was counted: nobody comes out
\* of the barrier while there are tasks.
LEMMA TakeSync ==
  ASSUME BarrierTypes, SyncInv, NEW c \in Core, Take(c)
  PROVE  SyncInv'
<1>0. SyncTypes /\ \A d \in Core : SyncCore(d)
  BY DEF SyncInv
<1>1. /\ pc[c] = "wait" /\ pc' = [pc EXCEPT ![c] = "run"]
      /\ count > 0 /\ count' = count - 1
      /\ UNCHANGED <<prog, interval, globalsense, closed, did_waitcount,
                     barrier_global, barrier_local>>
  BY DEF Take, Goto, At, barrier
<1>2. \A d \in Core : ~Syncing(d)
  BY <1>0, <1>1 DEF SyncInv, AllSyncing, SyncTypes
<1>3. did_waitcount[c] => localsense[c] # globalsense
  BY <1>1, <1>2 DEF Syncing, At
<1>4. localsense' = [localsense EXCEPT ![c] = globalsense]
  <2>1. CASE did_waitcount[c]
    BY <1>0, <1>3, <2>1 DEF Take, Flipped, SyncTypes
  <2>2. CASE ~did_waitcount[c]
    <3>1. localsense' = localsense /\ localsense[c] = globalsense
      BY <1>0, <2>2 DEF Take, SyncCore
    <3> QED BY <1>0, <3>1 DEF SyncTypes
  <2> QED BY <2>1, <2>2
<1>5. /\ did_waitcount' = [did_waitcount EXCEPT ![c] = did_waitcount[c]]
      /\ interval' = [interval EXCEPT ![c] = interval[c]]
      /\ barrier_local' = [barrier_local EXCEPT ![c] = barrier_local[c]]
  BY <1>0, <1>1 DEF BarrierTypes, SyncTypes
<1>6. \A d \in Core : d # c =>
        /\ Syncing(d)' <=> Syncing(d)
        /\ SyncCore(d) => SyncCore(d)'
        /\ (d \in Arrived') <=> (d \in Arrived)
  BY <1>0, <1>1, <1>4, <1>5, OthersSame, ZenonT(30)
<1>7. pc'[c] = "run" /\ localsense'[c] = globalsense'
  BY <1>0, <1>1, <1>4 DEF BarrierTypes, SyncTypes
<1>8. ~Syncing(c)' /\ ~Opened(c)' /\ ~Opened(c) /\ c \notin Arrived' /\ ~Over(c)' /\ ~Over(c)
  BY <1>1, <1>2, <1>7 DEF Syncing, Opened, Arrived, At, Over
<1>9. SyncTypes'
  BY <1>0, <1>1, <1>4 DEF SyncTypes
<1>10. SyncCore(c)'
  BY <1>0, <1>1, <1>7, <1>8 DEF SyncCore, At
<1>11. AllSyncing'
  BY <1>2, <1>6, <1>8 DEF AllSyncing
<1>12. WaitCountExact'
  <2>1. CASE did_waitcount[c]
    <3>1. c \in Arrived /\ Arrived \in SUBSET Core
      BY <1>1, <1>3, <2>1 DEF Arrived, At
    <3>2. Arrived' = Arrived \ {c}
      BY <1>6, <1>8 DEF Arrived
    <3>3. Cardinality(Arrived \ {c}) = Cardinality(Arrived) - 1
      BY <3>1, CoresCount, FS_Subset, FS_RemoveElement
    <3>4. wait_count' = wait_count - 1
      BY <2>1 DEF Take
    <3> QED BY <3>2, <3>3, <3>4 DEF SyncInv, WaitCountExact
  <2>2. CASE ~did_waitcount[c]
    <3>1. c \notin Arrived
      BY <2>2 DEF Arrived
    <3>2. Arrived' = Arrived
      BY <1>6, <1>8, <3>1 DEF Arrived
    <3>3. wait_count' = wait_count
      BY <2>2 DEF Take
    <3> QED BY <3>2, <3>3 DEF SyncInv, WaitCountExact
  <2> QED BY <2>1, <2>2
<1> QED BY <1>0, <1>6, <1>9, <1>10, <1>11, <1>12 DEF SyncInv

\* The last to arrive lets all go at once; before that nobody is let go.
LEMMA ArriveSync ==
  ASSUME BarrierTypes, SyncInv, NEW c \in Core, Arrive(c)
  PROVE  SyncInv'
<1>0. SyncTypes /\ \A d \in Core : SyncCore(d)
  BY DEF SyncInv
<1>1. /\ pc[c] = "wait" /\ ~did_waitcount[c] /\ count = 0
      /\ did_waitcount' = [did_waitcount EXCEPT ![c] = TRUE]
      /\ UNCHANGED <<prog, interval, count, pc, barrier_global, barrier_local>>
  BY DEF Arrive, At, barrier
<1>2. localsense[c] = globalsense
  BY <1>0, <1>1 DEF SyncCore
<1>3. localsense' = [localsense EXCEPT ![c] = 1 - globalsense]
  BY <1>2 DEF Arrive, Flipped
<1>4. localsense'[c] = 1 - globalsense /\ did_waitcount'[c]
  BY <1>0, <1>1, <1>3 DEF SyncTypes
<1>5. ~Syncing(c) /\ ~Over(c) /\ ~Opened(c)
  BY <1>1 DEF Syncing, Over, Opened, At
<1>6. \A d \in Core : ~Syncing(d)
  BY <1>5 DEF SyncInv, AllSyncing
<1>7. Arrived \in SUBSET Core /\ c \in Core \ Arrived
  BY <1>1 DEF Arrived
<1>8. /\ Cardinality(Arrived \cup {c}) = Cardinality(Arrived) + 1
      /\ Cardinality(Arrived) + 1 = Cores <=> Arrived \cup {c} = Core
  BY <1>7, OneCoreMore
<1>9. CASE wait_count + 1 = Cores
  <2>1. globalsense' = 1 - globalsense /\ wait_count' = 0 /\ closed' = closed + 1
    BY <1>4, <1>9 DEF Arrive
  <2>2. \A d \in Core : d = c \/ (At(d, "wait") /\ did_waitcount[d] /\ localsense[d] # globalsense)
    BY <1>8, <1>9 DEF SyncInv, WaitCountExact, Arrived
  <2>3. \A d \in Core : pc'[d] = "wait" /\ did_waitcount'[d] /\ localsense'[d] = globalsense'
    <3>1. \A d \in Core \ {c} : /\ localsense'[d] = localsense[d]
                                /\ did_waitcount'[d] = did_waitcount[d]
      BY <1>0, <1>1, <1>3 DEF SyncTypes
    <3>2. \A d \in Core \ {c} : localsense[d] = 1 - globalsense
      BY <1>0, <2>2 DEF SyncTypes
    <3> QED BY <1>1, <1>4, <2>1, <2>2, <3>1, <3>2 DEF At
  <2>4. \A d \in Core : Syncing(d)' /\ Opened(d)' /\ ~Over(d)' /\ d \notin Arrived'
    BY <2>3 DEF Syncing, Opened, Over, At, Arrived
  <2>5. \A d \in Core : ~Opened(d) /\ ~Over(d)
    BY <1>1, <1>6, <2>2 DEF Opened, Over, At
  <2>6. SyncTypes'
    BY <1>0, <1>1, <1>3, <2>1 DEF SyncTypes
  <2>7. \A d \in Core : SyncCore(d)'
    <3> SUFFICES ASSUME NEW d \in Core PROVE SyncCore(d)'
      OBVIOUS
    <3>1. interval[d] = closed + 1 /\ interval[d] # Len(prog) + 1
      BY <1>0, <2>5 DEF SyncCore
    <3>2. interval'[d] = closed' /\ interval'[d] # Len(prog') + 1
      BY <1>0, <1>1, <2>1, <3>1 DEF SyncTypes
    <3>3. closed' \in Nat
      BY <2>6 DEF SyncTypes
    <3>4. interval'[d] = closed' + IF Opened(d)' THEN 0 ELSE 1
      <4>1. Opened(d)'
        BY <2>4
      <4>2. (IF Opened(d)' THEN 0 ELSE 1) = 0
        BY <4>1
      <4>3. \A n \in Nat : n + 0 = n
        OBVIOUS
      <4> QED BY <3>2, <3>3, <4>2, <4>3, ZenonT(30)
    <3> QED BY <2>3, <2>4, <3>2, <3>4 DEF SyncCore, At
  <2>8. Arrived' = {}
    BY <2>4 DEF Arrived
  <2>9. WaitCountExact'
    BY <2>1, <2>8, FS_EmptySet DEF WaitCountExact
  <2>10. AllSyncing'
    BY <1>1, <2>4 DEF AllSyncing
  <2> QED BY <2>6, <2>7, <2>9, <2>10 DEF SyncInv
<1>10. CASE wait_count + 1 # Cores
  <2>1. wait_count' = wait_count + 1 /\ UNCHANGED <<globalsense, closed>>
    BY <1>10 DEF Arrive
  <2>2. /\ pc' = [pc EXCEPT ![c] = pc[c]]
        /\ interval' = [interval EXCEPT ![c] = interval[c]]
        /\ barrier_local' = [barrier_local EXCEPT ![c] = barrier_local[c]]
    BY <1>0, <1>1 DEF BarrierTypes, SyncTypes
  <2>3. \A d \in Core : d # c =>
          /\ Syncing(d)' <=> Syncing(d)
          /\ SyncCore(d) => SyncCore(d)'
          /\ (d \in Arrived') <=> (d \in Arrived)
    BY <1>0, <1>1, <1>3, <2>1, <2>2, OthersSame, ZenonT(30)
  <2>4. localsense'[c] # globalsense'
    BY <1>0, <1>4, <2>1 DEF SyncTypes
  <2>5. ~Syncing(c)' /\ ~Over(c)' /\ ~Opened(c)' /\ c \in Arrived'
    BY <1>1, <1>4, <2>4 DEF Syncing, Over, Opened, At, Arrived
  <2>6. SyncTypes'
    BY <1>0, <1>1, <1>3, <2>1 DEF SyncTypes
  <2>7. SyncCore(c)'
    BY <1>0, <1>1, <1>4, <1>5, <2>1, <2>5 DEF SyncCore, At
  <2>8. Arrived' = Arrived \cup {c}
    BY <2>3, <2>5 DEF Arrived
  <2>9. WaitCountExact'
    BY <1>8, <2>1, <2>8 DEF SyncInv, WaitCountExact
  <2>10. AllSyncing'
    BY <1>6, <2>3, <2>5 DEF AllSyncing
  <2> QED BY <1>0, <2>3, <2>6, <2>7, <2>9, <2>10 DEF SyncInv
<1> QED BY <1>9, <1>10

\* Where a core goes from the end of an interval.
LEMMA NextIntervalSync ==
  ASSUME SyncTypes, NEW c \in Core, NextInterval(c), interval[c] # Len(prog) + 1
  PROVE  /\ interval' = [interval EXCEPT ![c] = @ + 1] /\ UNCHANGED <<prog, did_waitcount>>
         /\ interval[c] + 1 \in 1 .. Len(prog) + 1
         /\ \E l \in {"loop", "reserve", "end"} :
              /\ pc' = [pc EXCEPT ![c] = l]
              /\ l = "end" <=> interval[c] + 1 = Len(prog) + 1
<1>1. Len(prog) \in Nat /\ interval[c] \in 1 .. Len(prog) + 1
  BY X86Assumption DEF SyncTypes
<1>2. interval[c] + 1 \in 1 .. Len(prog) + 1
  BY <1>1
<1>3. CASE interval[c] = Len(prog)
  BY <1>2, <1>3 DEF NextInterval, locals
<1>4. CASE interval[c] # Len(prog)
  <2>1. Begin(c, interval[c] + 1)
    BY <1>4 DEF NextInterval
  <2>2. interval[c] + 1 # Len(prog) + 1
    BY <1>1, <1>4
  <2> QED BY <1>2, <2>1, <2>2 DEF Begin
<1> QED BY <1>3, <1>4

\* A core that has been let go leaves for the next interval.
Leaves(c) ==
  /\ NextInterval(c) /\ Opened(c) /\ UNCHANGED <<count, senses, barrier>>
  /\ \A d \in Core : Syncing(d) => interval[c] = Len(prog)
LEMMA LeaveForNext ==
  ASSUME BarrierTypes, SyncInv, NEW c \in Core, Leaves(c)
  PROVE  SyncInv'
<1>0. SyncTypes /\ \A d \in Core : SyncCore(d)
  BY DEF SyncInv
<1>15. Opened(c)
  BY DEF Leaves
<1>1. UNCHANGED <<count, wait_count, globalsense, localsense, closed, barrier_global,
                  barrier_local>>
  BY DEF Leaves, senses, barrier
<1>2. ~Over(c) /\ interval[c] # Len(prog) + 1 /\ interval[c] = closed
  <2>1. ~Over(c)
    BY <1>15 DEF Over, Opened, Syncing, At
  <2>2. interval[c] = closed + 0
    BY <1>0, <1>15 DEF SyncCore
  <2> QED BY <1>0, <2>1, <2>2 DEF SyncCore, SyncTypes
<1>3. /\ interval' = [interval EXCEPT ![c] = interval[c] + 1]
      /\ UNCHANGED <<prog, did_waitcount>>
      /\ interval[c] + 1 \in 1 .. Len(prog) + 1
  BY <1>0, <1>2, NextIntervalSync DEF Leaves
<1>4. PICK l \in {"loop", "reserve", "end"} :
        /\ pc' = [pc EXCEPT ![c] = l]
        /\ l = "end" <=> interval[c] + 1 = Len(prog) + 1
  BY <1>0, <1>2, NextIntervalSync DEF Leaves
<1>5. /\ localsense' = [localsense EXCEPT ![c] = localsense[c]]
      /\ did_waitcount' = [did_waitcount EXCEPT ![c] = did_waitcount[c]]
      /\ barrier_local' = [barrier_local EXCEPT ![c] = barrier_local[c]]
  BY <1>0, <1>1, <1>3 DEF BarrierTypes, SyncTypes
<1>6. \A d \in Core : d # c =>
        /\ Syncing(d)' <=> Syncing(d)
        /\ Over(d)' <=> Over(d)
        /\ SyncCore(d) => SyncCore(d)'
        /\ (d \in Arrived') <=> (d \in Arrived)
  BY <1>0, <1>1, <1>3, <1>4, <1>5, OthersSame, ZenonT(30)
<1>7. pc'[c] = l /\ interval'[c] = interval[c] + 1
  BY <1>0, <1>3, <1>4 DEF BarrierTypes, SyncTypes
<1>8. /\ ~Syncing(c)' /\ ~Opened(c)' /\ c \notin Arrived'
      /\ Over(c)' <=> l = "end"
  BY <1>4, <1>7 DEF Syncing, Opened, Over, At, Arrived
<1>9. localsense[c] = globalsense /\ c \notin Arrived
  BY <1>0, <1>15 DEF SyncCore, Opened, Syncing, At, Arrived
<1>10. SyncTypes'
  BY <1>0, <1>1, <1>3 DEF SyncTypes
<1>11. SyncCore(c)'
  <2>1. interval'[c] = closed' + IF Opened(c)' THEN 0 ELSE 1
    BY <1>1, <1>2, <1>7, <1>8
  <2>2. Over(c)' <=> interval'[c] = Len(prog') + 1
    BY <1>3, <1>4, <1>7, <1>8
  <2> QED BY <1>1, <1>4, <1>7, <1>9, <2>1, <2>2 DEF SyncCore, At
<1>12. AllSyncing'
  <2> SUFFICES ASSUME NEW d \in Core, Syncing(d)'
               PROVE  count' = 0 /\ \A e \in Core : Syncing(e)' \/ Over(e)'
    BY DEF AllSyncing
  <2>1. Syncing(d) /\ d # c
    BY <1>6, <1>8
  <2>2. count = 0 /\ \A e \in Core : Syncing(e) \/ Over(e)
    BY <2>1 DEF SyncInv, AllSyncing
  <2>3. Over(c)'
    <3>1. interval[c] = Len(prog)
      BY <2>1, ZenonT(30) DEF Leaves
    <3> QED BY <1>4, <1>8, <3>1
  <2> QED BY <1>1, <1>6, <2>2, <2>3
<1>13. Arrived' = Arrived
  BY <1>6, <1>8, <1>9, ZenonT(30) DEF Arrived
<1>14. WaitCountExact'
  BY <1>1, <1>13 DEF SyncInv, WaitCountExact
<1> QED BY <1>0, <1>6, <1>10, <1>11, <1>12, <1>14 DEF SyncInv

\* A step of a core that comes out and goes on coming out.
LEMMA StaySyncing ==
  ASSUME BarrierTypes, SyncInv, NEW c \in Core, Syncing(c),
         NEW l \in {"flip", "enter", "spin"}, pc' = [pc EXCEPT ![c] = l],
         NEW o, barrier_local' = [barrier_local EXCEPT ![c] = o],
         l = "spin" => o # barrier_global,
         UNCHANGED <<prog, interval, count, senses, barrier_global, did_waitcount>>
  PROVE  SyncInv'
<1>0. SyncTypes /\ \A d \in Core : SyncCore(d)
  BY DEF SyncInv
<1>1. UNCHANGED <<count, wait_count, globalsense, localsense, closed>>
  BY DEF senses
<1>2. pc'[c] = l /\ barrier_local'[c] = o
  BY DEF BarrierTypes
<1>3. /\ Syncing(c)' /\ Opened(c)' /\ Opened(c) /\ ~Over(c)' /\ ~Over(c)
      /\ c \notin Arrived' /\ c \notin Arrived
  BY <1>2 DEF Syncing, Opened, Over, At, Arrived
<1>4. /\ localsense' = [localsense EXCEPT ![c] = localsense[c]]
      /\ did_waitcount' = [did_waitcount EXCEPT ![c] = did_waitcount[c]]
      /\ interval' = [interval EXCEPT ![c] = interval[c]]
  BY <1>0, <1>1 DEF SyncTypes
<1>5. \A d \in Core : d # c =>
        /\ Syncing(d)' <=> Syncing(d)
        /\ Over(d)' <=> Over(d)
        /\ SyncCore(d) => SyncCore(d)'
        /\ (d \in Arrived') <=> (d \in Arrived)
  BY <1>0, <1>1, <1>4, OthersSame, ZenonT(30)
<1>6. localsense[c] = globalsense
  BY <1>0 DEF SyncCore, Syncing, At
<1>7. SyncTypes'
  BY <1>0, <1>1 DEF SyncTypes
<1>8. SyncCore(c)'
  BY <1>0, <1>1, <1>2, <1>3, <1>6 DEF SyncCore, At
<1>9. AllSyncing'
  BY <1>1, <1>3, <1>5 DEF SyncInv, AllSyncing
<1>10. Arrived' = Arrived
  BY <1>3, <1>5, ZenonT(30) DEF Arrived
<1>11. WaitCountExact'
  BY <1>1, <1>10 DEF SyncInv, WaitCountExact
<1> QED BY <1>0, <1>5, <1>7, <1>8, <1>9, <1>11 DEF SyncInv

\* The last core to enter the barrier lets all go.
LEMMA EnterLastSync ==
  ASSUME BarrierInv, SyncInv, NEW c \in Core, BarrierEnter(c), barrier_count + 1 = Cores
  PROVE  SyncInv'
<1>0. SyncTypes /\ \A d \in Core : SyncCore(d)
  BY DEF SyncInv
<1>1. /\ pc[c] = "enter" /\ pc' = [pc EXCEPT ![c] = "spin"]
      /\ UNCHANGED <<barrier_local, prog, interval, count, wait_count, globalsense,
                     localsense, closed, did_waitcount>>
      /\ barrier_global' = barrier_local[c]
  BY DEF BarrierEnter, At, Goto, ring, senses, locals
<1>2. c \in Core \ Waiting /\ Waiting \in SUBSET Core
  BY <1>1 DEF Waiting
<1>3. Waiting \cup {c} = Core
  BY <1>2, OneCoreMore, ZenonT(30) DEF BarrierInv
<1>4. \A d \in Core : /\ pc[d] \in {"spin", "enter"} /\ barrier_local[d] # barrier_global
                      /\ pc'[d] = "spin"
  BY <1>1, <1>3 DEF Waiting, BarrierInv, BarrierTypes
<1>5. \A d \in Core : barrier_local'[d] = barrier_global'
  BY <1>1, <1>4 DEF BarrierInv, BarrierTypes
<1>6. \A d \in Core : ~Syncing(d)' /\ Opened(d)' /\ Opened(d) /\ ~Over(d)' /\ ~Over(d)
  BY <1>4, <1>5 DEF Syncing, Opened, Over, At
<1>7. Arrived' = {} /\ Arrived = {}
  BY <1>4 DEF Arrived, At
<1>8. SyncTypes'
  BY <1>0, <1>1 DEF SyncTypes
<1>9. ASSUME NEW d \in Core PROVE SyncCore(d)'
  BY <1>0, <1>1, <1>4, <1>6, ZenonT(30) DEF SyncCore, At
<1>10. WaitCountExact'
  BY <1>1, <1>7 DEF SyncInv, WaitCountExact
<1> QED BY <1>6, <1>8, <1>9, <1>10 DEF SyncInv, AllSyncing

LEMMA SyncingNotOver ==
  ASSUME NEW c \in Core, Syncing(c)
  PROVE  ~Over(c)
  BY DEF Syncing, Over, At

LEMMA SyncStep ==
  BarrierAfterSync /\ BarrierInv /\ SyncInv /\ [Next]_vars => SyncInv'
<1> SUFFICES ASSUME BarrierAfterSync, BarrierInv, SyncInv, [Next]_vars
             PROVE  SyncInv'
  OBVIOUS
<1>0. BarrierTypes /\ SyncTypes /\ \A d \in Core : SyncCore(d)
  BY DEF BarrierInv, SyncInv
<1>1. CASE UNCHANGED vars
  <2>1. UNCHANGED <<prog, count, wait_count, globalsense, localsense, closed,
                    barrier_global, barrier_local, pc, interval, did_waitcount>>
    BY <1>1 DEF vars, ring, senses, barrier, locals
  <2>2. \A d \in Core : /\ Syncing(d)' <=> Syncing(d)
                        /\ Opened(d)' <=> Opened(d)
                        /\ Over(d)' <=> Over(d)
    BY <2>1 DEF Syncing, Opened, Over, At
  <2>3. \A d \in Core : SyncCore(d)'
    BY <1>0, <2>1, <2>2, ZenonT(30) DEF SyncCore, At
  <2>4. Arrived' = Arrived
    BY <2>1 DEF Arrived, At
  <2> QED BY <2>1, <2>2, <2>3, <2>4 DEF SyncInv, SyncTypes, WaitCountExact, AllSyncing
<1>2. ASSUME NEW c \in Core, Step(c)
      PROVE  SyncInv'
  <2>1. CASE Take(c)
    BY <1>0, <2>1, TakeSync
  <2>2. CASE Arrive(c)
    BY <1>0, <2>2, ArriveSync
  <2>3. CASE Sync(c)
    <3>1. /\ Syncing(c) /\ UNCHANGED <<count, senses, barrier>>
          /\ UNCHANGED <<barrier_global, barrier_local>>
      BY <2>3 DEF Sync, Syncing, At, ring, barrier
    <3>2. CASE prog[interval[c]].barrier
      <4>1. pc' = [pc EXCEPT ![c] = "flip"] /\ UNCHANGED <<prog, interval, did_waitcount>>
        BY <2>3, <3>2, ZenonT(30) DEF Sync, Goto, locals
      <4>2. barrier_local' = [barrier_local EXCEPT ![c] = barrier_local[c]]
        BY <1>0, <3>1 DEF BarrierTypes
      <4> QED BY <1>0, <3>1, <4>1, <4>2, StaySyncing, ZenonT(30)
    <3>3. CASE ~prog[interval[c]].barrier
      <4>1. NextInterval(c)
        BY <2>3, <3>3, ZenonT(30) DEF Sync
      <4>2. interval[c] # Len(prog) + 1
        BY <1>0, <3>1, SyncingNotOver, ZenonT(30) DEF SyncCore
      <4>3. interval[c] = Len(prog)
        <5>1. prog \in Programs /\ Len(prog) \in Nat /\ interval[c] \in 1 .. Len(prog) + 1
          BY <1>0, X86Assumption DEF SyncTypes
        <5>2. interval[c] \notin 1 .. Len(prog) - 1
          BY <3>3, <5>1 DEF BarrierAfterSync
        <5> QED BY <4>2, <5>1, <5>2
      <4>4. Leaves(c)
        BY <3>1, <4>1, <4>3, ZenonT(30) DEF Opened, Leaves
      <4> QED BY <1>0, <4>4, LeaveForNext, ZenonT(30)
    <3> QED BY <3>2, <3>3, ZenonT(30)
  <2>4. CASE BarrierFlip(c)
    <3>1. /\ Syncing(c) /\ pc' = [pc EXCEPT ![c] = "enter"]
          /\ barrier_local' = [barrier_local EXCEPT ![c] = 1 - barrier_local[c]]
          /\ UNCHANGED <<prog, interval, count, senses, barrier_global, did_waitcount>>
      BY <2>4 DEF BarrierFlip, At, Goto, ring, locals, Syncing
    <3> QED BY <1>0, <3>1, StaySyncing, ZenonT(30)
  <2>5. CASE BarrierEnter(c) /\ barrier_count + 1 = Cores
    BY <2>5, EnterLastSync
  <2>6. CASE BarrierEnter(c) /\ barrier_count + 1 # Cores
    <3>1. /\ Syncing(c) /\ pc' = [pc EXCEPT ![c] = "spin"] /\ pc[c] = "enter"
          /\ UNCHANGED <<prog, interval, count, senses, barrier_global, did_waitcount>>
          /\ UNCHANGED barrier_local
      BY <2>6 DEF BarrierEnter, At, Goto, ring, locals, Syncing
    <3>2. /\ barrier_local' = [barrier_local EXCEPT ![c] = barrier_local[c]]
          /\ barrier_local[c] # barrier_global
      BY <1>0, <3>1 DEF BarrierTypes, BarrierInv
    <3> QED BY <1>0, <3>1, <3>2, StaySyncing, ZenonT(30)
  <2>7. CASE BarrierLeave(c)
    <3>1. /\ pc[c] = "spin" /\ barrier_local[c] = barrier_global /\ NextInterval(c)
          /\ UNCHANGED <<count, senses, barrier>>
      BY <2>7 DEF BarrierLeave, At, ring
    <3>2. ~Syncing(c) /\ Opened(c) /\ ~Over(c)
      BY <3>1 DEF Syncing, Opened, Over, At
    <3>3. \A d \in Core : ~Syncing(d)
      BY <3>2 DEF SyncInv, AllSyncing
    <3> QED BY <1>0, <3>1, <3>2, <3>3, LeaveForNext, ZenonT(30) DEF Leaves
  <2>8. CASE Plain(c)
    BY <1>0, <2>8, PlainStep
  <2> QED BY <1>0, <1>2, <2>1, <2>2, <2>3, <2>4, <2>5, <2>6, <2>7, <2>8, PlainSteps DEF Step
<1> QED BY <1>1, <1>2 DEF Next, Done

\* SyncInv is an inductive invariant of the programs that enter the barrier
\* after every SYNC but the last.
THEOREM SyncInvariant ==
  ASSUME BarrierAfterSync
  PROVE  Spec => [](BarrierInv /\ SyncInv)
<1>1. BarrierInv /\ SyncInv /\ [Next]_vars => SyncInv'
  BY SyncStep
<1> QED BY <1>1, SyncInit, BarrierInvariant, PTL DEF Spec

\* In these programs the wait count is at every step the number of cores that
\* have arrived, for any number of cores, any ring and any loops: the
\* assertion of TaskQueue_Dequeue that it does not fall below zero holds.
THEOREM WaitCountIsExact ==
  ASSUME BarrierAfterSync
  PROVE  Spec => []WaitCountExact
<1>1. Spec => [](BarrierInv /\ SyncInv)
  BY SyncInvariant
<1>2. SyncInv => WaitCountExact
  BY DEF SyncInv
<1> QED BY <1>1, <1>2, PTL

-----------------------------------------------------------------------------
(* The types of the ring, the loops and the tasks in such programs.        *)

\* No task enqueues a loop of its own, as those of sobel.c do.
NoInnerLoops == \A p \in Programs : \A i \in 1 .. Len(p) : p[i].inner = 0

Inner == IF NoInnerLoops THEN {0} ELSE Nat

LoopArgs == [job : Seq(Nat), iters : Nat, per : Nat \ {0}, inner : Inner]

LoopTask == [job : Seq(Nat), begin : Nat, end : Nat, inner : Inner]

LEMMA InnerNat == Inner \subseteq Nat /\ 0 \in Inner /\ LoopTask \subseteq JobTask
<1>1. Inner \subseteq Nat /\ 0 \in Inner
  BY DEF Inner
<1> QED BY <1>1, ZenonT(30) DEF LoopTask, JobTask

\* A core in TaskQueue_Loop has its arguments.
LoopTypes ==
  /\ loop \in [Core -> LoopArgs \cup {<<>>}]
  /\ start \in [Core -> Nat]
  /\ \A c \in Core : At(c, "loop") => loop[c] \in LoopArgs

\* A core that runs a task has one.
TaskTypes ==
  /\ td \in [Core -> LoopTask \cup {NoTask}]
  /\ head_idx \in [Core -> 0 .. Size]
  /\ \A c \in Core : At(c, "run") => td[c] \in LoopTask

\* Below the tail are tasks, until core 0 frees the ring.
RingTypes ==
  /\ data \in [Slot -> LoopTask \cup {NoTask}]
  /\ head \in 0 .. Size /\ tail \in Slot /\ count \in 0 .. Size
  /\ unread \subseteq Slot
  /\ (\A c \in Core : ~At(c, "done")) =>
       \A s \in Slot : s < tail => data[s] \in LoopTask

TypesInv ==
  /\ ready \in BOOLEAN /\ wait_count \in 0 .. Cores - 1
  /\ LoopTypes /\ TaskTypes /\ RingTypes

LEMMA TypesInit == Init => TypesInv
<1> SUFFICES ASSUME Init PROVE TypesInv
  OBVIOUS
<1>1. \A c \in Core : pc[c] = "start"
  BY DEF Init
<1>2. LoopTypes
  BY <1>1 DEF Init, LoopTypes, At
<1>3. TaskTypes
  BY <1>1, X86Assumption DEF Init, TaskTypes, At
<1>4. RingTypes
  BY X86Assumption DEF Init, RingTypes, Slot
<1>5. wait_count \in 0 .. Cores - 1
  BY CoresCount DEF Init
<1>6. ready \in BOOLEAN
  BY ZenonT(30) DEF Init
<1> QED BY <1>2, <1>3, <1>4, <1>5, <1>6, ZenonT(30) DEF TypesInv

\* The arguments of interval i of the program.
LEMMA ProgramArgs ==
  ASSUME prog \in Programs, NEW i \in 1 .. Len(prog)
  PROVE  /\ prog[i].iters \in Nat /\ prog[i].per \in Nat \ {0} /\ prog[i].inner \in Inner
         /\ i \in Nat
<1>1. PICK R : R = [iters : Nat, per : Nat \ {0}, inner : Nat, barrier : BOOLEAN]
  BY ZenonT(30)
<1>2. prog \in Seq(R)
  BY <1>1, X86Assumption
<1>3. prog[i] \in R /\ i \in Nat
  BY <1>2
<1>4. prog[i].inner \in Inner
  BY <1>1, <1>3 DEF Inner, NoInnerLoops
<1> QED BY <1>1, <1>3, <1>4

LEMMA LoopCall ==
  ASSUME BarrierTypes, LoopTypes, NEW c \in Core, NEW job \in Seq(Nat), NEW iters \in Nat,
         NEW per \in Nat \ {0}, NEW inner \in Inner, Loop(c, job, iters, per, inner),
         NEW l, pc' = [pc EXCEPT ![c] = l]
  PROVE  LoopTypes'
<1>1. PICK a : a = [job |-> job, iters |-> iters, per |-> per, inner |-> inner]
  BY ZenonT(30)
<1>2. a \in LoopArgs
  BY <1>1, ZenonT(30) DEF LoopArgs
<1>3. loop' = [loop EXCEPT ![c] = a] /\ start' = [start EXCEPT ![c] = 0]
  BY <1>1 DEF Loop
<1>4. loop' \in [Core -> LoopArgs \cup {<<>>}] /\ loop'[c] \in LoopArgs
  BY <1>2, <1>3 DEF LoopTypes
<1>5. start' \in [Core -> Nat]
  BY <1>3 DEF LoopTypes
<1>6. \A d \in Core : d # c => pc'[d] = pc[d] /\ loop'[d] = loop[d]
  BY <1>3 DEF LoopTypes, BarrierTypes
<1> QED BY <1>4, <1>5, <1>6 DEF LoopTypes, At

\* No call: nobody comes to the loop.
LEMMA NoLoopCall ==
  ASSUME BarrierTypes, LoopTypes, NEW c \in Core, UNCHANGED <<loop, start>>,
         NEW l, l # "loop", pc' = [pc EXCEPT ![c] = l]
  PROVE  LoopTypes'
<1>1. \A d \in Core : pc'[d] = "loop" => pc[d] = "loop"
  BY DEF BarrierTypes
<1> QED BY <1>1 DEF LoopTypes, At

LEMMA BeginLoops ==
  ASSUME BarrierTypes, LoopTypes, prog \in Programs, NEW c \in Core,
         NEW i \in 1 .. Len(prog), Begin(c, i)
  PROVE  LoopTypes'
<1>1. CASE c = 0
  <2>1. /\ pc' = [pc EXCEPT ![c] = "loop"]
        /\ Loop(c, <<i>>, prog[i].iters, prog[i].per, prog[i].inner)
    BY <1>1 DEF Begin
  <2>2. /\ prog[i].iters \in Nat /\ prog[i].per \in Nat \ {0} /\ prog[i].inner \in Inner
        /\ <<i>> \in Seq(Nat)
    BY ProgramArgs
  <2> QED BY <2>1, <2>2, LoopCall, ZenonT(30)
<1>2. CASE c # 0
  <2>1. pc' = [pc EXCEPT ![c] = "reserve"] /\ UNCHANGED <<loop, start>>
    BY <1>2 DEF Begin
  <2> QED BY <2>1, NoLoopCall, ZenonT(30)
<1> QED BY <1>1, <1>2

LEMMA NextLoops ==
  ASSUME BarrierTypes, SyncInv, LoopTypes, NEW c \in Core, NextInterval(c), ~Over(c)
  PROVE  LoopTypes'
<1>1. /\ prog \in Programs /\ Len(prog) \in Nat /\ interval[c] \in 1 .. Len(prog) + 1
      /\ interval[c] # Len(prog) + 1
  BY X86Assumption DEF SyncInv, SyncTypes, SyncCore
<1>2. CASE interval[c] = Len(prog)
  <2>1. pc' = [pc EXCEPT ![c] = "end"] /\ UNCHANGED <<loop, start>>
    BY <1>2 DEF NextInterval, locals
  <2> QED BY <2>1, NoLoopCall, ZenonT(30)
<1>3. CASE interval[c] # Len(prog)
  <2>1. interval[c] + 1 \in 1 .. Len(prog) /\ Begin(c, interval[c] + 1)
    BY <1>1, <1>3 DEF NextInterval
  <2> QED BY <1>1, <2>1, BeginLoops
<1> QED BY <1>2, <1>3

LEMMA LoopTypesStep ==
  ASSUME BarrierTypes, SyncInv, LoopTypes, TaskTypes, NEW c \in Core, Step(c)
  PROVE  LoopTypes'
<1>0. prog \in Programs /\ 1 \in 1 .. Len(prog)
  BY X86Assumption DEF SyncInv, SyncTypes
<1>1. CASE c = 0 /\ TaskQueue_Init
  BY <1>0, <1>1, BeginLoops DEF TaskQueue_Init
<1>2. CASE FlagSeen(c)
  BY <1>0, <1>2, BeginLoops DEF FlagSeen
<1>3. CASE TaskQueue_Enqueue(c)
  <2>1. /\ pc[c] = "loop" /\ start' = [start EXCEPT ![c] = LoopEnd(c)]
        /\ UNCHANGED <<pc, loop>>
    BY <1>3 DEF TaskQueue_Enqueue, At
  <2>2. loop[c] \in LoopArgs /\ start[c] \in Nat
    BY <2>1 DEF LoopTypes, At
  <2>3. LoopEnd(c) \in Nat
    BY <2>2 DEF LoopEnd, LoopArgs
  <2> QED BY <2>1, <2>3 DEF LoopTypes, At
<1>4. CASE LoopReturn(c) \/ Reserve(c) \/ Take(c) \/ BarrierFlip(c) \/ BarrierEnter(c)
             \/ TaskQueue_End(c)
  <2>1. /\ UNCHANGED <<loop, start>>
        /\ \E l \in Labels \ {"loop"} : pc' = [pc EXCEPT ![c] = l]
    BY <1>4, ZenonT(30) DEF LoopReturn, Reserve, Take, BarrierFlip, BarrierEnter, TaskQueue_End,
                Goto, locals, Labels
  <2> QED BY <2>1, NoLoopCall, ZenonT(30)
<1>5. CASE Arrive(c)
  BY <1>5, ZenonT(30) DEF Arrive, LoopTypes, At
<1>6. CASE Sync(c)
  <2>1. ~Over(c)
    BY <1>6 DEF Sync, At, Over
  <2>2. CASE NextInterval(c)
    BY <2>1, <2>2, NextLoops
  <2>3. CASE Goto(c, "flip") /\ UNCHANGED locals
    BY <2>3, NoLoopCall, ZenonT(30) DEF Goto, locals
  <2> QED BY <1>6, <2>2, <2>3 DEF Sync
<1>7. CASE BarrierLeave(c)
  BY <1>7, NextLoops DEF BarrierLeave, At, Over
<1>8. CASE Run(c)
  <2>1. td[c] \in LoopTask
    BY <1>8 DEF Run, TaskTypes
  <2>2. CASE td[c].inner > 0
    <3>1. /\ Loop(c, Append(td[c].job, td[c].begin), td[c].inner, 1, 0)
          /\ pc' = [pc EXCEPT ![c] = "loop"]
      BY <1>8, <2>2 DEF Run, Goto
    <3>2. td[c].job \in Seq(Nat) /\ td[c].begin \in Nat /\ td[c].inner \in Nat
      BY <2>1, InnerNat DEF JobTask
    <3>4. Append(td[c].job, td[c].begin) \in Seq(Nat)
      BY <3>2
    <3>3. 1 \in Nat \ {0} /\ 0 \in Inner
      BY InnerNat
    <3> QED BY <3>1, <3>2, <3>3, <3>4, LoopCall, ZenonT(30)
  <2>3. CASE ~(td[c].inner > 0)
    <3>1. pc' = [pc EXCEPT ![c] = "reserve"] /\ UNCHANGED <<loop, start>>
      BY <1>8, <2>3 DEF Run, Goto
    <3> QED BY <3>1, NoLoopCall, ZenonT(30)
  <2> QED BY <2>2, <2>3
<1> QED BY <1>1, <1>2, <1>3, <1>4, <1>5, <1>6, <1>7, <1>8 DEF Step

\* While a core waits and there are tasks, nobody has come to its end.
LEMMA NobodyDone ==
  ASSUME SyncInv, NEW c \in Core, pc[c] = "wait", count > 0, NEW d \in Core
  PROVE  ~Over(d)
<1>1. ~Syncing(c) /\ ~Opened(c) /\ ~Over(c)
  BY DEF SyncInv, SyncTypes, AllSyncing, Opened, Over, At
<1>2. interval[c] = closed + 1 /\ interval[c] # Len(prog) + 1
  BY <1>1 DEF SyncInv, SyncCore
<1>3. Over(d) => ~Opened(d)
  BY DEF Over, Opened, Syncing, At
<1>4. Over(d) => interval[d] = closed + 1 /\ interval[d] = Len(prog) + 1
  BY <1>3 DEF SyncInv, SyncCore
<1> QED BY <1>2, <1>4

LEMMA TaskTypesStep ==
  ASSUME BarrierTypes, SyncInv, LoopTypes, TaskTypes, RingTypes, NEW c \in Core, Step(c)
  PROVE  TaskTypes'
<1>1. ASSUME UNCHANGED <<td, head_idx>>,
             pc' = pc \/ \E l \in Labels \ {"run"} : pc' = [pc EXCEPT ![c] = l]
      PROVE  TaskTypes'
  <2>1. \A d \in Core : pc'[d] = "run" => pc[d] = "run"
    BY <1>1 DEF BarrierTypes
  <2> QED BY <1>1, <2>1 DEF TaskTypes, At
<1>2. ASSUME td' = [td EXCEPT ![c] = NoTask], UNCHANGED head_idx,
             \E l \in Labels \ {"run"} : pc' = [pc EXCEPT ![c] = l]
      PROVE  TaskTypes'
  <2>1. \A d \in Core : pc'[d] = "run" => pc[d] = "run" /\ d # c
    BY <1>2 DEF BarrierTypes
  <2>2. \A d \in Core : d # c => td'[d] = td[d]
    BY <1>2 DEF TaskTypes
  <2>3. td' \in [Core -> LoopTask \cup {NoTask}]
    BY <1>2 DEF TaskTypes
  <2> QED BY <1>2, <2>1, <2>2, <2>3 DEF TaskTypes, At
<1>3. CASE \/ c = 0 /\ TaskQueue_Init
           \/ FlagSeen(c)
  BY <1>1, <1>3 DEF TaskQueue_Init, FlagSeen, Begin, Labels
<1>4. CASE TaskQueue_Enqueue(c) \/ Arrive(c)
  <2>1. UNCHANGED <<td, head_idx, pc>>
    BY <1>4, ZenonT(30) DEF TaskQueue_Enqueue, Arrive
  <2>2. TaskTypes' <=> TaskTypes
    BY <2>1, ZenonT(30) DEF TaskTypes, At
  <2> QED BY <2>2
<1>5. CASE BarrierFlip(c) \/ BarrierEnter(c) \/ TaskQueue_End(c)
  BY <1>1, <1>5 DEF BarrierFlip, BarrierEnter, TaskQueue_End, Goto, locals, Labels
<1>6. ASSUME NextInterval(c)
      PROVE  TaskTypes'
  BY <1>1, <1>6 DEF NextInterval, Begin, locals, Labels
<1>7. CASE Sync(c)
  <2>1. CASE Goto(c, "flip") /\ UNCHANGED locals
    BY <1>1, <2>1, ZenonT(30) DEF Goto, locals, Labels
  <2> QED BY <1>6, <1>7, <2>1 DEF Sync
<1>8. CASE BarrierLeave(c)
  BY <1>6, <1>8 DEF BarrierLeave
<1>9. CASE LoopReturn(c)
  BY <1>2, <1>9, ZenonT(30) DEF LoopReturn, Goto, Labels
<1>10. CASE Run(c)
  <2>1. CASE td[c].inner > 0
    BY <1>1, <1>10, <2>1 DEF Run, Goto, Labels
  <2>2. CASE ~(td[c].inner > 0)
    BY <1>2, <1>10, <2>2 DEF Run, Goto, Labels
  <2> QED BY <2>1, <2>2
<1>11. CASE Reserve(c)
  <2>1. /\ pc' = [pc EXCEPT ![c] = "wait"] /\ UNCHANGED td
        /\ head_idx' = [head_idx EXCEPT ![c] = head]
    BY <1>11 DEF Reserve, Goto
  <2>2. \A d \in Core : pc'[d] = "run" => pc[d] = "run"
    BY <2>1 DEF BarrierTypes
  <2>3. head_idx' \in [Core -> 0 .. Size]
    BY <2>1 DEF TaskTypes, RingTypes
  <2> QED BY <2>1, <2>2, <2>3 DEF TaskTypes, At
<1>12. CASE Take(c)
  <2>1. /\ pc[c] = "wait" /\ pc' = [pc EXCEPT ![c] = "run"] /\ UNCHANGED head_idx
        /\ count > 0 /\ head_idx[c] < tail /\ td' = [td EXCEPT ![c] = data[head_idx[c]]]
    BY <1>12, ZenonT(30) DEF Take, Goto, At
  <2>2. head_idx[c] \in Slot
    <3>1. Size \in Nat /\ head_idx[c] \in 0 .. Size /\ tail \in 0 .. Size - 1
      BY X86Assumption DEF TaskTypes, RingTypes, Slot
    <3> QED BY <2>1, <3>1 DEF Slot
  <2>3. \A d \in Core : ~At(d, "done")
    BY <2>1, NobodyDone DEF Over, At
  <2>4. data[head_idx[c]] \in LoopTask
    BY <2>1, <2>2, <2>3 DEF RingTypes
  <2>5. td'[c] \in LoopTask /\ td' \in [Core -> LoopTask \cup {NoTask}]
    BY <2>1, <2>4 DEF TaskTypes
  <2>6. \A d \in Core : d # c => pc'[d] = pc[d] /\ td'[d] = td[d]
    BY <2>1 DEF TaskTypes, BarrierTypes
  <2> QED BY <2>1, <2>5, <2>6 DEF TaskTypes, At
<1> QED BY <1>3, <1>4, <1>5, <1>7, <1>8, <1>9, <1>10, <1>11, <1>12 DEF Step

LEMMA RingTypesStep ==
  ASSUME BarrierTypes, SyncInv, LoopTypes, TaskTypes, RingTypes, NEW c \in Core, Step(c)
  PROVE  RingTypes'
<1>0. Size \in Nat \ {0} /\ 0 \in Slot
  BY X86Assumption DEF Slot
<1>1. ASSUME UNCHANGED ring, \E l \in Labels : pc[c] # "done" /\ pc' = [pc EXCEPT ![c] = l]
      PROVE  RingTypes'
  <2>1. \A d \in Core : ~At(d, "done")' => ~At(d, "done")
    BY <1>1 DEF BarrierTypes, At
  <2> QED BY <1>1, <2>1 DEF ring, RingTypes
<1>2. CASE c = 0 /\ TaskQueue_Init
  <2>1. /\ data' = [s \in Slot |-> NoTask] /\ head' = 0 /\ tail' = 0
        /\ UNCHANGED <<count, unread>>
    BY <1>2 DEF TaskQueue_Init
  <2>2. \A s \in Slot : ~(s < 0)
    BY <1>0 DEF Slot
  <2> QED BY <1>0, <2>1, <2>2 DEF RingTypes
<1>3. CASE FlagSeen(c) \/ LoopReturn(c) \/ Run(c) \/ BarrierFlip(c) \/ BarrierEnter(c)
  BY <1>1, <1>3, ZenonT(30) DEF FlagSeen, LoopReturn, Run, BarrierFlip, BarrierEnter, Begin, Goto,
                    At, Labels
<1>4. ASSUME NextInterval(c), UNCHANGED ring, pc[c] # "done"
      PROVE  RingTypes'
  BY <1>1, <1>4 DEF NextInterval, Begin, Labels
<1>5. CASE Sync(c)
  <2>1. CASE Goto(c, "flip") /\ UNCHANGED locals
    BY <1>1, <1>5, <2>1, ZenonT(30) DEF Sync, Goto, At, Labels
  <2> QED BY <1>4, <1>5, <2>1, ZenonT(30) DEF Sync, At
<1>6. CASE BarrierLeave(c)
  BY <1>4, <1>6, ZenonT(30) DEF BarrierLeave, At
<1>7. CASE TaskQueue_End(c)
  <2>1. /\ pc[c] = "end" /\ pc' = [pc EXCEPT ![c] = "done"]
        /\ data' = IF c = 0 THEN [s \in Slot |-> NoTask] ELSE data
        /\ UNCHANGED <<head, tail, count, unread>>
    BY <1>7 DEF TaskQueue_End, Goto, At
  <2>2. At(c, "done")'
    BY <2>1 DEF At, BarrierTypes
  <2>3. data' \in [Slot -> LoopTask \cup {NoTask}]
    BY <2>1 DEF RingTypes
  <2> QED BY <2>1, <2>2, <2>3 DEF RingTypes
<1>8. CASE Reserve(c)
  <2>1. /\ pc[c] = "reserve" /\ pc' = [pc EXCEPT ![c] = "wait"]
        /\ head' = IF head + 1 > Size THEN (head + 1) % Size ELSE head + 1
        /\ UNCHANGED <<data, tail, count, unread>>
    BY <1>8 DEF Reserve, Goto, At
  <2>2. \A d \in Core : ~At(d, "done")' => ~At(d, "done")
    BY <2>1 DEF BarrierTypes, At
  <2>3. head' \in 0 .. Size
    BY <1>0, <2>1 DEF RingTypes
  <2> QED BY <2>1, <2>2, <2>3 DEF RingTypes
<1>9. CASE Take(c)
  <2>1. /\ pc[c] = "wait" /\ pc' = [pc EXCEPT ![c] = "run"]
        /\ count > 0 /\ count' = count - 1 /\ unread' = unread \ {head_idx[c]}
        /\ UNCHANGED <<data, head, tail>>
    BY <1>9 DEF Take, Goto, At
  <2>2. \A d \in Core : ~At(d, "done")' => ~At(d, "done")
    BY <2>1 DEF BarrierTypes, At
  <2>3. count' \in 0 .. Size
    BY <1>0, <2>1 DEF RingTypes
  <2> QED BY <2>1, <2>2, <2>3 DEF RingTypes
<1>10. CASE Arrive(c)
  <2>1. /\ (head' = 0 /\ tail' = 0) \/ UNCHANGED <<head, tail>>
        /\ UNCHANGED <<data, count, unread, pc>>
    BY <1>10 DEF Arrive
  <2>2. \A s \in Slot : ~(s < 0)
    BY <1>0 DEF Slot
  <2> QED BY <1>0, <2>1, <2>2 DEF RingTypes, At
<1>11. CASE TaskQueue_Enqueue(c)
  <2>1. PICK k : k = [job |-> loop[c].job, begin |-> start[c], end |-> LoopEnd(c),
                      inner |-> loop[c].inner]
    BY ZenonT(30)
  <2>2. /\ pc[c] = "loop" /\ count # Size /\ count' = count + 1
        /\ data' = [data EXCEPT ![tail] = k] /\ tail' = (tail + 1) % Size
        /\ unread' = unread \cup {tail} /\ UNCHANGED <<head, pc>>
    BY <1>11, <2>1, ZenonT(30) DEF TaskQueue_Enqueue, At
  <2>3. loop[c] \in LoopArgs /\ start[c] \in Nat
    BY <2>2 DEF LoopTypes, At
  <2>4. LoopEnd(c) \in Nat
    BY <2>3 DEF LoopEnd, LoopArgs
  <2>5. k \in LoopTask
    BY <2>1, <2>3, <2>4, ZenonT(30) DEF LoopArgs, LoopTask
  <2>6. tail' \in Slot /\ (tail' = tail + 1 \/ tail' = 0)
    BY <1>0, <2>2 DEF RingTypes, Slot
  <2>7. count' \in 0 .. Size
    BY <1>0, <2>2 DEF RingTypes
  <2>8. data' \in [Slot -> LoopTask \cup {NoTask}] /\ data'[tail] = k
    BY <2>2, <2>5 DEF RingTypes
  <2>9. \A s \in Slot : s < tail' => s < tail \/ s = tail
    BY <1>0, <2>6 DEF RingTypes, Slot
  <2>10. \A s \in Slot : s # tail => data'[s] = data[s]
    BY <2>2 DEF RingTypes
  <2> QED BY <2>2, <2>5, <2>6, <2>7, <2>8, <2>9, <2>10 DEF RingTypes, At
<1> QED BY <1>2, <1>3, <1>5, <1>6, <1>7, <1>8, <1>9, <1>10, <1>11 DEF Step

LEMMA TypesStep ==
  BarrierInv /\ SyncInv /\ SyncInv' /\ TypesInv /\ [Next]_vars => TypesInv'
<1> SUFFICES ASSUME BarrierInv, SyncInv, SyncInv', TypesInv, [Next]_vars
             PROVE  TypesInv'
  OBVIOUS
<1>1. CASE UNCHANGED vars
  <2>1. UNCHANGED <<ready, wait_count, data, head, tail, count, unread, pc, loop, start,
                    head_idx, td>>
    BY <1>1 DEF vars, ring, senses, locals
  <2>2. LoopTypes' /\ TaskTypes' /\ RingTypes'
    BY <2>1 DEF TypesInv, LoopTypes, TaskTypes, RingTypes, At
  <2> QED BY <2>1, <2>2 DEF TypesInv
<1>2. ASSUME NEW c \in Core, Step(c)
      PROVE  TypesInv'
  <2>1. LoopTypes' /\ TaskTypes' /\ RingTypes'
    BY <1>2, LoopTypesStep, TaskTypesStep, RingTypesStep, ZenonT(30) DEF TypesInv, BarrierInv
  <2>2. ready' \in BOOLEAN
    <3>1. ready' = ready \/ ready' = TRUE
      BY <1>2, ZenonT(30) DEF Step, TaskQueue_Init, FlagSeen, TaskQueue_Enqueue, LoopReturn,
           Reserve, Take, Arrive, Sync, Run, BarrierFlip, BarrierEnter, BarrierLeave, TaskQueue_End
    <3> QED BY <3>1, ZenonT(30) DEF TypesInv
  <2>3. wait_count' \in 0 .. Cores - 1
    <3>1. wait_count \in 0 .. Cores - 1 /\ Cores \in Nat \ {0}
      BY CoresCount DEF TypesInv
    <3>2. wait_count' \in Nat
      <4>1. Arrived' \subseteq Core
        BY DEF Arrived
      <4>2. Cardinality(Arrived') \in Nat
        BY <4>1, CoresCount, FS_Subset, FS_CardinalityType
      <4> QED BY <4>2 DEF SyncInv, WaitCountExact
    <3>3. CASE Take(c)
      BY <3>1, <3>2, <3>3 DEF Take
    <3>4. CASE Arrive(c)
      BY <3>1, <3>4 DEF Arrive
    <3>5. CASE ~Take(c) /\ ~Arrive(c)
      <4>1. wait_count' = wait_count
        BY <1>2, <3>5, ZenonT(30) DEF Step, TaskQueue_Init, FlagSeen, TaskQueue_Enqueue,
             LoopReturn, Reserve, Sync, Run, BarrierFlip, BarrierEnter, BarrierLeave,
             TaskQueue_End, senses
      <4> QED BY <3>1, <4>1
    <3> QED BY <3>3, <3>4, <3>5
  <2> QED BY <2>1, <2>2, <2>3, ZenonT(30) DEF TypesInv
<1> QED BY <1>1, <1>2 DEF Next, Done

\* TypesInv is inductive with it: the ring and its indices stay within their
\* bounds, and a core that takes a task finds one in its slot.
THEOREM TypesInvariant ==
  ASSUME BarrierAfterSync
  PROVE  Spec => [](BarrierInv /\ SyncInv /\ TypesInv)
<1>1. Spec => [](BarrierInv /\ SyncInv)
  BY SyncInvariant
<1> QED BY <1>1, TypesInit, TypesStep, PTL DEF Spec

\* In such programs every variable of the task model keeps its type: the
\* reservations, the tail and the count stay within the ring, whose tasks
\* may enqueue others.
THEOREM X86Types ==
  ASSUME BarrierAfterSync
  PROVE  Spec => []TypeOK
<1>1. Spec => [](BarrierInv /\ SyncInv /\ TypesInv)
  BY TypesInvariant
<1>2. BarrierInv /\ SyncInv /\ TypesInv => TypeOK
  BY InnerNat DEF BarrierInv, BarrierTypes, SyncInv, SyncTypes, TypesInv, TaskTypes, RingTypes,
         LoopTypes, TypeOK
<1> QED BY <1>1, <1>2, PTL
=============================================================================
