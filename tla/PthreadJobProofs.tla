-------------------------- MODULE PthreadJobProofs --------------------------
(***************************************************************************)
(* Proofs about pthread_create and pthread_join, for any number of         *)
(* threads, slots and rounds: the steps that change the slots, who has     *)
(* which slot, and whose value a join returns.                             *)
(***************************************************************************)
EXTENDS PthreadsProofs

\* Leaves that name no prover go to SMT, then to Zenon, then to SMT once more.
USE SMTT(30), ZenonT(30), SMTT(31)

\* The owners of the slots stay when slots and jobs stay and only threads with
\* a slot in use begin to work.
LEMMA OwnerKept ==
  ASSUME OwnerInv, UNCHANGED <<tid, got>>,
         \A t \in Thread \ {0} : /\ funcptr'[t] = funcptr[t]
                                 /\ ~Idle(t)' => ~Idle(t) \/ funcptr[t] = Routine
  PROVE  OwnerInv'
<1>1. Live' = Live
  BY ZenonT(30) DEF Live
<1> QED BY <1>1, ZenonT(30) DEF OwnerInv

\* __rigel_premain takes the slot of thread 0.
LEMMA PremainSlot ==
  ASSUME ControlInv, SlotsInv, PremainMain
  PROVE  SlotsInv'
<1>1. /\ pc[0] = "premain" /\ funcptr' = [funcptr EXCEPT ![0] = MainFunc]
      /\ pc' = [pc EXCEPT ![0] = "c_init"]
      /\ UNCHANGED <<funcarg, retval, index, job, tid, got, go, runs, init_flag>>
  BY DEF PremainMain, At, Goto, startup, program
<1>2. init_flag
  BY <1>1 DEF ControlInv, MainStart, InsideMalloc
<1>3. pc'[0] = "c_init" /\ \A t \in Thread \ {0} : pc'[t] = pc[t]
  BY <1>1, ThreadsHaveSlots DEF ControlInv
<1>4. funcptr'[0] = MainFunc /\ \A s \in Slot \ {0} : funcptr'[s] = funcptr[s]
  BY <1>1, ThreadsHaveSlots DEF SlotsInv, SlotTypes
<1>5. SlotTypes'
  BY <1>1, ZenonT(30) DEF SlotsInv, SlotTypes
<1>6. Created' = Created /\ Joined' = Joined
  BY <1>1, <1>3 DEF Created, Joined
<1>7. ASSUME NEW j \in Job PROVE JobInv(j, Created, Joined)'
  <2>1. JobInv(j, Created, Joined) /\ tid[j] \in Slot \cup {Nobody}
    BY DEF SlotsInv, SlotTypes
  <2>2. tid[j] \in Slot => funcptr'[tid[j]] = funcptr[tid[j]]
    BY <1>4, <2>1, ZenonT(30) DEF JobInv
  <2>3. tid[j] \in Thread => pc'[tid[j]] = pc[tid[j]] /\ tid[j] \in Slot
    BY <1>3, <2>1, ThreadsHaveSlots, ZenonT(30) DEF JobInv
  <2>4. tid[j] \in Thread /\ got[j] = NULL => (Working(j, tid[j]) \/ Finished(j, tid[j]))'
    BY <1>1, <2>1, <2>2, <2>3, ZenonT(30) DEF JobInv, Working, Finished, Idle
  <2> QED BY <1>1, <1>6, <2>1, <2>2, <2>4, ZenonT(30) DEF JobInv
<1>8. OwnerInv'
  <2>1. \A t \in Thread \ {0} : funcptr'[t] = funcptr[t]
    BY <1>4, ThreadsHaveSlots
  <2> QED BY <1>1, <1>3, <2>1, OwnerKept, ZenonT(30) DEF SlotsInv, Idle
<1>9. GoInv'
  BY <1>1, <1>3 DEF SlotsInv, GoInv
<1>10. MainInv'
  BY <1>1, <1>2, <1>3, <1>4 DEF SlotsInv, MainInv
<1> QED BY <1>5, <1>7, <1>8, <1>9, <1>10 DEF SlotsInv

\* Between two rounds nobody has a job that can be joined.
LEMMA NobodyWorks ==
  ASSUME SlotsInv, pc[0] = "c_init"
  PROVE  /\ \A j \in Job : tid[j] \in Thread => got[j] # NULL
         /\ \A t \in Thread \ {0} : Idle(t)
<1>1. Created = Joined /\ Created \in Nat
  <2>1. Before(job[0]) \in Nat
    BY RoundFacts DEF SlotsInv, SlotTypes
  <2> QED BY <2>1 DEF Created, Joined
<1>2. ASSUME NEW j \in Job, tid[j] \in Thread PROVE got[j] # NULL
  <2>1. JobInv(j, Created, Joined) /\ j \in Nat
    BY ThreadsHaveSlots DEF SlotsInv
  <2>2. j < Created
    <3>1. tid[j] # Nobody
      BY <1>2, ThreadsHaveSlots, ZenonT(30)
    <3>2. ~(j >= Created)
      BY <2>1, <3>1 DEF JobInv
    <3> QED BY <1>1, <2>1, <3>2
  <2> QED BY <1>1, <1>2, <2>1, <2>2 DEF JobInv
<1>3. ASSUME NEW t \in Thread \ {0} PROVE Idle(t)
  <2>1. ~Idle(t) => \E j \in Live : tid[j] = t
    BY ZenonT(30) DEF SlotsInv, OwnerInv
  <2>2. \A j \in Live : tid[j] # t
    BY <1>2, ZenonT(30) DEF Live
  <2> QED BY <2>1, <2>2, ZenonT(30)
<1> QED BY <1>2, <1>3, ZenonT(30)

\* Steps of thread 0 that leave the slots as they are.
LEMMA MainShift ==
  ASSUME SlotsInv, SlotTypes', MainInv', UNCHANGED <<slots, tid, got, go, runs>>,
         \A t \in Thread \ {0} : pc'[t] = pc[t] /\ job'[t] = job[t],
         pc'[0] \in {"scan", "arg", "func", "lock", "go"} => ~go,
         \A j \in Job : /\ j >= Created' => tid[j] = Nobody
                        /\ j >= Joined' => got[j] = NULL
                        /\ j < Joined' => tid[j] \notin Thread \/ got[j] # NULL
  PROVE  SlotsInv'
<1>0. UNCHANGED <<funcptr, funcarg, retval>>
  BY DEF slots
<1>1. ASSUME NEW j \in Job PROVE JobInv(j, Created, Joined)'
  <2>1. JobInv(j, Created, Joined)
    BY ZenonT(30) DEF SlotsInv
  <2> QED BY <1>0, <2>1, ZenonT(30) DEF JobInv, Working, Finished, Idle
<1>2. OwnerInv' /\ GoInv'
  BY <1>0, ZenonT(30) DEF SlotsInv, OwnerInv, GoInv, Live, Idle
<1> QED BY <1>1, <1>2 DEF SlotsInv

\* pthread_cond_init starts a round.
LEMMA CondInitSlots ==
  ASSUME ControlInv, SlotsInv, CondInit
  PROVE  SlotsInv'
<1>1. /\ pc[0] = "c_init" /\ go' = FALSE /\ pc' = [pc EXCEPT ![0] = "scan"]
      /\ UNCHANGED <<funcptr, funcarg, retval, index, job, tid, got, runs, init_flag>>
  BY DEF CondInit, At, Goto, locked, slots, startup
<1>2. pc'[0] = "scan" /\ \A t \in Thread \ {0} : pc'[t] = pc[t]
  BY <1>1, ThreadsHaveSlots DEF ControlInv
<1>3. SlotTypes'
  BY <1>1, ZenonT(30) DEF SlotsInv, SlotTypes
<1>4. Created' = Created /\ Joined' = Joined
  BY <1>1, <1>2 DEF SlotsInv, MainInv, Created, Joined
<1>5. ASSUME NEW j \in Job PROVE JobInv(j, Created, Joined)'
  <2>1. JobInv(j, Created, Joined) /\ (tid[j] \in Thread => got[j] # NULL)
    BY <1>1, NobodyWorks, ZenonT(30) DEF SlotsInv
  <2> QED BY <1>1, <1>4, <2>1 DEF JobInv
<1>6. OwnerInv' /\ MainInv'
  BY <1>1, <1>2 DEF SlotsInv, OwnerInv, MainInv, Live, Idle
<1>7. GoInv'
  BY <1>1, <1>2, NobodyWorks, ZenonT(30) DEF GoInv, Idle
<1> QED BY <1>3, <1>5, <1>6, <1>7 DEF SlotsInv

\* The scan of pthread_create finds a free slot, goes on, or gives up.
LEMMA ScanSlots ==
  ASSUME ControlInv, SlotsInv, Scan
  PROVE  SlotsInv'
<1>0. /\ pc[0] = "scan" /\ UNCHANGED <<slots, tid, got, go, runs, init_flag>>
      /\ SlotTypes /\ ~go
  BY DEF Scan, At, others, startup, program, SlotsInv, GoInv
<1>1. CASE index < Slots /\ UNCHANGED job
           /\ \/ funcptr[index] = NoFunc /\ Goto(0, "arg") /\ UNCHANGED index
              \/ index' = index + 1 /\ UNCHANGED pc
  <2>1. /\ pc'[0] \in {"scan", "arg"} /\ \A t \in Thread \ {0} : pc'[t] = pc[t]
        /\ pc'[0] = "arg" => funcptr[index] = NoFunc /\ index' = index
    BY <1>0, <1>1, ThreadsHaveSlots DEF Goto, ControlInv
  <2>2. index' \in 0 .. Slots
    BY <1>0, <1>1, PthreadsAssumption DEF SlotTypes
  <2>3. SlotTypes' /\ MainInv'
    BY <1>0, <1>1, <2>1, <2>2, ZenonT(30) DEF SlotTypes, SlotsInv, MainInv, slots
  <2>4. Created' = Created /\ Joined' = Joined
    BY <1>0, <1>1, <2>1 DEF Created, Joined
  <2>5. \A j \in Job : JobInv(j, Created, Joined)
    BY DEF SlotsInv
  <2> QED BY <1>0, <1>1, <2>1, <2>3, <2>4, <2>5, MainShift DEF JobInv
<1>2. CASE index = Slots /\ index' = 0 /\ NextJob("scan", "lock")
  <2>1. /\ job' \in [Thread -> Job \cup {NULL}] /\ job'[0] \in Job
        /\ Before(job'[0]) = Before(job[0])
        /\ \A t \in Thread \ {0} : job'[t] = job[t] /\ pc'[t] = pc[t]
        /\ \/ /\ pc'[0] = "lock" /\ job[0] = Before(job[0]) + PerRound
              /\ job'[0] = Before(job[0]) + 1
           \/ pc'[0] = "scan" /\ job'[0] = job[0] + 1
    BY <1>0, <1>2, JobGoesOn
  <2>2. index' \in 0 .. Slots
    BY <1>2, PthreadsAssumption
  <2>3. SlotTypes' /\ MainInv'
    BY <1>0, <2>1, <2>2, ZenonT(30) DEF SlotTypes, SlotsInv, MainInv, slots
  <2>4. Created = job[0] /\ Created' = job[0] + 1 /\ Joined' = Joined
    BY <1>0, <2>1 DEF Created, Joined
  <2>5. \A j \in Job : JobInv(j, Created, Joined)
    BY DEF SlotsInv
  <2>6. \A j \in Job : j >= Created' => tid[j] = Nobody
    BY <1>0, <2>4, <2>5, ThreadsHaveSlots DEF JobInv, SlotTypes
  <2> QED BY <1>0, <2>1, <2>3, <2>4, <2>5, <2>6, MainShift DEF JobInv
<1> QED BY <1>1, <1>2 DEF Scan

\* The argument goes into a slot that nobody uses.
LEMMA StoreArgSlots ==
  ASSUME ControlInv, SlotsInv, StoreArg
  PROVE  SlotsInv'
<1>0. /\ pc[0] = "arg" /\ pc' = [pc EXCEPT ![0] = "func"]
      /\ funcarg' = [funcarg EXCEPT ![index] = job[0]]
      /\ UNCHANGED <<funcptr, retval, index, job, tid, got, go, runs, init_flag>>
  BY DEF StoreArg, At, Goto, others, startup, program
<1>1. pc'[0] = "func" /\ \A t \in Thread \ {0} : pc'[t] = pc[t]
  BY <1>0, ThreadsHaveSlots DEF ControlInv
<1>2. index \in Slot /\ funcptr[index] = NoFunc
  BY <1>0, ThreadsHaveSlots DEF SlotsInv, MainInv, SlotTypes
<1>3. funcarg'[index] = job[0] /\ \A s \in Slot : s # index => funcarg'[s] = funcarg[s]
  BY <1>0, <1>2 DEF SlotsInv, SlotTypes
<1>4. SlotTypes'
  BY <1>0, <1>2 DEF SlotsInv, SlotTypes
<1>5. Created' = Created /\ Joined' = Joined
  BY <1>0, <1>1 DEF Created, Joined
<1>6. ASSUME NEW j \in Job PROVE JobInv(j, Created, Joined)'
  <2>1. JobInv(j, Created, Joined)
    BY DEF SlotsInv
  <2>2. CASE tid[j] \in Thread /\ got[j] = NULL
    <3>1. Working(j, tid[j]) => Working(j, tid[j])'
      <4>1. tid[j] # 0 /\ tid[j] \in Slot
        BY <2>1, <2>2, ThreadsHaveSlots, ZenonT(30) DEF JobInv
      <4>2. funcptr[tid[j]] = Routine => funcarg'[tid[j]] = funcarg[tid[j]]
        BY <1>2, <1>3, <4>1 DEF Routine, NoFunc
      <4> QED BY <1>0, <1>1, <2>2, <4>1, <4>2 DEF Working, Idle
    <3>2. Finished(j, tid[j]) => Finished(j, tid[j])'
      BY <1>0, <1>1, <2>1, <2>2 DEF Finished, JobInv
    <3>3. Working(j, tid[j])' \/ Finished(j, tid[j])'
      BY <2>1, <2>2, <3>1, <3>2 DEF JobInv
    <3> QED BY <1>0, <1>5, <2>1, <3>3 DEF JobInv
  <2>3. CASE ~(tid[j] \in Thread /\ got[j] = NULL)
    BY <1>0, <1>5, <2>1, <2>3 DEF JobInv
  <2> QED BY <2>2, <2>3
<1>7. OwnerInv'
  BY <1>0, <1>1, OwnerKept, ZenonT(30) DEF SlotsInv, Idle
<1>8. GoInv'
  BY <1>0, <1>1 DEF SlotsInv, GoInv
<1>9. MainInv'
  BY <1>0, <1>1, <1>3 DEF SlotsInv, MainInv
<1> QED BY <1>4, <1>6, <1>7, <1>8, <1>9 DEF SlotsInv

\* While jobs are created, a slot that looks free is that of no live job.
LEMMA FreeSlot ==
  ASSUME SlotsInv, ~go, NEW s \in Slot, funcptr[s] = NoFunc, NEW k \in Live
  PROVE  tid[k] # s
<1>1. JobInv(k, Created, Joined) /\ tid[k] \in Slot /\ got[k] = NULL
  BY DEF SlotsInv, SlotTypes, Live
<1>2. CASE tid[k] \in Thread
  BY <1>1, <1>2 DEF JobInv, Working, Finished, NoFunc, Routine
<1>3. CASE tid[k] \notin Thread
  BY <1>1, <1>3 DEF JobInv, NoFunc, Routine
<1> QED BY <1>2, <1>3

\* pthread_create fills the slot and returns it.
LEMMA StoreFuncSlots ==
  ASSUME ControlInv, SlotsInv, StoreFunc
  PROVE  SlotsInv'
<1>a. PICK x : x = job[0]
  OBVIOUS
<1>b. PICK i : i = index
  OBVIOUS
<1>0. /\ pc[0] = "func" /\ NextJob("scan", "lock") /\ index' = 0
      /\ funcptr' = [funcptr EXCEPT ![i] = Routine] /\ tid' = [tid EXCEPT ![x] = i]
      /\ UNCHANGED <<funcarg, retval, got, go, runs, init_flag>>
  BY <1>a, <1>b DEF StoreFunc, At, others, startup
<1>1. SlotTypes /\ ~go /\ x \in Job /\ x \in Nat /\ init_flag
  BY <1>0, <1>a, ThreadsHaveSlots
     DEF SlotsInv, GoInv, SlotTypes, ControlInv, MainStart, InsideMalloc
<1>2. i \in Slot /\ funcptr[i] = NoFunc /\ funcarg[i] = x /\ i # 0
  BY <1>0, <1>1, <1>a, <1>b, ThreadsHaveSlots
     DEF SlotsInv, MainInv, SlotTypes, NoFunc, MainFunc
<1>3. /\ job' \in [Thread -> Job \cup {NULL}] /\ job'[0] \in Job
      /\ Before(job'[0]) = Before(x)
      /\ \A t \in Thread \ {0} : job'[t] = job[t] /\ pc'[t] = pc[t]
      /\ \/ /\ pc'[0] = "lock" /\ x = Before(x) + PerRound
            /\ job'[0] = Before(x) + 1
         \/ pc'[0] = "scan" /\ job'[0] = x + 1
  BY <1>0, <1>1, <1>a, JobGoesOn
<1>4. /\ funcptr'[i] = Routine /\ \A s \in Slot : s # i => funcptr'[s] = funcptr[s]
      /\ tid'[x] = i /\ \A j \in Job : j # x => tid'[j] = tid[j]
  BY <1>0, <1>1, <1>2 DEF SlotTypes
<1>5. SlotTypes'
  <2>1. index' \in 0 .. Slots
    BY <1>0, PthreadsAssumption
  <2> QED BY <1>0, <1>1, <1>2, <1>3, <2>1 DEF SlotTypes
<1>6. Created = x /\ Created' = x + 1 /\ Joined' = Joined /\ Joined <= x /\ Joined \in Nat
  <2>1. Before(x) \in Nat /\ Before(x) < x
    BY <1>1, RoundFacts
  <2> QED BY <1>0, <1>1, <1>3, <1>a, <2>1 DEF Created, Joined
<1>7. \A k \in Live : tid[k] # i
  BY <1>1, <1>2, FreeSlot
<1>8. tid[x] = Nobody /\ runs[x] = 0 /\ got[x] = NULL
  <2>1. JobInv(x, Created, Joined)
    BY <1>1 DEF SlotsInv
  <2> QED BY <1>1, <1>6, <2>1 DEF JobInv
<1>9. i \in Thread => Idle(i)
  BY <1>2 DEF SlotsInv, OwnerInv, NoFunc, Routine
<1>10. JobInv(x, Created, Joined)'
  <2>2. i \in Thread => /\ funcptr'[i] = Routine /\ funcarg'[i] = x
                        /\ pc'[i] \in {"boot", "poll"} /\ runs'[x] = 0
    BY <1>0, <1>2, <1>3, <1>4, <1>8, <1>9 DEF Idle
  <2> QED BY <1>0, <1>1, <1>2, <1>4, <1>6, <1>8, <2>2, ThreadsHaveSlots
          DEF JobInv, Working, Idle
<1>11. ASSUME NEW j \in Job, j # x PROVE JobInv(j, Created, Joined)'
  <2>1. JobInv(j, Created, Joined) /\ tid'[j] = tid[j] /\ tid[j] \in Slot \cup {Nobody}
    BY <1>1, <1>4, <1>11, ZenonT(30) DEF SlotsInv, SlotTypes
  <2>2. got[j] = NULL /\ tid[j] \in Slot => funcptr'[tid[j]] = funcptr[tid[j]]
    BY <1>4, <1>7, <2>1, ThreadsHaveSlots, ZenonT(30) DEF Live
  <2>3. j >= x + 1 => j >= x
    BY <1>1, ThreadsHaveSlots
  <2>4. tid[j] \in Thread => /\ pc'[tid[j]] = pc[tid[j]] /\ job'[tid[j]] = job[tid[j]]
                            /\ tid[j] \in Slot
    BY <1>3, <2>1, ThreadsHaveSlots, ZenonT(30) DEF JobInv
  <2>5. tid[j] \in Thread /\ got[j] = NULL => (Working(j, tid[j]) \/ Finished(j, tid[j]))'
    BY <1>0, <2>1, <2>2, <2>4, ZenonT(30) DEF JobInv, Working, Finished, Idle
  <2> QED BY <1>0, <1>6, <2>1, <2>2, <2>3, <2>5, ZenonT(30) DEF JobInv
<1>12. OwnerInv'
  <2>1. Live' = Live \cup {x} /\ x \notin Live /\ Live \subseteq Job
    <3>1. tid'[x] # Nobody /\ got'[x] = NULL /\ tid[x] = Nobody
      BY <1>0, <1>2, <1>4, <1>8, ThreadsHaveSlots
    <3>2. \A j \in Job : j # x => tid'[j] = tid[j] /\ got'[j] = got[j]
      BY <1>0, <1>4
    <3>3. \A j : j \in Live' <=> j \in Job /\ tid'[j] # Nobody /\ got'[j] = NULL
      BY DEF Live
    <3>4. \A j : j \in Live <=> j \in Job /\ tid[j] # Nobody /\ got[j] = NULL
      BY DEF Live
    <3>5. \A j : j \in Live' <=> j \in Live \/ j = x
      BY <1>1, <3>1, <3>2, <3>3, <3>4, ZenonT(30)
    <3> QED BY <3>1, <3>4, <3>5
  <2>2. \A j, k \in Live' : tid'[j] = tid'[k] => j = k
    <3>1. \A j, k \in Live : tid[j] = tid[k] => j = k
      BY DEF SlotsInv, OwnerInv
    <3>2. \A j \in Live : tid'[j] = tid[j] /\ tid[j] # i
      BY <1>4, <1>7, <2>1
    <3> QED BY <1>4, <2>1, <3>1, <3>2
  <2>3. ASSUME NEW t \in Thread \ {0}
        PROVE  /\ funcptr'[t] \in {NoFunc, Routine}
               /\ funcptr'[t] = Routine => \E j \in Live' : tid'[j] = t
               /\ pc'[t] \notin {"boot", "poll"} => funcptr'[t] = Routine
    <3>1. CASE t = i
      BY <1>4, <2>1, <3>1
    <3>2. CASE t # i
      <4>1. funcptr'[t] = funcptr[t] /\ pc'[t] = pc[t]
        BY <1>3, <1>4, <3>2, ThreadsHaveSlots
      <4> QED BY <1>4, <2>1, <4>1 DEF SlotsInv, OwnerInv, Idle
    <3> QED BY <3>1, <3>2
  <2> QED BY <2>2, <2>3 DEF OwnerInv, Idle
<1>13. GoInv'
  BY <1>0, <1>1, <1>3 DEF SlotsInv, GoInv
<1>14. MainInv'
  <2>1. funcptr'[0] = MainFunc
    BY <1>0, <1>1, <1>2, <1>4, ThreadsHaveSlots DEF SlotsInv, MainInv
  <2> QED BY <1>0, <1>1, <1>3, <2>1 DEF MainInv
<1> QED BY <1>5, <1>10, <1>11, <1>12, <1>13, <1>14 DEF SlotsInv

\* The threads are let go.
LEMMA LetGoSlots ==
  ASSUME ControlInv, SlotsInv, LetGo
  PROVE  SlotsInv'
<1>1. /\ pc[0] = "go" /\ go' = TRUE /\ pc' = [pc EXCEPT ![0] = "broadcast"]
      /\ UNCHANGED <<funcptr, funcarg, retval, index, job, tid, got, runs, init_flag>>
  BY DEF LetGo, At, Goto, locked, slots, startup
<1>2. pc'[0] = "broadcast" /\ \A t \in Thread \ {0} : pc'[t] = pc[t]
  BY <1>1, ThreadsHaveSlots DEF ControlInv
<1>3. SlotTypes'
  BY <1>1 DEF SlotsInv, SlotTypes
<1>4. Created' = Created /\ Joined' = Joined
  BY <1>1, <1>2 DEF Created, Joined
<1>5. ASSUME NEW j \in Job PROVE JobInv(j, Created, Joined)'
  <2>1. JobInv(j, Created, Joined)
    BY DEF SlotsInv
  <2>2. tid[j] \in Thread => pc'[tid[j]] = pc[tid[j]]
    BY <1>2, <2>1, ZenonT(30) DEF JobInv
  <2>3. tid[j] \in Thread /\ got[j] = NULL => (Working(j, tid[j]) \/ Finished(j, tid[j]))'
    BY <1>1, <2>1, <2>2, ZenonT(30) DEF JobInv, Working, Finished, Idle
  <2> QED BY <1>1, <1>4, <2>1, <2>3, ZenonT(30) DEF JobInv
<1>6. OwnerInv'
  BY <1>1, <1>2, OwnerKept, ZenonT(30) DEF SlotsInv, Idle
<1>7. MainInv'
  BY <1>1, <1>2 DEF SlotsInv, MainInv
<1>8. GoInv'
  BY <1>1, <1>2 DEF GoInv
<1> QED BY <1>3, <1>5, <1>6, <1>7, <1>8 DEF SlotsInv

\* Where the next job is looked at in pthread_join.
LEMMA JoinGoesOn ==
  ASSUME ControlInv, SlotsInv, NEW x, x = job[0], pc[0] \in {"join", "value"},
         NextJob("join", "c_destroy"), UNCHANGED <<slots, index, tid, go, runs, init_flag>>,
         got' \in [Job -> Job \cup {NULL}]
  PROVE  /\ x \in Job /\ x \in Nat /\ SlotTypes' /\ MainInv'
         /\ \A t \in Thread \ {0} : pc'[t] = pc[t] /\ job'[t] = job[t]
         /\ pc'[0] \in {"join", "c_destroy"}
         /\ Joined = x /\ Joined' = x + 1 /\ Created' = Created
<1>1. SlotTypes /\ x \in Job /\ x \in Nat
  BY ThreadsHaveSlots DEF SlotsInv, SlotTypes
<1>2. /\ job' \in [Thread -> Job \cup {NULL}] /\ job'[0] \in Job
      /\ Before(job'[0]) = Before(x)
      /\ \A t \in Thread \ {0} : job'[t] = job[t] /\ pc'[t] = pc[t]
      /\ \/ /\ pc'[0] = "c_destroy" /\ x = Before(x) + PerRound
            /\ job'[0] = Before(x) + 1
         \/ pc'[0] = "join" /\ job'[0] = x + 1
  BY <1>1, JobGoesOn
<1>3. SlotTypes'
  BY <1>1, <1>2 DEF SlotTypes, slots
<1>4. MainInv'
  BY <1>2 DEF slots, SlotsInv, MainInv
<1>5. Joined = x /\ Joined' = x + 1 /\ Created' = Created
  BY <1>2 DEF Created, Joined
<1> QED BY <1>1, <1>2, <1>3, <1>4, <1>5

\* pthread_join passes what was not created or waits for the slot to clear.
LEMMA JoinWaitSlots ==
  ASSUME ControlInv, SlotsInv, JoinWait
  PROVE  SlotsInv'
<1>a. PICK x : x = job[0]
  OBVIOUS
<1>0. pc[0] = "join" /\ UNCHANGED <<slots, index, tid, got, go, runs, init_flag>> /\ SlotTypes
  BY DEF JoinWait, At, others, startup, program, SlotsInv
<1>1. \A j \in Job : JobInv(j, Created, Joined)
  BY DEF SlotsInv
<1>2. CASE tid[x] \notin Thread /\ NextJob("join", "c_destroy")
  <2>1. got' \in [Job -> Job \cup {NULL}]
    BY <1>0 DEF SlotTypes
  <2>2. /\ x \in Job /\ x \in Nat /\ SlotTypes' /\ MainInv'
        /\ \A t \in Thread \ {0} : pc'[t] = pc[t] /\ job'[t] = job[t]
        /\ pc'[0] \in {"join", "c_destroy"}
        /\ Joined = x /\ Joined' = x + 1 /\ Created' = Created
    BY <1>0, <1>2, <1>a, <2>1, JoinGoesOn
  <2>3. ASSUME NEW j \in Job
        PROVE  /\ j >= Created' => tid[j] = Nobody
               /\ j >= Joined' => got[j] = NULL
               /\ j < Joined' => tid[j] \notin Thread \/ got[j] # NULL
    <3>1. (j >= x + 1 => j >= x) /\ (j < x + 1 => j < x \/ j = x)
      BY <2>2, ThreadsHaveSlots
    <3> QED BY <1>1, <1>2, <2>2, <3>1, ZenonT(30) DEF JobInv
  <2> QED BY <1>0, <2>2, <2>3, MainShift, ZenonT(30)
<1>3. CASE /\ tid[x] \in Thread /\ funcptr[tid[x]] = NoFunc
           /\ Goto(0, "value") /\ UNCHANGED job
  <2>1. pc'[0] = "value" /\ \A t \in Thread \ {0} : pc'[t] = pc[t]
    BY <1>3, ThreadsHaveSlots DEF Goto, ControlInv
  <2>2. SlotTypes'
    BY <1>0, <1>3 DEF SlotTypes, slots
  <2>3. MainInv'
    BY <1>0, <1>3, <1>a, <2>1 DEF slots, SlotsInv, MainInv
  <2>4. Created' = Created /\ Joined' = Joined
    BY <1>0, <1>3, <2>1 DEF Created, Joined
  <2> QED BY <1>0, <1>1, <1>3, <2>1, <2>2, <2>3, <2>4, MainShift DEF JobInv
<1> QED BY <1>a, <1>2, <1>3, ZenonT(30) DEF JoinWait

\* ... and returns what its thread has stored.
LEMMA JoinValueSlots ==
  ASSUME ControlInv, SlotsInv, JoinValue
  PROVE  SlotsInv'
<1>a. PICK x : x = job[0]
  OBVIOUS
<1>0. /\ pc[0] = "value" /\ NextJob("join", "c_destroy")
      /\ got' = [got EXCEPT ![x] = retval[tid[x]]]
      /\ UNCHANGED <<slots, index, tid, go, runs, init_flag>> /\ SlotTypes
  BY <1>a, ZenonT(30) DEF JoinValue, At, others, startup, SlotsInv
<1>1. UNCHANGED <<funcptr, funcarg, retval>>
  BY <1>0 DEF slots
<1>2. tid[x] \in Thread /\ funcptr[tid[x]] = NoFunc /\ x \in Job /\ x \in Nat /\ Joined = x
  BY <1>a, <1>0, ThreadsHaveSlots, ZenonT(30) DEF SlotsInv, MainInv, SlotTypes, Joined
<1>3. got[x] = NULL /\ retval[tid[x]] = x /\ runs[x] = 1
  <2>1. JobInv(x, Created, Joined)
    BY <1>2 DEF SlotsInv
  <2> QED BY <1>2, <2>1 DEF JobInv, Working, Finished, NoFunc, Routine
<1>4. got'[x] = x /\ \A j \in Job : j # x => got'[j] = got[j]
  BY <1>0, <1>2, <1>3 DEF SlotTypes
<1>5. got' \in [Job -> Job \cup {NULL}]
  BY <1>0, <1>2, <1>3 DEF SlotTypes
<1>6. /\ SlotTypes' /\ MainInv'
      /\ \A t \in Thread \ {0} : pc'[t] = pc[t] /\ job'[t] = job[t]
      /\ pc'[0] \in {"join", "c_destroy"}
      /\ Joined' = x + 1 /\ Created' = Created
  BY <1>0, <1>a, <1>5, JoinGoesOn
<1>7. x # NULL
  BY <1>2, ThreadsHaveSlots
<1>8. ASSUME NEW j \in Job PROVE JobInv(j, Created, Joined)'
  <2>1. JobInv(j, Created, Joined) /\ j \in Nat
    BY ThreadsHaveSlots DEF SlotsInv
  <2>2. CASE j = x
    <3>1. JobInv(x, Created, Joined) /\ tid[x] # Nobody /\ tid[x] # 0
      BY <1>2, <2>1, <2>2, ThreadsHaveSlots, ZenonT(30) DEF JobInv
    <3>2. got'[x] = x /\ got'[x] # NULL /\ runs'[x] = 1 /\ tid'[x] = tid[x]
      BY <1>0, <1>3, <1>4, <1>7
    <3>3. tid[x] \notin Slot \ Thread
      BY <1>2, ThreadsHaveSlots
    <3>4. ~(x >= Created') /\ ~(x >= Joined')
      <4>1. ~(x >= Created)
        BY <3>1, ZenonT(30) DEF JobInv
      <4>2. ~(x >= x + 1)
        BY <2>1, <2>2
      <4> QED BY <1>6, <4>1, <4>2, ZenonT(30)
    <3> QED BY <2>2, <3>1, <3>2, <3>3, <3>4, ZenonT(30) DEF JobInv
  <2>3. CASE j # x
    <3>1. (j >= x + 1 => j >= x) /\ (j < x + 1 => j < x) /\ got'[j] = got[j]
      BY <1>2, <1>4, <2>1, <2>3
    <3> QED BY <1>0, <1>1, <1>2, <1>6, <2>1, <3>1, ZenonT(30) DEF JobInv, Working, Finished, Idle
  <2> QED BY <2>2, <2>3
<1>9. OwnerInv'
  <2>1. \A j : j \in Live' <=> j \in Live /\ j # x
    BY <1>0, <1>4, <1>7, ZenonT(30) DEF Live
  <2>2. \A t \in Thread \ {0} : funcptr[t] = Routine => \E j \in Live : tid[j] = t /\ j # x
    BY <1>2 DEF SlotsInv, OwnerInv, NoFunc, Routine
  <2> QED BY <1>0, <1>1, <1>6, <2>1, <2>2, ZenonT(30) DEF SlotsInv, OwnerInv, Idle
<1>10. GoInv'
  BY <1>0, <1>6, ZenonT(30) DEF SlotsInv, GoInv
<1> QED BY <1>6, <1>8, <1>9, <1>10, ZenonT(30) DEF SlotsInv

\* After the last join of a round the next one starts, or main returns.
LEMMA CondDestroySlots ==
  ASSUME ControlInv, SlotsInv, CondDestroy
  PROVE  SlotsInv'
<1>a. PICK x : x = job[0]
  OBVIOUS
<1>0. /\ pc[0] = "c_destroy" /\ SlotTypes /\ x \in Job
      /\ UNCHANGED <<slots, index, tid, got, go, runs, init_flag>>
  BY <1>a, ZenonT(30) DEF CondDestroy, At, startup, program, SlotsInv, SlotTypes
<1>1. x = Before(x) + 1 /\ Before(x) \in Nat /\ PerRound \in Nat
  BY <1>a, <1>0, RoundFacts, PthreadsAssumption, ZenonT(30) DEF SlotsInv, MainInv
<1>2. \A j \in Job : JobInv(j, Created, Joined)
  BY DEF SlotsInv
<1>3. CASE x + PerRound \in Job
  <2>1. job' = [job EXCEPT ![0] = x + PerRound] /\ pc' = [pc EXCEPT ![0] = "c_init"]
    BY <1>a, <1>3 DEF CondDestroy, Goto
  <2>2. /\ job'[0] = x + PerRound /\ pc'[0] = "c_init"
        /\ \A t \in Thread \ {0} : pc'[t] = pc[t] /\ job'[t] = job[t]
    BY <1>0, <2>1, ThreadsHaveSlots DEF ControlInv, SlotTypes
  <2>3. Before(x + PerRound) = Before(x) + PerRound
    BY <1>0, <1>1, RoundFacts
  <2>4. SlotTypes'
    BY <1>0, <1>3, <2>1, <2>2, ZenonT(30) DEF SlotTypes, slots
  <2>5. job'[0] = Before(job'[0]) + 1
    BY <1>1, <2>2, <2>3
  <2>6. MainInv'
    BY <1>0, <2>2, <2>5 DEF slots, SlotsInv, MainInv
  <2>7. Created' = Created /\ Joined' = Joined
    BY <1>a, <1>0, <1>1, <2>2, <2>3 DEF Created, Joined
  <2> QED BY <1>0, <1>2, <2>2, <2>4, <2>6, <2>7, MainShift, ZenonT(30) DEF JobInv
<1>4. CASE x + PerRound \notin Job
  <2>1. job' = job /\ pc' = [pc EXCEPT ![0] = "exit"]
    BY <1>a, <1>4 DEF CondDestroy, Goto
  <2>2. pc'[0] = "exit" /\ \A t \in Thread \ {0} : pc'[t] = pc[t] /\ job'[t] = job[t]
    BY <2>1, ThreadsHaveSlots DEF ControlInv
  <2>3. SlotTypes' /\ MainInv'
    BY <1>0, <2>1, <2>2, ZenonT(30) DEF SlotTypes, slots, SlotsInv, MainInv
  <2>4. Created' = Created /\ Joined' = Joined
    BY <1>0, <2>1, <2>2 DEF Created, Joined
  <2> QED BY <1>0, <1>2, <2>2, <2>3, <2>4, MainShift, ZenonT(30) DEF JobInv
<1> QED BY <1>3, <1>4

\* A thread at work works on the one live job of its slot.
LEMMA WorksOn ==
  ASSUME SlotsInv, NEW t \in Thread \ {0}, funcptr[t] # NoFunc
  PROVE  \E j \in Live : /\ j \in Job /\ tid[j] = t /\ got[j] = NULL /\ Working(j, t)
                         /\ \A k \in Live : k # j => tid[k] # t
<1>1. PICK j \in Live : tid[j] = t
  BY DEF SlotsInv, OwnerInv
<1>2. JobInv(j, Created, Joined) /\ got[j] = NULL /\ j \in Job
  BY DEF SlotsInv, Live
<1>3. Working(j, t)
  BY <1>1, <1>2 DEF JobInv, Finished
<1> QED BY <1>1, <1>2, <1>3, ZenonT(30) DEF SlotsInv, OwnerInv

\* The jobs that a step of thread t does not touch.
LEMMA OtherJobs ==
  ASSUME SlotsInv, NEW t \in Thread \ {0}, UNCHANGED <<tid, got, go>>,
         Created' = Created, Joined' = Joined,
         \A u \in Thread \ {0} : u # t => pc'[u] = pc[u] /\ job'[u] = job[u],
         \A s \in Slot : s # t => /\ funcptr'[s] = funcptr[s] /\ funcarg'[s] = funcarg[s]
                                  /\ retval'[s] = retval[s],
         NEW k \in Job, runs'[k] = runs[k], k \in Live => tid[k] # t
  PROVE  JobInv(k, Created, Joined)'
<1>1. JobInv(k, Created, Joined) /\ tid[k] \in Slot \cup {Nobody}
  BY ZenonT(30) DEF SlotsInv, SlotTypes
<1>2. CASE k \in Live
  <2>1. tid[k] \in Slot /\ tid[k] # t /\ tid[k] # 0
    BY <1>1, <1>2, ZenonT(30) DEF Live, JobInv
  <2>2. UNCHANGED <<funcptr[tid[k]], funcarg[tid[k]], retval[tid[k]]>>
    BY <2>1, ZenonT(30)
  <2>3. tid[k] \in Thread => pc'[tid[k]] = pc[tid[k]] /\ job'[tid[k]] = job[tid[k]]
    BY <2>1
  <2> QED BY <1>1, <2>2, <2>3, ZenonT(30) DEF JobInv, Working, Finished, Idle
<1>3. CASE k \notin Live
  BY <1>1, <1>3, ThreadsHaveSlots, ZenonT(30) DEF JobInv, Live
<1> QED BY <1>2, <1>3, ZenonT(30)

\* The polling thread takes its job, ...
LEMMA PollSlots ==
  ASSUME ControlInv, SlotsInv, NEW t \in Thread, Poll(t)
  PROVE  SlotsInv'
<1>0. /\ pc[t] = "poll" /\ funcptr[t] # NoFunc /\ pc' = [pc EXCEPT ![t] = "once"]
      /\ job' = [job EXCEPT ![t] = funcarg[t]]
      /\ runs' = [j \in Job |-> IF j = funcarg[t] THEN runs[j] + 1 ELSE runs[j]]
      /\ UNCHANGED <<funcptr, funcarg, retval, index, tid, got, go, init_flag>>
  BY ZenonT(30) DEF Poll, At, Goto, others, startup, slots, program
<1>1. t \in Thread \ {0} /\ t \in Slot /\ SlotTypes
  BY <1>0, WhoRuns, ThreadsHaveSlots DEF SlotsInv
<1>2. PICK j \in Live : /\ j \in Job /\ tid[j] = t /\ got[j] = NULL /\ Working(j, t)
                        /\ \A k \in Live : k # j => tid[k] # t
  BY <1>0, <1>1, WorksOn, ZenonT(30)
<1>3. funcarg[t] = j /\ runs[j] = 0 /\ funcptr[t] = Routine
  BY <1>0, <1>2, ZenonT(30) DEF Working, Idle
<1>4. /\ pc'[0] = pc[0] /\ job'[0] = job[0] /\ pc'[t] = "once" /\ job'[t] = j
      /\ \A u \in Thread \ {0} : u # t => pc'[u] = pc[u] /\ job'[u] = job[u]
  <2>1. DOMAIN pc = Thread /\ DOMAIN job = Thread /\ 0 \in Thread
    BY <1>1, ZeroIsThread, ZenonT(30) DEF ControlInv, SlotTypes
  <2>2. pc'[t] = "once" /\ job'[t] = funcarg[t]
    BY <1>0, <2>1, ZenonT(30)
  <2>3. \A u \in Thread : u # t => pc'[u] = pc[u] /\ job'[u] = job[u]
    BY <1>0, <2>1, ZenonT(30)
  <2> QED BY <1>1, <1>3, <2>1, <2>2, <2>3, ZenonT(30)
<1>5. runs'[j] = 1 /\ \A k \in Job : k # j => runs'[k] = runs[k]
  BY <1>0, <1>2, <1>3
<1>6. SlotTypes'
  <2>1. runs' \in [Job -> Nat]
    BY <1>0, <1>1 DEF SlotTypes
  <2>2. job' \in [Thread -> Job \cup {NULL}] /\ job'[0] \in Job
    BY <1>0, <1>1, <1>2, <1>3, <1>4 DEF SlotTypes
  <2> QED BY <1>0, <1>1, <2>1, <2>2 DEF SlotTypes
<1>7. Created' = Created /\ Joined' = Joined
  BY <1>4 DEF Created, Joined
<1>8. JobInv(j, Created, Joined)'
  <2>1. JobInv(j, Created, Joined)
    BY <1>2, ZenonT(30) DEF SlotsInv
  <2>2. Working(j, t)'
    BY <1>0, <1>3, <1>4, <1>5, ZenonT(30) DEF Working, Idle
  <2> QED BY <1>0, <1>1, <1>2, <1>7, <2>1, <2>2, ThreadsHaveSlots, ZenonT(30) DEF JobInv
<1>9. ASSUME NEW k \in Job, k # j PROVE JobInv(k, Created, Joined)'
  <2>1. runs'[k] = runs[k] /\ (k \in Live => tid[k] # t)
    BY <1>2, <1>5, <1>9
  <2> QED BY <1>0, <1>1, <1>4, <1>7, <2>1, OtherJobs, ZenonT(30)
<1>10. OwnerInv'
  <2>1. \A u \in Thread \ {0} : ~Idle(u)' => ~Idle(u) \/ funcptr[u] = Routine
    BY <1>3, <1>4, ZenonT(30) DEF Idle
  <2> QED BY <1>0, <2>1, OwnerKept, ZenonT(30) DEF SlotsInv
<1>11. GoInv'
  BY <1>0, <1>1, <1>4 DEF SlotsInv, GoInv
<1>12. MainInv'
  BY <1>0, <1>1, <1>4 DEF SlotsInv, MainInv
<1> QED BY <1>6, <1>8, <1>9, <1>10, <1>11, <1>12 DEF SlotsInv

\* ... stores what its routine returns, ...
LEMMA StoreRetvalSlots ==
  ASSUME ControlInv, SlotsInv, NEW t \in Thread, StoreRetval(t)
  PROVE  SlotsInv'
<1>0. /\ pc[t] = "return" /\ pc' = [pc EXCEPT ![t] = "clear"]
      /\ retval' = [retval EXCEPT ![t] = job[t]]
      /\ UNCHANGED <<funcptr, funcarg, index, job, tid, got, go, runs, init_flag>>
  BY ZenonT(30) DEF StoreRetval, At, Goto, others, startup, program
<1>1. t \in Thread \ {0} /\ t \in Slot /\ SlotTypes
  BY <1>0, WhoRuns, ThreadsHaveSlots DEF SlotsInv
<1>2. funcptr[t] = Routine
  BY <1>0, <1>1 DEF SlotsInv, OwnerInv, Idle
<1>3. PICK j \in Live : /\ j \in Job /\ tid[j] = t /\ got[j] = NULL /\ Working(j, t)
                        /\ \A k \in Live : k # j => tid[k] # t
  BY <1>1, <1>2, WorksOn, ZenonT(30) DEF NoFunc, Routine
<1>4. job[t] = j /\ runs[j] = 1
  BY <1>0, <1>3, ZenonT(30) DEF Working, Idle
<1>5. /\ pc'[0] = pc[0] /\ pc'[t] = "clear"
      /\ \A u \in Thread \ {0} : u # t => pc'[u] = pc[u]
      /\ retval'[t] = j /\ \A s \in Slot : s # t => retval'[s] = retval[s]
  BY <1>0, <1>1, <1>4, ThreadsHaveSlots, ZenonT(30) DEF ControlInv, SlotTypes
<1>6. SlotTypes'
  BY <1>0, <1>1, <1>3, <1>4 DEF SlotTypes
<1>7. Created' = Created /\ Joined' = Joined
  BY <1>0, <1>5 DEF Created, Joined
<1>8. JobInv(j, Created, Joined)'
  <2>1. JobInv(j, Created, Joined)
    BY <1>3, ZenonT(30) DEF SlotsInv
  <2>2. Working(j, t)'
    BY <1>0, <1>3, <1>4, <1>5, ZenonT(30) DEF Working, Idle
  <2> QED BY <1>0, <1>1, <1>3, <1>7, <2>1, <2>2, ThreadsHaveSlots, ZenonT(30) DEF JobInv
<1>9. ASSUME NEW k \in Job, k # j PROVE JobInv(k, Created, Joined)'
  <2>1. runs'[k] = runs[k] /\ (k \in Live => tid[k] # t)
    BY <1>0, <1>3, <1>9, ZenonT(30)
  <2> QED BY <1>0, <1>1, <1>5, <1>7, <2>1, OtherJobs, ZenonT(30)
<1>10. OwnerInv'
  <2>1. \A u \in Thread \ {0} : ~Idle(u)' => ~Idle(u) \/ funcptr[u] = Routine
    BY <1>2, <1>5 DEF Idle
  <2> QED BY <1>0, <2>1, OwnerKept, ZenonT(30) DEF SlotsInv
<1>11. GoInv'
  BY <1>0, <1>1, <1>5 DEF SlotsInv, GoInv
<1>12. MainInv'
  BY <1>0, <1>1, <1>5 DEF SlotsInv, MainInv
<1> QED BY <1>6, <1>8, <1>9, <1>10, <1>11, <1>12 DEF SlotsInv

\* ... and clears its slot.
LEMMA ClearFuncSlots ==
  ASSUME ControlInv, SlotsInv, NEW t \in Thread, ClearFunc(t)
  PROVE  SlotsInv'
<1>0. /\ pc[t] = "clear" /\ pc' = [pc EXCEPT ![t] = "poll"]
      /\ funcptr' = [funcptr EXCEPT ![t] = NoFunc]
      /\ UNCHANGED <<funcarg, retval, index, job, tid, got, go, runs, init_flag>>
  BY DEF ClearFunc, At, Goto, others, startup, program
<1>1. t \in Thread \ {0} /\ t \in Slot /\ SlotTypes
  BY <1>0, WhoRuns, ThreadsHaveSlots DEF SlotsInv
<1>2. funcptr[t] = Routine /\ go
  BY <1>0, <1>1, ZenonT(30) DEF SlotsInv, OwnerInv, GoInv, Idle
<1>3. PICK j \in Live : /\ j \in Job /\ tid[j] = t /\ got[j] = NULL /\ Working(j, t)
                        /\ \A k \in Live : k # j => tid[k] # t
  BY <1>1, <1>2, WorksOn DEF NoFunc, Routine
<1>4. retval[t] = j /\ runs[j] = 1
  BY <1>0, <1>3, ZenonT(30) DEF Working, Idle
<1>5. /\ pc'[0] = pc[0] /\ pc'[t] = "poll"
      /\ \A u \in Thread \ {0} : u # t => pc'[u] = pc[u]
      /\ funcptr'[t] = NoFunc /\ \A s \in Slot : s # t => funcptr'[s] = funcptr[s]
  <2>1. DOMAIN pc = Thread /\ DOMAIN funcptr = Slot /\ 0 \in Thread
    BY <1>1, ZeroIsThread, ZenonT(30) DEF ControlInv, SlotTypes
  <2>2. pc'[t] = "poll" /\ funcptr'[t] = NoFunc
    BY <1>0, <1>1, <2>1, ZenonT(30)
  <2>3. /\ \A u \in Thread : u # t => pc'[u] = pc[u]
        /\ \A s \in Slot : s # t => funcptr'[s] = funcptr[s]
    BY <1>0, <2>1, ZenonT(30)
  <2> QED BY <1>1, <2>1, <2>2, <2>3, ZenonT(30)
<1>6. SlotTypes'
  BY <1>0, <1>1, ZenonT(30) DEF SlotTypes
<1>7. Created' = Created /\ Joined' = Joined
  BY <1>0, <1>5, ZenonT(30) DEF Created, Joined
<1>8. JobInv(j, Created, Joined)'
  <2>1. JobInv(j, Created, Joined)
    BY <1>3, ZenonT(30) DEF SlotsInv
  <2>2. Finished(j, t)'
    BY <1>0, <1>2, <1>4, <1>5, ZenonT(30) DEF Finished
  <2> QED BY <1>0, <1>1, <1>3, <1>7, <2>1, <2>2, ThreadsHaveSlots, ZenonT(30) DEF JobInv
<1>9. ASSUME NEW k \in Job, k # j PROVE JobInv(k, Created, Joined)'
  <2>1. runs'[k] = runs[k] /\ (k \in Live => tid[k] # t)
    BY <1>0, <1>3, <1>9, ZenonT(30)
  <2> QED BY <1>0, <1>1, <1>5, <1>7, <2>1, OtherJobs, ZenonT(30)
<1>10. OwnerInv'
  <2>1. UNCHANGED Live
    BY <1>0, ZenonT(30) DEF Live
  <2>2. \A u \in Thread \ {0} : u # t => funcptr'[u] = funcptr[u]
    BY <1>5, ThreadsHaveSlots, ZenonT(30)
  <2> QED BY <1>0, <1>1, <1>5, <2>1, <2>2 DEF SlotsInv, OwnerInv, Idle, NoFunc, Routine
<1>11. GoInv'
  BY <1>0, <1>2, <1>5 DEF SlotsInv, GoInv
<1>12. MainInv'
  <2>1. \A s \in Slot : funcptr[s] = NoFunc => funcptr'[s] = NoFunc
    BY <1>5
  <2>2. funcptr'[0] = funcptr[0] /\ (pc[0] = "value" => tid[job[0]] \in Slot)
    BY <1>1, <1>5, ThreadsHaveSlots, ZenonT(30) DEF SlotsInv, MainInv
  <2>3. pc[0] \in {"arg", "func"} => index \in Slot
    BY <1>1, ThreadsHaveSlots, ZenonT(30) DEF SlotsInv, MainInv, SlotTypes
  <2> QED BY <1>0, <1>5, <2>1, <2>2, <2>3, ZenonT(30) DEF SlotsInv, MainInv
<1> QED BY <1>6, <1>8, <1>9, <1>10, <1>11, <1>12 DEF SlotsInv

\* Every step keeps the slots in order.
LEMMA SlotsStep == ControlInv /\ SlotsInv /\ [Next]_vars => SlotsInv'
<1> SUFFICES ASSUME ControlInv, SlotsInv, [Next]_vars PROVE SlotsInv'
  OBVIOUS
<1>1. CASE UNCHANGED vars
  <2>1. UNCHANGED <<slots, index, job, program, runs>> /\ UNCHANGED <<pc, init_flag>>
    BY <1>1 DEF vars, startup
  <2>2. UNCHANGED <<funcptr, funcarg, retval, tid, got, go>>
    BY <2>1 DEF slots, program
  <2>3. MainInv'
    BY <2>1, <2>2 DEF SlotsInv, MainInv
  <2>4. Created' = Created /\ Joined' = Joined
    BY <2>1 DEF Created, Joined
  <2> QED BY <2>1, <2>3, <2>4, SlotsQuiet, ZenonT(30) DEF SlotsInv, GoInv
<1>2. ASSUME NEW t \in Thread, Step(t) PROVE SlotsInv'
  <2>1. CASE t = 0 /\ MainStep
    BY <2>1, QuietSteps, PremainSlot, CondInitSlots, ScanSlots, StoreArgSlots,
       StoreFuncSlots, LetGoSlots, JoinWaitSlots, JoinValueSlots, CondDestroySlots
       DEF MainStep
  <2>2. CASE InMalloc(t) \/ MutexLock(t) \/ MutexUnlock(t)
    BY <2>2, QuietSteps
  <2>3. CASE WorkerStep(t)
    BY <2>3, QuietSteps, PollSlots, StoreRetvalSlots, ClearFuncSlots DEF WorkerStep
  <2> QED BY <1>2, <2>1, <2>2, <2>3 DEF Step
<1> QED BY <1>1, <1>2 DEF Next, Done

\* pthread_create gives no slot away that belongs to a pthread not yet joined,
\* nor that of main, for any number of threads, slots, jobs and rounds of a
\* program that joins before it creates again, however the threads overtake
\* each other.
THEOREM OnePthreadEach == Spec => []OnePthreadPerSlot
<1>1. SlotsInv => OnePthreadPerSlot
  BY DEF SlotsInv, JobInv, OwnerInv, OnePthreadPerSlot, Live
<1> QED BY <1>1, ControlInit, ControlStep, SlotsInit, SlotsStep, PTL DEF Spec

\* In such a program pthread_join returns what the routine of its own job has
\* returned, and that routine was called once, although later rounds use the
\* slots again.
THEOREM JoinGetsItsValue == Spec => []JoinGetsValue
<1>1. SlotsInv => JoinGetsValue
  BY DEF SlotsInv, JobInv, JoinGetsValue
<1> QED BY <1>1, ControlInit, ControlStep, SlotsInit, SlotsStep, PTL DEF Spec

\* Every variable of the pthreads keeps its type: thread 0 never scans past
\* the slots nor counts its jobs past the last one.
THEOREM PthreadsTypes == Spec => []TypeOK
<1>1. ControlInv => pc \in [Thread -> Labels]
  BY DEF ControlInv, MainStart, MainRuns, WorkerRuns, InsideMalloc, Labels
<1>2. OnceInv => once_control \in {0, 1} /\ inits \in Nat
  BY DEF OnceInv
<1>3. ControlInv /\ OnceInv /\ SlotsInv /\ WordsInv => TypeOK
  BY <1>1, <1>2, ZenonT(30) DEF ControlInv, SlotsInv, SlotTypes, WordsInv, TypeOK
<1> QED BY <1>3, ControlInit, ControlStep, OnceInvInit, OnceStep, SlotsInit, SlotsStep,
           WordsInit, WordsStep, PTL DEF Spec
=============================================================================
