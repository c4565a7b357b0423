--------------------------- MODULE PthreadsProofs ---------------------------
(***************************************************************************)
(* Proofs about start-up, pthread_once and malloc's way to mmap, for any   *)
(* number of threads and any arena, and the invariant of the slots of      *)
(* pthread_create and pthread_join with the steps that leave it alone.     *)
(***************************************************************************)
EXTENDS Pthreads, TLAPS

\* Leaves that name no prover go to SMT, then to Zenon, then to SMT once more.
USE SMTT(30), ZenonT(30), SMTT(31)

\* Division with remainder, the form in which the lemmas below use it.
LEMMA DivMod ==
  ASSUME NEW x \in Nat, NEW n \in Nat \ {0}
  PROVE  /\ x % n \in 0 .. n - 1
         /\ x \div n \in Nat
         /\ x = n * (x \div n) + (x % n)
OBVIOUS

\* The remainder is the only number below n that completes a multiple of n.
LEMMA ModUnique ==
  ASSUME NEW x \in Nat, NEW n \in Nat \ {0},
         NEW q \in Nat, NEW r \in 0 .. n - 1, x = n * q + r
  PROVE  x % n = r
OBVIOUS

\* Counting one further steps the remainder, back to 0 from n - 1.
LEMMA ModInc ==
  ASSUME NEW x \in Nat, NEW n \in Nat \ {0}
  PROVE  (x + 1) % n = IF x % n = n - 1 THEN 0 ELSE (x % n) + 1
<1>1. PICK q \in Nat, r \in 0 .. n - 1 : x = n * q + r
  BY DivMod, ZenonT(30)
<1>2. x % n = r
  BY <1>1, ModUnique
<1>3. CASE r = n - 1
  <2>1. x + 1 = n * (q + 1) + 0
    BY <1>1, <1>3
  <2>2. (x + 1) % n = 0
    BY <2>1, ModUnique, 0 \in 0 .. n - 1, q + 1 \in Nat, x + 1 \in Nat, ZenonT(30)
  <2> QED BY <2>2, <1>2, <1>3
<1>4. CASE r # n - 1
  <2>1. x + 1 = n * q + (r + 1) /\ r + 1 \in 0 .. n - 1
    BY <1>1, <1>4
  <2>2. (x + 1) % n = r + 1
    BY <2>1, ModUnique, x + 1 \in Nat, ZenonT(30)
  <2> QED BY <2>2, <1>2, <1>4
<1> QED BY <1>3, <1>4

\* Every thread of the program allocates from the pool of malloc.
OnePool == Pools = {"syspool"}

\* No request takes the top of the arena past the end of the address space.
Fits == \A len \in Lens : ArenaEnd + len + Line <= Word

\* The labels inside malloc, and those of them under the lock of the pool.
InsideMalloc == {"m_lock", "m_load", "m_store", "m_unlock"}
UnderLock == {"m_load", "m_store", "m_unlock"}

\* Where thread 0 is before it sets init_flag, and after.
MainStart == {"pool", "init_pool", "reent", "flag"} \cup InsideMalloc
MainRuns ==
  {"premain", "c_init", "scan", "arg", "func", "lock", "go", "broadcast",
   "unlock", "join", "value", "c_destroy", "exit"}

\* Where the other threads are once they have seen it.
WorkerRuns ==
  {"poll", "once", "init", "alloc", "lock", "check", "wait", "spin",
   "unlock", "return", "clear"} \cup InsideMalloc

\* What start-up and malloc rely on: nobody but thread 0 runs before the flag
\* is set, thread 0 does not allocate after it, and who is under the lock of a
\* pool is its holder.
ControlInv ==
  /\ pc \in [Thread -> Labels \cup {"none"}]
  /\ pool \in [Thread -> Pool] /\ back \in [Thread -> Labels \cup {"none"}]
  /\ mspace \in [Pool -> Thread \cup {Nobody}]
  /\ init_flag \in BOOLEAN
  /\ pc[0] \in (IF init_flag THEN MainRuns ELSE MainStart)
  /\ pc[0] \in InsideMalloc => back[0] \in {"init_pool", "reent", "flag"}
  /\ \A t \in Thread \ {0} :
       /\ pc[t] \in (IF init_flag THEN {"boot"} \cup WorkerRuns ELSE {"boot"})
       /\ pc[t] \in InsideMalloc => back[t] = "lock" /\ pool[t] \in Pools
  /\ \A t \in Thread : pc[t] \in UnderLock => mspace[pool[t]] = t

\* Thread 0 is a thread.
LEMMA ZeroIsThread == 0 \in Thread /\ Pools \subseteq Pool
BY PthreadsAssumption DEF Pool

\* Start-up begins with thread 0 alone.
LEMMA ControlInit == Init => ControlInv
<1> SUFFICES ASSUME Init PROVE ControlInv
  OBVIOUS
<1> USE ZeroIsThread DEF Init
<1>1. pc \in [Thread -> Labels \cup {"none"}] /\ back \in [Thread -> Labels \cup {"none"}]
  BY DEF Labels
<1>2. pool \in [Thread -> Pool] /\ mspace \in [Pool -> Thread \cup {Nobody}]
  BY DEF Pool
<1>3. ~init_flag /\ init_flag \in BOOLEAN
  BY ZenonT(30)
<1>4. pc[0] = "pool" /\ \A t \in Thread \ {0} : pc[t] = "boot"
  OBVIOUS
<1> HIDE DEF Init
<1> QED BY <1>1, <1>2, <1>3, <1>4
        DEF ControlInv, MainStart, InsideMalloc, UnderLock

\* A thread that moves on outside malloc.
Moves(t, l) ==
  /\ pc[t] \notin InsideMalloc /\ l \notin InsideMalloc
  /\ pc' = [pc EXCEPT ![t] = l]
  /\ UNCHANGED <<pool, back, mspace, init_flag>>

\* Thread 0 moves on in the program.
LEMMA MainMoves ==
  ASSUME ControlInv, NEW l \in MainRuns, pc[0] \in MainRuns, Moves(0, l)
  PROVE  ControlInv'
<1>1. init_flag
  BY DEF ControlInv, MainRuns, MainStart, InsideMalloc
<1> QED BY <1>1, ZeroIsThread
        DEF ControlInv, Moves, MainRuns, InsideMalloc, UnderLock, Labels

\* Another thread moves on in the routine, or sees the flag.
LEMMA WorkerMoves ==
  ASSUME ControlInv, NEW t \in Thread \ {0}, NEW l \in WorkerRuns, init_flag, Moves(t, l)
  PROVE  ControlInv'
BY ZeroIsThread DEF ControlInv, Moves, WorkerRuns, InsideMalloc, UnderLock, Labels

\* The steps of thread 0 in the program, one by one.
LEMMA MainProgram ==
  ASSUME ControlInv,
         \/ PremainMain \/ CondInit \/ Scan \/ StoreArg \/ StoreFunc \/ LetGo
         \/ CondBroadcast \/ JoinWait \/ JoinValue \/ CondDestroy
  PROVE  /\ pc[0] \in MainRuns
         /\ \E l \in MainRuns : Moves(0, l)
         /\ UNCHANGED <<arena, once>>
<1> USE DEF At, Goto, MainRuns, InsideMalloc, Moves
<1>0. \A l : pc[0] = l => pc = [pc EXCEPT ![0] = l]
  BY ZeroIsThread DEF ControlInv
<1>1. CASE PremainMain
  BY <1>1 DEF PremainMain, call, startup, once
<1>2. CASE CondInit \/ LetGo \/ CondBroadcast \/ CondDestroy
  BY <1>2 DEF CondInit, LetGo, CondBroadcast, CondDestroy, locked, call, startup, once
<1>3. CASE Scan
  BY <1>0, <1>3 DEF Scan, NextJob, others, call, startup
<1>4. CASE StoreArg \/ StoreFunc
  BY <1>4 DEF StoreArg, StoreFunc, NextJob, others, call, startup
<1>5. CASE JoinWait \/ JoinValue
  BY <1>5 DEF JoinWait, JoinValue, NextJob, others, call, startup
<1> QED BY <1>1, <1>2, <1>3, <1>4, <1>5

\* Only thread 0 and the threads that have seen the flag come to the mutex,
\* and only the latter to the routine.
LEMMA WhoRuns ==
  ASSUME ControlInv, NEW t \in Thread,
         pc[t] \in {"poll", "once", "init", "alloc", "check", "wait",
                    "spin", "return", "clear"}
  PROVE  t # 0 /\ init_flag
BY DEF ControlInv, MainRuns, MainStart, InsideMalloc

\* The steps of the other threads in the routine, pthread_once aside.
LEMMA WorkerProgram ==
  ASSUME ControlInv, NEW t \in Thread,
         \/ FlagSeen(t) \/ Poll(t) \/ CondWait(t) \/ CondUnlock(t)
         \/ StoreRetval(t) \/ ClearFunc(t)
  PROVE  /\ t # 0 /\ init_flag
         /\ \E l \in WorkerRuns \ {"init"} : Moves(t, l)
         /\ UNCHANGED <<arena, once>>
<1> USE DEF At, Goto, WorkerRuns, InsideMalloc, Moves
<1>1. CASE FlagSeen(t)
  <2>1. t # 0
    BY <1>1 DEF FlagSeen, ControlInv, MainRuns, MainStart
  <2> QED BY <1>1, <2>1, ZenonT(30) DEF FlagSeen, rest, call, startup
<1>2. CASE Poll(t) \/ StoreRetval(t) \/ ClearFunc(t)
  <2>1. pc[t] \in {"poll", "return", "clear"}
    BY <1>2 DEF Poll, StoreRetval, ClearFunc
  <2>2. t # 0 /\ init_flag
    BY <2>1, WhoRuns
  <2> QED BY <1>2, <2>1, <2>2, ZenonT(30) DEF Poll, StoreRetval, ClearFunc, others, call, startup
<1>3. CASE CondWait(t) \/ CondUnlock(t)
  <2>1. pc[t] \in {"check", "wait"}
    BY <1>3 DEF CondWait, CondUnlock
  <2>2. t # 0 /\ init_flag
    BY <2>1, WhoRuns
  <2> QED BY <1>3, <2>1, <2>2, ZenonT(30) DEF CondWait, CondUnlock, locked, call, startup
<1> QED BY <1>1, <1>2, <1>3

\* pthread_once moves the thread on to its routine or past it.
LEMMA OnceProgram ==
  ASSUME ControlInv, NEW t \in Thread, Once(t) \/ OnceInit(t)
  PROVE  /\ t # 0 /\ init_flag
         /\ \E l \in WorkerRuns : Moves(t, l)
         /\ UNCHANGED arena
<1> USE DEF At, Goto, WorkerRuns, InsideMalloc, Moves
<1>1. pc[t] \in {"once", "init"}
  BY DEF Once, OnceInit
<1>2. t # 0 /\ init_flag
  BY <1>1, WhoRuns
<1> QED BY <1>1, <1>2, ZenonT(30) DEF Once, OnceInit, call, startup

\* The mutex is taken and given back by both.
LEMMA MutexProgram ==
  ASSUME ControlInv, NEW t \in Thread, MutexLock(t) \/ MutexUnlock(t)
  PROVE  /\ init_flag
         /\ t = 0 => pc[0] \in MainRuns /\ \E l \in MainRuns : Moves(0, l)
         /\ t # 0 => \E l \in WorkerRuns \ {"init"} : Moves(t, l)
         /\ UNCHANGED <<arena, once>>
<1> USE DEF At, Goto, InsideMalloc, Moves
<1>1. pc[t] \in {"lock", "spin", "unlock"}
  BY DEF MutexLock, MutexUnlock, WantsMutex
<1>2. init_flag
  BY <1>1 DEF ControlInv, MainStart
<1>3. UNCHANGED <<arena, once, pool, back, mspace, init_flag>>
  BY DEF MutexLock, MutexUnlock, locked, call, startup
<1>4. CASE t = 0
  <2>1. pc[0] \in {"lock", "unlock"}
    BY <1>1, <1>2, <1>4 DEF ControlInv, MainRuns
  <2> QED BY <1>1, <1>2, <1>3, <1>4, <2>1 DEF MutexLock, MutexUnlock, ControlInv, MainRuns
<1>5. CASE t # 0
  BY <1>1, <1>2, <1>3, <1>5 DEF MutexLock, MutexUnlock, WorkerRuns
<1> QED BY <1>2, <1>3, <1>4, <1>5

\* The calls of malloc: by thread 0 before it sets the flag, by the others
\* from the routine.
LEMMA MallocCalled ==
  ASSUME ControlInv, NEW t \in Thread,
         (t = 0 /\ (CreatePool \/ InitPool \/ SetReent)) \/ Allocate(t)
  PROVE  /\ ControlInv'
         /\ UNCHANGED <<arena, once>>
         /\ pc' = [pc EXCEPT ![t] = "m_lock"]
<1> USE DEF At, Malloc
<1>1. CASE t = 0 /\ (CreatePool \/ InitPool \/ SetReent)
  <2>1. /\ pc' = [pc EXCEPT ![0] = "m_lock"]
        /\ \E p \in Pool : pool' = [pool EXCEPT ![0] = p]
        /\ \E l \in {"init_pool", "reent", "flag"} : back' = [back EXCEPT ![0] = l]
        /\ UNCHANGED <<arena, once, mspace, init_flag>>
    BY <1>1 DEF CreatePool, InitPool, SetReent, Pool, startup
  <2>2. pc[0] \in {"pool", "init_pool", "reent"} /\ ~init_flag
    BY <1>1 DEF CreatePool, InitPool, SetReent, ControlInv, MainRuns
  <2>3. ControlInv'
    BY <2>1, <2>2, ZeroIsThread
       DEF ControlInv, MainStart, InsideMalloc, UnderLock, Labels
  <2> QED BY <1>1, <2>1, <2>3
<1>2. CASE Allocate(t)
  <2>1. PICK p \in Pools : Malloc(t, p, "lock")
    BY <1>2, ZenonT(30) DEF Allocate
  <2>2. t # 0 /\ init_flag
    BY <1>2, WhoRuns DEF Allocate
  <2>3. UNCHANGED <<arena, once, mspace, init_flag>>
    BY <1>2 DEF Allocate, startup
  <2>4. ControlInv'
    BY <2>1, <2>2, <2>3, ZeroIsThread
       DEF ControlInv, WorkerRuns, InsideMalloc, UnderLock, Labels
  <2> QED BY <2>1, <2>3, <2>4
<1> QED BY <1>1, <1>2

\* The steps inside malloc keep who is under a pool's lock its holder.
LEMMA MallocSteps ==
  ASSUME ControlInv, NEW t \in Thread, InMalloc(t)
  PROVE  /\ ControlInv'
         /\ UNCHANGED once
         /\ pc[t] \in InsideMalloc
         /\ pc' = [pc EXCEPT ![t] = pc'[t]] /\ pc'[t] \notin {"init", "m_lock"}
<1> USE DEF At, Goto, InsideMalloc
<1>0. Nobody \notin Thread
  BY PthreadsAssumption DEF Nobody
<1>1. UNCHANGED <<pool, back, init_flag, once>> /\ pc[t] \in InsideMalloc
  BY DEF InMalloc, GetMSpace, MspaceMore, MspaceStore, MspaceUnlock, rest, call, startup
<1>2. t = 0 => ~init_flag
  BY <1>1 DEF ControlInv, MainRuns
<1>3. t # 0 => init_flag
  BY <1>1 DEF ControlInv
<1>4. CASE GetMSpace(t)
  <2>1. mspace[pool[t]] = Nobody /\ mspace' = [mspace EXCEPT ![pool[t]] = t]
        /\ pc' = [pc EXCEPT ![t] = "m_load"]
    BY <1>4 DEF GetMSpace
  <2>2. \A u \in Thread : pc'[u] \in UnderLock => mspace'[pool[u]] = u
    BY <1>0, <1>1, <2>1 DEF ControlInv, UnderLock
  <2>3. mspace' \in [Pool -> Thread \cup {Nobody}]
    BY <2>1 DEF ControlInv
  <2> QED BY <1>1, <1>2, <1>3, <2>1, <2>2, <2>3, ZeroIsThread
          DEF ControlInv, MainStart, WorkerRuns, Labels
<1>5. CASE MspaceMore(t) \/ MspaceStore(t)
  <2>1. /\ UNCHANGED mspace /\ pc[t] \in UnderLock
        /\ \E l \in {"m_store", "m_unlock"} : pc' = [pc EXCEPT ![t] = l]
    BY <1>5 DEF MspaceMore, MspaceStore, UnderLock
  <2> QED BY <1>1, <1>2, <1>3, <2>1, ZeroIsThread
          DEF ControlInv, UnderLock, MainStart, WorkerRuns, Labels
<1>6. CASE MspaceUnlock(t)
  <2>1. /\ pc[t] = "m_unlock" /\ mspace' = [mspace EXCEPT ![pool[t]] = Nobody]
        /\ pc' = [pc EXCEPT ![t] = back[t]]
    BY <1>6 DEF MspaceUnlock
  <2>2. back[t] \in IF t = 0 THEN {"init_pool", "reent", "flag"} ELSE {"lock"}
    BY <2>1 DEF ControlInv
  <2>3. \A u \in Thread : pc'[u] \in UnderLock => u # t /\ pc[u] = pc'[u]
    BY <2>1, <2>2 DEF ControlInv, UnderLock
  <2>4. \A u \in Thread : pc'[u] \in UnderLock => mspace'[pool[u]] = u
    BY <1>1, <2>1, <2>3 DEF ControlInv, UnderLock
  <2>5. mspace' \in [Pool -> Thread \cup {Nobody}]
    BY <2>1 DEF ControlInv
  <2>6. pc'[t] = back[t] /\ \A u \in Thread \ {t} : pc'[u] = pc[u]
    BY <2>1 DEF ControlInv
  <2>7. pc' \in [Thread -> Labels \cup {"none"}]
    BY <2>1 DEF ControlInv
  <2>8. CASE t = 0
    BY <1>1, <1>2, <2>1, <2>2, <2>4, <2>5, <2>6, <2>7, <2>8
       DEF ControlInv, MainStart
  <2>9. CASE t # 0
    BY <1>1, <1>3, <2>1, <2>2, <2>4, <2>5, <2>6, <2>7, <2>9
       DEF ControlInv, WorkerRuns
  <2> QED BY <2>8, <2>9
<1> QED BY <1>4, <1>5, <1>6 DEF InMalloc

\* The flag lets the other threads go when thread 0 has done with malloc.
LEMMA FlagSet ==
  ASSUME ControlInv, SetFlag
  PROVE  /\ ControlInv'
         /\ UNCHANGED <<arena, once>>
         /\ pc' = [pc EXCEPT ![0] = "premain"]
<1>1. /\ pc' = [pc EXCEPT ![0] = "premain"] /\ init_flag' = TRUE
      /\ UNCHANGED <<arena, once, pool, back, mspace>>
  BY DEF SetFlag, Goto, call
<1>2. \A t \in Thread \ {0} : pc'[t] = pc[t] /\ pc[t] \in {"boot"} \cup WorkerRuns
  BY <1>1 DEF ControlInv
<1>3. pc' \in [Thread -> Labels \cup {"none"}] /\ pc'[0] = "premain"
  BY <1>1, ZeroIsThread DEF ControlInv, Labels
<1> QED BY <1>1, <1>2, <1>3 DEF ControlInv, MainRuns, InsideMalloc, UnderLock

\* Every step keeps the control of start-up and malloc.
LEMMA ControlStep == ControlInv /\ [Next]_vars => ControlInv'
<1> SUFFICES ASSUME ControlInv, [Next]_vars PROVE ControlInv'
  OBVIOUS
<1>1. CASE UNCHANGED vars
  BY <1>1 DEF vars, call, startup, ControlInv
<1>2. ASSUME NEW t \in Thread, Step(t) PROVE ControlInv'
  <2>1. CASE t = 0 /\ MainStep
    BY <2>1, MainProgram, MainMoves, MallocCalled, FlagSet DEF MainStep
  <2>2. CASE InMalloc(t)
    BY <2>2, MallocSteps
  <2>3. CASE MutexLock(t) \/ MutexUnlock(t)
    BY <2>3, MutexProgram, MainMoves, WorkerMoves
  <2>4. CASE WorkerStep(t)
    BY <2>4, WorkerProgram, OnceProgram, MallocCalled, WorkerMoves DEF WorkerStep
  <2> QED BY <1>2, <2>1, <2>2, <2>3, <2>4 DEF Step
<1> QED BY <1>1, <1>2 DEF Next, Done

\* What pthread_once promises, from the compare-and-swap on.
OnceInv ==
  /\ once_control \in {0, 1} /\ inits \in {0, 1}
  /\ once_control = 0 => inits = 0 /\ \A t \in Thread : pc[t] # "init"
  /\ inits = 1 => \A t \in Thread : pc[t] # "init"
  /\ \A t, u \in Thread : pc[t] = "init" /\ pc[u] = "init" => t = u

\* Who wins the compare-and-swap runs the routine, alone and once.
LEMMA OnceStep == ControlInv /\ OnceInv /\ [Next]_vars => OnceInv'
<1> SUFFICES ASSUME ControlInv, OnceInv, [Next]_vars PROVE OnceInv'
  OBVIOUS
<1>0. ASSUME UNCHANGED once, \A u \in Thread : pc'[u] = "init" => pc[u] = "init"
      PROVE  OnceInv'
  BY <1>0 DEF OnceInv, once
<1>1. CASE UNCHANGED vars
  BY <1>0, <1>1 DEF vars
<1>2. ASSUME NEW t \in Thread, NEW l, l # "init", pc' = [pc EXCEPT ![t] = l], UNCHANGED once
      PROVE  OnceInv'
  BY <1>0, <1>2 DEF ControlInv
<1>3. ASSUME NEW t \in Thread, Once(t) PROVE OnceInv'
  BY <1>3 DEF Once, At, Goto, OnceInv, ControlInv
<1>4. ASSUME NEW t \in Thread, OnceInit(t) PROVE OnceInv'
  BY <1>4 DEF OnceInit, At, Goto, OnceInv, ControlInv
<1>5. ASSUME NEW t \in Thread, Step(t) PROVE OnceInv'
  <2>1. CASE t = 0 /\ MainStep
    BY <2>1, <1>2, MainProgram, MallocCalled, FlagSet DEF MainStep, Moves, MainRuns
  <2>2. CASE InMalloc(t)
    BY <2>2, <1>2, MallocSteps
  <2>3. CASE MutexLock(t) \/ MutexUnlock(t)
    BY <2>3, <1>2, MutexProgram DEF Moves, MainRuns
  <2>4. CASE WorkerStep(t)
    BY <2>4, <1>2, <1>3, <1>4, WorkerProgram, MallocCalled DEF WorkerStep, Moves
  <2> QED BY <1>5, <2>1, <2>2, <2>3, <2>4 DEF Step
<1> QED BY <1>1, <1>5 DEF Next, Done

\* No thread is in pthread_once at start-up.
LEMMA OnceInvInit == Init => OnceInv
BY DEF Init, OnceInv

\* pthread_once runs the initialisation at most once, whichever threads come
\* to it and however they overtake each other.
THEOREM InitialisedOnce == Spec => []OnceOnly
<1>1. OnceInv => OnceOnly
  BY DEF OnceInv, OnceOnly
<1> QED BY <1>1, ControlInit, ControlStep, OnceInvInit, OnceStep, PTL DEF Spec

-----------------------------------------------------------------------------
(* mmap: one thread at a time is between its load and its store.           *)

\* With one pool, whoever is under a lock of malloc is the only one.
LEMMA OneInMmap ==
  ASSUME OnePool, ControlInv, NEW t \in Thread, NEW u \in Thread,
         pc[t] \in UnderLock, pc[u] \in UnderLock
  PROVE  t = u
<1>1. CASE t # 0 /\ u # 0
  <2>1. pool[t] = "syspool" /\ pool[u] = "syspool"
    BY <1>1 DEF ControlInv, OnePool, UnderLock, InsideMalloc
  <2> QED BY <2>1 DEF ControlInv
<1>2. \A v \in Thread \ {0} : pc[0] \in UnderLock => pc[v] \notin UnderLock
  BY DEF ControlInv, UnderLock, MainRuns
<1> QED BY <1>1, <1>2

\* Rounding a length to lines does not shorten it, and does not wrap where
\* it fits.
LEMMA RoundedFits ==
  ASSUME NEW len \in Nat, ArenaEnd + len + Line <= Word
  PROVE  Rounded(len) \in Nat /\ len <= Rounded(len) /\ ArenaEnd + Rounded(len) < Word
<1>1. Word \in Nat \ {0} /\ Line \in Nat \ {0} /\ ArenaEnd \in Nat
  BY ArenaAssumption
<1> DEFINE x == len + Line - 1
<1>2. x \in Nat /\ x \in 0 .. Word - 1
  BY <1>1
<1>3. x % Word = x
  <2>1. x = Word * 0 + x
    BY <1>1, <1>2
  <2> QED BY <1>1, <1>2, <2>1, ModUnique
<1>4. x = Line * (x \div Line) + (x % Line) /\ x % Line \in 0 .. Line - 1
      /\ x \div Line \in Nat
  <2> HIDE DEF x
  <2> QED BY <1>1, <1>2, DivMod, ZenonT(30)
<1>5. Line * (x \div Line) = (x \div Line) * Line
  <2>1. \A a, b \in Nat : a * b = b * a
    OBVIOUS
  <2>2. x \div Line \in Nat /\ Line \in Nat
    BY <1>1, <1>4
  <2> QED BY <2>1, <2>2
<1>6. Rounded(len) = (x \div Line) * Line
  BY <1>3 DEF Rounded
<1>7. ASSUME NEW p, NEW r \in 0 .. Line - 1, p \in Nat, x = p + r
      PROVE  len <= p /\ ArenaEnd + p < Word
  BY <1>1, <1>7
<1>8. (x \div Line) * Line \in Nat
  BY <1>1, <1>4
<1> QED BY <1>4, <1>5, <1>6, <1>7, <1>8

\* The top is where the last region ends or further up, and whoever is about
\* to store it has loaded what it still is.
ArenaInv ==
  /\ top \in Nat /\ (top # 0 => ArenaStart <= top)
  /\ request \in [Thread -> [len : Nat, ret : Nat]]
  /\ regions \in Seq([base : Nat, len : Nat])
  /\ \A t \in Thread : pc[t] = "m_store" =>
       request[t].ret = Base /\ Base <= ArenaEnd /\ request[t].len \in Lens
  /\ \A i \in 1 .. Len(regions) : regions[i].base + regions[i].len <= Base
  /\ RegionsApart

\* The arena begins empty.
LEMMA ArenaInvInit == Init => ArenaInv
<1> SUFFICES ASSUME Init PROVE ArenaInv
  OBVIOUS
<1>1. top = 0 /\ regions = <<>> /\ request \in [Thread -> [len : Nat, ret : Nat]]
  BY DEF Init, ArenaInit
<1>2. \A t \in Thread : pc[t] # "m_store"
  BY ZenonT(30) DEF Init
<1>3. regions \in Seq([base : Nat, len : Nat]) /\ Len(regions) = 0
  BY <1>1
<1>4. \A i \in 1 .. Len(regions) : FALSE
  BY <1>3
<1> QED BY <1>1, <1>2, <1>3, <1>4 DEF ArenaInv, RegionsApart

\* A caller loads the top.
LEMMA LoadStep ==
  ASSUME ArenaInv, ControlInv, NEW t \in Thread, NEW len \in Lens, MmapLoad(t, len),
         pc' = [pc EXCEPT ![t] = "m_store"]
  PROVE  ArenaInv'
<1>1. len \in Nat /\ ArenaStart \in Nat /\ ArenaStart <= ArenaEnd
  BY ArenaAssumption
<1>2. UNCHANGED <<top, regions>> /\ Base' = Base /\ Base \in Nat /\ Base <= ArenaEnd
  BY <1>1 DEF MmapLoad, Base, ArenaInv
<1>3. RegionsApart'
  BY <1>2, ZenonT(30) DEF ArenaInv, RegionsApart
<1>4. request' \in [Thread -> [len : Nat, ret : Nat]]
  BY <1>1, <1>2 DEF MmapLoad, ArenaInv
<1>5. request'[t].ret = Base /\ request'[t].len = len
  BY DEF MmapLoad, ArenaInv
<1>6. \A u \in Thread \ {t} : request'[u] = request[u] /\ pc'[u] = pc[u]
  BY DEF MmapLoad, ArenaInv, ControlInv
<1> QED BY <1>2, <1>3, <1>4, <1>5, <1>6 DEF ArenaInv

\* The length and the members of a sequence.
LEMMA SeqFacts ==
  ASSUME NEW S, NEW s \in Seq(S)
  PROVE  Len(s) \in Nat /\ \A i \in 1 .. Len(s) : s[i] \in S
OBVIOUS

\* It stores it, when nobody else has: the region lies above all others.
LEMMA StoreStep ==
  ASSUME Fits, ArenaInv, ControlInv, NEW t \in Thread, pc[t] = "m_store", MmapStore(t),
         \A u \in Thread \ {t} : pc'[u] # "m_store", pc'[t] # "m_store"
  PROVE  ArenaInv'
<1> DEFINE n == request[t].len
           r == [base |-> Base, len |-> n]
<1>1. /\ request[t].ret = Base /\ Base <= ArenaEnd /\ n \in Lens /\ n \in Nat
      /\ request[t].len = n
  BY DEF ArenaInv
<1>2. ArenaStart \in Nat \ {0} /\ ArenaEnd \in Nat /\ Word \in Nat \ {0}
  BY ArenaAssumption
<1>3. Base \in Nat /\ ArenaStart <= Base
  BY <1>2 DEF ArenaInv, Base
<1>4. Rounded(n) \in Nat /\ n <= Rounded(n) /\ ArenaEnd + Rounded(n) < Word
  BY <1>1, RoundedFits DEF Fits
<1>5. NewTop(t) = Base + Rounded(n)
  <2>1. Base + Rounded(n) \in 0 .. Word - 1
    BY <1>1, <1>2, <1>3, <1>4
  <2>2. NewTop(t) = (Base + Rounded(n)) % Word
    BY <1>1 DEF NewTop
  <2>3. ASSUME NEW x \in 0 .. Word - 1 PROVE x % Word = x
    <3>1. x = Word * 0 + x /\ x \in Nat
      BY <1>2
    <3> QED BY <1>2, <3>1, ModUnique
  <2> QED BY <2>1, <2>2, <2>3
<1>6. /\ top' = Base + Rounded(n) /\ top' \in Nat \ {0} /\ ArenaStart <= top'
      /\ Base' = top' /\ Base + n <= Base' /\ Base <= Base'
  <2>1. top' = Base + Rounded(n)
    BY <1>5 DEF MmapStore
  <2>2. Base + Rounded(n) \in Nat \ {0} /\ ArenaStart <= Base + Rounded(n)
        /\ Base + n <= Base + Rounded(n) /\ Base <= Base + Rounded(n)
    BY <1>1, <1>2, <1>3, <1>4
  <2>3. Base' = IF top' = 0 THEN ArenaStart ELSE top'
    BY DEF Base
  <2> HIDE DEF n
  <2> QED BY <2>1, <2>2, <2>3
<1>7. UNCHANGED request
  BY DEF MmapStore
<1>8. /\ regions \in Seq([base : Nat, len : Nat]) /\ Len(regions) \in Nat
      /\ \A i \in 1 .. Len(regions) : regions[i].base \in Nat /\ regions[i].len \in Nat
  <2>1. regions \in Seq([base : Nat, len : Nat])
    BY DEF ArenaInv
  <2>2. \A i \in 1 .. Len(regions) : regions[i] \in [base : Nat, len : Nat]
    BY <2>1, SeqFacts, ZenonT(30)
  <2>3. Len(regions) \in Nat
    BY <2>1, SeqFacts, ZenonT(30)
  <2> QED BY <2>1, <2>2, <2>3
<1>9. CASE NewTop(t) > ArenaEnd
  <2>1. regions' = regions
    BY <1>9 DEF MmapStore
  <2>2. \A i \in 1 .. Len(regions) : regions[i].base + regions[i].len <= Base'
    <3> TAKE i \in 1 .. Len(regions)
    <3>1. regions[i].base + regions[i].len <= Base
      BY DEF ArenaInv
    <3>2. regions[i].base + regions[i].len \in Nat
      <4>1. regions[i].base \in Nat /\ regions[i].len \in Nat
        BY <1>8, ZenonT(30)
      <4> QED BY <4>1
    <3> QED BY <1>3, <1>6, <3>1, <3>2
  <2>3. RegionsApart'
    BY <2>1, ZenonT(30) DEF ArenaInv, RegionsApart
  <2> QED BY <1>6, <1>7, <2>1, <2>2, <2>3 DEF ArenaInv
<1>10. CASE ~(NewTop(t) > ArenaEnd)
  <2>1. top' <= ArenaEnd /\ regions' = Append(regions, r)
    <3>1. NewTop(t) = top' /\ top' \in Nat /\ ArenaStart <= top'
      BY <1>5, <1>6
    <3>2. top' <= ArenaEnd /\ ~(NewTop(t) > ArenaEnd \/ NewTop(t) < ArenaStart)
      <4> HIDE DEF n, r
      <4> QED BY <1>2, <1>10, <3>1
    <3>3. regions' = Append(regions, [base |-> request[t].ret, len |-> request[t].len])
      BY <3>2, ZenonT(30) DEF MmapStore
    <3> QED BY <1>1, <3>2, <3>3
  <2>2. r \in [base : Nat, len : Nat] /\ r.base = Base /\ r.len = n
    BY <1>1, <1>3
  <2> HIDE DEF r, n
  <2>3. /\ regions' \in Seq([base : Nat, len : Nat])
        /\ Len(regions') = Len(regions) + 1 /\ regions'[Len(regions) + 1] = r
        /\ \A i \in 1 .. Len(regions) : regions'[i] = regions[i]
    BY <1>8, <2>1, <2>2
  <2>4. \A i \in 1 .. Len(regions') : i \in 1 .. Len(regions) \/ i = Len(regions) + 1
    BY <1>8, <2>3
  <2>5. \A i \in 1 .. Len(regions) : regions'[i].base + regions'[i].len <= Base
    BY <2>3, ZenonT(30) DEF ArenaInv
  <2>6. \A i \in 1 .. Len(regions') : regions'[i].base + regions'[i].len <= Base'
    <3> TAKE i \in 1 .. Len(regions')
    <3>1. CASE i = Len(regions) + 1
      BY <1>6, <2>2, <2>3, <3>1
    <3>2. CASE i \in 1 .. Len(regions)
      <4>1. regions'[i].base + regions'[i].len <= Base
        BY <2>5, <3>2
      <4>2. regions'[i].base + regions'[i].len \in Nat
        <5>1. regions'[i] = regions[i]
          BY <2>3, <3>2, ZenonT(30)
        <5>2. regions[i].base \in Nat /\ regions[i].len \in Nat
          BY <1>8, <3>2, ZenonT(30)
        <5> QED BY <5>1, <5>2
      <4> QED BY <1>3, <1>6, <4>1, <4>2
    <3> QED BY <2>4, <3>1, <3>2
  <2>7. ASSUME NEW i \in 1 .. Len(regions')
        PROVE  LET q == regions'[i] IN
               /\ ArenaStart <= q.base /\ q.base + q.len - 1 <= ArenaEnd
               /\ \A j \in 1 .. i - 1 :
                    \/ q.base + q.len <= regions'[j].base
                    \/ regions'[j].base + regions'[j].len <= q.base
    <3>1. CASE i = Len(regions) + 1
      <4>1. regions'[i] = r /\ \A j \in 1 .. i - 1 : j \in 1 .. Len(regions)
        BY <1>8, <2>3, <3>1
      <4>2. ArenaStart <= Base /\ Base + n - 1 <= ArenaEnd
        BY <1>1, <1>2, <1>3, <1>6, <2>1
      <4> QED BY <2>2, <2>5, <4>1, <4>2
    <3>2. CASE i \in 1 .. Len(regions)
      <4>0. \A j \in 1 .. i - 1 : j \in 1 .. Len(regions)
        BY <1>8, <3>2
      <4>1. regions'[i] = regions[i]
            /\ \A j \in 1 .. i - 1 : j \in 1 .. Len(regions) /\ regions'[j] = regions[j]
        BY <2>3, <3>2, <4>0, ZenonT(30)
      <4> QED BY <3>2, <4>1, ZenonT(30) DEF ArenaInv, RegionsApart
    <3> QED BY <2>4, <3>1, <3>2
  <2>8. RegionsApart'
    BY <2>7 DEF RegionsApart
  <2> QED BY <1>6, <1>7, <2>3, <2>6, <2>8, ZenonT(30) DEF ArenaInv
<1> QED BY <1>9, <1>10

\* Every step keeps the arena in order.
LEMMA ArenaStep ==
  ASSUME OnePool, Fits, ControlInv, ArenaInv, [Next]_vars
  PROVE  ArenaInv'
<1>0. ASSUME UNCHANGED arena, \A u \in Thread : pc'[u] = "m_store" => pc[u] = "m_store"
      PROVE  ArenaInv'
  BY <1>0 DEF ArenaInv, RegionsApart, Base, arena
<1>1. CASE UNCHANGED vars
  BY <1>0, <1>1 DEF vars
<1>2. ASSUME NEW t \in Thread, NEW l, l # "m_store", pc' = [pc EXCEPT ![t] = l],
             UNCHANGED arena
      PROVE  ArenaInv'
  BY <1>0, <1>2 DEF ControlInv
<1>3. ASSUME NEW t \in Thread, InMalloc(t) PROVE ArenaInv'
  <2>1. CASE GetMSpace(t)
    BY <2>1, <1>2, ZenonT(30) DEF GetMSpace, Goto
  <2>2. CASE MspaceMore(t)
    BY <2>2, <1>2, LoadStep DEF MspaceMore, MmapFull, Goto
  <2>3. CASE MspaceStore(t)
    <3>1. pc[t] = "m_store" /\ MmapStore(t) /\ pc' = [pc EXCEPT ![t] = "m_unlock"]
      BY <2>3 DEF MspaceStore, At, Goto
    <3>2. pc'[t] # "m_store" /\ \A u \in Thread \ {t} : pc'[u] = pc[u]
      BY <3>1 DEF ControlInv
    <3>3. \A u \in Thread \ {t} : pc'[u] # "m_store"
      BY <3>1, <3>2, OneInMmap DEF UnderLock
    <3> QED BY <3>1, <3>2, <3>3, StoreStep
  <2>4. CASE MspaceUnlock(t)
    <3>1. pc' = [pc EXCEPT ![t] = back[t]] /\ UNCHANGED arena /\ pc[t] = "m_unlock"
      BY <2>4 DEF MspaceUnlock, At, Goto
    <3>2. back[t] # "m_store"
      BY <3>1 DEF ControlInv, InsideMalloc
    <3> QED BY <3>1, <3>2, <1>2, ZenonT(30)
  <2> QED BY <1>3, <2>1, <2>2, <2>3, <2>4 DEF InMalloc
<1>4. ASSUME NEW t \in Thread, Step(t) PROVE ArenaInv'
  <2>1. CASE t = 0 /\ MainStep
    BY <2>1, <1>2, MainProgram, MallocCalled, FlagSet
       DEF MainStep, Moves, InsideMalloc
  <2>2. CASE MutexLock(t) \/ MutexUnlock(t)
    BY <2>2, <1>2, MutexProgram DEF Moves, InsideMalloc
  <2>3. CASE WorkerStep(t)
    BY <2>3, <1>2, WorkerProgram, OnceProgram, MallocCalled
       DEF WorkerStep, Moves, InsideMalloc
  <2> QED BY <1>3, <1>4, <2>1, <2>2, <2>3 DEF Step
<1> QED BY <1>1, <1>4 DEF Next, Done

\* What mmap hands out never overlaps, though it takes no lock of its own, as
\* long as all of malloc goes through one pool and no request wraps.
THEOREM MmapRegionsApart ==
  ASSUME OnePool, Fits
  PROVE  Spec => []RegionsApart
<1>1. ControlInv /\ ArenaInv /\ [Next]_vars => ArenaInv'
  BY ArenaStep
<1>2. ArenaInv => RegionsApart
  BY DEF ArenaInv
<1> QED BY <1>1, <1>2, ControlInit, ControlStep, ArenaInvInit, PTL DEF Spec

-----------------------------------------------------------------------------
(* The words that nothing else is said about.                              *)

\* The words of start-up, the condition and the arena.
WordsInv ==
  /\ reent \subseteq Thread /\ mutex \in Thread \cup {Nobody}
  /\ cond \in {0, 1} /\ cond_mutex \in BOOLEAN
  /\ top \in 0 .. Word - 1
  /\ request \in [Thread -> [len : 0 .. Word - 1, ret : 0 .. Word - 1]]

\* The words at start-up.
LEMMA WordsInit == Init => WordsInv
<1> SUFFICES ASSUME Init PROVE WordsInv
  OBVIOUS
<1>1. Word \in Nat \ {0}
  BY ArenaAssumption
<1>2. 0 \in 0 .. Word - 1
  BY <1>1
<1> QED BY <1>2, ZenonT(30) DEF Init, ArenaInit, WordsInv

\* mmap keeps its word a word.
LEMMA ArenaWords ==
  ASSUME WordsInv, NEW t \in Thread,
         MmapStore(t) \/ \E len \in Lens : MmapLoad(t, len)
  PROVE  /\ top' \in 0 .. Word - 1
         /\ request' \in [Thread -> [len : 0 .. Word - 1, ret : 0 .. Word - 1]]
<1>0. Word \in Nat \ {0} /\ Line \in Nat \ {0} /\ ArenaStart \in 0 .. Word - 1
  BY ArenaAssumption
<1>1. CASE MmapStore(t)
  <2>1. request[t].len \in 0 .. Word - 1 /\ request[t].ret \in 0 .. Word - 1
    BY DEF WordsInv
  <2>2. PICK r \in Nat, n \in Nat : r = request[t].ret /\ n = request[t].len
    BY <1>0, <2>1
  <2>3. Rounded(n) \in Nat
    <3>1. n + Line - 1 \in Nat
      BY <1>0, <2>2
    <3>2. PICK y \in Nat : y = (n + Line - 1) % Word
      BY <1>0, <3>1, DivMod
    <3>3. y \div Line \in Nat
      BY <1>0, <3>2, DivMod
    <3> QED BY <1>0, <3>2, <3>3 DEF Rounded
  <2>4. PICK z \in Nat : z = r + Rounded(n)
    BY <2>2, <2>3
  <2>5. z % Word \in 0 .. Word - 1
    BY <1>0, <2>4, DivMod
  <2>6. NewTop(t) = z % Word
    BY <2>2, <2>4 DEF NewTop
  <2> QED BY <1>1, <2>5, <2>6 DEF MmapStore, WordsInv
<1>2. CASE \E len \in Lens : MmapLoad(t, len)
  <2>1. Base \in 0 .. Word - 1 /\ Lens \subseteq 0 .. Word - 1
    BY <1>0, ArenaAssumption DEF Base, WordsInv
  <2>2. PICK len \in Lens : request' = [request EXCEPT ![t] = [len |-> len, ret |-> Base]]
                            /\ top' = top
    BY <1>2, ZenonT(30) DEF MmapLoad
  <2> QED BY <2>1, <2>2 DEF WordsInv
<1> QED BY <1>1, <1>2

\* Every step keeps the words.
LEMMA WordsStep == ControlInv /\ WordsInv /\ [Next]_vars => WordsInv'
<1> SUFFICES ASSUME ControlInv, WordsInv, [Next]_vars PROVE WordsInv'
  OBVIOUS
<1>0. ASSUME UNCHANGED arena PROVE UNCHANGED <<top, request>>
  BY <1>0 DEF arena
<1>1. CASE UNCHANGED vars
  BY <1>1, <1>0 DEF vars, startup, condition, WordsInv
<1>2. ASSUME NEW t \in Thread, InMalloc(t) PROVE WordsInv'
  <2>1. UNCHANGED <<reent, mutex, cond, cond_mutex>>
    BY <1>2, ZenonT(30)
       DEF InMalloc, GetMSpace, MspaceMore, MspaceStore, MspaceUnlock, rest, startup, condition
  <2>2. \/ UNCHANGED arena \/ MmapStore(t) \/ \E len \in Lens : MmapLoad(t, len)
    BY <1>2, ZenonT(30) DEF InMalloc, GetMSpace, MspaceMore, MspaceStore, MspaceUnlock, MmapFull
  <2> QED BY <1>0, <2>1, <2>2, ArenaWords DEF WordsInv
<1>3. ASSUME MainStep PROVE WordsInv'
  <2>1. CASE CreatePool \/ InitPool \/ SetReent \/ SetFlag \/ PremainMain
    BY <1>0, <2>1, ZenonT(30)
       DEF CreatePool, InitPool, SetReent, SetFlag, PremainMain, WordsInv, startup, condition
  <2>2. CASE CondInit \/ LetGo \/ CondDestroy
    BY <1>0, <2>2, ZenonT(30)
       DEF CondInit, LetGo, CondDestroy, WordsInv, locked, startup, condition
  <2>4. CASE CondBroadcast
    <3>1. cond' = cond
      BY <2>4 DEF CondBroadcast, broadcast_update, bcast_u, FlagAddr
    <3> QED BY <1>0, <2>4, <3>1, ZenonT(30) DEF CondBroadcast, WordsInv, locked, startup
  <2>3. CASE Scan \/ StoreArg \/ StoreFunc \/ JoinWait \/ JoinValue
    BY <1>0, <2>3, ZenonT(30)
       DEF Scan, StoreArg, StoreFunc, JoinWait, JoinValue, WordsInv, others, startup, condition
  <2> QED BY <1>3, <2>1, <2>2, <2>3, <2>4 DEF MainStep
<1>4. ASSUME NEW t \in Thread,
             MutexLock(t) \/ MutexUnlock(t) \/ CondWait(t) \/ CondUnlock(t)
      PROVE  WordsInv'
  BY <1>0, <1>4, ZenonT(30)
     DEF MutexLock, MutexUnlock, CondWait, CondUnlock, WordsInv, locked, startup,
         condition
<1>5. ASSUME NEW t \in Thread, WorkerStep(t) PROVE WordsInv'
  <2>1. CASE FlagSeen(t) \/ Once(t) \/ OnceInit(t) \/ Allocate(t)
    BY <1>0, <2>1, ZenonT(30)
       DEF FlagSeen, Once, OnceInit, Allocate, WordsInv, rest, startup, condition
  <2>2. CASE Poll(t) \/ StoreRetval(t) \/ ClearFunc(t)
    BY <1>0, <2>2, ZenonT(30) DEF Poll, StoreRetval, ClearFunc, WordsInv, others, startup, condition
  <2> QED BY <1>4, <1>5, <2>1, <2>2 DEF WorkerStep
<1> QED BY <1>1, <1>2, <1>3, <1>4, <1>5 DEF Next, Step, Done

-----------------------------------------------------------------------------
(* The rounds of the program.                                              *)

\* The job before the first of the round that job x belongs to.
Before(x) == x - 1 - ((x - 1) % PerRound)

\* The rounds cut the jobs into pieces of PerRound.
LEMMA RoundFacts ==
  ASSUME NEW x \in Job
  PROVE  /\ Before(x) \in Nat /\ Before(x) < x /\ x <= Before(x) + PerRound
         /\ Before(x) + 1 \in Job /\ Before(x) + PerRound \in Job
         /\ x % PerRound = 0 <=> x = Before(x) + PerRound
         /\ Before(Before(x) + 1) = Before(x)
         /\ x # Before(x) + PerRound => x + 1 \in Job /\ Before(x + 1) = Before(x)
         /\ Before(Before(x) + 1 + PerRound) = Before(x) + PerRound
<1> DEFINE n == PerRound
           m == PerRound * Rounds
<1>1. n \in Nat \ {0} /\ Rounds \in Nat \ {0} /\ m \in Nat /\ x \in 1 .. m
  BY PthreadsAssumption DEF Job
<1>2. PICK q \in Nat, r \in 0 .. n - 1 : x - 1 = n * q + r
  <2>1. x - 1 \in Nat
    BY <1>1
  <2> HIDE DEF n
  <2>2. /\ (x - 1) % n \in 0 .. n - 1 /\ (x - 1) \div n \in Nat
        /\ x - 1 = n * ((x - 1) \div n) + ((x - 1) % n)
    BY <1>1, <2>1, DivMod, ZenonT(30)
  <2> QED BY <2>2, ZenonT(30)
<1>3. (x - 1) % n = r
  BY <1>1, <1>2, ModUnique, x - 1 \in Nat
<1>4. n * q \in Nat /\ n * (q + 1) = n * q + n
  BY <1>1
<1>5. Before(x) = n * q
  <2>1. Before(x) = x - 1 - r
    BY <1>3 DEF Before
  <2> QED BY <1>1, <1>2, <1>4, <2>1
<1>6. n * (q + 1) <= m
  <2>1. ASSUME q >= Rounds PROVE FALSE
    <3>1. n * q >= n * Rounds
      BY <1>1, <2>1
    <3> QED BY <1>1, <1>2, <1>4, <3>1
  <2>2. q + 1 <= Rounds
    BY <1>1, <2>1
  <2> QED BY <1>1, <2>2
<1>7. Before(n * q + 1) = n * q
  <2>1. (n * q) % n = 0
    BY <1>1, <1>4, ModUnique, n * q = n * q + 0, 0 \in 0 .. n - 1
  <2> QED BY <1>4, <2>1 DEF Before
<1>8. Before(n * q + 1 + n) = n * q + n
  <2>1. (n * (q + 1)) % n = 0
    BY <1>1, <1>4, ModUnique, n * (q + 1) = n * (q + 1) + 0, 0 \in 0 .. n - 1, q + 1 \in Nat
  <2> QED BY <1>1, <1>4, <2>1 DEF Before
<1>9. x % n = 0 <=> r = n - 1
  <2>1. (x - 1 + 1) % n = IF (x - 1) % n = n - 1 THEN 0 ELSE ((x - 1) % n) + 1
    BY <1>1, ModInc, x - 1 \in Nat, ZenonT(30)
  <2>2. x - 1 + 1 = x
    BY <1>1
  <2> QED BY <1>1, <1>3, <2>1, <2>2
<1>10. ASSUME r # n - 1 PROVE Before(x + 1) = n * q
  <2>1. x = n * q + (r + 1) /\ r + 1 \in 0 .. n - 1 /\ x \in Nat
    BY <1>1, <1>2, <1>4, <1>10
  <2>2. x % n = r + 1
    BY <1>1, <2>1, ModUnique
  <2>3. x + 1 - 1 = x
    BY <2>1
  <2> QED BY <1>4, <2>1, <2>2, <2>3 DEF Before
<1> DEFINE b == n * q
<1>11. /\ b \in Nat /\ x - 1 = b + r /\ b + n <= m
       /\ Before(x) = b /\ Before(b + 1) = b /\ Before(b + 1 + n) = b + n
       /\ x % n = 0 <=> r = n - 1
       /\ r # n - 1 => Before(x + 1) = b
  BY <1>2, <1>4, <1>5, <1>6, <1>7, <1>8, <1>9, <1>10
<1> HIDE DEF b
<1>12. Job = 1 .. m
  BY DEF Job
<1> HIDE DEF m
<1> QED BY <1>1, <1>11, <1>12

-----------------------------------------------------------------------------
(* pthread_create and pthread_join: the slots, and the steps that leave    *)
(* them alone.                                                             *)

\* The types of the slots and of what the program keeps.
SlotTypes ==
  /\ funcptr \in [Slot -> {NoFunc, MainFunc, Routine}]
  /\ funcarg \in [Slot -> Job \cup {NULL}] /\ retval \in [Slot -> Job \cup {NULL}]
  /\ index \in 0 .. Slots
  /\ job \in [Thread -> Job \cup {NULL}] /\ job[0] \in Job
  /\ tid \in [Job -> Slot \cup {Nobody}] /\ got \in [Job -> Job \cup {NULL}]
  /\ runs \in [Job -> Nat]
  /\ go \in BOOLEAN

\* The jobs below Created have been through pthread_create, those below
\* Joined through pthread_join.
Created ==
  IF pc[0] \in {"scan", "arg", "func"} THEN job[0]
  ELSE IF pc[0] \in {"lock", "go", "broadcast", "unlock", "join", "value", "c_destroy", "exit"}
       THEN Before(job[0]) + PerRound + 1
       ELSE Before(job[0]) + 1
Joined ==
  IF pc[0] \in {"join", "value"} THEN job[0]
  ELSE IF pc[0] \in {"c_destroy", "exit"} THEN Before(job[0]) + PerRound + 1
       ELSE Before(job[0]) + 1

\* What a slot holds until its thread has cleared it, and then until its job
\* is joined.
Idle(t) == pc[t] \in {"boot", "poll"}
Working(j, s) ==
  /\ funcptr[s] = Routine /\ funcarg[s] = j
  /\ runs[j] = IF Idle(s) THEN 0 ELSE 1
  /\ ~Idle(s) => job[s] = j
  /\ pc[s] = "clear" => retval[s] = j
Finished(j, s) ==
  funcptr[s] = NoFunc /\ pc[s] = "poll" /\ runs[j] = 1 /\ retval[s] = j /\ go

\* The life of job j when c and d are Created and Joined.  The slots past the
\* threads keep what is put into them.
JobInv(j, c, d) ==
  /\ j >= c => tid[j] = Nobody
  /\ j >= d => got[j] = NULL
  /\ j < d => tid[j] \notin Thread \/ got[j] # NULL
  /\ tid[j] # 0
  /\ tid[j] = Nobody => runs[j] = 0 /\ got[j] = NULL
  /\ tid[j] \in Slot \ Thread => got[j] = NULL /\ runs[j] = 0 /\ funcptr[tid[j]] = Routine
  /\ tid[j] \in Thread /\ got[j] = NULL => Working(j, tid[j]) \/ Finished(j, tid[j])
  /\ got[j] # NULL => got[j] = j /\ runs[j] = 1

\* A slot in use has a live job, and no two live jobs have one slot.
OwnerInv ==
  /\ \A j, k \in Live : tid[j] = tid[k] => j = k
  /\ \A t \in Thread \ {0} :
       /\ funcptr[t] \in {NoFunc, Routine}
       /\ funcptr[t] = Routine => \E j \in Live : tid[j] = t
       /\ ~Idle(t) => funcptr[t] = Routine

\* While jobs are created nobody is past the condition.
GoInv ==
  /\ pc[0] \in {"scan", "arg", "func", "lock", "go"} => ~go
  /\ ~go => \A t \in Thread \ {0} : pc[t] \notin {"unlock", "return", "clear"}

\* What thread 0 knows of the slot it is about to fill or to join.
MainInv ==
  /\ funcptr[0] = (IF init_flag /\ pc[0] # "premain" THEN MainFunc ELSE NoFunc)
  /\ pc[0] \notin {"scan", "arg", "func", "join", "value"} => job[0] = Before(job[0]) + 1
  /\ pc[0] \in {"arg", "func"} => index < Slots /\ funcptr[index] = NoFunc
  /\ pc[0] = "func" => funcarg[index] = job[0]
  /\ pc[0] = "value" => tid[job[0]] \in Thread /\ funcptr[tid[job[0]]] = NoFunc

SlotsInv ==
  /\ SlotTypes
  /\ \A j \in Job : JobInv(j, Created, Joined)
  /\ OwnerInv /\ GoInv /\ MainInv

\* Threads have slots, and a slot is not Nobody.
LEMMA ThreadsHaveSlots ==
  /\ 0 \in Thread /\ Thread \subseteq Slot /\ Nobody \notin Slot /\ Slot \subseteq Nat
  /\ \A s \in Slot : s < Slots
  /\ \A i \in 0 .. Slots : i < Slots => i \in Slot
  /\ NULL \notin Job /\ Job \subseteq Nat /\ 1 \in Job /\ Before(1) = 0
<1>1. /\ 0 \in Thread /\ Thread \subseteq Slot /\ Nobody \notin Slot /\ Slot \subseteq Nat
      /\ \A s \in Slot : s < Slots
      /\ \A i \in 0 .. Slots : i < Slots => i \in Slot
  BY PthreadsAssumption DEF Slot, Nobody
<1>2. NULL \notin Job /\ Job \subseteq Nat
  BY DEF NULL, Job
<1>3. PerRound * Rounds >= 1 /\ PerRound * Rounds \in Nat
  BY PthreadsAssumption
<1>4. 1 \in Job
  BY <1>3 DEF Job
<1>5. Before(1) \in Nat /\ Before(1) < 1
  BY <1>4, RoundFacts
<1> QED BY <1>1, <1>2, <1>4, <1>5

\* Nothing is created at start-up.
LEMMA SlotsInit == Init => SlotsInv
<1> SUFFICES ASSUME Init PROVE SlotsInv
  OBVIOUS
<1>1. /\ pc[0] = "pool" /\ job[0] = 1 /\ ~init_flag /\ ~go
      /\ \A t \in Thread \ {0} : pc[t] = "boot"
      /\ funcptr = [s \in Slot |-> NoFunc] /\ tid = [j \in Job |-> Nobody]
      /\ got = [j \in Job |-> NULL] /\ runs = [j \in Job |-> 0]
  BY ThreadsHaveSlots DEF Init
<1>2. SlotTypes
  <2>0. Slots \in Nat /\ index = 0
    BY PthreadsAssumption DEF Init
  <2>1. index \in 0 .. Slots
    BY <2>0
  <2>4. go \in BOOLEAN
    BY ZenonT(30) DEF Init
  <2>2. /\ funcptr \in [Slot -> {NoFunc, MainFunc, Routine}]
        /\ funcarg \in [Slot -> Job \cup {NULL}] /\ retval \in [Slot -> Job \cup {NULL}]
        /\ tid \in [Job -> Slot \cup {Nobody}] /\ got \in [Job -> Job \cup {NULL}]
    BY DEF Init
  <2>3. runs \in [Job -> Nat] /\ job \in [Thread -> Job \cup {NULL}]
    BY ThreadsHaveSlots DEF Init
  <2> QED BY <1>1, <2>1, <2>2, <2>3, <2>4, ThreadsHaveSlots DEF SlotTypes
<1>3. Created = 1 /\ Joined = 1
  BY <1>1, ThreadsHaveSlots DEF Created, Joined
<1>4. \A j \in Job : JobInv(j, 1, 1)
  BY <1>1, ThreadsHaveSlots DEF JobInv, Job, NULL, Nobody
<1>5. OwnerInv
  BY <1>1, ThreadsHaveSlots DEF OwnerInv, Live, Idle, NoFunc, Routine
<1>6. GoInv /\ MainInv
  BY <1>1, ThreadsHaveSlots DEF GoInv, MainInv
<1> QED BY <1>2, <1>3, <1>4, <1>5, <1>6 DEF SlotsInv

\* Thread 0 goes on to the next job of the round or back to its first.
LEMMA JobGoesOn ==
  ASSUME ControlInv, SlotTypes, NEW again, NEW then, NextJob(again, then)
  PROVE  /\ job' \in [Thread -> Job \cup {NULL}] /\ job'[0] \in Job
         /\ Before(job'[0]) = Before(job[0])
         /\ \A t \in Thread \ {0} : job'[t] = job[t] /\ pc'[t] = pc[t]
         /\ \/ /\ pc'[0] = then /\ job[0] = Before(job[0]) + PerRound
               /\ job'[0] = Before(job[0]) + 1
            \/ pc'[0] = again /\ job'[0] = job[0] + 1
<1> DEFINE x == job[0]
<1>0. x \in Job /\ 0 \in Thread /\ x \in Nat /\ PerRound \in Nat
  BY ThreadsHaveSlots, PthreadsAssumption, ZenonT(30) DEF SlotTypes
<1>1. PICK y : y = IF RoundEnd THEN x + 1 - PerRound ELSE x + 1
  OBVIOUS
<1>2. job' = [job EXCEPT ![0] = y] /\ pc' = [pc EXCEPT ![0] = IF RoundEnd THEN then ELSE again]
  BY <1>1 DEF NextJob, Goto
<1>3. /\ Before(x) \in Nat
      /\ Before(x) + 1 \in Job
      /\ x % PerRound = 0 <=> x = Before(x) + PerRound
      /\ Before(Before(x) + 1) = Before(x)
      /\ x # Before(x) + PerRound => x + 1 \in Job /\ Before(x + 1) = Before(x)
  BY <1>0, RoundFacts
<1>4. RoundEnd <=> x = Before(x) + PerRound
  BY <1>3 DEF RoundEnd
<1>5. /\ y \in Job /\ Before(y) = Before(x)
      /\ RoundEnd => y = Before(x) + 1
  <2>1. CASE RoundEnd
    <3>1. y = Before(x) + 1
      BY <1>0, <1>1, <1>3, <1>4, <2>1
    <3> QED BY <1>3, <3>1
  <2>2. CASE ~RoundEnd
    BY <1>1, <1>3, <1>4, <2>2
  <2> QED BY <2>1, <2>2
<1>6. /\ job'[0] = y /\ pc'[0] = IF RoundEnd THEN then ELSE again
      /\ \A t \in Thread \ {0} : job'[t] = job[t] /\ pc'[t] = pc[t]
      /\ job' \in [Thread -> Job \cup {NULL}]
  <2>1. pc \in [Thread -> Labels \cup {"none"}] /\ job \in [Thread -> Job \cup {NULL}]
    BY DEF ControlInv, SlotTypes
  <2> HIDE DEF x
  <2> QED BY <1>0, <1>2, <1>5, <2>1
<1> QED BY <1>1, <1>4, <1>5, <1>6

\* Who may be past the condition.
Late == {"unlock", "return", "clear"}

\* Steps that only move threads: nobody comes to or leaves the polling, clears
\* its slot or gets past the condition while go is not set.
LEMMA SlotsQuiet ==
  ASSUME SlotsInv, UNCHANGED <<slots, index, job, program, runs>>,
         Created' = Created, Joined' = Joined, MainInv',
         pc'[0] \in {"scan", "arg", "func", "lock", "go"} => ~go,
         \A t \in Thread \ {0} :
           /\ pc'[t] \in {"boot", "poll"} <=> pc[t] \in {"boot", "poll"}
           /\ pc'[t] = "clear" => pc[t] = "clear"
           /\ pc[t] = "poll" => pc'[t] = "poll"
           /\ pc'[t] \in Late => pc[t] \in Late \/ go
  PROVE  SlotsInv'
<1>0. UNCHANGED <<funcptr, funcarg, retval, tid, got, go>> /\ UNCHANGED <<job, runs, index>>
  BY DEF slots, program
<1>1. SlotTypes'
  BY <1>0 DEF SlotsInv, SlotTypes
<1>2. ASSUME NEW j \in Job PROVE JobInv(j, Created, Joined)'
  <2>1. JobInv(j, Created, Joined)
    BY DEF SlotsInv
  <2>2. CASE tid[j] \in Thread /\ got[j] = NULL
    <3>0. tid[j] # 0
      BY <2>1 DEF JobInv
    <3>1. Working(j, tid[j]) => Working(j, tid[j])'
      BY <1>0, <2>2, <3>0 DEF Working, Idle
    <3>2. Finished(j, tid[j]) => Finished(j, tid[j])'
      BY <1>0, <2>2, <3>0 DEF Finished
    <3>3. Working(j, tid[j])' \/ Finished(j, tid[j])'
      BY <2>1, <2>2, <3>1, <3>2 DEF JobInv
    <3> HIDE DEF Working, Finished
    <3> QED BY <1>0, <2>1, <3>3 DEF JobInv
  <2>3. CASE ~(tid[j] \in Thread /\ got[j] = NULL)
    BY <1>0, <2>1, <2>3 DEF JobInv
  <2> QED BY <2>2, <2>3
<1>3. OwnerInv'
  BY <1>0, ZenonT(30) DEF SlotsInv, OwnerInv, Live, Idle
<1>4. GoInv'
  BY <1>0 DEF SlotsInv, GoInv, Late
<1> QED BY <1>1, <1>2, <1>3, <1>4 DEF SlotsInv

\* The same for a step of one of the other threads.
LEMMA WorkerQuiet ==
  ASSUME ControlInv, SlotsInv, UNCHANGED <<slots, index, job, program, runs>>,
         UNCHANGED init_flag, NEW t \in Thread \ {0}, NEW l,
         pc' = [pc EXCEPT ![t] = l],
         l \in {"boot", "poll"} <=> pc[t] \in {"boot", "poll"},
         pc[t] = "poll" => l = "poll",
         l # "clear", l \in Late => pc[t] \in Late \/ go
  PROVE  SlotsInv'
<1>1. pc'[0] = pc[0] /\ \A u \in Thread \ {0} : pc'[u] = IF u = t THEN l ELSE pc[u]
  BY ThreadsHaveSlots DEF ControlInv
<1>2. Created' = Created /\ Joined' = Joined
  BY <1>1 DEF Created, Joined
<1>3. MainInv'
  BY <1>1 DEF slots, program, SlotsInv, MainInv
<1>4. pc'[0] \in {"scan", "arg", "func", "lock", "go"} => ~go
  BY <1>1 DEF SlotsInv, GoInv
<1> QED BY <1>1, <1>2, <1>3, <1>4, SlotsQuiet

\* The same for a step of thread 0, to be shown between which labels.
LEMMA MainQuiet ==
  ASSUME ControlInv, SlotsInv, UNCHANGED <<slots, index, job, program, runs>>, NEW l,
         pc' = [pc EXCEPT ![0] = l],
         \/ /\ ~init_flag /\ init_flag' = (l = "premain")
            /\ l \in MainStart \cup {"premain"}
         \/ init_flag' = init_flag /\ pc[0] = "lock" /\ l = "go"
         \/ init_flag' = init_flag /\ pc[0] = "broadcast" /\ l = "unlock"
         \/ init_flag' = init_flag /\ pc[0] = "unlock" /\ l = "join"
  PROVE  SlotsInv'
<1>0. pc'[0] = l /\ \A t \in Thread \ {0} : pc'[t] = pc[t]
  BY ThreadsHaveSlots DEF ControlInv
<1>1. \/ pc[0] \in MainStart /\ ~init_flag
      \/ pc[0] \in {"lock", "broadcast", "unlock"}
  BY DEF ControlInv
<1>2. job[0] = Before(job[0]) + 1
  BY <1>1 DEF SlotsInv, MainInv, MainStart, InsideMalloc
<1>3. Created' = Created /\ Joined' = Joined
  BY <1>0, <1>1, <1>2 DEF Created, Joined, MainStart, MainRuns, InsideMalloc, ControlInv
<1>4. MainInv'
  <2>1. UNCHANGED <<funcptr, tid>>
    BY DEF slots, program
  <2> QED BY <1>0, <1>1, <1>2, <2>1
          DEF SlotsInv, MainInv, MainStart, InsideMalloc, ControlInv, MainRuns
<1>5. pc'[0] \in {"scan", "arg", "func", "lock", "go"} => ~go
  BY <1>0, <1>1 DEF SlotsInv, GoInv, MainStart, InsideMalloc, ControlInv, MainRuns
<1> QED BY <1>0, <1>3, <1>4, <1>5, SlotsQuiet

\* The quiet steps, one by one.
LEMMA QuietSteps ==
  ASSUME ControlInv, SlotsInv, NEW t \in Thread,
         \/ t = 0 /\ (CreatePool \/ InitPool \/ SetReent \/ SetFlag \/ CondBroadcast)
         \/ InMalloc(t) \/ MutexLock(t) \/ MutexUnlock(t)
         \/ FlagSeen(t) \/ Once(t) \/ OnceInit(t) \/ Allocate(t)
         \/ CondWait(t) \/ CondUnlock(t)
  PROVE  SlotsInv'
<1> USE DEF At, Goto
<1>1. CASE t = 0 /\ (CreatePool \/ InitPool \/ SetReent \/ SetFlag)
  <2>1. /\ UNCHANGED <<slots, index, job, program, runs>>
        /\ \/ pc' = [pc EXCEPT ![0] = "m_lock"] /\ UNCHANGED init_flag
           \/ pc' = [pc EXCEPT ![0] = "premain"] /\ init_flag' = TRUE
        /\ pc[0] \in {"pool", "init_pool", "reent", "flag"}
    BY <1>1, ZenonT(30) DEF CreatePool, InitPool, SetReent, SetFlag, Malloc, startup
  <2>2. ~init_flag /\ init_flag \in BOOLEAN
    BY <2>1 DEF ControlInv, MainRuns
  <2>3. CASE pc' = [pc EXCEPT ![0] = "m_lock"] /\ UNCHANGED init_flag
    <3>1. init_flag' = ("m_lock" = "premain")
      BY <2>2, <2>3
    <3> QED BY <2>1, <2>2, <2>3, <3>1, MainQuiet, ZenonT(30) DEF MainStart, InsideMalloc
  <2>4. CASE pc' = [pc EXCEPT ![0] = "premain"] /\ init_flag' = TRUE
    BY <2>1, <2>2, <2>4, MainQuiet, ZenonT(30)
  <2> QED BY <2>1, <2>3, <2>4, ZenonT(30)
<1>2. CASE t = 0 /\ CondBroadcast
  BY <1>2, MainQuiet, ZenonT(30) DEF CondBroadcast, locked, startup
<1>3. CASE MutexLock(t) \/ MutexUnlock(t)
  <2>1. UNCHANGED <<slots, index, job, program, runs>> /\ UNCHANGED init_flag
    BY <1>3 DEF MutexLock, MutexUnlock, locked, startup
  <2>2. CASE t = 0
    <3>1. \/ pc[0] = "lock" /\ pc' = [pc EXCEPT ![0] = "go"]
          \/ pc[0] = "unlock" /\ pc' = [pc EXCEPT ![0] = "join"]
      BY <1>3, <2>2, WhoRuns DEF MutexLock, MutexUnlock, WantsMutex
    <3> QED BY <2>1, <3>1, MainQuiet
  <2>3. CASE t # 0
    <3>1. \/ pc[t] \in {"lock", "spin"} /\ pc' = [pc EXCEPT ![t] = "check"]
          \/ pc[t] = "unlock" /\ pc' = [pc EXCEPT ![t] = "return"]
      BY <1>3, <2>3 DEF MutexLock, MutexUnlock, WantsMutex
    <3> QED BY <2>1, <2>3, <3>1, WorkerQuiet DEF Late
  <2> QED BY <2>2, <2>3
<1>4. CASE InMalloc(t)
  <2>1. UNCHANGED <<slots, index, job, program, runs>> /\ UNCHANGED init_flag
    BY <1>4, ZenonT(30)
       DEF InMalloc, GetMSpace, MspaceMore, MspaceStore, MspaceUnlock, rest, startup
  <2>2. /\ pc[t] \in InsideMalloc
        /\ pc' = [pc EXCEPT ![t] = "m_load"] \/ pc' = [pc EXCEPT ![t] = "m_store"]
           \/ pc' = [pc EXCEPT ![t] = "m_unlock"] \/ pc' = [pc EXCEPT ![t] = back[t]]
    BY <1>4 DEF InMalloc, GetMSpace, MspaceMore, MspaceStore, MspaceUnlock, InsideMalloc
  <2>3. PICK l \in {"m_load", "m_store", "m_unlock", back[t]} : pc' = [pc EXCEPT ![t] = l]
    BY <2>2
  <2>4. CASE t = 0
    <3>1. ~init_flag /\ l \in MainStart /\ init_flag' = (l = "premain")
      BY <2>1, <2>2, <2>3, <2>4 DEF ControlInv, MainRuns, MainStart, InsideMalloc
    <3> QED BY <2>1, <2>3, <2>4, <3>1, MainQuiet, ZenonT(30)
  <2>5. CASE t # 0
    <3>1. l \in {"m_load", "m_store", "m_unlock", "lock"}
      BY <2>2, <2>3, <2>5 DEF ControlInv
    <3> QED BY <2>1, <2>2, <2>3, <2>5, <3>1, WorkerQuiet, ZenonT(30) DEF Late, InsideMalloc
  <2> QED BY <2>4, <2>5
<1>5. CASE FlagSeen(t)
  <2>1. t # 0
    BY <1>5 DEF FlagSeen, ControlInv, MainRuns, MainStart
  <2> QED BY <1>5, <2>1, WorkerQuiet, ZenonT(30) DEF FlagSeen, rest, startup, Late
<1>6. CASE Once(t) \/ OnceInit(t) \/ Allocate(t) \/ CondWait(t) \/ CondUnlock(t)
  <2>1. pc[t] \in {"once", "init", "alloc", "check", "wait"}
    BY <1>6, ZenonT(30) DEF Once, OnceInit, Allocate, CondWait, CondUnlock
  <2>2. t # 0
    BY <2>1, WhoRuns
  <2>3. UNCHANGED <<slots, index, job, program, runs>> /\ UNCHANGED init_flag
    BY <1>6, ZenonT(30)
       DEF Once, OnceInit, Allocate, CondWait, CondUnlock, locked, startup
  <2>4. \E l \in {"init", "alloc", "m_lock", "unlock", "wait", "spin"} :
          pc' = [pc EXCEPT ![t] = l] /\ (l = "unlock" => go)
    BY <1>6, ZenonT(30) DEF Once, OnceInit, Allocate, Malloc, CondWait, CondUnlock
  <2> QED BY <2>1, <2>2, <2>3, <2>4, WorkerQuiet, ZenonT(30) DEF Late
<1> QED BY <1>1, <1>2, <1>3, <1>4, <1>5, <1>6
=============================================================================
