------------------------------ MODULE Pthreads ------------------------------
(***************************************************************************)
(* Start-up and threads: __start of libc/sys/rigel/crt0.c, the slots of    *)
(* libpthread (pthread_management.c), pthread_once, the condition variable *)
(* and malloc's way to mmap, with a program on top of them.                *)
(*                                                                         *)
(* Thread 0 runs the program: in each round it creates threads, lets them  *)
(* go with a broadcast, joins them and takes the condition variable down.  *)
(* It joins all of a round before it creates the next: pthread_create may  *)
(* give a slot away that was not joined yet, and the join is then lost.    *)
(* Every created thread calls pthread_once, allocates, waits under the     *)
(* mutex until it is let go and returns its number.  The program grows     *)
(* that of testing/pthread/pthread_test.c, which creates and joins one.    *)
(*                                                                         *)
(* The mutex (kind NORMAL) and the lock of an mspace of malloc (newlib's   *)
(* recursive lock) are taken in one step: RigelLocks shows that they are   *)
(* locks.  A round of a spin loop that changes nothing is not a step.      *)
(***************************************************************************)
EXTENDS MmapArena

CONSTANTS
  Threads,    \* RigelGetNumThreads()
  Slots,      \* __MAX_NUM_CORES * ___MAX_THREADS_PER_CORE
  Pools,      \* the pools of malloc that the program allocates from
  PerRound,   \* threads the program creates in a round
  Rounds      \* bound: rounds of the program

ASSUME PthreadsAssumption ==
  /\ Threads \in Nat \ {0} /\ Slots \in Nat /\ Threads <= Slots
  /\ Thread = 0 .. Threads - 1
  /\ Pools \subseteq {"syspool", "incoherent_pool"} /\ Pools # {}
  /\ PerRound \in Nat \ {0} /\ Rounds \in Nat \ {0}

Slot == 0 .. Slots - 1
Pool == {"syspool", "incoherent_pool"}
Job == 1 .. PerRound * Rounds   \* the created threads, numbered through
NULL == 0
Nobody == -1
NoFunc == "null"
MainFunc == "0xFFFFFFFF"
Routine == "routine"
FlagAddr == 64   \* where __broadcast is: any address but 2

VARIABLES
  pc,                         \* where each thread is
  pool, back,                 \* malloc: the pool, and the return address
  init_flag, reent,           \* crt0: the flag, and who has a reentrancy structure
  funcptr, funcarg, retval,   \* the slots
  once_control, inits,        \* pthread_once, and how often the routine ran
  mutex, mspace,              \* who holds the mutex and the lock of each pool
  cond, cond_mutex, go,       \* __broadcast, __mutex, and what is waited for
  index,                      \* pthread_create: the slot it looks at
  job,                        \* the job each thread works on
  tid, got,                   \* the program: thread of each job, value from join
  runs                        \* history: how often each job's routine was called

call == <<pool, back>>
slots == <<funcptr, funcarg, retval>>
startup == <<init_flag, reent>>
program == <<tid, got, go>>
condition == <<cond, cond_mutex>>
once == <<once_control, inits>>
vars == <<arena, pc, call, startup, slots, once, mutex, mspace, condition,
          index, job, program, runs>>

Init ==
  /\ ArenaInit
  /\ pc = [t \in Thread |-> IF t = 0 THEN "pool" ELSE "boot"]
  /\ pool = [t \in Thread |-> "syspool"] /\ back = [t \in Thread |-> "none"]
  /\ init_flag = FALSE /\ reent = {}
  /\ funcptr = [s \in Slot |-> NoFunc]
  /\ funcarg = [s \in Slot |-> NULL] /\ retval = [s \in Slot |-> NULL]
  /\ once_control = 0 /\ inits = 0
  /\ mutex = Nobody /\ mspace = [p \in Pool |-> Nobody]
  /\ cond = 0 /\ cond_mutex = FALSE /\ go = FALSE
  /\ index = 0
  /\ job = [t \in Thread |-> IF t = 0 THEN 1 ELSE NULL]
  /\ tid = [j \in Job |-> Nobody] /\ got = [j \in Job |-> NULL]
  /\ runs = [j \in Job |-> 0]

At(t, l) == pc[t] = l
Goto(t, l) == pc' = [pc EXCEPT ![t] = l]

-----------------------------------------------------------------------------
(* malloc and incoherent_malloc.  A pool is created with threads = -1, so  *)
(* it never gets an mspace beside its first: who finds that one locked     *)
(* waits for it.  The mspace gets its memory from mmap, under its lock.    *)

Malloc(t, p, l) ==
  /\ pc' = [pc EXCEPT ![t] = "m_lock"]
  /\ pool' = [pool EXCEPT ![t] = p]
  /\ back' = [back EXCEPT ![t] = l]

rest == <<call, startup, slots, once, mutex, condition, index, job, program, runs>>

\* GetMSpace, and FindMSpace when TRY_LOCK fails.
GetMSpace(t) ==
  /\ At(t, "m_lock")
  /\ mspace[pool[t]] = Nobody
  /\ mspace' = [mspace EXCEPT ![pool[t]] = t]
  /\ Goto(t, "m_load")
  /\ UNCHANGED <<arena, rest>>

\* What the mspace has is enough, or the top of the arena is loaded, or the
\* arena is used up.
MspaceMore(t) ==
  /\ At(t, "m_load")
  /\ \/ Goto(t, "m_unlock") /\ UNCHANGED arena
     \/ \E len \in Lens : MmapLoad(t, len) /\ Goto(t, "m_store")
     \/ MmapFull /\ Goto(t, "m_unlock")
  /\ UNCHANGED <<mspace, rest>>

MspaceStore(t) ==
  /\ At(t, "m_store")
  /\ MmapStore(t)
  /\ Goto(t, "m_unlock")
  /\ UNCHANGED <<mspace, rest>>

MspaceUnlock(t) ==
  /\ At(t, "m_unlock")
  /\ mspace' = [mspace EXCEPT ![pool[t]] = Nobody]
  /\ Goto(t, back[t])
  /\ UNCHANGED <<arena, rest>>

InMalloc(t) == GetMSpace(t) \/ MspaceMore(t) \/ MspaceStore(t) \/ MspaceUnlock(t)

-----------------------------------------------------------------------------
(* __start: thread 0 sets the machine up, the others wait for its flag.    *)

\* nedcreatepool takes the structure of incoherent_pool from the syspool; ...
CreatePool ==
  /\ At(0, "pool")
  /\ Malloc(0, "syspool", "init_pool")
  /\ UNCHANGED <<arena, startup, slots, once, mutex, mspace, condition, index,
                 job, program, runs>>

\* ... its mspace is made by InitPool, ...
InitPool ==
  /\ At(0, "init_pool")
  /\ Malloc(0, "incoherent_pool", "reent")
  /\ UNCHANGED <<arena, startup, slots, once, mutex, mspace, condition, index,
                 job, program, runs>>

\* Mutant: one structure too many.
SetReentPast ==
  /\ At(0, "reent")
  /\ reent' = 0 .. Threads
  /\ Malloc(0, "syspool", "flag")
  /\ UNCHANGED <<arena, init_flag, slots, once, mutex, mspace, condition, index,
                 job, program, runs>>

\* ... every thread gets a reentrancy structure and the table at
\* hybridCC_base_addr is allocated.
SetReent ==
  /\ At(0, "reent")
  /\ reent' = Thread
  /\ Malloc(0, "syspool", "flag")
  /\ UNCHANGED <<arena, init_flag, slots, once, mutex, mspace, condition, index,
                 job, program, runs>>

SetFlag ==
  /\ At(0, "flag")
  /\ init_flag' = TRUE
  /\ Goto(0, "premain")
  /\ UNCHANGED <<arena, call, reent, slots, once, mutex, mspace, condition,
                 index, job, program, runs>>

\* Mutant: the slot of thread 0 looks free.
PremainFree ==
  /\ At(0, "premain")
  /\ Goto(0, "c_init")
  /\ UNCHANGED <<arena, mspace, rest>>

\* __rigel_premain of thread 0: its own slot is never free.
PremainMain ==
  /\ At(0, "premain")
  /\ funcptr' = [funcptr EXCEPT ![0] = MainFunc]
  /\ Goto(0, "c_init")
  /\ UNCHANGED <<arena, call, startup, funcarg, retval, once, mutex, mspace,
                 condition, index, job, program, runs>>

FlagSeen(t) ==
  /\ At(t, "boot")
  /\ init_flag
  /\ Goto(t, "poll")
  /\ UNCHANGED <<arena, mspace, rest>>

-----------------------------------------------------------------------------
(* pthread_create and pthread_join, called by thread 0.                    *)

others == <<arena, call, startup, once, mutex, mspace, condition>>

\* The job that thread 0 goes on with, and what it does then.
RoundEnd == job[0] % PerRound = 0

NextJob(again, then) ==
  /\ Goto(0, IF RoundEnd THEN then ELSE again)
  /\ job' = [job EXCEPT ![0] = IF RoundEnd THEN @ + 1 - PerRound ELSE @ + 1]

\* The scan for a free slot, slot by slot; EAGAIN when there is none.  It goes
\* over all slots, those past the last hardware thread included.
Scan ==
  /\ At(0, "scan")
  /\ \/ /\ index < Slots /\ funcptr[index] = NoFunc
        /\ Goto(0, "arg")
        /\ UNCHANGED <<index, job>>
     \/ /\ index < Slots /\ funcptr[index] # NoFunc
        /\ index' = index + 1
        /\ UNCHANGED <<pc, job>>
     \/ /\ index = Slots
        /\ index' = 0
        /\ NextJob("scan", "lock")
  /\ UNCHANGED <<others, slots, program, runs>>

StoreArg ==
  /\ At(0, "arg")
  /\ funcarg' = [funcarg EXCEPT ![index] = job[0]]
  /\ Goto(0, "func")
  /\ UNCHANGED <<others, funcptr, retval, index, job, program, runs>>

\* The function is stored last: the thread of the slot polls it.
StoreFunc ==
  /\ At(0, "func")
  /\ funcptr' = [funcptr EXCEPT ![index] = Routine]
  /\ tid' = [tid EXCEPT ![job[0]] = index]
  /\ index' = 0
  /\ NextJob("scan", "lock")
  /\ UNCHANGED <<others, funcarg, retval, got, go, runs>>

\* Mutant: join does not wait.
JoinNoWait ==
  /\ At(0, "join")
  /\ \/ /\ tid[job[0]] \notin Thread
        /\ NextJob("join", "c_destroy")
     \/ /\ tid[job[0]] \in Thread
        /\ Goto(0, "value")
        /\ UNCHANGED job
  /\ UNCHANGED <<others, slots, index, program, runs>>

\* Threads that do not exist cannot be joined (ESRCH), nor what was not
\* created.  The test for oneself (EDEADLK) has no case here: thread 0 is the
\* only one that joins, and its slot is never given out.
JoinWait ==
  /\ At(0, "join")
  /\ \/ /\ tid[job[0]] \notin Thread
        /\ NextJob("join", "c_destroy")
     \/ /\ tid[job[0]] \in Thread
        /\ funcptr[tid[job[0]]] = NoFunc
        /\ Goto(0, "value")
        /\ UNCHANGED job
  /\ UNCHANGED <<others, slots, index, program, runs>>

JoinValue ==
  /\ At(0, "value")
  /\ got' = [got EXCEPT ![job[0]] = retval[tid[job[0]]]]
  /\ NextJob("join", "c_destroy")
  /\ UNCHANGED <<others, slots, index, tid, go, runs>>

-----------------------------------------------------------------------------
(* __rigel_premain of the other threads, and the routine they call.        *)

Poll(t) ==
  /\ At(t, "poll")
  /\ funcptr[t] # NoFunc
  /\ job' = [job EXCEPT ![t] = funcarg[t]]
  /\ runs' = [j \in Job |-> IF j = funcarg[t] THEN runs[j] + 1 ELSE runs[j]]
  /\ Goto(t, "once")
  /\ UNCHANGED <<others, slots, index, program>>

\* Mutant: the control is looked at and left as it is.
OnceLoad(t) ==
  /\ At(t, "once")
  /\ Goto(t, IF once_control = 0 THEN "init" ELSE "alloc")
  /\ UNCHANGED <<arena, mspace, rest>>

\* pthread_once: the compare-and-swap of the control from 0 to 1.
Once(t) ==
  /\ At(t, "once")
  /\ once_control' = 1
  /\ Goto(t, IF once_control = 0 THEN "init" ELSE "alloc")
  /\ UNCHANGED <<arena, call, startup, slots, inits, mutex, mspace, condition,
                 index, job, program, runs>>

OnceInit(t) ==
  /\ At(t, "init")
  /\ inits' = inits + 1
  /\ Goto(t, "alloc")
  /\ UNCHANGED <<arena, call, startup, slots, once_control, mutex, mspace,
                 condition, index, job, program, runs>>

Allocate(t) ==
  /\ At(t, "alloc")
  /\ \E p \in Pools : Malloc(t, p, "lock")
  /\ UNCHANGED <<arena, startup, slots, once, mutex, mspace, condition, index,
                 job, program, runs>>

locked == <<arena, call, startup, slots, once, mspace, index, job, runs>>

\* Thread 0 locks to let the others go; they lock to look whether they may,
\* and again at the end of pthread_cond_wait, where the loop goes on until the
\* flag is 2.
WantsMutex(t) == At(t, "lock") \/ (At(t, "spin") /\ cond = 2)

MutexLock(t) ==
  /\ WantsMutex(t)
  /\ mutex = Nobody
  /\ mutex' = t
  /\ Goto(t, IF t = 0 THEN "go" ELSE "check")
  /\ UNCHANGED <<locked, condition, program>>

\* while (!go) pthread_cond_wait: its mutex is noted, ...
CondWait(t) ==
  /\ At(t, "check")
  /\ \/ go /\ Goto(t, "unlock") /\ UNCHANGED cond_mutex
     \/ ~go /\ Goto(t, "wait") /\ cond_mutex' = TRUE
  /\ UNCHANGED <<locked, mutex, cond, program>>

\* Mutant: it waits with the mutex locked.
CondUnlockNot(t) ==
  /\ At(t, "wait")
  /\ Goto(t, "spin")
  /\ UNCHANGED <<locked, mutex, condition, program>>

\* ... and it is unlocked before the loop.
CondUnlock(t) ==
  /\ At(t, "wait")
  /\ mutex' = Nobody
  /\ Goto(t, "spin")
  /\ UNCHANGED <<locked, condition, program>>

MutexUnlock(t) ==
  /\ At(t, "unlock")
  /\ mutex' = Nobody
  /\ Goto(t, IF t = 0 THEN "join" ELSE "return")
  /\ UNCHANGED <<locked, condition, program>>

StoreRetval(t) ==
  /\ At(t, "return")
  /\ retval' = [retval EXCEPT ![t] = job[t]]
  /\ Goto(t, "clear")
  /\ UNCHANGED <<others, funcptr, funcarg, index, job, program, runs>>

ClearFunc(t) ==
  /\ At(t, "clear")
  /\ funcptr' = [funcptr EXCEPT ![t] = NoFunc]
  /\ Goto(t, "poll")
  /\ UNCHANGED <<others, funcarg, retval, index, job, program, runs>>

-----------------------------------------------------------------------------
(* The condition variable in the hands of thread 0.                        *)

\* pthread_cond_init, which refuses one that is in use.
CondInit ==
  /\ At(0, "c_init")
  /\ IF cond = 1 THEN UNCHANGED condition ELSE cond' = 1 /\ cond_mutex' = FALSE
  /\ go' = FALSE
  /\ Goto(0, "scan")
  /\ UNCHANGED <<locked, mutex, tid, got>>

LetGo ==
  /\ At(0, "go")
  /\ go' = TRUE
  /\ Goto(0, "broadcast")
  /\ UNCHANGED <<locked, mutex, condition, tid, got>>

\* The instruction bcast.u: its first operand is stored at the address in its
\* second (rigel.h, barrier-mt.c).  Here the flag is the only word of interest.
bcast_u(val, addr) == cond' = IF addr = FlagAddr THEN val ELSE cond

\* broadcast_update of pthread_cond.c hands them over the other way round.
broadcast_update(addr, val) == bcast_u(addr, val)

\* pthread_cond_broadcast, which the signal is too.
CondBroadcast ==
  /\ At(0, "broadcast")
  /\ IF cond = 1 THEN broadcast_update(FlagAddr, 2) ELSE UNCHANGED cond
  /\ Goto(0, "unlock")
  /\ UNCHANGED <<locked, mutex, cond_mutex, program>>

\* pthread_cond_destroy, and on to the next round.
CondDestroy ==
  /\ At(0, "c_destroy")
  /\ cond' = 0 /\ cond_mutex' = FALSE
  /\ IF job[0] + PerRound \in Job
       THEN job' = [job EXCEPT ![0] = @ + PerRound] /\ Goto(0, "c_init")
       ELSE UNCHANGED job /\ Goto(0, "exit")
  /\ UNCHANGED <<arena, call, startup, slots, once, mspace, index, runs, mutex,
                 program>>

MainStep ==
  \/ CreatePool \/ InitPool \/ SetReent \/ SetFlag \/ PremainMain
  \/ CondInit \/ Scan \/ StoreArg \/ StoreFunc \/ LetGo \/ CondBroadcast
  \/ JoinWait \/ JoinValue \/ CondDestroy

WorkerStep(t) ==
  \/ FlagSeen(t) \/ Poll(t) \/ Once(t) \/ OnceInit(t) \/ Allocate(t)
  \/ CondWait(t) \/ CondUnlock(t)
  \/ StoreRetval(t) \/ ClearFunc(t)

Step(t) ==
  \/ t = 0 /\ MainStep
  \/ InMalloc(t) \/ MutexLock(t) \/ MutexUnlock(t) \/ WorkerStep(t)

\* main has returned, and the others poll for ever.
Done ==
  /\ At(0, "exit") /\ \A t \in Thread \ {0} : At(t, "poll") /\ funcptr[t] = NoFunc
  /\ UNCHANGED vars

Next == (\E t \in Thread : Step(t)) \/ Done

Spec == Init /\ [][Next]_vars

\* Every thread is a hardware thread of its own.
FairSpec == Spec /\ \A t \in Thread : WF_vars(Step(t))

-----------------------------------------------------------------------------

Labels ==
  {"pool", "init_pool", "reent", "flag", "premain", "boot", "m_lock", "m_load", "m_store",
   "m_unlock", "c_init", "scan", "arg", "func", "lock", "go", "broadcast",
   "unlock", "join", "value", "c_destroy", "exit", "poll", "once", "init",
   "alloc", "check", "wait", "spin", "return", "clear"}

TypeOK ==
  /\ pc \in [Thread -> Labels] /\ back \in [Thread -> Labels \cup {"none"}]
  /\ init_flag \in BOOLEAN /\ reent \subseteq Thread
  /\ funcptr \in [Slot -> {NoFunc, MainFunc, Routine}]
  /\ funcarg \in [Slot -> Job \cup {NULL}] /\ retval \in [Slot -> Job \cup {NULL}]
  /\ once_control \in {0, 1} /\ inits \in Nat
  /\ mutex \in Thread \cup {Nobody}
  /\ pool \in [Thread -> Pool] /\ mspace \in [Pool -> Thread \cup {Nobody}]
  /\ cond \in {0, 1} /\ cond_mutex \in BOOLEAN /\ go \in BOOLEAN
  /\ index \in 0 .. Slots
  /\ job \in [Thread -> Job \cup {NULL}]
  /\ tid \in [Job -> Slot \cup {Nobody}] /\ got \in [Job -> Job \cup {NULL}]
  /\ runs \in [Job -> Nat]
  /\ top \in 0 .. Word - 1

\* Jobs that pthread_create has returned a thread for and that no join has
\* returned from.
Live == {j \in Job : tid[j] # Nobody /\ got[j] = NULL}

\* "Only 1 concurrent Pthread allowed per hardware thread"
\* (pthread_management.c:14): no two live jobs have the same slot, and none has
\* that of main.  It is the slots that are told apart: a job may be in one
\* that belongs to no thread, where the same comment promises EAGAIN.
OnePthreadPerSlot ==
  \A j \in Live : tid[j] # 0 /\ \A k \in Live : tid[j] = tid[k] => j = k

\* In a program that joins what it has created before it creates again, join
\* returns what the joined routine returned, and the routine has been called
\* once, with its own argument.
JoinGetsValue == \A j \in Job : got[j] # NULL => got[j] = j /\ runs[j] = 1

\* pthread_once: the initialisation runs once, whoever comes first.
OnceOnly == inits <= 1

\* A pthread that has begun comes to its end or to the loop of
\* pthread_cond_wait: neither malloc's locks nor the mutex, which a waiting
\* pthread gives up, hold it for ever.
PthreadsEnd ==
  \A t \in Thread : At(t, "once") ~> (At(t, "poll") \/ At(t, "spin"))

\* "Spin locally until wakeup broadcast is received" (pthread_cond.c:55): who
\* is in that loop when pthread_cond_broadcast has returned gets out of it.
BroadcastIsReceived ==
  \A t \in Thread : At(t, "spin") /\ At(0, "unlock") ~> ~At(t, "spin")
=============================================================================
