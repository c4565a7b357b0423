----------------------------- MODULE RigelLocks -----------------------------
(***************************************************************************)
(* The locks of the C library and of libpthread, one instruction on a      *)
(* shared word per step:                                                   *)
(*                                                                         *)
(*   word        spin_lock of include/spinlock.h, and the pthread mutex of *)
(*               kind NORMAL                                               *)
(*   plain       _LOCK_T of libgloss/rigel/lock.c                          *)
(*   newlib      _LOCK_RECURSIVE_T of libgloss/rigel/lock.c                *)
(*   errorcheck  the pthread mutex of kind ERRORCHECK                      *)
(*   recursive   the pthread mutex of kind RECURSIVE                       *)
(*                                                                         *)
(* The threads lock, try and unlock as they like, within what a kind       *)
(* allows its callers.  A round of a spin loop that changes nothing is not *)
(* a step.                                                                 *)
(***************************************************************************)
EXTENDS Integers

CONSTANTS Thread,     \* thread numbers; 0 is one of them
          Kinds,      \* the kinds of lock
          MaxDepth,   \* bound: how often a thread takes a lock it holds
          Word        \* a word holds 0 .. Word-1 (2^32 on the machine)

AllKinds == {"word", "plain", "newlib", "errorcheck", "recursive"}

ASSUME LocksAssumption ==
  /\ Thread \subseteq Nat /\ 0 \in Thread
  /\ Kinds \subseteq AllKinds
  /\ MaxDepth \in Nat \ {0}
  /\ Word \in Nat /\ MaxDepth < Word

VARIABLES
  kind,                 \* which lock this is; it never changes
  lock, count, owner,   \* its words
  pc,                   \* the instruction each thread is at
  trying,               \* who has called the try form
  depth                 \* how often each thread has got it and not given it back

words == <<lock, count, owner>>
vars == <<kind, lock, count, owner, pc, trying, depth>>

NoOwner == -1

Labels ==
  {"idle", "swap", "swapped", "xchg", "cas", "check", "inc", "spin", "own",
   "u_owner", "u_count", "u_null", "u_dec", "u_zero", "u_lock"}

TypeOK ==
  /\ kind \in Kinds
  /\ lock \in {0, 1}
  /\ count \in 0 .. Word - 1
  /\ owner \in Thread \cup {NoOwner}
  /\ pc \in [Thread -> Labels]
  /\ trying \subseteq Thread
  /\ depth \in [Thread -> 0 .. MaxDepth]

\* _lock_init, _lock_init_recursive and pthread_mutex_init.
Init ==
  /\ kind \in Kinds
  /\ lock = 0 /\ count = 0 /\ owner = NoOwner
  /\ pc = [t \in Thread |-> "idle"]
  /\ trying = {}
  /\ depth = [t \in Thread |-> 0]

At(t, l) == pc[t] = l
Goto(t, l) == pc' = [pc EXCEPT ![t] = l] /\ UNCHANGED <<kind, trying, depth>>

Return(t, change) ==
  /\ pc' = [pc EXCEPT ![t] = "idle"]
  /\ trying' = trying \ {t}
  /\ depth' = [depth EXCEPT ![t] = @ + change]
  /\ UNCHANGED kind

Got(t) == Return(t, 1)
Refused(t) == Return(t, 0)

\* The first instruction of each kind's lock function.
Entry ==
  [word |-> "swap", plain |-> "xchg", newlib |-> "cas",
   errorcheck |-> "check", recursive |-> "cas"]

\* Only a kind that knows its owner may be locked by its holder.
MayLock(t) ==
  /\ At(t, "idle")
  /\ IF kind \in {"word", "plain"} THEN depth[t] = 0 ELSE depth[t] < MaxDepth

Lock(t) ==
  /\ MayLock(t)
  /\ Goto(t, Entry[kind])
  /\ UNCHANGED words

TryLock(t) ==
  /\ MayLock(t)
  /\ pc' = [pc EXCEPT ![t] = Entry[kind]]
  /\ trying' = trying \cup {t}
  /\ UNCHANGED <<kind, depth, words>>

\* atom.xchg of 1 into the word: until it was 0, or once.
Swap(t) ==
  /\ At(t, "swap")
  /\ lock' = 1
  /\ \/ lock = 0 /\ kind = "word" /\ Got(t)
     \/ lock = 0 /\ kind # "word" /\ Goto(t, "swapped")
     \/ lock = 1 /\ t \in trying /\ Refused(t)
  /\ UNCHANGED <<count, owner>>

StoreOwnerSwapped(t) ==
  /\ At(t, "swapped")
  /\ owner' = t
  /\ Got(t)
  /\ UNCHANGED <<lock, count>>

\* _lock_try_acquire swaps 1 in and succeeds when it gets 0.  _lock_acquire
\* swaps again for as long as it gets 0, from the register that it got it in:
\* the label "spin" is its loop with 0 in that register.
Exchange(t) ==
  /\ At(t, "xchg")
  /\ lock' = 1
  /\ \/ t \in trying /\ lock = 0 /\ Got(t)
     \/ t \in trying /\ lock # 0 /\ Refused(t)
     \/ t \notin trying /\ lock # 0 /\ Got(t)
     \/ t \notin trying /\ lock = 0 /\ Goto(t, "spin")
  /\ UNCHANGED <<count, owner>>

ExchangeAgain(t) ==
  /\ At(t, "spin") /\ kind = "plain"
  /\ lock # 0
  /\ lock' = 0
  /\ Got(t)
  /\ UNCHANGED <<count, owner>>

\* atom.cas of the count from 0 to 1: the lock was free.
Cas(t) ==
  /\ At(t, "cas")
  /\ \/ count = 0 /\ count' = 1 /\ Goto(t, "own")
     \/ count # 0 /\ UNCHANGED count /\ Goto(t, "check")
  /\ UNCHANGED <<lock, owner>>

\* pthread_mutex_trylock of kind RECURSIVE leaves its switch with break after
\* it has taken the lock, and returns -EINVAL.
GotCounted(t) ==
  IF kind = "recursive" /\ t \in trying THEN Refused(t) ELSE Got(t)

\* Mutant: the owner is not stored.
StoreNoOwner(t) ==
  /\ At(t, "own")
  /\ GotCounted(t)
  /\ UNCHANGED words

StoreOwner(t) ==
  /\ At(t, "own")
  /\ owner' = t
  /\ GotCounted(t)
  /\ UNCHANGED <<lock, count>>

\* Mutant: the holder is not told from others.
LoadOwnerAny(t) ==
  /\ At(t, "check")
  /\ Goto(t, "inc")
  /\ UNCHANGED words

\* The lock is not free.  Its holder counts up, or is refused (-EDEADLK); any
\* other thread goes to wait, a newlib try is refused at once.
LoadOwner(t) ==
  /\ At(t, "check")
  /\ \/ owner = t /\ kind = "errorcheck" /\ Refused(t)
     \/ owner = t /\ kind # "errorcheck" /\ Goto(t, "inc")
     \/ owner # t /\ kind # "newlib" /\ Goto(t, "swap")
     \/ owner # t /\ kind = "newlib" /\ t \in trying /\ Refused(t)
     \/ owner # t /\ kind = "newlib" /\ t \notin trying /\ Goto(t, "spin")
  /\ UNCHANGED words

Increment(t) ==
  /\ At(t, "inc")
  /\ count' = (count + 1) % Word
  /\ GotCounted(t)
  /\ UNCHANGED <<lock, owner>>

\* Mutant: the waiting loop ends without the compare-and-swap.
SpinPlain(t) ==
  /\ At(t, "spin") /\ kind = "newlib"
  /\ count' = 1
  /\ Goto(t, "own")
  /\ UNCHANGED <<lock, owner>>

SpinCas(t) ==
  /\ At(t, "spin") /\ kind = "newlib"
  /\ count = 0
  /\ count' = 1
  /\ Goto(t, "own")
  /\ UNCHANGED <<lock, owner>>

\* The first instruction of each kind's unlock function.
UnlockEntry ==
  [word |-> "u_lock", plain |-> "u_lock", newlib |-> "u_count",
   errorcheck |-> "u_owner", recursive |-> "u_owner"]

\* A thread unlocks what it has locked.  The kinds that check the owner are
\* also called by others.
Unlock(t) ==
  /\ At(t, "idle")
  /\ depth[t] > 0 \/ kind \in {"errorcheck", "recursive"}
  /\ Goto(t, UnlockEntry[kind])
  /\ UNCHANGED words

\* ERRORCHECK refuses the owner (-EPERM) and lets others go on; RECURSIVE
\* refuses the others.
UnlockOwner(t) ==
  /\ At(t, "u_owner")
  /\ \/ kind = "errorcheck" /\ owner = t /\ Refused(t)
     \/ kind = "errorcheck" /\ owner # t /\ Goto(t, "u_zero")
     \/ kind = "recursive" /\ owner # t /\ Refused(t)
     \/ kind = "recursive" /\ owner = t /\ Goto(t, "u_count")
  /\ UNCHANGED words

GivenBack(t) == IF depth[t] = 0 THEN Refused(t) ELSE Return(t, -1)

UnlockCount(t) ==
  /\ At(t, "u_count")
  /\ Goto(t, IF count = 1 THEN "u_null" ELSE "u_dec")
  /\ UNCHANGED words

\* Mutant: the function ends with the owner nulled.
UnlockNullOnly(t) ==
  /\ At(t, "u_null")
  /\ owner' = NoOwner
  /\ GivenBack(t)
  /\ UNCHANGED <<lock, count>>

\* The owner is nulled before the count can let others in.
UnlockNull(t) ==
  /\ At(t, "u_null")
  /\ owner' = NoOwner
  /\ Goto(t, "u_dec")
  /\ UNCHANGED <<lock, count>>

UnlockDec(t) ==
  /\ At(t, "u_dec")
  /\ count' = (count - 1) % Word
  /\ GivenBack(t)
  /\ UNCHANGED <<lock, owner>>

\* ERRORCHECK stores 0, the number of a thread, for the owner.
UnlockZero(t) ==
  /\ At(t, "u_zero")
  /\ owner' = 0
  /\ Goto(t, "u_lock")
  /\ UNCHANGED <<lock, count>>

UnlockStore(t) ==
  /\ At(t, "u_lock")
  /\ lock' = 0
  /\ GivenBack(t)
  /\ UNCHANGED <<count, owner>>

Continue(t) ==
  \/ Swap(t) \/ StoreOwnerSwapped(t) \/ Exchange(t) \/ ExchangeAgain(t)
  \/ Cas(t) \/ StoreOwner(t) \/ LoadOwner(t) \/ Increment(t) \/ SpinCas(t)
  \/ UnlockOwner(t) \/ UnlockCount(t) \/ UnlockNull(t) \/ UnlockDec(t)
  \/ UnlockZero(t) \/ UnlockStore(t)

Next == \E t \in Thread : Lock(t) \/ TryLock(t) \/ Unlock(t) \/ Continue(t)

Spec == Init /\ [][Next]_vars

\* A thread goes on in a function it has called, and one that holds the lock
\* once, again and again, unlocks it in the end.
FairSpec ==
  /\ Spec
  /\ \A t \in Thread : /\ WF_vars(Continue(t))
                       /\ WF_vars(Unlock(t) /\ depth[t] > 0)
                       /\ SF_vars(Unlock(t) /\ depth[t] = 1)

-----------------------------------------------------------------------------

\* The kinds that the properties hold of.
Sound == {"word", "newlib"}

Unlocking == {"u_owner", "u_count", "u_null", "u_dec", "u_zero", "u_lock"}

\* Who has returned from locking and not yet called the last unlock.
Inside == {t \in Thread : depth[t] > IF pc[t] \in Unlocking THEN 1 ELSE 0}

\* Who has the lock, from the instruction that takes it to the one that gives
\* it back.
Holding == {t \in Thread : depth[t] > 0 \/ pc[t] \in {"own", "swapped"}}

\* The spin lock, the NORMAL mutex and newlib's recursive lock keep threads
\* out of each other's critical sections.
MutualExclusion == kind \in Sound => \A t, u \in Inside : t = u

\* How often the words of the lock say it is taken.
Level == IF kind \notin Sound THEN 0 ELSE IF kind = "word" THEN lock ELSE count

\* They are a lock that its holder may take again: the words show at every
\* instruction who has it and how often.
R == INSTANCE ReentrantLock WITH
       holders <- IF kind \in Sound THEN Holding ELSE {},
       level <- Level

Reentrant == R!Spec

\* newlib's recursive lock never makes a thread wait for itself, which malloc
\* relies on (libc/stdlib/mlock.c).
NeverWaitsForItself ==
  kind = "newlib" => \A t \in Thread : pc[t] = "spin" => t \notin Holding

\* When a thread waits, the words of the lock come to say that it is free, if
\* its holders do unlock it: no release leaves the lock taken by nobody.
ComesFree ==
  \A t \in Thread : kind \in Sound /\ pc[t] \in {"swap", "spin"} ~> Level = 0
=============================================================================
