-------------------------- MODULE RigelLocksProofs --------------------------
(***************************************************************************)
(* Proofs about RigelLocks, for any number of threads, any nesting and any *)
(* word that can count it.                                                 *)
(*                                                                         *)
(* Mutual exclusion of newlib's recursive lock needs to know why a thread  *)
(* that finds itself in the owner field is the one that counts: the owner  *)
(* is stored after the count was taken and nulled before it is given back. *)
(* NewlibInv says so, WordInv is its like for the single word.             *)
(***************************************************************************)
EXTENDS RigelLocks, TLAPS

\* Leaves that name no prover go to SMT, then to Zenon, then to SMT once more.
USE SMTT(30), ZenonT(30), SMTT(31)

Locking == {"swap", "swapped", "xchg", "cas", "check", "inc", "spin", "own"}

\* A thread inside a lock function has room for one more level.
Room == \A t \in Thread : pc[t] \in Locking => depth[t] < MaxDepth

Has(t) == depth[t] > 0 \/ pc[t] = "own"

\* One thread at most has the word, and the word is 1 then.
WordInv ==
  /\ \A t \in Thread : /\ pc[t] \in {"idle", "swap", "u_lock"}
                       /\ depth[t] <= 1
                       /\ pc[t] = "swap" => depth[t] = 0
                       /\ pc[t] = "u_lock" => depth[t] = 1
                       /\ depth[t] = 1 => lock = 1
  /\ \A t, u \in Thread : depth[t] = 1 /\ depth[u] = 1 => t = u
  /\ lock = 1 => \E t \in Thread : depth[t] = 1

\* One thread at most has the count; the count is its depth, one ahead while
\* the owner is not yet stored; and who finds itself the owner has it.
NewlibInv ==
  /\ \A t \in Thread :
       /\ pc[t] \in {"idle", "cas", "check", "inc", "spin", "own",
                     "u_count", "u_null", "u_dec"}
       /\ pc[t] \in {"spin", "own"} => depth[t] = 0
       /\ pc[t] \in {"inc", "u_count", "u_null", "u_dec"} => depth[t] > 0
       /\ pc[t] = "u_null" => depth[t] = 1
       /\ Has(t) => count = IF pc[t] = "own" THEN 1 ELSE depth[t]
       /\ owner = t <=> depth[t] > 0 /\ ~(pc[t] = "u_dec" /\ depth[t] = 1)
  /\ \A t, u \in Thread : Has(t) /\ Has(u) => t = u
  /\ count # 0 => \E t \in Thread : Has(t)

IInv ==
  /\ TypeOK
  /\ Room
  /\ kind = "word" => WordInv
  /\ kind = "newlib" => NewlibInv

\* Remainders of a division by the word are in the word.
LEMMA WordMod == \A x \in Int : (x % Word) \in 0 .. Word - 1
<1>1. Word \in Nat /\ Word > 0
  BY LocksAssumption
<1> QED BY <1>1, Z3

\* In the word, the neighbours of the values that occur are as expected.
LEMMA WordStep ==
  ASSUME NEW x \in 0 .. Word - 1
  PROVE  /\ x < Word - 1 => (x + 1) % Word = x + 1
         /\ x > 0 => (x - 1) % Word = x - 1
<1>1. Word \in Nat /\ Word > 0
  BY LocksAssumption
<1> QED BY <1>1, Z3

\* In the initial states the lock is free.
LEMMA InitInv == Init => IInv
<1> SUFFICES ASSUME Init PROVE IInv
  OBVIOUS
<1>1. TypeOK
  BY LocksAssumption DEF Init, TypeOK, Labels
<1>2. Room /\ WordInv /\ NewlibInv
  BY LocksAssumption DEF Init, Room, WordInv, NewlibInv, Has, Locking, NoOwner
<1> QED BY <1>1, <1>2 DEF IInv

\* The words keep their types.
WordsType ==
  /\ lock' \in {0, 1}
  /\ count' \in 0 .. Word - 1
  /\ owner' \in Thread \cup {NoOwner}

\* Going on to another label keeps the types and the room.
LEMMA GotoType ==
  ASSUME TypeOK, Room, NEW t \in Thread, NEW l \in Labels, Goto(t, l), WordsType,
         l \in Locking => depth[t] < MaxDepth
  PROVE  TypeOK' /\ Room'
BY DEF TypeOK, Room, Goto, WordsType

\* So does a return.
LEMMA ReturnType ==
  ASSUME TypeOK, Room, NEW t \in Thread, NEW d \in Int, Return(t, d), WordsType,
         depth[t] + d \in 0 .. MaxDepth
  PROVE  TypeOK' /\ Room'
<1>1. "idle" \in Labels /\ "idle" \notin Locking
  BY DEF Labels, Locking
<1> QED BY <1>1 DEF TypeOK, Room, Return, WordsType

\* A lock function returns with one level more or none.
LEMMA GotType ==
  ASSUME TypeOK, Room, NEW t \in Thread, pc[t] \in Locking, WordsType,
         Got(t) \/ Refused(t)
  PROVE  TypeOK' /\ Room'
<1>1. depth[t] \in 0 .. MaxDepth /\ depth[t] + 1 \in 0 .. MaxDepth
  BY LocksAssumption DEF TypeOK, Room
<1> QED BY <1>1, ReturnType DEF Got, Refused

\* An unlock function returns with one level less or none.
LEMMA BackType ==
  ASSUME TypeOK, Room, NEW t \in Thread, WordsType, GivenBack(t) \/ Refused(t)
  PROVE  TypeOK' /\ Room'
<1>1. depth[t] \in 0 .. MaxDepth
  BY DEF TypeOK
<1>2. depth[t] # 0 => depth[t] + (-1) \in 0 .. MaxDepth
  BY <1>1, LocksAssumption
<1> QED BY <1>1, <1>2, LocksAssumption, ReturnType DEF GivenBack, Refused

\* Every step keeps the types and the nesting bound.
LEMMA TypeStep ==
  ASSUME TypeOK, Room, NEW t \in Thread,
         Lock(t) \/ TryLock(t) \/ Unlock(t) \/ Continue(t)
  PROVE  TypeOK' /\ Room'
<1>a. /\ kind \in AllKinds /\ lock \in {0, 1} /\ count \in 0 .. Word - 1
      /\ owner \in Thread \cup {NoOwner}
      /\ 1 \in 0 .. Word - 1 /\ 0 \in Thread
  BY LocksAssumption DEF TypeOK
<1>b. pc[t] \in Locking => depth[t] < MaxDepth
  BY DEF Room
<1>c. Locking \subseteq Labels
  BY DEF Locking, Labels
<1> USE DEF At
<1>1. CASE Lock(t) \/ TryLock(t)
  <2>1. Entry[kind] \in Locking
    BY <1>a DEF AllKinds, Entry, Locking
  <2>2. WordsType
    BY <1>1, <1>a DEF Lock, TryLock, WordsType, words
  <2>3. depth[t] < MaxDepth
    BY <1>1, LocksAssumption DEF Lock, TryLock, MayLock
  <2>4. CASE Lock(t)
    BY <1>c, <2>1, <2>2, <2>3, <2>4, GotoType DEF Lock
  <2>5. CASE TryLock(t)
    BY <1>c, <2>1, <2>2, <2>3, <2>5 DEF TryLock, TypeOK, Room, WordsType
  <2> QED BY <1>1, <2>4, <2>5
<1>2. CASE Unlock(t)
  <2>1. UnlockEntry[kind] \in Labels \ Locking
    BY <1>a DEF AllKinds, UnlockEntry, Labels, Locking
  <2>2. WordsType
    BY <1>2, <1>a DEF Unlock, WordsType, words
  <2> QED BY <1>2, <2>1, <2>2, GotoType DEF Unlock
<1>3. CASE \/ Swap(t) \/ StoreOwnerSwapped(t) \/ Exchange(t) \/ ExchangeAgain(t)
           \/ Cas(t) \/ SpinCas(t) \/ StoreOwner(t) \/ LoadOwner(t) \/ Increment(t)
  <2>1. pc[t] \in Locking
    BY <1>3 DEF Swap, StoreOwnerSwapped, Exchange, ExchangeAgain, Cas, SpinCas,
       StoreOwner, LoadOwner, Increment, Locking
  <2>2. Increment(t) => count' \in 0 .. Word - 1
    BY <1>a, WordMod DEF Increment
  <2>3. WordsType
    BY <1>3, <1>a, <2>2 DEF WordsType, Swap, StoreOwnerSwapped, Exchange,
       ExchangeAgain, Cas, SpinCas, StoreOwner, LoadOwner, Increment, words
  <2>4. \/ Got(t) \/ Refused(t)
        \/ \E l \in {"swapped", "spin", "own", "check", "inc", "swap"} : Goto(t, l)
    BY <1>3 DEF Swap, StoreOwnerSwapped, Exchange, ExchangeAgain, Cas, SpinCas,
       StoreOwner, LoadOwner, Increment, GotCounted
  <2>5. {"swapped", "spin", "own", "check", "inc", "swap"} \subseteq Locking
    BY DEF Locking
  <2> QED BY <1>b, <1>c, <2>1, <2>3, <2>4, <2>5, GotType, GotoType
<1>4. CASE \/ UnlockOwner(t) \/ UnlockCount(t) \/ UnlockNull(t) \/ UnlockZero(t)
           \/ UnlockDec(t) \/ UnlockStore(t)
  <2>1. UnlockDec(t) => count' \in 0 .. Word - 1
    BY <1>a, WordMod DEF UnlockDec
  <2>2. WordsType
    BY <1>4, <1>a, <2>1 DEF WordsType, UnlockOwner, UnlockCount, UnlockNull,
       UnlockZero, UnlockDec, UnlockStore, words
  <2>3. \/ GivenBack(t) \/ Refused(t)
        \/ \E l \in {"u_zero", "u_count", "u_null", "u_dec", "u_lock"} : Goto(t, l)
    BY <1>4 DEF UnlockOwner, UnlockCount, UnlockNull, UnlockZero, UnlockDec,
       UnlockStore
  <2>4. {"u_zero", "u_count", "u_null", "u_dec", "u_lock"} \subseteq Labels \ Locking
    BY DEF Labels, Locking
  <2> QED BY <2>2, <2>3, <2>4, BackType, GotoType
<1> QED BY <1>1, <1>2, <1>3, <1>4 DEF Continue

\* Every step keeps the kind of the lock.
LEMMA KindStep ==
  ASSUME NEW t, Lock(t) \/ TryLock(t) \/ Unlock(t) \/ Continue(t)
  PROVE  kind' = kind
BY DEF Lock, TryLock, Unlock, Continue, Swap, StoreOwnerSwapped, Exchange,
       ExchangeAgain, Cas, SpinCas, StoreOwner, GotCounted, LoadOwner, Increment,
       UnlockOwner, UnlockCount, UnlockNull, UnlockZero, UnlockDec, GivenBack,
       UnlockStore, Goto, Return, Got, Refused

\* The steps of a lock that is a single word.
LEMMA WordSteps ==
  ASSUME TypeOK, kind = "word", WordInv, NEW t \in Thread,
         Lock(t) \/ TryLock(t) \/ Unlock(t) \/ Continue(t)
  PROVE  WordInv'
<1> USE LocksAssumption DEF TypeOK, WordInv, At, Goto, Return, Got, Refused, words
<1>1. CASE Lock(t) \/ TryLock(t)
  <2>1. Entry[kind] = "swap"
    BY DEF Entry
  <2>2. depth[t] = 0 /\ pc[t] = "idle"
    BY <1>1 DEF Lock, TryLock, MayLock
  <2>3. pc' = [pc EXCEPT ![t] = "swap"] /\ depth' = depth /\ lock' = lock
    BY <1>1, <2>1 DEF Lock, TryLock
  <2> QED BY <2>2, <2>3
<1>2. CASE Unlock(t)
  <2>1. UnlockEntry[kind] = "u_lock"
    BY DEF UnlockEntry
  <2>2. depth[t] = 1 /\ pc[t] = "idle"
    BY <1>2 DEF Unlock
  <2>3. pc' = [pc EXCEPT ![t] = "u_lock"] /\ depth' = depth /\ lock' = lock
    BY <1>2, <2>1 DEF Unlock
  <2> QED BY <2>2, <2>3
<1>3. CASE Swap(t)
  BY <1>3 DEF Swap
<1>4. CASE UnlockStore(t)
  BY <1>4 DEF UnlockStore, GivenBack
<1>5. CASE ~(Lock(t) \/ TryLock(t) \/ Unlock(t) \/ Swap(t) \/ UnlockStore(t))
  BY <1>5 DEF Continue, StoreOwnerSwapped, Exchange, ExchangeAgain, Cas, SpinCas,
     StoreOwner, LoadOwner, Increment, UnlockOwner, UnlockCount, UnlockNull,
     UnlockZero, UnlockDec
<1> QED BY <1>1, <1>2, <1>3, <1>4, <1>5

\* The steps of newlib's recursive lock.
LEMMA NewlibSteps ==
  ASSUME TypeOK, Room, kind = "newlib", NewlibInv, NEW t \in Thread,
         Lock(t) \/ TryLock(t) \/ Unlock(t) \/ Continue(t)
  PROVE  NewlibInv'
<1> USE LocksAssumption DEF TypeOK, NewlibInv, Has, At, Goto, Return, Got,
        Refused, words
<1>1. CASE Lock(t) \/ TryLock(t)
  <2>1. Entry[kind] = "cas"
    BY DEF Entry
  <2>2. /\ pc[t] = "idle" /\ pc' = [pc EXCEPT ![t] = "cas"] /\ depth' = depth
        /\ count' = count /\ owner' = owner
    BY <1>1, <2>1 DEF Lock, TryLock, MayLock
  <2> QED BY <2>2
<1>2. CASE Unlock(t)
  <2>1. UnlockEntry[kind] = "u_count"
    BY DEF UnlockEntry
  <2>2. /\ pc[t] = "idle" /\ pc' = [pc EXCEPT ![t] = "u_count"] /\ depth' = depth
        /\ count' = count /\ owner' = owner /\ depth[t] > 0
    BY <1>2, <2>1 DEF Unlock
  <2> QED BY <2>2
<1>3. CASE Cas(t) \/ SpinCas(t)
  BY <1>3 DEF Cas, SpinCas
<1>4. CASE StoreOwner(t)
  BY <1>4 DEF StoreOwner, GotCounted
<1>5. CASE LoadOwner(t)
  BY <1>5 DEF LoadOwner
<1>6. CASE Increment(t)
  <2>1. count = depth[t] /\ count' = count + 1
    BY <1>6, WordStep DEF Increment, Room, Locking
  <2> QED BY <1>6, <2>1 DEF Increment, GotCounted
<1>7. CASE UnlockCount(t)
  BY <1>7 DEF UnlockCount
<1>8. CASE UnlockNull(t)
  BY <1>8 DEF UnlockNull, NoOwner
<1>9. CASE UnlockDec(t)
  <2>1. count = depth[t] /\ count' = count - 1
    BY <1>9, WordStep DEF UnlockDec
  <2> QED BY <1>9, <2>1 DEF UnlockDec, GivenBack
<1>10. CASE Swap(t) \/ StoreOwnerSwapped(t) \/ Exchange(t) \/ ExchangeAgain(t)
            \/ UnlockOwner(t) \/ UnlockZero(t) \/ UnlockStore(t)
  BY <1>10 DEF Swap, StoreOwnerSwapped, Exchange, ExchangeAgain, UnlockOwner,
     UnlockZero, UnlockStore
<1> QED
  BY <1>1, <1>2, <1>3, <1>4, <1>5, <1>6, <1>7, <1>8, <1>9, <1>10 DEF Continue

\* Every step of the specification keeps the invariant.
LEMMA StepInv == IInv /\ [Next]_vars => IInv'
<1> SUFFICES ASSUME IInv, [Next]_vars PROVE IInv'
  OBVIOUS
<1>1. CASE UNCHANGED vars
  BY <1>1 DEF IInv, vars, TypeOK, Room, WordInv, NewlibInv, Has
<1>2. ASSUME NEW t \in Thread, Lock(t) \/ TryLock(t) \/ Unlock(t) \/ Continue(t)
      PROVE  IInv'
  BY <1>2, TypeStep, KindStep, WordSteps, NewlibSteps DEF IInv
<1> QED BY <1>1, <1>2 DEF Next

\* The invariant holds in every reachable state.
THEOREM LocksInvariant == Spec => []IInv
BY InitInv, StepInv, PTL DEF Spec

\* The words of all five kinds of lock keep their ranges, the count wrapping
\* in its word, and no thread nests deeper than it may.
THEOREM LocksTypes == Spec => []TypeOK
<1>1. IInv => TypeOK
  BY DEF IInv
<1> QED BY <1>1, LocksInvariant, PTL

\* Who has the lock in a kind that the properties are about.
LEMMA HoldingHas ==
  ASSUME IInv, kind \in Sound
  PROVE  /\ Holding = {t \in Thread : Has(t)}
         /\ \A t, u \in Holding : t = u
<1>1. \A t \in Thread : pc[t] # "swapped" /\ (kind = "word" => pc[t] # "own")
  BY DEF IInv, Sound, WordInv, NewlibInv
<1>2. Holding = {t \in Thread : Has(t)}
  BY <1>1 DEF Holding, Has
<1>3. \A t, u \in Thread : Has(t) /\ Has(u) => t = u
  <2>1. CASE kind = "word"
    <3>1. \A t \in Thread : depth[t] \in 0 .. MaxDepth
      BY DEF IInv, TypeOK
    <3> QED BY <1>1, <2>1, <3>1, LocksAssumption DEF IInv, WordInv, Has
  <2>2. CASE kind = "newlib"
    BY <2>2 DEF IInv, NewlibInv
  <2> QED BY <2>1, <2>2 DEF Sound
<1> QED BY <1>2, <1>3

\* The spin lock, the NORMAL mutex and newlib's recursive lock exclude: no two
\* threads are between a lock call's return and the last unlock.
THEOREM MutualExclusionHolds == Spec => []MutualExclusion
<1>1. IInv => MutualExclusion
  <2> SUFFICES ASSUME IInv, kind \in Sound, NEW t \in Inside, NEW u \in Inside
               PROVE  t = u
    BY DEF MutualExclusion
  <2>1. t \in Thread /\ u \in Thread /\ depth[t] > 0 /\ depth[u] > 0
    BY DEF IInv, TypeOK, Inside
  <2> QED BY <2>1, HoldingHas DEF Has
<1> QED BY <1>1, LocksInvariant, PTL

\* newlib's recursive lock never makes its holder wait.
THEOREM NeverWaits == Spec => []NeverWaitsForItself
<1>1. IInv => NeverWaitsForItself
  BY DEF IInv, NewlibInv, NeverWaitsForItself, Holding
<1> QED BY <1>1, LocksInvariant, PTL

\* The steps of the single word as steps of the abstract lock.
LEMMA WordRefines ==
  ASSUME IInv, IInv', kind = "word", NEW t \in Thread,
         Lock(t) \/ TryLock(t) \/ Unlock(t) \/ Continue(t)
  PROVE  \/ Holding' = Holding /\ lock' = lock
         \/ Holding = {} /\ Holding' = {t} /\ lock' = 1
         \/ Holding = {t} /\ lock = 1 /\ lock' = 0 /\ Holding' = {}
<1> USE DEF At, Goto, Return, Got, Refused, words
<1>a. /\ \A u \in Thread : /\ depth[u] \in 0 .. 1
                           /\ pc[u] \in {"idle", "swap", "u_lock"}
                           /\ pc[u] = "swap" => depth[u] = 0
                           /\ pc[u] = "u_lock" => depth[u] = 1
                           /\ depth[u] = 1 => lock = 1
      /\ \A u, v \in Thread : depth[u] = 1 /\ depth[v] = 1 => u = v
      /\ pc \in [Thread -> Labels] /\ depth \in [Thread -> 0 .. MaxDepth]
      /\ lock \in {0, 1}
  BY LocksAssumption DEF IInv, TypeOK, WordInv
<1>b. kind' = kind
  BY KindStep
<1>c. \A u \in Thread : pc'[u] \in {"idle", "swap", "u_lock"}
  BY <1>b DEF IInv, WordInv
<1>d. /\ Holding = {u \in Thread : depth[u] > 0}
      /\ Holding' = {u \in Thread : depth'[u] > 0}
  BY <1>a, <1>c DEF Holding
<1>1. CASE Lock(t) \/ TryLock(t) \/ Unlock(t)
  BY <1>1, <1>d DEF Lock, TryLock, Unlock
<1>2. CASE Swap(t)
  BY <1>2, <1>a, <1>d DEF Swap
<1>3. CASE UnlockStore(t)
  BY <1>3, <1>a, <1>d DEF UnlockStore, GivenBack
<1>4. CASE ~(Lock(t) \/ TryLock(t) \/ Unlock(t) \/ Swap(t) \/ UnlockStore(t))
  BY <1>4, <1>a DEF Continue, StoreOwnerSwapped, Exchange, ExchangeAgain, Cas,
     SpinCas, StoreOwner, LoadOwner, Increment, UnlockOwner, UnlockCount,
     UnlockNull, UnlockZero, UnlockDec
<1> QED BY <1>1, <1>2, <1>3, <1>4

\* The steps of newlib's recursive lock as steps of the abstract lock.
LEMMA NewlibRefines ==
  ASSUME IInv, IInv', kind = "newlib", NEW t \in Thread,
         Lock(t) \/ TryLock(t) \/ Unlock(t) \/ Continue(t)
  PROVE  \/ Holding' = Holding /\ count' = count
         \/ Holding = {} /\ Holding' = {t} /\ count' = 1
         \/ Holding = {t} /\ count' = count + 1 /\ Holding' = {t}
         \/ Holding = {t} /\ count' = count - 1
            /\ Holding' = IF count = 1 THEN {} ELSE {t}
<1> USE DEF At, Goto, Return, Got, Refused, words
<1>a. /\ NewlibInv /\ pc \in [Thread -> Labels] /\ count \in 0 .. Word - 1
      /\ depth \in [Thread -> 0 .. MaxDepth]
  BY DEF IInv, TypeOK
<1>b. kind' = kind
  BY KindStep
<1>c. \A u \in Thread : pc'[u] # "swapped"
  BY <1>b DEF IInv, NewlibInv
<1>d. /\ Holding = {u \in Thread : Has(u)}
      /\ Holding' = {u \in Thread : Has(u)'}
  BY <1>a, <1>c DEF Holding, Has, NewlibInv
<1>e. \A u \in Thread : depth[u] \in Nat
  BY <1>a, LocksAssumption
<1>1. CASE Lock(t) \/ TryLock(t) \/ Unlock(t)
  <2>0. Entry[kind] = "cas" /\ UnlockEntry[kind] = "u_count"
    BY DEF Entry, UnlockEntry
  <2>1. \A u \in Thread : Has(u)' <=> Has(u)
    BY <1>1, <1>a, <2>0 DEF Lock, TryLock, Unlock, MayLock, Has
  <2> QED BY <1>1, <1>d, <2>1 DEF Lock, TryLock, Unlock
<1>2. CASE (Cas(t) /\ count = 0) \/ SpinCas(t)
  <2>1. count = 0 /\ count' = 1 /\ pc' = [pc EXCEPT ![t] = "own"] /\ depth' = depth
    BY <1>2 DEF Cas, SpinCas
  <2>2. \A u \in Thread : ~Has(u)
    BY <1>a, <1>e, <2>1 DEF NewlibInv, Has
  <2>3. \A u \in Thread : Has(u)' <=> u = t
    BY <1>a, <2>1, <2>2 DEF Has
  <2> QED BY <1>d, <2>1, <2>2, <2>3
<1>3. CASE \/ Cas(t) /\ count # 0
           \/ StoreOwner(t) \/ LoadOwner(t) \/ UnlockCount(t) \/ UnlockNull(t)
  <2>1. \A u \in Thread : Has(u)' <=> Has(u)
    BY <1>3, <1>a, <1>e DEF Cas, StoreOwner, GotCounted, LoadOwner, UnlockCount,
       UnlockNull, Has, NewlibInv
  <2> QED BY <1>3, <1>d, <2>1 DEF Cas, StoreOwner, LoadOwner, UnlockCount, UnlockNull
<1>4. CASE Increment(t)
  <2>1. depth[t] > 0 /\ Has(t) /\ count = depth[t] /\ depth[t] < MaxDepth
    BY <1>4, <1>a DEF Increment, NewlibInv, Has, IInv, Room, Locking
  <2>2. count' = count + 1
    BY <1>4, <1>a, <2>1, WordStep, LocksAssumption DEF Increment
  <2>3. \A u \in Thread : (Has(u)' <=> Has(u)) /\ (Has(u) <=> u = t)
    BY <1>4, <1>a, <1>e, <2>1 DEF Increment, GotCounted, Has, NewlibInv
  <2> QED BY <1>d, <2>2, <2>3
<1>5. CASE UnlockDec(t)
  <2>1. depth[t] > 0 /\ Has(t) /\ count = depth[t]
    BY <1>5, <1>a DEF UnlockDec, NewlibInv, Has
  <2>2. count' = count - 1
    BY <1>5, <1>a, <2>1, WordStep DEF UnlockDec
  <2>3. \A u \in Thread : Has(u) <=> u = t
    BY <1>a, <2>1 DEF NewlibInv
  <2>4. \A u \in Thread : Has(u)' <=> u = t /\ count # 1
    BY <1>5, <1>a, <1>e, <2>1, <2>3 DEF UnlockDec, GivenBack, Has
  <2> QED BY <1>d, <2>2, <2>3, <2>4
<1>6. CASE \/ Swap(t) \/ StoreOwnerSwapped(t) \/ Exchange(t) \/ ExchangeAgain(t)
           \/ UnlockOwner(t) \/ UnlockZero(t) \/ UnlockStore(t)
  BY <1>6, <1>a DEF NewlibInv, Swap, StoreOwnerSwapped, Exchange, ExchangeAgain,
     UnlockOwner, UnlockZero, UnlockStore
<1> QED BY <1>1, <1>2, <1>3, <1>4, <1>5, <1>6 DEF Continue

\* At every instruction the words of these locks show a lock that its holder
\* may take again and that one thread has at a time.
THEOREM LocksRefine == Spec => Reentrant
<1>1. Init => R!Init
  <2> SUFFICES ASSUME Init PROVE R!Init
    OBVIOUS
  <2>1. Holding = {} /\ lock = 0 /\ count = 0
    BY DEF Init, Holding
  <2> QED BY <2>1 DEF R!Init, Level
<1>2. IInv /\ IInv' /\ [Next]_vars =>
        [R!Next]_<<IF kind \in Sound THEN Holding ELSE {}, Level>>
  <2> SUFFICES ASSUME IInv, IInv', [Next]_vars
               PROVE  [R!Next]_<<IF kind \in Sound THEN Holding ELSE {}, Level>>
    OBVIOUS
  <2>1. CASE UNCHANGED vars
    BY <2>1 DEF vars, Holding, Level
  <2>2. ASSUME NEW t \in Thread, Lock(t) \/ TryLock(t) \/ Unlock(t) \/ Continue(t)
        PROVE  [R!Next]_<<IF kind \in Sound THEN Holding ELSE {}, Level>>
    <3>1. kind' = kind
      BY <2>2, KindStep
    <3>2. CASE kind \notin Sound
      BY <3>1, <3>2 DEF Level
    <3>3. CASE kind = "word"
      <4>1. "word" \in Sound
        BY DEF Sound
      <4> QED BY <2>2, <3>1, <3>3, <4>1, WordRefines
              DEF R!Next, R!Take, R!Again, R!Drop, Level
    <3>4. CASE kind = "newlib"
      <4>1. "newlib" \in Sound
        BY DEF Sound
      <4> QED BY <2>2, <3>1, <3>4, <4>1, NewlibRefines
              DEF R!Next, R!Take, R!Again, R!Drop, Level
    <3> QED BY <3>2, <3>3, <3>4 DEF Sound
  <2> QED BY <2>1, <2>2 DEF Next
<1> QED BY <1>1, <1>2, LocksInvariant, PTL DEF Spec, Reentrant, R!Spec
=============================================================================
