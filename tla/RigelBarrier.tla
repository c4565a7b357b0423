---------------------------- MODULE RigelBarrier ----------------------------
(***************************************************************************)
(* The two-level sense-reversing barrier of lib/libpar/barrier-mt.c (and   *)
(* of lib/libpar/barrier.c, which is the same code with the size of a      *)
(* cluster hard-coded to 8 and cores in place of threads).                 *)
(*                                                                         *)
(* Threads of a cluster count themselves in local_complete[cluster] with a *)
(* load-linked/store-conditional loop; the thread that brings the count to *)
(* a multiple of the cluster's size counts the cluster in global_compete   *)
(* with atom.inc; the thread that brings that count to a multiple of the   *)
(* number of clusters broadcasts its own sense into global_reduce_done.    *)
(* Everybody polls global_reduce_done and flips its sense on the way out.  *)
(* Neither counter is ever reset: they run on, modulo the word.            *)
(***************************************************************************)
EXTENDS Integers, FiniteSets

CONSTANTS Thread,      \* hardware threads, SPR $6
          Cluster,     \* clusters, SPR $4
          clusterOf,   \* the cluster a thread belongs to
          PerCluster,  \* threads per cluster, SPR $3
          Word         \* a register holds 0 .. Word-1 (2^32 on the machine)

Members(c) == {t \in Thread : clusterOf[t] = c}

NumClusters == Cardinality(Cluster)

\* Every cluster has PerCluster threads, and both sizes divide the word: on
\* the machine they are powers of two, which is what makes "count & (n - 1)"
\* the remainder of the count by n, also after the count has wrapped.
ASSUME SizesAssumption ==
  /\ IsFiniteSet(Thread)
  /\ IsFiniteSet(Cluster)
  /\ Cluster # {}
  /\ clusterOf \in [Thread -> Cluster]
  /\ PerCluster \in Nat \ {0}
  /\ \A c \in Cluster : Cardinality(Members(c)) = PerCluster
  /\ Word \in Nat \ {0}
  /\ Word % PerCluster = 0
  /\ Word % NumClusters = 0

VARIABLES local_complete, global_compete, local_sense, global_reduce_done,
          pc,      \* where each thread is in EnterFull
          r26,     \* each thread's register 26
          linked   \* threads whose load-linked reservation still stands

vars == <<local_complete, global_compete, local_sense, global_reduce_done,
          pc, r26, linked>>

\* Labels of EnterFull.
Out == "out"          \* not in the barrier
LocalInc == "ldl"     \* BAR_localinc, before ldl
StoreCond == "stc"    \* before stc
GlobalInc == "ginc"   \* BAR_globalinc
Wakeup == "wakeup"    \* BAR_wakeup
Done == "done"        \* BAR_done: polling global_reduce_done

Labels == {Out, LocalInc, StoreCond, GlobalInc, Wakeup, Done}

TypeOK ==
  /\ local_complete \in [Cluster -> 0 .. Word - 1]
  /\ global_compete \in 0 .. Word - 1
  /\ local_sense \in [Thread -> {0, 1}]
  /\ global_reduce_done \in {0, 1}
  /\ pc \in [Thread -> Labels]
  /\ r26 \in [Thread -> 0 .. Word - 1]
  /\ linked \subseteq Thread

\* RigelBarrierMT_Init, which one thread runs before any other enters.
Init ==
  /\ local_complete = [c \in Cluster |-> 0]
  /\ global_compete = 0
  /\ local_sense = [t \in Thread |-> 0]
  /\ global_reduce_done = 1
  /\ pc = [t \in Thread |-> Out]
  /\ r26 = [t \in Thread |-> 0]
  /\ linked = {}

Inc(x) == (x + 1) % Word

\* "and $26, $26, mask" followed by "beq $26, $zero": the count is a multiple.
Completes(count, n) == count % n = 0

Enter(t) ==
  /\ pc[t] = Out
  /\ pc' = [pc EXCEPT ![t] = LocalInc]
  /\ UNCHANGED <<local_complete, global_compete, local_sense,
                 global_reduce_done, r26, linked>>

LoadLinked(t) ==
  /\ pc[t] = LocalInc
  /\ r26' = [r26 EXCEPT ![t] = local_complete[clusterOf[t]]]
  /\ linked' = linked \cup {t}
  /\ pc' = [pc EXCEPT ![t] = StoreCond]
  /\ UNCHANGED <<local_complete, global_compete, local_sense,
                 global_reduce_done>>

\* Mutant: a plain store in place of stc, so that two increments may merge.
StorePlain(t) ==
  /\ pc[t] = StoreCond
  /\ local_complete' =
       [local_complete EXCEPT ![clusterOf[t]] = Inc(r26[t])]
  /\ r26' = [r26 EXCEPT ![t] = Inc(@)]
  /\ linked' = linked \ Members(clusterOf[t])
  /\ pc' = [pc EXCEPT ![t] =
              IF Completes(Inc(r26[t]), PerCluster) THEN GlobalInc ELSE Done]
  /\ UNCHANGED <<global_compete, local_sense, global_reduce_done>>

\* The store goes through when no other thread stored since the load; it
\* breaks every reservation on the same counter.
StoreConditional(t) ==
  /\ pc[t] = StoreCond
  /\ t \in linked
  /\ local_complete' =
       [local_complete EXCEPT ![clusterOf[t]] = Inc(r26[t])]
  /\ r26' = [r26 EXCEPT ![t] = Inc(@)]
  /\ linked' = linked \ Members(clusterOf[t])
  /\ pc' = [pc EXCEPT ![t] =
              IF Completes(Inc(r26[t]), PerCluster) THEN GlobalInc ELSE Done]
  /\ UNCHANGED <<global_compete, local_sense, global_reduce_done>>

StoreFails(t) ==
  /\ pc[t] = StoreCond
  /\ t \notin linked
  /\ pc' = [pc EXCEPT ![t] = LocalInc]
  /\ UNCHANGED <<local_complete, global_compete, local_sense,
                 global_reduce_done, r26, linked>>

\* Mutant: the test uses the count from before the increment.
AtomIncOldCount(t) ==
  /\ pc[t] = GlobalInc
  /\ global_compete' = Inc(global_compete)
  /\ r26' = [r26 EXCEPT ![t] = global_compete]
  /\ pc' = [pc EXCEPT ![t] =
              IF Completes(global_compete, NumClusters) THEN Wakeup ELSE Done]
  /\ UNCHANGED <<local_complete, local_sense, global_reduce_done, linked>>

AtomInc(t) ==
  /\ pc[t] = GlobalInc
  /\ global_compete' = Inc(global_compete)
  /\ r26' = [r26 EXCEPT ![t] = Inc(global_compete)]
  /\ pc' = [pc EXCEPT ![t] =
              IF Completes(Inc(global_compete), NumClusters)
              THEN Wakeup ELSE Done]
  /\ UNCHANGED <<local_complete, local_sense, global_reduce_done, linked>>

\* Mutant: a constant is broadcast in place of the sense, the wakeup of every
\* other round is lost.
BroadcastOne(t) ==
  /\ pc[t] = Wakeup
  /\ global_reduce_done' = 1
  /\ pc' = [pc EXCEPT ![t] = Done]
  /\ UNCHANGED <<local_complete, global_compete, local_sense, r26, linked>>

\* bcast.u of the sense that was loaded as an operand before the asm block;
\* nobody but the thread itself writes its sense.
Broadcast(t) ==
  /\ pc[t] = Wakeup
  /\ global_reduce_done' = local_sense[t]
  /\ pc' = [pc EXCEPT ![t] = Done]
  /\ UNCHANGED <<local_complete, global_compete, local_sense, r26, linked>>

\* Mutant: the sense is counted up instead of flipped.
LeaveCounting(t) ==
  /\ pc[t] = Done
  /\ local_sense[t] = global_reduce_done
  /\ local_sense' = [local_sense EXCEPT ![t] = 1 + @]
  /\ pc' = [pc EXCEPT ![t] = Out]
  /\ UNCHANGED <<local_complete, global_compete, global_reduce_done, r26,
                 linked>>

\* Mutant: the thread leaves without polling.
LeaveUnpolled(t) ==
  /\ pc[t] = Done
  /\ local_sense' = [local_sense EXCEPT ![t] = 1 - @]
  /\ pc' = [pc EXCEPT ![t] = Out]
  /\ UNCHANGED <<local_complete, global_compete, global_reduce_done, r26,
                 linked>>

\* The polling loop ends and the thread flips its sense.
Leave(t) ==
  /\ pc[t] = Done
  /\ local_sense[t] = global_reduce_done
  /\ local_sense' = [local_sense EXCEPT ![t] = 1 - @]
  /\ pc' = [pc EXCEPT ![t] = Out]
  /\ UNCHANGED <<local_complete, global_compete, global_reduce_done, r26,
                 linked>>

\* The steps of EnterFull once a thread has called it.
Step(t) ==
  \/ LoadLinked(t) \/ StoreConditional(t) \/ StoreFails(t)
  \/ AtomInc(t) \/ Broadcast(t) \/ Leave(t)

Next == \E t \in Thread : Enter(t) \/ Step(t)

Spec == Init /\ [][Next]_vars

\* A hardware thread inside EnterFull keeps executing instructions; whether
\* the program ever calls the barrier again is its own affair.
FairSpec == Spec /\ \A t \in Thread : WF_vars(Step(t))

-----------------------------------------------------------------------------
(* What the barrier promises.                                              *)

\* The thread has been counted in the current round and not yet let go.
Arrived(t) ==
  \/ pc[t] \in {GlobalInc, Wakeup}
  \/ pc[t] = Done /\ local_sense[t] # global_reduce_done

\* No thread is let out of a round while another has yet to be counted in it.
\* Stated on the broadcast of EnterFull, the one store that lets threads go:
\* before it every other thread is in the polling loop with the old sense.
WakeupOnlyWhenAllArrived ==
  \A t \in Thread : pc[t] = Wakeup =>
    \A u \in Thread \ {t} : pc[u] = Done /\ local_sense[u] # global_reduce_done

(* The inductive invariant behind both.                                    *)

ArrivedIn(c) == {t \in Members(c) : Arrived(t)}

Full(c) == ArrivedIn(c) = Members(c)

\* The cluster has been counted in global_compete in the current round.
Counted(c) == Full(c) /\ \A t \in Members(c) : pc[t] # GlobalInc

CountedClusters == {c \in Cluster : Counted(c)}

\* The free-running counters agree, as far as their masks look at them, with
\* who has arrived in the current round: local_complete with the members of
\* the cluster, global_compete with the clusters.  At most one thread of a
\* cluster is about to count it, at most one thread of the chip is about to
\* broadcast, and a reservation that still stands was made on the current
\* value of the counter.
CountersAgree ==
  /\ \A t \in Thread : pc[t] # Done => local_sense[t] # global_reduce_done
  /\ \A t \in Thread : pc[t] = StoreCond /\ t \in linked =>
       r26[t] = local_complete[clusterOf[t]]
  /\ \A c \in Cluster :
       local_complete[c] % PerCluster = Cardinality(ArrivedIn(c)) % PerCluster
  /\ global_compete % NumClusters = Cardinality(CountedClusters) % NumClusters
  /\ \A t, u \in Thread :
       /\ pc[t] = GlobalInc => Full(clusterOf[t])
       /\ pc[t] = Wakeup => CountedClusters = Cluster
       /\ pc[t] = Wakeup /\ pc[u] = Wakeup => t = u
       /\ pc[t] = GlobalInc /\ pc[u] = GlobalInc
            /\ clusterOf[t] = clusterOf[u] => t = u

IInv == TypeOK /\ CountersAgree

\* The barrier implements PhaseBarrier: threads are held until all have
\* joined and are then let go together, whatever the interleaving of the
\* LL/SC loops and of early re-entries into the next round.
stageBar == [t \in Thread |->
  IF pc[t] = Out THEN "outside"
  ELSE IF pc[t] = Done /\ local_sense[t] = global_reduce_done THEN "letgo"
  ELSE "held"]

Abs == INSTANCE PhaseBarrier WITH stage <- stageBar

AbstractBarrier == Abs!Spec

\* Once every thread has joined the same round, every thread gets out of it:
\* the wakeup is neither lost nor overwritten before the slowest thread has
\* seen it, although faster threads may be on their way into the next round.
AllInAllOut ==
  \A t \in Thread :
    (\A u \in Thread : stageBar[u] = "held") ~> (pc[t] = Out)

=============================================================================
