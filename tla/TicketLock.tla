----------------------------- MODULE TicketLock -----------------------------
(***************************************************************************)
(* The lock of a cluster's local task queue: LOCAL_LOCK_ACQUIRE and        *)
(* LOCAL_LOCK_RELEASE of include/rtm-sw.h.  A thread draws the next ticket *)
(* with a load-linked/store-conditional loop on the ticket count, then     *)
(* polls until its ticket is called.  The holder calls the next one with a *)
(* plain "val++", a load and a store.  Neither word is ever reset.         *)
(*                                                                         *)
(* The locks of the clusters share nothing: this is the lock of one.       *)
(***************************************************************************)
EXTENDS Integers, Sequences, FiniteSets

CONSTANTS Thread,   \* the threads of the cluster
          Word      \* a register holds 0 .. Word-1 (2^32 on the machine)

\* There are at least as many tickets as threads.
ASSUME TicketsAssumption ==
  /\ IsFiniteSet(Thread)
  /\ Word \in Nat \ {0, 1}
  /\ Cardinality(Thread) <= Word

VARIABLES
  ticket_count,   \* CLUSTER_ltq_ticket_count
  ticket_poll,    \* CLUSTER_ltq_ticket_poll
  temp1,          \* each thread's first register
  linked,         \* threads whose load-linked reservation still stands
  pc,
  queue           \* history: who has drawn a ticket and not released

vars == <<ticket_count, ticket_poll, temp1, linked, pc, queue>>

Labels == {"out", "ldl", "stc", "poll", "held", "release"}

TypeOK ==
  /\ ticket_count \in 0 .. Word - 1
  /\ ticket_poll \in 0 .. Word - 1
  /\ temp1 \in [Thread -> 0 .. Word - 1]
  /\ linked \subseteq Thread
  /\ pc \in [Thread -> Labels]
  /\ queue \in Seq(Thread)

\* The loop over the clusters in SW_TaskQueue_Init.
Init ==
  /\ ticket_count = 0
  /\ ticket_poll = 1
  /\ temp1 = [t \in Thread |-> 0]
  /\ linked = {}
  /\ pc = [t \in Thread |-> "out"]
  /\ queue = <<>>

Inc(x) == (x + 1) % Word

Acquire(t) ==
  /\ pc[t] = "out"
  /\ pc' = [pc EXCEPT ![t] = "ldl"]
  /\ UNCHANGED <<ticket_count, ticket_poll, temp1, linked, queue>>

LoadLinked(t) ==
  /\ pc[t] = "ldl"
  /\ temp1' = [temp1 EXCEPT ![t] = ticket_count]
  /\ linked' = linked \cup {t}
  /\ pc' = [pc EXCEPT ![t] = "stc"]
  /\ UNCHANGED <<ticket_count, ticket_poll, queue>>

\* Mutant: a plain store in place of stc.
StorePlain(t) ==
  /\ pc[t] = "stc"
  /\ temp1' = [temp1 EXCEPT ![t] = Inc(@)]
  /\ ticket_count' = Inc(temp1[t])
  /\ linked' = {}
  /\ pc' = [pc EXCEPT ![t] = "poll"]
  /\ queue' = Append(queue, t)
  /\ UNCHANGED ticket_poll

\* The store goes through when nobody stored since the load; it breaks every
\* reservation.
StoreConditional(t) ==
  /\ pc[t] = "stc"
  /\ t \in linked
  /\ temp1' = [temp1 EXCEPT ![t] = Inc(@)]
  /\ ticket_count' = Inc(temp1[t])
  /\ linked' = {}
  /\ pc' = [pc EXCEPT ![t] = "poll"]
  /\ queue' = Append(queue, t)
  /\ UNCHANGED ticket_poll

StoreFails(t) ==
  /\ pc[t] = "stc"
  /\ t \notin linked
  /\ pc' = [pc EXCEPT ![t] = "ldl"]
  /\ UNCHANGED <<ticket_count, ticket_poll, temp1, linked, queue>>

\* Mutant: any ticket up to the called one will do.
PollAtMost(t) ==
  /\ pc[t] = "poll"
  /\ temp1[t] <= ticket_poll
  /\ pc' = [pc EXCEPT ![t] = "held"]
  /\ UNCHANGED <<ticket_count, ticket_poll, temp1, linked, queue>>

\* The polling loop ends when the thread's ticket is called.
PollTicket(t) ==
  /\ pc[t] = "poll"
  /\ ticket_poll = temp1[t]
  /\ pc' = [pc EXCEPT ![t] = "held"]
  /\ UNCHANGED <<ticket_count, ticket_poll, temp1, linked, queue>>

ReleaseLoad(t) ==
  /\ pc[t] = "held"
  /\ temp1' = [temp1 EXCEPT ![t] = ticket_poll]
  /\ pc' = [pc EXCEPT ![t] = "release"]
  /\ UNCHANGED <<ticket_count, ticket_poll, linked, queue>>

\* Mutant: the ticket after the next is called.
ReleaseSkips(t) ==
  /\ pc[t] = "release"
  /\ ticket_poll' = Inc(Inc(temp1[t]))
  /\ pc' = [pc EXCEPT ![t] = "out"]
  /\ queue' = Tail(queue)
  /\ UNCHANGED <<ticket_count, temp1, linked>>

ReleaseStore(t) ==
  /\ pc[t] = "release"
  /\ ticket_poll' = Inc(temp1[t])
  /\ pc' = [pc EXCEPT ![t] = "out"]
  /\ queue' = Tail(queue)
  /\ UNCHANGED <<ticket_count, temp1, linked>>

\* What a thread does once it has begun to acquire the lock.
Continue(t) ==
  \/ LoadLinked(t) \/ StoreConditional(t) \/ StoreFails(t)
  \/ PollTicket(t) \/ ReleaseLoad(t) \/ ReleaseStore(t)

Next == \E t \in Thread : Acquire(t) \/ Continue(t)

Spec == Init /\ [][Next]_vars

\* A thread that has begun goes on, and does not hold the lock forever.
FairSpec == Spec /\ \A t \in Thread : WF_vars(Continue(t))

-----------------------------------------------------------------------------

\* Who is between LOCAL_LOCK_ACQUIRE and the end of LOCAL_LOCK_RELEASE.
Inside == {t \in Thread : pc[t] \in {"held", "release"}}

\* At most one thread is in the code that the lock protects, also while the
\* release has loaded the called ticket and not yet stored the next.
MutualExclusion == \A t, u \in Inside : t = u

Fifo == INSTANCE FifoLock WITH inside <- Inside

\* The lock is handed on in the order in which the tickets were drawn.
ServedInOrder == Fifo!Spec

\* A drawn ticket is called in the end.  (That a ticket is drawn is not
\* promised: a store-conditional may lose against others again and again.)
TicketIsCalled == \A t \in Thread : pc[t] = "poll" ~> pc[t] = "held"

\* The two words say which tickets are out: thread number i of the queue has
\* the i-th ticket from the called one, the next to be drawn follows the
\* last of them, and only the first may be inside.
TicketsInOrder ==
  /\ \A i, j \in 1 .. Len(queue) : queue[i] = queue[j] => i = j
  /\ \A t \in Thread : pc[t] \in {"poll", "held", "release"} <=>
                         \E i \in 1 .. Len(queue) : queue[i] = t
  /\ Inc(ticket_count) = (ticket_poll + Len(queue)) % Word
  /\ \A i \in 1 .. Len(queue) : pc[queue[i]] = "poll" =>
                         temp1[queue[i]] = (ticket_poll + (i - 1)) % Word
  /\ \A t \in Inside : queue # <<>> /\ queue[1] = t
  /\ \A t \in Thread : pc[t] = "release" => temp1[t] = ticket_poll
  /\ \A t \in linked : pc[t] = "stc" /\ temp1[t] = ticket_count
=============================================================================
