-------------------------- MODULE TicketLockProofs --------------------------
(***************************************************************************)
(* Proofs about TicketLock, for any number of threads and any word that    *)
(* has a ticket for each of them.                                          *)
(*                                                                         *)
(* Mutual exclusion is not inductive by itself: that only one thread finds *)
(* its ticket called rests on the tickets being out in a row, in the order *)
(* in which they were drawn.  TicketsInOrder says so; with TypeOK it is    *)
(* the inductive invariant.  That tickets do not repeat round the word is  *)
(* where the assumption on the number of threads enters (QueueFits).       *)
(***************************************************************************)
EXTENDS TicketLock, TLAPS, FiniteSetTheorems, SequenceTheorems

\* Leaves that name no prover go to SMT, then to Zenon, then to SMT once more.
USE SMTT(30), ZenonT(30), SMTT(31)

\* Division with remainder, the form in which the lemmas below use it.
LEMMA DivMod ==
  ASSUME NEW x \in Nat, NEW n \in Nat \ {0}
  PROVE  /\ x % n \in 0 .. n - 1
         /\ x \div n \in Nat
         /\ x = n * (x \div n) + (x % n)
OBVIOUS

\* The remainder is the only number below n that completes a multiple of n.
LEMMA ModUnique ==
  ASSUME NEW x \in Nat, NEW n \in Nat \ {0},
         NEW q \in Nat, NEW r \in 0 .. n - 1, x = n * q + r
  PROVE  x % n = r
OBVIOUS

\* A number below n is its own remainder.
LEMMA ModSmall ==
  ASSUME NEW n \in Nat \ {0}, NEW k \in 0 .. n - 1
  PROVE  k % n = k
BY ModUnique, k = n * 0 + k

\* Adding to a remainder is adding to the number.
LEMMA ModPlus ==
  \A W \in Nat \ {0} : \A x, j \in Nat : ((x % W) + j) % W = (x + j) % W
<1> TAKE W \in Nat \ {0}
<1> TAKE x, j \in Nat
<1>1. PICK q \in Nat, r \in 0 .. W - 1 : x = W * q + r
  BY DivMod, ZenonT(30)
<1>2. x % W = r
  BY <1>1, ModUnique
<1>3. r + j \in Nat
  OBVIOUS
<1>4. PICK p \in Nat, s \in 0 .. W - 1 : r + j = W * p + s
  BY <1>3, DivMod, ZenonT(30)
<1>5. (r + j) % W = s
  BY <1>3, <1>4, ModUnique, ZenonT(30)
<1>6. x + j = W * (q + p) + s
  BY <1>1, <1>4
<1>7. (x + j) % W = s
  BY <1>6, ModUnique, x + j \in Nat, q + p \in Nat, ZenonT(30)
<1> QED BY <1>2, <1>5, <1>7

\* Fewer than W steps round a circle of W do not come back.
LEMMA ModDistinct ==
  \A W \in Nat \ {0} : \A x, j \in 0 .. W - 1 : (x + j) % W = x => j = 0
<1> TAKE W \in Nat \ {0}
<1> TAKE x, j \in 0 .. W - 1
<1>1. CASE x + j < W
  <2>1. (x + j) % W = x + j
    BY <1>1, ModSmall, x + j \in 0 .. W - 1
  <2> QED BY <2>1
<1>2. CASE x + j >= W
  <2>1. x + j = W * 1 + (x + j - W) /\ x + j - W \in 0 .. W - 1
    BY <1>2
  <2>2. (x + j) % W = x + j - W
    BY <2>1, ModUnique, x + j \in Nat, 1 \in Nat
  <2> QED BY <2>2
<1> QED BY <1>1, <1>2

IInv == TypeOK /\ TicketsInOrder

\* The word is a positive number and Inc stays in it.
LEMMA IncType ==
  /\ Word \in Nat \ {0}
  /\ \A x \in 0 .. Word - 1 : Inc(x) \in 0 .. Word - 1
<1>1. Word \in Nat \ {0}
  BY TicketsAssumption
<1>2. ASSUME NEW x \in 0 .. Word - 1 PROVE Inc(x) \in 0 .. Word - 1
  <2>1. x + 1 \in Nat
    OBVIOUS
  <2> QED BY <1>1, <2>1, DivMod DEF Inc
<1> QED BY <1>1, <1>2

\* No more tickets are out than there are threads.
LEMMA QueueFits ==
  ASSUME queue \in Seq(Thread),
         \A i, j \in 1 .. Len(queue) : queue[i] = queue[j] => i = j
  PROVE  Len(queue) <= Word
<1> DEFINE S == 1 .. Len(queue)
<1>1. Len(queue) \in Nat /\ queue \in [S -> Thread]
  BY LenProperties
<1>2. IsFiniteSet(S) /\ Cardinality(S) = Len(queue)
  <2>1. PICK n \in Nat : n = Len(queue)
    BY <1>1, ZenonT(30)
  <2>2. IsFiniteSet(1 .. n) /\ Cardinality(1 .. n) = IF 1 > n THEN 0 ELSE n - 1 + 1
    BY FS_Interval, 1 \in Int, n \in Int
  <2>3. (IF 1 > n THEN 0 ELSE n - 1 + 1) = n
    OBVIOUS
  <2> QED BY <2>1, <2>2, <2>3, ZenonT(30)
<1>3. SUFFICES ASSUME Cardinality(Thread) < Cardinality(S) PROVE FALSE
  BY <1>1, <1>2, TicketsAssumption, FS_CardinalityType
<1>4. \E i, j \in S : i # j /\ queue[i] = queue[j]
  BY <1>1, <1>2, <1>3, TicketsAssumption, FS_PigeonHole
<1> QED BY <1>4

\* In the initial states no ticket is out and the first one is called.
LEMMA InitInv == Init => IInv
<1> SUFFICES ASSUME Init PROVE IInv
  OBVIOUS
<1>1. Word \in Nat /\ Word > 1
  BY TicketsAssumption
<1>2. TypeOK
  BY <1>1 DEF Init, TypeOK, Labels
<1>3. Inc(ticket_count) = (ticket_poll + Len(queue)) % Word
  BY DEF Init, Inc
<1>4. TicketsInOrder
  BY <1>3 DEF Init, TicketsInOrder, Inside
<1> QED BY <1>2, <1>4 DEF IInv

\* Steps that move one thread among labels without a ticket: Acquire,
\* LoadLinked and StoreFails.
LEMMA NoTicketStep ==
  ASSUME IInv, NEW t \in Thread, Acquire(t) \/ LoadLinked(t) \/ StoreFails(t)
  PROVE  IInv'
<1> USE DEF IInv
<1>1. TypeOK'
  BY ZenonT(30) DEF TypeOK, Labels, Acquire, LoadLinked, StoreFails
<1>2. /\ queue' = queue /\ ticket_count' = ticket_count /\ ticket_poll' = ticket_poll
      /\ pc[t] \in {"out", "ldl", "stc"} /\ pc'[t] \in {"out", "ldl", "stc"}
      /\ \A u \in Thread \ {t} : pc'[u] = pc[u] /\ temp1'[u] = temp1[u]
  BY DEF TypeOK, Acquire, LoadLinked, StoreFails
<1>3. \A i \in 1 .. Len(queue) : queue[i] \in Thread \ {t}
  <2>1. \A i \in 1 .. Len(queue) : queue[i] \in Thread
    BY DEF TypeOK
  <2> QED BY <2>1, <1>2 DEF TicketsInOrder
<1>4. Inside' = Inside
  BY <1>2 DEF Inside
<1>5. \A u \in linked' : pc'[u] = "stc" /\ temp1'[u] = ticket_count'
  BY DEF TypeOK, TicketsInOrder, Acquire, LoadLinked, StoreFails
<1>6. \A u \in Thread : pc'[u] \in {"poll", "held", "release"} <=>
                          \E i \in 1 .. Len(queue') : queue'[i] = u
  BY <1>2 DEF TicketsInOrder
<1>7. \A i \in 1 .. Len(queue') : pc'[queue'[i]] = "poll" =>
        temp1'[queue'[i]] = (ticket_poll' + (i - 1)) % Word
  BY <1>2, <1>3 DEF TicketsInOrder
<1>8. \A u \in Thread : pc'[u] = "release" => temp1'[u] = ticket_poll'
  BY <1>2 DEF TicketsInOrder
<1>9. Inc(ticket_count)' = (ticket_poll' + Len(queue')) % Word
  BY <1>2 DEF TicketsInOrder, Inc
<1> QED BY <1>1, <1>2, <1>4, <1>5, <1>6, <1>7, <1>8, <1>9 DEF TicketsInOrder

\* Drawing a ticket puts the thread at the end of the queue.
LEMMA StoreConditionalStep ==
  ASSUME IInv, NEW t \in Thread, StoreConditional(t)
  PROVE  IInv'
<1> USE DEF IInv
<1> DEFINE L == Len(queue)
<1>1. /\ L \in Nat /\ \A i \in 1 .. L : queue[i] \in Thread
      /\ queue' \in Seq(Thread) /\ Len(queue') = L + 1
      /\ \A i \in 1 .. L : queue'[i] = queue[i]
      /\ queue'[L + 1] = t
  BY AppendProperties DEF TypeOK, StoreConditional
<1>2. /\ ticket_poll' = ticket_poll /\ ticket_count' = Inc(ticket_count)
      /\ temp1'[t] = Inc(ticket_count) /\ pc'[t] = "poll" /\ pc[t] = "stc"
      /\ \A u \in Thread \ {t} : pc'[u] = pc[u] /\ temp1'[u] = temp1[u]
      /\ linked' = {}
  BY DEF TypeOK, StoreConditional, TicketsInOrder
<1>3. TypeOK'
  BY <1>1, IncType DEF TypeOK, Labels, StoreConditional
<1>4. \A i \in 1 .. L : queue[i] # t
  BY <1>2 DEF TicketsInOrder
<1>5. \A i, j \in 1 .. Len(queue') : queue'[i] = queue'[j] => i = j
  BY <1>1, <1>4 DEF TicketsInOrder
<1>6. \A u \in Thread : pc'[u] \in {"poll", "held", "release"} <=>
                          \E i \in 1 .. Len(queue') : queue'[i] = u
  <2> TAKE u \in Thread
  <2>1. CASE u = t
    <3>1. L + 1 \in 1 .. Len(queue')
      BY <1>1
    <3> QED BY <1>1, <1>2, <2>1, <3>1
  <2>2. CASE u # t
    <3>1. (\E i \in 1 .. Len(queue') : queue'[i] = u) <=> \E i \in 1 .. L : queue[i] = u
      BY <1>1, <2>2
    <3> QED BY <1>2, <2>2, <3>1 DEF TicketsInOrder
  <2> QED BY <2>1, <2>2
<1>7. Inc(ticket_count)' = (ticket_poll' + Len(queue')) % Word
  <2>1. Inc(ticket_count) = (ticket_poll + L) % Word /\ ticket_poll + L \in Nat
    BY <1>1 DEF TicketsInOrder, TypeOK
  <2>2. \A x, j \in Nat : ((x % Word) + j) % Word = (x + j) % Word
    BY ModPlus, IncType, ZenonT(30)
  <2>3. (((ticket_poll + L) % Word) + 1) % Word = ((ticket_poll + L) + 1) % Word
    BY <2>1, <2>2
  <2>4. (ticket_poll + L) + 1 = ticket_poll + (L + 1)
    BY <1>1 DEF TypeOK
  <2> QED BY <1>1, <1>2, <2>1, <2>3, <2>4 DEF Inc
<1>8. \A i \in 1 .. Len(queue') : pc'[queue'[i]] = "poll" =>
        temp1'[queue'[i]] = (ticket_poll' + (i - 1)) % Word
  <2> TAKE i \in 1 .. Len(queue')
  <2> HAVE pc'[queue'[i]] = "poll"
  <2>1. CASE i = L + 1
    <3>1. i - 1 = L
      BY <1>1, <2>1
    <3> QED BY <1>1, <1>2, <2>1, <3>1 DEF TicketsInOrder
  <2>2. CASE i \in 1 .. L
    BY <1>1, <1>2, <1>4, <2>2 DEF TicketsInOrder
  <2> QED BY <1>1, <2>1, <2>2
<1>9. \A u \in Inside' : queue' # <<>> /\ queue'[1] = u
  <2>1. Inside' = Inside
    BY <1>2 DEF Inside
  <2>2. \A u \in Inside : L >= 1 /\ queue[1] = u
    BY EmptySeq DEF TicketsInOrder, TypeOK
  <2>3. queue' # <<>>
    BY <1>1, EmptySeq
  <2> QED BY <1>1, <2>1, <2>2, <2>3
<1>10. \A u \in Thread : pc'[u] = "release" => temp1'[u] = ticket_poll'
  BY <1>2 DEF TicketsInOrder
<1> QED BY <1>2, <1>3, <1>5, <1>6, <1>7, <1>8, <1>9, <1>10 DEF TicketsInOrder

\* A thread whose ticket is called is the first of the queue.
LEMMA CalledIsFirst ==
  ASSUME IInv, NEW t \in Thread, PollTicket(t)
  PROVE  queue # <<>> /\ queue[1] = t
<1> USE DEF IInv
<1>1. PICK i \in 1 .. Len(queue) : queue[i] = t
  BY DEF TicketsInOrder, PollTicket
<1>2. temp1[t] = (ticket_poll + (i - 1)) % Word /\ ticket_poll = temp1[t]
  BY <1>1 DEF TicketsInOrder, PollTicket
<1>3. Len(queue) \in Nat /\ Len(queue) <= Word
  BY QueueFits, LenProperties DEF TypeOK, TicketsInOrder
<1>4. i - 1 \in 0 .. Word - 1 /\ ticket_poll \in 0 .. Word - 1
  BY <1>3, IncType DEF TypeOK
<1>5. \A x, j \in 0 .. Word - 1 : (x + j) % Word = x => j = 0
  BY ModDistinct, IncType, ZenonT(30)
<1>6. i - 1 = 0
  BY <1>2, <1>4, <1>5
<1> QED BY <1>1, <1>3, <1>6, EmptySeq

\* The end of the polling loop lets in the first of the queue, and nobody else
\* is inside.
LEMMA PollStep ==
  ASSUME IInv, NEW t \in Thread, PollTicket(t)
  PROVE  IInv'
<1> USE DEF IInv
<1>1. queue # <<>> /\ queue[1] = t
  BY CalledIsFirst
<1>2. TypeOK'
  BY DEF TypeOK, Labels, PollTicket
<1>3. /\ UNCHANGED <<ticket_count, ticket_poll, temp1, linked, queue>>
      /\ pc[t] = "poll" /\ pc'[t] = "held"
      /\ \A u \in Thread \ {t} : pc'[u] = pc[u]
  BY DEF TypeOK, PollTicket
<1>4. \A u \in Inside' : u \in Inside \/ u = t
  BY <1>3 DEF Inside
<1>5. \A u \in Inside' : queue' # <<>> /\ queue'[1] = u
  BY <1>1, <1>3, <1>4 DEF TicketsInOrder
<1>6. \A i \in 1 .. Len(queue) : queue[i] \in Thread
  BY DEF TypeOK
<1>7. \A i \in 1 .. Len(queue') : pc'[queue'[i]] = "poll" =>
        temp1'[queue'[i]] = (ticket_poll' + (i - 1)) % Word
  BY <1>3, <1>6 DEF TicketsInOrder
<1>8. \A u \in Thread : pc'[u] \in {"poll", "held", "release"} <=>
                          \E i \in 1 .. Len(queue') : queue'[i] = u
  BY <1>3 DEF TicketsInOrder
<1>9. /\ \A u \in Thread : pc'[u] = "release" => temp1'[u] = ticket_poll'
      /\ \A u \in linked' : pc'[u] = "stc" /\ temp1'[u] = ticket_count'
  BY <1>3 DEF TicketsInOrder, TypeOK
<1>10. Inc(ticket_count)' = (ticket_poll' + Len(queue')) % Word
  BY <1>3 DEF TicketsInOrder, Inc
<1> QED BY <1>2, <1>3, <1>5, <1>7, <1>8, <1>9, <1>10 DEF TicketsInOrder

\* The load of the release finds the called ticket, which nobody else changes
\* before the store.
LEMMA ReleaseLoadStep ==
  ASSUME IInv, NEW t \in Thread, ReleaseLoad(t)
  PROVE  IInv'
<1> USE DEF IInv
<1>1. TypeOK'
  BY DEF TypeOK, Labels, ReleaseLoad
<1>2. /\ UNCHANGED <<ticket_count, ticket_poll, linked, queue>>
      /\ pc[t] = "held" /\ pc'[t] = "release" /\ temp1'[t] = ticket_poll
      /\ \A u \in Thread \ {t} : pc'[u] = pc[u] /\ temp1'[u] = temp1[u]
  BY DEF TypeOK, ReleaseLoad
<1>3. Inside' = Inside
  BY <1>2 DEF Inside
<1>4. \A i \in 1 .. Len(queue) : queue[i] \in Thread
  BY DEF TypeOK
<1>5. \A i \in 1 .. Len(queue') : pc'[queue'[i]] = "poll" =>
        temp1'[queue'[i]] = (ticket_poll' + (i - 1)) % Word
  BY <1>2, <1>4 DEF TicketsInOrder
<1>6. \A u \in Thread : pc'[u] \in {"poll", "held", "release"} <=>
                          \E i \in 1 .. Len(queue') : queue'[i] = u
  BY <1>2 DEF TicketsInOrder
<1>7. /\ \A u \in Thread : pc'[u] = "release" => temp1'[u] = ticket_poll'
      /\ \A u \in linked' : pc'[u] = "stc" /\ temp1'[u] = ticket_count'
  <2>1. linked \subseteq Thread \ {t}
    BY <1>2 DEF TicketsInOrder, TypeOK
  <2>2. /\ \A u \in Thread : pc[u] = "release" => temp1[u] = ticket_poll
        /\ \A u \in linked : pc[u] = "stc" /\ temp1[u] = ticket_count
    BY DEF TicketsInOrder
  <2> QED BY <1>2, <2>1, <2>2
<1>8. Inc(ticket_count)' = (ticket_poll' + Len(queue')) % Word
  BY <1>2 DEF TicketsInOrder, Inc
<1> QED BY <1>1, <1>2, <1>3, <1>5, <1>6, <1>7, <1>8 DEF TicketsInOrder

\* The release calls the ticket of the thread that is now first: every ticket
\* moves one place nearer.
LEMMA ReleaseStoreStep ==
  ASSUME IInv, NEW t \in Thread, ReleaseStore(t)
  PROVE  IInv'
<1> USE DEF IInv
<1> DEFINE L == Len(queue)
<1>1. queue \in Seq(Thread) /\ queue # <<>> /\ queue[1] = t
  BY DEF TypeOK, TicketsInOrder, ReleaseStore, Inside
<1>2. /\ L \in Nat \ {0} /\ \A i \in 1 .. L : queue[i] \in Thread
      /\ queue' \in Seq(Thread) /\ Len(queue') = L - 1
      /\ \A i \in 1 .. L - 1 : queue'[i] = queue[i + 1]
  BY <1>1, HeadTailProperties, EmptySeq, ElementOfSeq DEF ReleaseStore
<1>3. /\ UNCHANGED <<ticket_count, temp1, linked>>
      /\ ticket_poll' = Inc(ticket_poll)
      /\ pc[t] = "release" /\ pc'[t] = "out"
      /\ \A u \in Thread \ {t} : pc'[u] = pc[u]
  BY DEF TypeOK, TicketsInOrder, ReleaseStore
<1>4. TypeOK'
  BY <1>2, <1>3, IncType DEF TypeOK, Labels, ReleaseStore
<1>5. \A i, j \in 1 .. L : queue[i] = queue[j] => i = j
  BY DEF TicketsInOrder
<1>6. \A i \in 1 .. L - 1 : queue'[i] # t
  <2> TAKE i \in 1 .. L - 1
  <2>1. i + 1 \in 1 .. L /\ 1 \in 1 .. L /\ i + 1 # 1
    BY <1>2
  <2> QED BY <1>1, <1>2, <1>5, <2>1
<1>7. \A i, j \in 1 .. Len(queue') : queue'[i] = queue'[j] => i = j
  BY <1>2, <1>5
<1>8. \A u \in Thread : pc'[u] \in {"poll", "held", "release"} <=>
                          \E i \in 1 .. Len(queue') : queue'[i] = u
  <2> TAKE u \in Thread
  <2>1. CASE u = t
    BY <1>2, <1>3, <1>6, <2>1
  <2>2. CASE u # t
    <3>1. ASSUME NEW i \in 1 .. L, queue[i] = u
          PROVE  \E j \in 1 .. L - 1 : queue'[j] = u
      <4>1. i # 1
        BY <1>1, <2>2, <3>1
      <4>2. i - 1 \in 1 .. L - 1 /\ (i - 1) + 1 = i
        BY <1>2, <4>1
      <4> QED BY <1>2, <3>1, <4>2, ZenonT(30)
    <3>2. ASSUME NEW j \in 1 .. L - 1, queue'[j] = u
          PROVE  \E i \in 1 .. L : queue[i] = u
      <4>1. j + 1 \in 1 .. L
        BY <1>2
      <4> QED BY <1>2, <3>2, <4>1
    <3>3. pc[u] \in {"poll", "held", "release"} <=> \E i \in 1 .. L : queue[i] = u
      BY DEF TicketsInOrder
    <3> QED BY <1>2, <1>3, <2>2, <3>1, <3>2, <3>3
  <2> QED BY <2>1, <2>2
<1>9. \A j \in Nat : (ticket_poll' + j) % Word = (ticket_poll + (j + 1)) % Word
  <2> TAKE j \in Nat
  <2>1. \A x, y \in Nat : ((x % Word) + y) % Word = (x + y) % Word
    BY ModPlus, IncType, ZenonT(30)
  <2>2. ticket_poll + 1 \in Nat /\ (ticket_poll + 1) + j = ticket_poll + (j + 1)
    BY DEF TypeOK
  <2>3. (((ticket_poll + 1) % Word) + j) % Word = ((ticket_poll + 1) + j) % Word
    BY <2>1, <2>2
  <2> QED BY <1>3, <2>2, <2>3 DEF Inc
<1>10. Inc(ticket_count)' = (ticket_poll' + Len(queue')) % Word
  <2>1. L - 1 \in Nat /\ (L - 1) + 1 = L
    BY <1>2
  <2>2. (ticket_poll' + (L - 1)) % Word = (ticket_poll + L) % Word
    BY <1>9, <2>1
  <2> QED BY <1>2, <1>3, <2>2 DEF TicketsInOrder, Inc
<1>11. \A i \in 1 .. Len(queue') : pc'[queue'[i]] = "poll" =>
         temp1'[queue'[i]] = (ticket_poll' + (i - 1)) % Word
  <2> TAKE i \in 1 .. Len(queue')
  <2> HAVE pc'[queue'[i]] = "poll"
  <2>1. /\ i \in 1 .. L - 1 /\ i + 1 \in 1 .. L /\ i - 1 \in Nat
        /\ (i - 1) + 1 = i /\ (i + 1) - 1 = i
    BY <1>2
  <2>2. queue'[i] = queue[i + 1] /\ queue[i + 1] \in Thread \ {t}
    BY <1>2, <1>6, <2>1
  <2>3. temp1[queue[i + 1]] = (ticket_poll + ((i + 1) - 1)) % Word
    BY <1>3, <2>1, <2>2 DEF TicketsInOrder
  <2>4. (ticket_poll' + (i - 1)) % Word = (ticket_poll + i) % Word
    BY <1>9, <2>1
  <2> QED BY <1>3, <2>1, <2>2, <2>3, <2>4
<1>12. Inside' = {}
  <2>1. \A u \in Inside : u = t
    BY <1>1 DEF TicketsInOrder
  <2> QED BY <1>3, <2>1 DEF Inside
<1>13. /\ \A u \in Thread : pc'[u] = "release" => temp1'[u] = ticket_poll'
       /\ \A u \in linked' : pc'[u] = "stc" /\ temp1'[u] = ticket_count'
  BY <1>3, <1>12 DEF TicketsInOrder, TypeOK, Inside
<1> QED BY <1>4, <1>7, <1>8, <1>10, <1>11, <1>12, <1>13 DEF TicketsInOrder

\* Every step of LOCAL_LOCK_ACQUIRE and LOCAL_LOCK_RELEASE preserves the
\* inductive invariant.
LEMMA IInvStep == IInv /\ [Next]_vars => IInv'
<1> SUFFICES ASSUME IInv, [Next]_vars PROVE IInv'
  OBVIOUS
<1>1. CASE Next
  <2>1. PICK t \in Thread : Acquire(t) \/ Continue(t)
    BY <1>1 DEF Next
  <2> QED BY <2>1, NoTicketStep, StoreConditionalStep, PollStep, ReleaseLoadStep,
             ReleaseStoreStep DEF Continue
<1>2. CASE UNCHANGED vars
  BY <1>2 DEF IInv, TypeOK, TicketsInOrder, Inside, Inc, vars
<1> QED BY <1>1, <1>2

\* The invariant of the two ticket words holds in every execution.
THEOREM TicketsCorrect == Spec => []TicketsInOrder
<1>1. IInv => TicketsInOrder
  BY DEF IInv
<1> QED BY <1>1, InitInv, IInvStep, PTL DEF Spec

\* The words, registers and labels keep their types in every execution.
THEOREM TicketTypes == Spec => []TypeOK
<1>1. IInv => TypeOK
  BY DEF IInv
<1> QED BY <1>1, InitInv, IInvStep, PTL DEF Spec

\* The local task queue is never in the hands of two threads, also when the
\* tickets wrap round the word and release is a load and a store.
THEOREM LockExcludes == Spec => []MutualExclusion
<1>1. IInv => MutualExclusion
  BY DEF IInv, TicketsInOrder, MutualExclusion
<1> QED BY <1>1, InitInv, IInvStep, PTL DEF Spec

\* Every step of the ticket lock is a step of the FIFO lock or changes nothing
\* of what it sees: drawing a ticket asks, finding it called gets, the store
\* of the release frees.
LEMMA RefineStep ==
  ASSUME IInv, [Next]_vars
  PROVE  [Fifo!Next]_<<queue, Inside>>
<1> USE DEF IInv
<1>1. CASE UNCHANGED vars
  BY <1>1 DEF vars, Inside
<1>2. ASSUME NEW t \in Thread, Acquire(t) \/ LoadLinked(t) \/ StoreFails(t)
      PROVE  UNCHANGED <<queue, Inside>>
  BY <1>2 DEF TypeOK, Acquire, LoadLinked, StoreFails, Inside
<1>3. ASSUME NEW t \in Thread, StoreConditional(t)
      PROVE  Fifo!Ask(t)
  <2>1. queue' = Append(queue, t) /\ Inside' = Inside /\ pc[t] = "stc"
    BY <1>3 DEF TypeOK, StoreConditional, Inside
  <2>2. DOMAIN queue = 1 .. Len(queue)
    BY LenProperties DEF TypeOK
  <2>3. \A i \in DOMAIN queue : queue[i] # t
    BY <2>1, <2>2 DEF TicketsInOrder
  <2> QED BY <2>1, <2>3 DEF Fifo!Ask
<1>4. ASSUME NEW t \in Thread, PollTicket(t)
      PROVE  Fifo!Get(t)
  <2>1. queue # <<>> /\ queue[1] = t
    BY <1>4, CalledIsFirst
  <2>2. Head(queue) = t
    BY <2>1 DEF TypeOK
  <2>3. Inside = {}
    BY <1>4, <2>1 DEF TicketsInOrder, PollTicket, Inside
  <2>4. Inside' = {t} /\ queue' = queue
    BY <1>4, <2>3 DEF TypeOK, PollTicket, Inside
  <2> QED BY <2>1, <2>2, <2>3, <2>4 DEF Fifo!Get
<1>5. ASSUME NEW t \in Thread, ReleaseLoad(t)
      PROVE  UNCHANGED <<queue, Inside>>
  BY <1>5 DEF TypeOK, ReleaseLoad, Inside
<1>6. ASSUME NEW t \in Thread, ReleaseStore(t)
      PROVE  Fifo!Free(t)
  <2>1. t \in Inside
    BY <1>6 DEF ReleaseStore, Inside
  <2>2. queue # <<>> /\ queue[1] = t /\ Inside = {t}
    BY <2>1 DEF TicketsInOrder
  <2>3. Head(queue) = t
    BY <2>2 DEF TypeOK
  <2>4. Inside' = {} /\ queue' = Tail(queue)
    BY <1>6, <2>2 DEF TypeOK, ReleaseStore, Inside
  <2> QED BY <2>2, <2>3, <2>4 DEF Fifo!Free
<1>7. CASE Next
  <2>1. PICK t \in Thread : Acquire(t) \/ Continue(t)
    BY <1>7 DEF Next
  <2>2. UNCHANGED <<queue, Inside>> \/ Fifo!Ask(t) \/ Fifo!Get(t) \/ Fifo!Free(t)
    BY <2>1, <1>2, <1>3, <1>4, <1>5, <1>6 DEF Continue
  <2> QED BY <2>2 DEF Fifo!Next
<1> QED BY <1>1, <1>7

\* The local queue's lock implements the FIFO lock: no thread that drew its
\* ticket later is served earlier.
THEOREM ImplementsFifo == Spec => ServedInOrder
<1>1. Init => Fifo!Init
  BY DEF Init, Fifo!Init, Inside
<1> QED BY <1>1, InitInv, IInvStep, RefineStep, PTL
        DEF Spec, ServedInOrder, Fifo!Spec
=============================================================================
