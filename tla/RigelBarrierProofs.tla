------------------------- MODULE RigelBarrierProofs -------------------------
(***************************************************************************)
(* Proofs about RigelBarrier for any number of clusters and threads and    *)
(* any word both numbers divide.                                           *)
(***************************************************************************)
EXTENDS RigelBarrier, TLAPS, FiniteSetTheorems

\* Leaves that name no prover go to SMT, then to Zenon, then to SMT once more.
USE SMTT(30), ZenonT(30), SMTT(31)

\* Division with remainder, the form in which the lemmas below use it.
LEMMA DivMod ==
  ASSUME NEW x \in Nat, NEW n \in Nat \ {0}
  PROVE  /\ x % n \in 0 .. n - 1
         /\ x \div n \in Nat
         /\ x = n * (x \div n) + (x % n)
OBVIOUS

\* The remainder is the only number below n that completes a multiple of n.
LEMMA ModUnique ==
  ASSUME NEW x \in Nat, NEW n \in Nat \ {0},
         NEW q \in Nat, NEW r \in 0 .. n - 1, x = n * q + r
  PROVE  x % n = r
OBVIOUS

\* Counting one further steps the remainder, back to 0 from n - 1.
LEMMA ModInc ==
  ASSUME NEW x \in Nat, NEW n \in Nat \ {0}
  PROVE  (x + 1) % n = IF x % n = n - 1 THEN 0 ELSE (x % n) + 1
<1>1. PICK q \in Nat, r \in 0 .. n - 1 : x = n * q + r
  BY DivMod, ZenonT(30)
<1>2. x % n = r
  BY <1>1, ModUnique
<1>3. CASE r = n - 1
  <2>1. x + 1 = n * (q + 1) + 0
    BY <1>1, <1>3
  <2>2. (x + 1) % n = 0
    BY <2>1, ModUnique, 0 \in 0 .. n - 1, q + 1 \in Nat, x + 1 \in Nat, ZenonT(30)
  <2> QED BY <2>2, <1>2, <1>3
<1>4. CASE r # n - 1
  <2>1. x + 1 = n * q + (r + 1) /\ r + 1 \in 0 .. n - 1
    BY <1>1, <1>4
  <2>2. (x + 1) % n = r + 1
    BY <2>1, ModUnique, x + 1 \in Nat, ZenonT(30)
  <2> QED BY <2>2, <1>2, <1>4
<1> QED BY <1>3, <1>4

\* The same for a counter that wraps at a word n divides: the wrap is not
\* noticed by who only looks at the remainder by n.
LEMMA WrapInc ==
  ASSUME NEW W \in Nat \ {0}, NEW n \in Nat \ {0}, W % n = 0,
         NEW x \in 0 .. W - 1
  PROVE  /\ (x + 1) % W \in 0 .. W - 1
         /\ ((x + 1) % W) % n = IF x % n = n - 1 THEN 0 ELSE (x % n) + 1
<1>0. x \in Nat
  OBVIOUS
<1>1. (x + 1) % n = IF x % n = n - 1 THEN 0 ELSE (x % n) + 1
  <2> QED BY <1>0, ModInc, ZenonT(30)
<1>2. CASE x + 1 < W
  <2>1. (x + 1) % W = x + 1
    BY <1>2, ModUnique, x + 1 = W * 0 + (x + 1), x + 1 \in 0 .. W - 1
  <2> QED BY <2>1, <1>1, x + 1 \in 0 .. W - 1, <1>2
<1>3. CASE x + 1 = W
  <2>1. (x + 1) % W = 0
    BY <1>3, ModUnique, x + 1 = W * 1 + 0, 0 \in 0 .. W - 1
  <2>2. 0 % n = 0
    BY ModUnique, 0 = n * 0 + 0, 0 \in 0 .. n - 1
  <2>3. (x + 1) % n = 0
    BY <1>3
  <2> HIDE <1>3
  <2> QED BY <2>1, <2>2, <2>3, <1>1
<1> QED BY <1>2, <1>3

\* A number below n is its own remainder.
LEMMA ModSmall ==
  ASSUME NEW n \in Nat \ {0}, NEW k \in 0 .. n - 1
  PROVE  k % n = k
BY ModUnique, k = n * 0 + k

\* A wrapping counter that agrees modulo n with a count below n still agrees
\* after both step, and is a multiple of n exactly when the count reaches n.
LEMMA CountNext ==
  \A W, n \in Nat \ {0} : \A x \in 0 .. W - 1, k \in 0 .. n - 1 :
    W % n = 0 /\ x % n = k % n =>
      /\ (x + 1) % W \in 0 .. W - 1
      /\ ((x + 1) % W) % n = (k + 1) % n
      /\ ((x + 1) % W) % n = 0 <=> k + 1 = n
<1> TAKE W, n \in Nat \ {0}
<1> TAKE x \in 0 .. W - 1, k \in 0 .. n - 1
<1> HAVE W % n = 0 /\ x % n = k % n
<1>1. k \in Nat /\ k % n = k /\ x % n = k
  BY ModSmall
<1>2. (k + 1) % n = IF k % n = n - 1 THEN 0 ELSE (k % n) + 1
  <2> QED BY <1>1, ModInc, ZenonT(30)
<1>3. /\ (x + 1) % W \in 0 .. W - 1
      /\ ((x + 1) % W) % n = IF x % n = n - 1 THEN 0 ELSE (x % n) + 1
  <2>1. W % n = 0
    OBVIOUS
  <2> QED BY <2>1, WrapInc, ZenonT(30)
<1> DEFINE y == ((x + 1) % W) % n
           z == (k + 1) % n
<1>4. y = (IF k = n - 1 THEN 0 ELSE k + 1) /\ z = (IF k = n - 1 THEN 0 ELSE k + 1)
  <2> QED BY <1>1, <1>2, <1>3, ZenonT(30)
<1> HIDE DEF y, z
<1>5. y = z /\ (y = 0 <=> k + 1 = n)
  BY <1>1, <1>4
<1> QED BY <1>3, <1>5 DEF y, z

\* One party more: how the number of those that have arrived steps, and that
\* it is complete exactly when all have.
LEMMA OneMore ==
  ASSUME NEW n \in Nat \ {0}, NEW S, IsFiniteSet(S), Cardinality(S) = n,
         NEW A \in SUBSET S, NEW e \in S \ A
  PROVE  /\ Cardinality(A) \in 0 .. n - 1
         /\ Cardinality(A \cup {e}) = Cardinality(A) + 1
         /\ Cardinality(A) + 1 = n <=> A \cup {e} = S
<1> DEFINE k == Cardinality(A)
<1>1. IsFiniteSet(A) /\ k \in Nat
  BY FS_Subset, FS_CardinalityType
<1>2. Cardinality(A \cup {e}) = k + 1
  BY <1>1, FS_AddElement
<1>3. A \cup {e} \in SUBSET S
  OBVIOUS
<1>4. Cardinality(A \cup {e}) <= n /\ (n = Cardinality(A \cup {e}) => S = A \cup {e})
  BY <1>3, FS_Subset
<1>5. k \in 0 .. n - 1 /\ (k + 1 = n <=> A \cup {e} = S)
  BY <1>1, <1>2, <1>4
<1> QED BY <1>2, <1>5

USE DEF Out, LocalInc, StoreCond, GlobalInc, Wakeup, Done, Labels

\* What CountNext says of the barrier's counters, for n parties of which k
\* have arrived.
LEMMA CountStep ==
  \A n \in Nat \ {0} : \A x \in 0 .. Word - 1, k \in 0 .. n - 1 :
    Word % n = 0 /\ x % n = k % n =>
      /\ Inc(x) % n = (k + 1) % n
      /\ Completes(Inc(x), n) <=> k + 1 = n
<1>1. Word \in Nat \ {0}
  BY SizesAssumption
<1>2. \A n \in Nat \ {0} : \A x \in 0 .. Word - 1, k \in 0 .. n - 1 :
        Word % n = 0 /\ x % n = k % n =>
          /\ ((x + 1) % Word) % n = (k + 1) % n
          /\ ((x + 1) % Word) % n = 0 <=> k + 1 = n
  <2> TAKE n \in Nat \ {0}
  <2>1. \A x \in 0 .. Word - 1, k \in 0 .. n - 1 :
          Word % n = 0 /\ x % n = k % n =>
            /\ (x + 1) % Word \in 0 .. Word - 1
            /\ ((x + 1) % Word) % n = (k + 1) % n
            /\ ((x + 1) % Word) % n = 0 <=> k + 1 = n
    BY <1>1, CountNext, ZenonT(30)
  <2> TAKE x \in 0 .. Word - 1, k \in 0 .. n - 1
  <2> QED BY <2>1, ZenonT(30)
<1> QED BY <1>2, ZenonT(30) DEF Inc, Completes

\* The sets the counters count are finite and of the size the masks assume.
LEMMA Sizes ==
  /\ \A c \in Cluster : /\ IsFiniteSet(Members(c))
                        /\ Cardinality(Members(c)) = PerCluster
                        /\ \E t \in Thread : t \in Members(c)
  /\ NumClusters \in Nat \ {0}
  /\ PerCluster \in Nat \ {0}
  /\ \A t \in Thread : clusterOf[t] \in Cluster /\ t \in Members(clusterOf[t])
<1>1. ASSUME NEW c \in Cluster
      PROVE  /\ IsFiniteSet(Members(c))
             /\ Cardinality(Members(c)) = PerCluster
             /\ \E t \in Thread : t \in Members(c)
  <2>1. IsFiniteSet(Members(c))
    BY SizesAssumption, FS_Subset, Members(c) \in SUBSET Thread DEF Members
  <2>2. Cardinality(Members(c)) = PerCluster /\ PerCluster # 0
    BY SizesAssumption
  <2>3. Members(c) # {}
    BY <2>2, FS_EmptySet
  <2> QED BY <2>1, <2>2, <2>3 DEF Members
<1>2. NumClusters \in Nat \ {0}
  BY SizesAssumption, FS_CardinalityType, FS_EmptySet DEF NumClusters
<1> QED BY <1>1, <1>2, SizesAssumption DEF Members

\* RigelBarrierMT_Init establishes the invariant: nobody has arrived and both
\* counters are 0.
LEMMA InitInv == Init => IInv
<1> SUFFICES ASSUME Init PROVE IInv
  OBVIOUS
<1>1. TypeOK
  BY SizesAssumption DEF Init, TypeOK
<1>2. \A t \in Thread : ~Arrived(t)
  BY DEF Init, Arrived
<1>3. \A c \in Cluster : ArrivedIn(c) = {} /\ ~Full(c)
  BY <1>2, Sizes, ZenonT(30) DEF ArrivedIn, Full, Members
<1>4. CountedClusters = {}
  BY <1>3 DEF CountedClusters, Counted
<1>5. Cardinality({}) = 0
  BY FS_EmptySet
<1>6. CountersAgree
  BY <1>3, <1>4, <1>5 DEF CountersAgree, Init
<1> QED BY <1>1, <1>6 DEF IInv

\* Type correctness is preserved by every step of EnterFull.
LEMMA TypeStep == TypeOK /\ [Next]_vars => TypeOK'
<1> SUFFICES ASSUME TypeOK, [Next]_vars PROVE TypeOK'
  OBVIOUS
<1>1. ASSUME NEW x \in 0 .. Word - 1 PROVE Inc(x) \in 0 .. Word - 1
  <2>1. x + 1 \in Nat /\ Word \in Nat \ {0}
    BY SizesAssumption
  <2> QED BY <2>1, DivMod DEF Inc
<1>2. ASSUME NEW t \in Thread, Enter(t) PROVE TypeOK'
  BY <1>2 DEF Enter, TypeOK
<1>3. ASSUME NEW t \in Thread, LoadLinked(t) PROVE TypeOK'
  BY <1>3, SizesAssumption, ZenonT(30) DEF LoadLinked, TypeOK
<1>4. ASSUME NEW t \in Thread, StoreConditional(t) PROVE TypeOK'
  BY <1>1, <1>4, ZenonT(30) DEF StoreConditional, TypeOK
<1>5. ASSUME NEW t \in Thread, StoreFails(t) PROVE TypeOK'
  BY <1>5 DEF StoreFails, TypeOK
<1>6. ASSUME NEW t \in Thread, AtomInc(t) PROVE TypeOK'
  BY <1>1, <1>6 DEF AtomInc, TypeOK
<1>7. ASSUME NEW t \in Thread, Broadcast(t) PROVE TypeOK'
  BY <1>7 DEF Broadcast, TypeOK
<1>8. ASSUME NEW t \in Thread, Leave(t) PROVE TypeOK'
  BY <1>8 DEF Leave, TypeOK
<1>9. CASE UNCHANGED vars
  BY <1>9 DEF vars, TypeOK
<1> QED BY <1>2, <1>3, <1>4, <1>5, <1>6, <1>7, <1>8, <1>9 DEF Next, Step

\* The thread's own fetch of the cluster count goes through: it is one more
\* arrival in its cluster, and the last one exactly when the masked count
\* is 0.
LEMMA StoreConditionalStep ==
  ASSUME IInv, NEW t \in Thread, StoreConditional(t)
  PROVE  CountersAgree'
<1> DEFINE d == clusterOf[t]
           x == local_complete[d]
           A == ArrivedIn(d)
           k == Cardinality(A)
<1> USE DEF IInv
<1>1. d \in Cluster /\ t \in Members(d) /\ r26[t] = x /\ x \in 0 .. Word - 1
  BY Sizes DEF StoreConditional, CountersAgree, TypeOK
<1>2. ~Arrived(t) /\ t \in Members(d) \ A
  BY <1>1 DEF StoreConditional, Arrived, ArrivedIn
<1>3. Arrived(t)'
  BY DEF StoreConditional, Arrived, CountersAgree, TypeOK
<1>4. \A u \in Thread \ {t} : Arrived(u)' <=> Arrived(u)
  BY DEF StoreConditional, Arrived, TypeOK
<1>5. ArrivedIn(d)' = A \cup {t}
  BY <1>1, <1>3, <1>4 DEF ArrivedIn, Members
<1>6. \A c \in Cluster \ {d} : ArrivedIn(c)' = ArrivedIn(c)
  BY <1>4 DEF ArrivedIn, Members
<1>7. /\ k \in 0 .. PerCluster - 1
      /\ Cardinality(A \cup {t}) = k + 1
      /\ k + 1 = PerCluster <=> A \cup {t} = Members(d)
  <2>1. /\ A \in SUBSET Members(d) /\ IsFiniteSet(Members(d))
        /\ Cardinality(Members(d)) = PerCluster /\ PerCluster \in Nat \ {0}
    BY <1>1, Sizes DEF ArrivedIn
  <2>2. t \in Members(d) \ A
    BY <1>2
  <2> HIDE DEF A, d
  <2> QED BY <2>1, <2>2, OneMore
<1>8. /\ Inc(x) % PerCluster = (k + 1) % PerCluster
      /\ Completes(Inc(x), PerCluster) <=> k + 1 = PerCluster
  <2>1. x % PerCluster = k % PerCluster
    BY <1>1 DEF CountersAgree
  <2>2. /\ Word \in Nat \ {0} /\ PerCluster \in Nat \ {0}
        /\ Word % PerCluster = 0 /\ k \in 0 .. PerCluster - 1
    BY <1>7, SizesAssumption
  <2>3. x \in 0 .. Word - 1
    BY <1>1
  <2> HIDE DEF x, k
  <2>4. \A y \in 0 .. Word - 1, j \in 0 .. PerCluster - 1 :
          Word % PerCluster = 0 /\ y % PerCluster = j % PerCluster =>
            /\ Inc(y) % PerCluster = (j + 1) % PerCluster
            /\ Completes(Inc(y), PerCluster) <=> j + 1 = PerCluster
    BY <2>2, CountStep, ZenonT(30)
  <2> QED BY <2>1, <2>2, <2>3, <2>4, ZenonT(30)
<1>9. \A c \in Cluster : local_complete'[c] % PerCluster
                          = Cardinality(ArrivedIn(c)') % PerCluster
  <2>1. local_complete'[d] % PerCluster
          = Cardinality(ArrivedIn(d)') % PerCluster
    BY <1>1, <1>5, <1>7, <1>8 DEF StoreConditional, TypeOK
  <2>2. ASSUME NEW c \in Cluster, c # d
        PROVE  local_complete'[c] % PerCluster
                 = Cardinality(ArrivedIn(c)') % PerCluster
    <3>1. local_complete'[c] = local_complete[c]
      BY <2>2 DEF StoreConditional, TypeOK
    <3>2. ArrivedIn(c)' = ArrivedIn(c)
      BY <2>2, <1>6
    <3> QED BY <3>1, <3>2 DEF CountersAgree
  <2> QED BY <2>1, <2>2
<1>10. Full(d)' <=> pc'[t] = GlobalInc
  BY <1>1, <1>5, <1>7, <1>8 DEF Full, StoreConditional, TypeOK, Members
<1>11. ~Full(d)
  BY <1>2 DEF Full
<1>12. \A c \in Cluster \ {d} : Counted(c)' <=> Counted(c)
  BY <1>6 DEF Counted, Full, StoreConditional, TypeOK, Members
<1>13. CountedClusters' = CountedClusters
  <2>1. ~Counted(d) /\ ~Counted(d)'
    BY <1>1, <1>10, <1>11 DEF Counted, Members
  <2> QED BY <1>12, <2>1 DEF CountedClusters
<1>14. CountedClusters # Cluster
  BY <1>1, <1>11 DEF CountedClusters, Counted
<1>15. \A u \in Thread : u # t => pc'[u] = pc[u]
  BY DEF StoreConditional, TypeOK
<1>16. \A u \in Thread : pc'[u] # Wakeup
  BY <1>14, <1>15 DEF CountersAgree, StoreConditional, TypeOK
<1>17. \A u \in Thread : pc'[u] = GlobalInc =>
          /\ Full(clusterOf[u])'
          /\ clusterOf[u] = d => u = t
  <2> SUFFICES ASSUME NEW u \in Thread, pc'[u] = GlobalInc
               PROVE  Full(clusterOf[u])' /\ (clusterOf[u] = d => u = t)
    OBVIOUS
  <2>1. CASE u = t
    BY <2>1, <1>10
  <2>2. CASE u # t
    <3>1. pc[u] = GlobalInc /\ Full(clusterOf[u])
      BY <2>2, <1>15 DEF CountersAgree
    <3>2. clusterOf[u] # d /\ clusterOf[u] \in Cluster
      BY <3>1, <1>11, Sizes
    <3> QED BY <3>1, <3>2, <1>6 DEF Full, Members
  <2> QED BY <2>1, <2>2
<1>18. \A u, v \in Thread : pc'[u] = GlobalInc /\ pc'[v] = GlobalInc
                              /\ clusterOf[u] = clusterOf[v] => u = v
  BY <1>15, <1>17 DEF CountersAgree
<1>19. /\ global_compete' = global_compete /\ local_sense' = local_sense
       /\ global_reduce_done' = global_reduce_done
  BY DEF StoreConditional
<1>20. \A u \in Thread : pc'[u] # Done => local_sense'[u] # global_reduce_done'
  BY <1>15, <1>19 DEF CountersAgree, StoreConditional
<1>21. \A u \in Thread : pc'[u] = StoreCond /\ u \in linked' =>
          r26'[u] = local_complete'[clusterOf[u]]
  BY DEF CountersAgree, StoreConditional, TypeOK, Members
<1> QED BY <1>9, <1>13, <1>16, <1>17, <1>18, <1>19, <1>20, <1>21
        DEF CountersAgree

\* The thread that completed its cluster counts it: one more cluster, and the
\* last one exactly when the masked global count is 0.
LEMMA AtomIncStep ==
  ASSUME IInv, NEW t \in Thread, AtomInc(t)
  PROVE  CountersAgree'
<1> DEFINE d == clusterOf[t]
           C == CountedClusters
           k == Cardinality(C)
           n == NumClusters
<1> USE DEF IInv
<1>1. d \in Cluster /\ t \in Members(d) /\ pc[t] = GlobalInc /\ Full(d)
  BY Sizes DEF AtomInc, CountersAgree
<1>2. \A u \in Thread : Arrived(u)' <=> Arrived(u)
  BY DEF AtomInc, Arrived, CountersAgree, TypeOK
<1>3. \A c \in Cluster : ArrivedIn(c)' = ArrivedIn(c) /\ (Full(c)' <=> Full(c))
  BY <1>2 DEF ArrivedIn, Full, Members
<1>4. \A u \in Thread : u # t => pc'[u] = pc[u]
  BY DEF AtomInc, TypeOK
<1>5. pc'[t] \in {Wakeup, Done}
  BY DEF AtomInc, TypeOK
<1>6. \A c \in Cluster \ {d} : Counted(c)' <=> Counted(c)
  BY <1>3, <1>4 DEF Counted, Members
<1>7. Counted(d)' /\ ~Counted(d)
  BY <1>1, <1>3, <1>4, <1>5 DEF Counted, Members, CountersAgree
<1>8. CountedClusters' = C \cup {d} /\ d \in Cluster \ C /\ C \in SUBSET Cluster
  BY <1>1, <1>6, <1>7 DEF CountedClusters
<1>9. /\ k \in 0 .. n - 1
      /\ Cardinality(C \cup {d}) = k + 1
      /\ k + 1 = n <=> C \cup {d} = Cluster
  <2>1. IsFiniteSet(Cluster) /\ Cardinality(Cluster) = n /\ n \in Nat \ {0}
    BY Sizes, SizesAssumption DEF NumClusters
  <2>2. d \in Cluster \ C /\ C \in SUBSET Cluster
    BY <1>8
  <2> HIDE DEF C, d, n
  <2> QED BY <2>1, <2>2, OneMore
<1>10. /\ Inc(global_compete) % n = (k + 1) % n
       /\ Completes(Inc(global_compete), n) <=> k + 1 = n
  <2>1. global_compete % n = k % n /\ global_compete \in 0 .. Word - 1
    BY DEF CountersAgree, TypeOK
  <2>2. Word % n = 0 /\ k \in 0 .. n - 1 /\ n \in Nat \ {0}
    BY <1>9, SizesAssumption, Sizes
  <2> HIDE DEF k, n
  <2>3. \A y \in 0 .. Word - 1, j \in 0 .. n - 1 :
          Word % n = 0 /\ y % n = j % n =>
            /\ Inc(y) % n = (j + 1) % n
            /\ Completes(Inc(y), n) <=> j + 1 = n
    BY <2>2, CountStep, ZenonT(30)
  <2> QED BY <2>1, <2>2, <2>3, ZenonT(30)
<1>11. global_compete' % n = Cardinality(CountedClusters') % n
  BY <1>8, <1>9, <1>10 DEF AtomInc
<1>12. pc'[t] = Wakeup => CountedClusters' = Cluster
  BY <1>8, <1>9, <1>10 DEF AtomInc, TypeOK
<1>13. \A u \in Thread : pc[u] # Wakeup
  BY <1>1, <1>7 DEF CountersAgree, CountedClusters
<1>14. /\ local_complete' = local_complete /\ local_sense' = local_sense
       /\ global_reduce_done' = global_reduce_done /\ linked' = linked
  BY DEF AtomInc
<1>15. \A c \in Cluster : local_complete'[c] % PerCluster
                          = Cardinality(ArrivedIn(c)') % PerCluster
  BY <1>3, <1>14 DEF CountersAgree
<1>16. \A u \in Thread : pc'[u] # Done => local_sense'[u] # global_reduce_done'
  BY <1>1, <1>4, <1>14 DEF CountersAgree
<1>17. \A u \in Thread : pc'[u] = StoreCond /\ u \in linked' =>
          r26'[u] = local_complete'[clusterOf[u]]
  BY <1>4, <1>5, <1>14 DEF CountersAgree, AtomInc, TypeOK
<1>18. \A u, v \in Thread :
          /\ pc'[u] = GlobalInc => Full(clusterOf[u])'
          /\ pc'[u] = Wakeup => CountedClusters' = Cluster
          /\ pc'[u] = Wakeup /\ pc'[v] = Wakeup => u = v
          /\ pc'[u] = GlobalInc /\ pc'[v] = GlobalInc
               /\ clusterOf[u] = clusterOf[v] => u = v
  <2> TAKE u, v \in Thread
  <2>1. pc'[u] = GlobalInc => pc[u] = GlobalInc
    BY <1>4, <1>5
  <2>2. pc'[v] = GlobalInc => pc[v] = GlobalInc
    BY <1>4, <1>5
  <2>3. pc[u] = GlobalInc => Full(clusterOf[u])'
    BY <1>3, Sizes DEF CountersAgree
  <2>4. pc'[u] = Wakeup => u = t
    BY <1>4, <1>13
  <2>5. pc'[v] = Wakeup => v = t
    BY <1>4, <1>13
  <2> QED BY <2>1, <2>2, <2>3, <2>4, <2>5, <1>12 DEF CountersAgree
<1> QED BY <1>11, <1>15, <1>16, <1>17, <1>18 DEF CountersAgree

\* When the wakeup is about to be broadcast, everybody else waits for it.
LEMMA AllWait ==
  ASSUME IInv, NEW t \in Thread, pc[t] = Wakeup, NEW u \in Thread, u # t
  PROVE  pc[u] = Done /\ local_sense[u] # global_reduce_done
<1>1. Counted(clusterOf[u])
  BY Sizes DEF IInv, CountersAgree, CountedClusters
<1>2. Arrived(u) /\ pc[u] # GlobalInc
  BY <1>1 DEF Counted, Full, ArrivedIn, Members
<1>3. pc[u] # Wakeup
  BY DEF IInv, CountersAgree
<1> QED BY <1>2, <1>3 DEF Arrived

\* The broadcast ends the round: nobody has arrived in the next one yet, and
\* both counters stand at a multiple of the number of parties.
LEMMA BroadcastStep ==
  ASSUME IInv, NEW t \in Thread, Broadcast(t)
  PROVE  CountersAgree'
<1> USE DEF IInv
<1>1. pc[t] = Wakeup /\ local_sense[t] # global_reduce_done
  BY DEF Broadcast, CountersAgree
<1>2. \A u \in Thread : pc'[u] = Done /\ local_sense'[u] = global_reduce_done'
  <2> TAKE u \in Thread
  <2>1. CASE u = t
    BY <2>1 DEF Broadcast, TypeOK
  <2>2. CASE u # t
    <3>1. pc[u] = Done /\ local_sense[u] # global_reduce_done
      BY <2>2, <1>1, AllWait
    <3> QED BY <2>2, <3>1, <1>1 DEF Broadcast, TypeOK
  <2> QED BY <2>1, <2>2
<1>3. \A u \in Thread : ~Arrived(u)'
  BY <1>2 DEF Arrived
<1>4. \A c \in Cluster : ArrivedIn(c)' = {}
  BY <1>3 DEF ArrivedIn, Members
<1>5. CountedClusters' = {}
  BY <1>4, Sizes DEF CountedClusters, Counted, Full
<1>6. Cardinality({}) = 0
  BY FS_EmptySet
<1>7. PerCluster % PerCluster = 0 % PerCluster
      /\ NumClusters % NumClusters = 0 % NumClusters
  <2>1. ASSUME NEW n \in Nat \ {0} PROVE n % n = 0 /\ 0 % n = 0
    <3>1. n = n * 1 + 0 /\ 0 = n * 0 + 0 /\ 0 \in 0 .. n - 1
      OBVIOUS
    <3> QED BY <3>1, ModUnique
  <2> QED BY <2>1, Sizes
<1>8. CountedClusters = Cluster
  BY <1>1 DEF CountersAgree
<1>9. \A c \in Cluster : ArrivedIn(c) = Members(c)
  BY <1>8 DEF CountedClusters, Counted, Full
<1>10. \A c \in Cluster : local_complete'[c] % PerCluster
                          = Cardinality(ArrivedIn(c)') % PerCluster
  BY <1>4, <1>6, <1>7, <1>9, Sizes, ZenonT(30) DEF Broadcast, CountersAgree
<1>11. global_compete' % NumClusters
         = Cardinality(CountedClusters') % NumClusters
  BY <1>5, <1>6, <1>7, <1>8 DEF Broadcast, CountersAgree, NumClusters
<1> QED BY <1>2, <1>10, <1>11 DEF CountersAgree

\* A step that changes neither counter nor who has arrived keeps what the
\* counters say, whatever it does to registers and reservations.
LEMMA QuietStep ==
  ASSUME IInv,
         local_complete' = local_complete, global_compete' = global_compete,
         \A u \in Thread : /\ Arrived(u)' <=> Arrived(u)
                           /\ pc'[u] = GlobalInc <=> pc[u] = GlobalInc
                           /\ pc'[u] = Wakeup <=> pc[u] = Wakeup
                           /\ pc'[u] # Done =>
                                local_sense'[u] # global_reduce_done'
                           /\ pc'[u] = StoreCond /\ u \in linked' =>
                                r26'[u] = local_complete[clusterOf[u]]
  PROVE  CountersAgree'
<1>1. \A c \in Cluster : ArrivedIn(c)' = ArrivedIn(c)
  BY DEF ArrivedIn, Members
<1>2. \A c \in Cluster : (Full(c)' <=> Full(c)) /\ (Counted(c)' <=> Counted(c))
  BY <1>1 DEF Full, Counted, Members
<1>3. CountedClusters' = CountedClusters
  BY <1>2 DEF CountedClusters
<1>4. \A t \in Thread : clusterOf[t] \in Cluster
  BY Sizes
<1>5. CountersAgree
  BY DEF IInv
<1> QED BY <1>1, <1>2, <1>3, <1>4, <1>5 DEF CountersAgree

\* Every step of every thread preserves the inductive invariant.
LEMMA IInvStep == IInv /\ [Next]_vars => IInv'
<1> SUFFICES ASSUME IInv, [Next]_vars PROVE CountersAgree'
  BY TypeStep DEF IInv
<1> USE DEF IInv
<1>1. ASSUME NEW t \in Thread, Enter(t) PROVE CountersAgree'
  <2>1. \A u \in Thread : Arrived(u)' <=> Arrived(u)
    BY <1>1 DEF Enter, Arrived, TypeOK
  <2> QED BY <1>1, <2>1, QuietStep DEF Enter, TypeOK, CountersAgree
<1>2. ASSUME NEW t \in Thread, LoadLinked(t) PROVE CountersAgree'
  <2>1. \A u \in Thread : Arrived(u)' <=> Arrived(u)
    BY <1>2 DEF LoadLinked, Arrived, TypeOK
  <2> QED BY <1>2, <2>1, QuietStep DEF LoadLinked, TypeOK, CountersAgree
<1>3. ASSUME NEW t \in Thread, StoreFails(t) PROVE CountersAgree'
  <2>1. \A u \in Thread : Arrived(u)' <=> Arrived(u)
    BY <1>3 DEF StoreFails, Arrived, TypeOK
  <2> QED BY <1>3, <2>1, QuietStep DEF StoreFails, TypeOK, CountersAgree
<1>4. ASSUME NEW t \in Thread, Leave(t) PROVE CountersAgree'
  <2>1. \A u \in Thread : Arrived(u)' <=> Arrived(u)
    BY <1>4 DEF Leave, Arrived, TypeOK
  <2> QED BY <1>4, <2>1, QuietStep DEF Leave, TypeOK, CountersAgree
<1>5. CASE UNCHANGED vars
  <2>1. \A u \in Thread : Arrived(u)' <=> Arrived(u)
    BY <1>5 DEF vars, Arrived
  <2> QED BY <1>5, <2>1, QuietStep DEF vars, CountersAgree
<1> QED BY <1>1, <1>2, <1>3, <1>4, <1>5, StoreConditionalStep, AtomIncStep,
           BroadcastStep DEF Next, Step

\* The inductive invariant holds in every reachable state.
THEOREM InductiveInvariant == Spec => []IInv
<1> QED BY InitInv, IInvStep, PTL DEF Spec

\* EnterFull keeps every variable of the barrier in its range.
THEOREM TypeCorrect == Spec => []TypeOK
<1>1. IInv => TypeOK
  BY DEF IInv
<1> QED BY <1>1, InductiveInvariant, PTL

\* The free-running counters of EnterFull always tell, through their masks,
\* who has arrived in the current round, across any number of wraps.
THEOREM CountersCorrect == Spec => []CountersAgree
<1>1. IInv => CountersAgree
  BY DEF IInv
<1> QED BY <1>1, InductiveInvariant, PTL

\* No thread of EnterFull broadcasts the wakeup before every thread of the
\* chip waits for it, for any number of clusters and threads.
THEOREM BarrierSafe == Spec => []WakeupOnlyWhenAllArrived
<1>1. IInv => WakeupOnlyWhenAllArrived
  BY AllWait DEF WakeupOnlyWhenAllArrived
<1> QED BY <1>1, InductiveInvariant, PTL

\* Each step of EnterFull is a step of the abstract barrier or is invisible
\* there: only entering, the broadcast and leaving move a thread's stage.
LEMMA RefineStep == IInv /\ [Next]_vars => [Abs!Next]_stageBar
<1> SUFFICES ASSUME IInv, [Next]_vars PROVE [Abs!Next]_stageBar
  OBVIOUS
<1> USE DEF IInv
<1>1. ASSUME NEW t \in Thread, Enter(t) PROVE Abs!Join(t)
  <2>1. stageBar[t] = "outside" /\ stageBar' = [stageBar EXCEPT ![t] = "held"]
    BY <1>1, ZenonT(30) DEF Enter, TypeOK, CountersAgree, stageBar
  <2> QED BY <2>1 DEF Abs!Join, Abs!Outside, Abs!Held
<1>2. ASSUME NEW t \in Thread, LoadLinked(t) \/ StoreFails(t)
      PROVE  stageBar' = stageBar
  BY <1>2 DEF LoadLinked, StoreFails, TypeOK, stageBar
<1>3. ASSUME NEW t \in Thread, StoreConditional(t) \/ AtomInc(t)
      PROVE  stageBar' = stageBar
  BY <1>3 DEF StoreConditional, AtomInc, TypeOK, CountersAgree, stageBar
<1>4. ASSUME NEW t \in Thread, Broadcast(t) PROVE Abs!Release
  <2>1. pc[t] = Wakeup
    BY <1>4 DEF Broadcast
  <2>2. \A u \in Thread \ {t} : pc[u] = Done /\ local_sense[u] # global_reduce_done
    BY <2>1, AllWait
  <2>3. \A u \in Thread : stageBar[u] = "held"
    BY <2>1, <2>2 DEF stageBar
  <2>4. local_sense[t] # global_reduce_done
    BY <2>1 DEF CountersAgree
  <2>5. \A u \in Thread : pc'[u] = Done /\ local_sense'[u] = global_reduce_done'
    BY <1>4, <2>2, <2>4 DEF Broadcast, TypeOK
  <2>6. stageBar' = [u \in Thread |-> "letgo"]
    BY <2>5 DEF stageBar
  <2> QED BY <2>3, <2>6 DEF Abs!Release, Abs!Held, Abs!LetGo
<1>5. ASSUME NEW t \in Thread, Leave(t) PROVE Abs!Leave(t)
  <2>1. stageBar[t] = "letgo" /\ stageBar' = [stageBar EXCEPT ![t] = "outside"]
    BY <1>5, ZenonT(30) DEF Leave, TypeOK, stageBar
  <2> QED BY <2>1 DEF Abs!Leave, Abs!Outside, Abs!LetGo
<1>6. CASE UNCHANGED vars
  BY <1>6 DEF vars, stageBar
<1> QED BY <1>1, <1>2, <1>3, <1>4, <1>5, <1>6 DEF Next, Step, Abs!Next

\* The barrier of barrier-mt.c implements the abstract full-chip barrier.
THEOREM ImplementsBarrier == Spec => AbstractBarrier
<1>1. Init => Abs!Init
  BY DEF Init, Abs!Init, Abs!Outside, stageBar
<1> QED BY <1>1, RefineStep, InductiveInvariant, PTL
        DEF AbstractBarrier, Abs!Spec, Spec
=============================================================================
