--------------------------- MODULE LoopFillProofs ---------------------------
(***************************************************************************)
(* Proofs about the partition of a loop for any number of iterations, task *)
(* size, number of clusters and group size: the loops that fill the        *)
(* descriptors make the share of LoopPartition, the descriptors suffice,   *)
(* and every iteration is in one task.                                     *)
(***************************************************************************)
EXTENDS LoopFill, TLAPS

\* Leaves that name no prover go to SMT, then to Zenon, then to SMT once more.
USE SMTT(30), ZenonT(30), SMTT(31)

\* Division with remainder, the form in which the lemmas below use it.
LEMMA DivMod ==
  ASSUME NEW x \in Nat, NEW n \in Nat \ {0}
  PROVE  /\ x % n \in 0 .. n - 1
         /\ x \div n \in Nat
         /\ x = n * (x \div n) + (x % n)
OBVIOUS

\* A product is ordered like its factor.
LEMMA ProductOrder ==
  \A a, b, c \in Nat : /\ a <= b => a * c <= b * c
                       /\ a * c < b * c => a < b
                       /\ a < b => a * c + c <= b * c
                       /\ (a + 1) * c = a * c + c /\ a * c \in Nat
<1> TAKE a, b, c \in Nat
<1>1. a <= b => a * c <= b * c
  OBVIOUS
<1>2. a * c < b * c => a < b
  OBVIOUS
<1>3. a < b => a * c + c <= b * c
  OBVIOUS
<1>4. (a + 1) * c = a * c + c /\ a * c \in Nat
  OBVIOUS
<1> QED BY <1>1, <1>2, <1>3, <1>4

\* Rounding a quotient up: the multiples of s below x are those counted.
LEMMA RoundedUp ==
  ASSUME NEW x \in Nat, NEW s \in Nat \ {0}
  PROVE  /\ (x + s - 1) \div s \in Nat
         /\ \A m \in Nat : m < (x + s - 1) \div s <=> m * s < x
<1> DEFINE c == (x + s - 1) \div s
<1>1. c \in Nat /\ x <= c * s /\ c * s < x + s
  OBVIOUS
<1> HIDE DEF c
<1>2. ASSUME NEW m \in Nat PROVE m < c <=> m * s < x
  <2>1. m < c => m * s + s <= c * s
    BY <1>1, ProductOrder
  <2>2. m * s < c * s => m < c
    BY <1>1, ProductOrder
  <2>3. m * s \in Nat /\ c * s \in Nat
    BY <1>1, ProductOrder
  <2> QED BY <1>1, <2>1, <2>2, <2>3
<1> QED BY <1>1, <1>2 DEF c

-----------------------------------------------------------------------------
(* The tasks between two iterations.                                       *)

Tasks(first, last, p) ==
  IF first >= last THEN 0 ELSE (last - first + p - 1) \div p

Task(first, last, p, k) == <<first + (k - 1) * p, Least(first + k * p, last)>>

\* Another task is made as long as it starts before the end.
LEMMA TasksFacts ==
  ASSUME NEW first \in Nat, NEW last \in Nat, NEW p \in Nat \ {0}
  PROVE  /\ Tasks(first, last, p) \in Nat
         /\ \A m \in Nat : m < Tasks(first, last, p) <=> first + m * p < last
<1> USE DEF Tasks
<1>1. CASE first >= last
  <2>1. \A m \in Nat : m * p \in Nat
    BY ProductOrder
  <2> QED BY <1>1, <2>1
<1>2. CASE first < last
  <2> DEFINE x == last - first
             c == (x + p - 1) \div p
  <2>1. x \in Nat /\ Tasks(first, last, p) = c
    BY <1>2
  <2> HIDE DEF x
  <2>2. c \in Nat /\ \A m \in Nat : m < c <=> m * p < x
    BY <2>1, RoundedUp
  <2> HIDE DEF c
  <2>3. \A m \in Nat : m * p < x <=> first + m * p < last
    <3> TAKE m \in Nat
    <3>1. m * p \in Nat
      BY ProductOrder
    <3> HIDE DEF Tasks
    <3> QED BY <3>1 DEF x
  <2> HIDE DEF Tasks
  <2> QED BY <2>1, <2>2, <2>3, ZenonT(30)
<1> QED BY <1>1, <1>2

\* What the operators of LoopPartition come to.
LEMMA ShareFacts ==
  ASSUME NEW n \in Nat, NEW tot \in Nat, NEW p \in Nat \ {0},
         NEW nc \in Nat \ {0}, NEW s \in Nat \ {0}
  PROVE  LET P     == PerClusterTaskGroups(TaskGroupsTotal(TotTasks(tot, p), s), nc)
             per   == PerClusterIters(tot, p, nc, s)
             first == IterStart(n, tot, p, nc, s)
             last  == IterEnd(n, tot, p, nc, s)
         IN  /\ P \in Nat /\ per = (P * s) * p /\ per \in Nat
             /\ tot \div p <= (nc * P) * s
             /\ first = n * per /\ first \in Nat
             /\ last = Least(first + per, tot) /\ last \in Nat
             /\ ShareOf(n, tot, p, nc, s) =
                  [k \in 1 .. Tasks(first, last, p) |-> Task(first, last, p, k)]
<1> DEFINE T == tot \div p
           G == TaskGroupsTotal(T, s)
           P == PerClusterTaskGroups(G, nc)
           per == PerClusterIters(tot, p, nc, s)
           first == IterStart(n, tot, p, nc, s)
           last == IterEnd(n, tot, p, nc, s)
<1>1. T \in Nat
  BY DivMod
<1> HIDE DEF T
<1>2. G \in Nat /\ T <= G * s
  <2>1. (T + s - 1) \div s \in Nat /\ T <= ((T + s - 1) \div s) * s
    BY <1>1
  <2> QED BY <2>1 DEF TaskGroupsTotal
<1> HIDE DEF G
<1>3. P \in Nat /\ G <= P * nc
  <2>1. (G + nc - 1) \div nc \in Nat /\ G <= ((G + nc - 1) \div nc) * nc
    BY <1>2
  <2> QED BY <2>1 DEF PerClusterTaskGroups
<1> HIDE DEF P
<1>4. T <= (nc * P) * s
  <2>1. nc * P = P * nc /\ P * nc \in Nat
    BY <1>3
  <2>2. G * s <= (P * nc) * s /\ G * s \in Nat /\ (P * nc) * s \in Nat
    BY <1>2, <1>3, <2>1, ProductOrder
  <2> QED BY <1>1, <1>2, <2>1, <2>2
<1>5. per = (P * s) * p /\ per \in Nat
  <2>1. per = P * p * s
    BY DEF PerClusterIters, TotTasks, P, G, T
  <2>2. P * p * s = (P * s) * p /\ (P * s) * p \in Nat
    BY <1>3
  <2> QED BY <2>1, <2>2
<1>6. first = n * per /\ first \in Nat
  <2>1. first = n * per
    BY DEF IterStart
  <2> HIDE DEF per, first
  <2> QED BY <1>5, <2>1
<1>7. last = Least(first + per, tot)
  <2>1. last = Least((n + 1) * per, tot)
    BY DEF IterEnd
  <2> HIDE DEF per, first, last
  <2>2. (n + 1) * per = first + per
    BY <1>5, <1>6
  <2> QED BY <2>1, <2>2
<1>8. last \in Nat
  <2> HIDE DEF per, first, last
  <2> QED BY <1>5, <1>6, <1>7 DEF Least
<1>9. ShareOf(n, tot, p, nc, s) =
        [k \in 1 .. Tasks(first, last, p) |-> Task(first, last, p, k)]
  BY DEF ShareOf, Tasks, Task
<1>10. PerClusterTaskGroups(TaskGroupsTotal(TotTasks(tot, p), s), nc) = P
  BY DEF P, G, T, TotTasks
<1> HIDE DEF per, first, last
<1> QED BY <1>1, <1>3, <1>4, <1>5, <1>6, <1>7, <1>8, <1>9, <1>10 DEF per, first, last, T

-----------------------------------------------------------------------------
(* The loops, one cluster's share after the other.                         *)

Bounds == Int \X Int

\* Part of a sequence: the g elements after the first a.
LEMMA SubSeqFacts ==
  ASSUME NEW S, NEW q \in Seq(S), NEW a \in Nat, NEW g \in Nat, a + g <= Len(q)
  PROVE  /\ Len(SubSeq(q, a + 1, a + g)) = g
         /\ SubSeq(q, a + 1, a + g) \in Seq(S)
         /\ \A k \in 1 .. g : SubSeq(q, a + 1, a + g)[k] = q[a + k]
<1>1. PICK i \in Nat, j \in Nat : i = a + 1 /\ j = a + g
  OBVIOUS
<1>2. j - i + 1 = g /\ \A k \in 1 .. g : i + k - 1 = a + k
  BY <1>1
<1>3. /\ Len(SubSeq(q, i, j)) = j - i + 1
      /\ SubSeq(q, i, j) \in Seq(S)
      /\ \A k \in 1 .. j - i + 1 : SubSeq(q, i, j)[k] = q[i + k - 1]
  BY <1>1
<1> QED BY <1>1, <1>2, <1>3

\* Sequences are equal that agree everywhere.
LEMMA SameSequence ==
  ASSUME NEW S, NEW q \in Seq(S), NEW r \in Seq(S), Len(r) = Len(q),
         \A i \in 1 .. Len(q) : q[i] = r[i]
  PROVE  q = r
OBVIOUS

\* How far a cluster is: gs are the groups it has closed, gr the one it fills,
\* start is per_cluster_iter_start.
Filling(first, last, p, s, share, gs, gr, start) ==
  LET N == Len(share) IN
  /\ gs \in Seq(Seq(Bounds)) /\ gr \in Seq(Bounds)
  /\ \A h \in 1 .. Len(gs) : /\ (h - 1) * s < N
                             /\ gs[h] = SubSeq(share, (h - 1) * s + 1, Least(h * s, N))
  /\ Len(gr) <= s /\ (Len(gr) > 0 => Len(gs) * s + Len(gr) <= N)
  /\ \A i \in 1 .. Len(gr) : gr[i] = share[Len(gs) * s + i]
  /\ start = Least(first + (Least(Len(gs) * s, N) + Len(gr)) * p, last)

\* A share is a sequence of bounds.
LEMMA ShareSeq ==
  ASSUME NEW first \in Nat, NEW last \in Nat, NEW p \in Nat \ {0}, NEW share,
         share = [k \in 1 .. Tasks(first, last, p) |-> Task(first, last, p, k)]
  PROVE  /\ share \in Seq(Bounds) /\ Len(share) = Tasks(first, last, p) /\ Len(share) \in Nat
         /\ \A k \in 1 .. Len(share) : share[k] = Task(first, last, p, k)
         /\ \A m \in Nat : m < Len(share) <=> first + m * p < last
<1>1. Tasks(first, last, p) \in Nat
  BY TasksFacts
<1>2. \A k \in 1 .. Tasks(first, last, p) : Task(first, last, p, k) \in Bounds
  <2> TAKE k \in 1 .. Tasks(first, last, p)
  <2>1. k \in Nat /\ k - 1 \in Nat
    BY <1>1
  <2>2. first + (k - 1) * p \in Int /\ first + k * p \in Int
    BY <2>1
  <2> QED BY <2>2 DEF Task, Least, Bounds
<1>3. share \in Seq(Bounds) /\ Len(share) = Tasks(first, last, p)
  BY <1>1, <1>2
<1>4. \A k \in 1 .. Len(share) : share[k] = Task(first, last, p, k)
  BY <1>3, ZenonT(30)
<1>5. \A m \in Nat : m < Len(share) <=> first + m * p < last
  <2>1. \A m \in Nat : m < Tasks(first, last, p) <=> first + m * p < last
    BY TasksFacts, ZenonT(30)
  <2> QED BY <1>3, <2>1, ZenonT(30)
<1> QED BY <1>1, <1>3, <1>4, <1>5, ZenonT(30)

\* The bounds of the task after the first m.
LEMMA TaskAt ==
  ASSUME NEW first, NEW last, NEW p, NEW m \in Nat
  PROVE  Task(first, last, p, m + 1) = <<first + m * p, Least(first + (m + 1) * p, last)>>
<1>1. m + 1 - 1 = m
  OBVIOUS
<1> QED BY <1>1 DEF Task

\* The share is begun, ...
LEMMA FillStart ==
  ASSUME NEW first \in Nat, NEW last \in Nat, NEW p \in Nat \ {0}, NEW s \in Nat \ {0},
         NEW share \in Seq(Bounds)
  PROVE  Filling(first, last, p, s, share, <<>>, <<>>, Least(first, last))
<1>1. Least(0, Len(share)) = 0 /\ Len(share) \in Nat
  BY DEF Least
<1>2. 0 * s = 0 /\ (0 + 0) * p = 0 /\ first + 0 = first
  OBVIOUS
<1> QED BY <1>1, <1>2 DEF Filling

\* ... gets a task, ...
LEMMA FillAdd ==
  ASSUME NEW first \in Nat, NEW last \in Nat, NEW p \in Nat \ {0}, NEW s \in Nat \ {0},
         NEW share,
         share = [k \in 1 .. Tasks(first, last, p) |-> Task(first, last, p, k)],
         NEW gs, NEW gr, NEW start, Filling(first, last, p, s, share, gs, gr, start),
         Len(gr) < s, start < last, NEW next,
         next = IF start + p > last THEN last ELSE start + p
  PROVE  Filling(first, last, p, s, share, gs, Append(gr, <<start, next>>), next)
<1> DEFINE N == Len(share)
           G == Len(gs)
           g == Len(gr)
           a == G * s
           m == Least(a, N) + g
<1>1. gs \in Seq(Seq(Bounds)) /\ gr \in Seq(Bounds) /\ G \in Nat /\ g \in Nat
  BY DEF Filling
<1>2. a \in Nat
  BY <1>1, ProductOrder
<1>3. /\ share \in Seq(Bounds) /\ N \in Nat
      /\ \A k \in 1 .. N : share[k] = Task(first, last, p, k)
      /\ \A k \in Nat : k < N <=> first + k * p < last
  BY ShareSeq
<1>4. start = Least(first + m * p, last) /\ m \in Nat
  <2>1. start = Least(first + m * p, last)
    BY DEF Filling
  <2>2. m \in Nat
    <3> HIDE DEF a, g, N
    <3> QED BY <1>1, <1>2, <1>3 DEF Least
  <2> QED BY <2>1, <2>2, ZenonT(30)
<1>5. m * p \in Nat /\ (m + 1) * p = m * p + p
  BY <1>4, ProductOrder, ZenonT(30)
<1>6. start = first + m * p /\ first + m * p < last
  <2> HIDE DEF m
  <2> QED BY <1>4, <1>5 DEF Least
<1>7. m < N
  <2> HIDE DEF m, N
  <2> QED BY <1>3, <1>4, <1>6
<1>8. Least(a, N) = a /\ m = a + g /\ a + g + 1 <= N
  <2> HIDE DEF a, N, G, g
  <2> QED BY <1>1, <1>2, <1>3, <1>7 DEF Least
<1>9. next = Least(first + (m + 1) * p, last)
  <2> HIDE DEF m
  <2> QED BY <1>5, <1>6 DEF Least
<1>10. share[a + (g + 1)] = <<start, next>> /\ <<start, next>> \in Bounds
  <2>1. a + (g + 1) \in 1 .. N /\ a + (g + 1) = m + 1 /\ a + (g + 1) - 1 = m
    <3> HIDE DEF a, g, N
    <3> QED BY <1>1, <1>2, <1>3, <1>8
  <2>2. share[a + (g + 1)] = Task(first, last, p, a + (g + 1))
    <3> HIDE DEF a, g, N
    <3> QED BY <1>3, <2>1
  <2>3. Task(first, last, p, a + (g + 1)) = <<first + m * p, Least(first + (m + 1) * p, last)>>
    <3>1. Task(first, last, p, m + 1) = <<first + m * p, Least(first + (m + 1) * p, last)>>
      <4> HIDE DEF m
      <4> QED BY <1>4, TaskAt
    <3>2. a + (g + 1) = m + 1
      BY <2>1, ZenonT(30)
    <3> HIDE DEF a, g, m
    <3> QED BY <3>1, <3>2
  <2>4. start \in Int /\ next \in Int
    <3> HIDE DEF m
    <3> QED BY <1>5, <1>6
  <2> QED BY <1>6, <1>9, <2>2, <2>3, <2>4, ZenonT(30) DEF Bounds
<1> DEFINE gr1 == Append(gr, <<start, next>>)
<1>11. /\ gr1 \in Seq(Bounds) /\ Len(gr1) = g + 1
       /\ gr1[g + 1] = <<start, next>> /\ \A i \in 1 .. g : gr1[i] = gr[i]
  BY <1>1, <1>10
<1> HIDE DEF gr1
<1>12. \A i \in 1 .. Len(gr1) : gr1[i] = share[a + i]
  <2> TAKE i \in 1 .. Len(gr1)
  <2>1. CASE i = g + 1
    BY <1>10, <1>11, <2>1, ZenonT(30)
  <2>2. CASE i # g + 1
    <3>1. i \in 1 .. g
      BY <1>1, <1>11, <2>2
    <3> QED BY <1>11, <3>1, ZenonT(30) DEF Filling
  <2> QED BY <2>1, <2>2
<1>13. \A h \in 1 .. G : (h - 1) * s < N /\ gs[h] = SubSeq(share, (h - 1) * s + 1, Least(h * s, N))
  BY ZenonT(30) DEF Filling
<1>14. next = Least(first + (Least(a, N) + Len(gr1)) * p, last)
  <2>1. Least(a, N) + Len(gr1) = m + 1
    <3> HIDE DEF a, g, N
    <3> QED BY <1>1, <1>2, <1>8, <1>11
  <2> QED BY <1>9, <2>1, ZenonT(30)
<1>15. Len(gr1) <= s /\ (Len(gr1) > 0 => a + Len(gr1) <= N)
  <2>1. g < s
    OBVIOUS
  <2> HIDE DEF a, g, N
  <2> QED BY <1>1, <1>2, <1>8, <1>11, <2>1
<1>16. Filling(first, last, p, s, share, gs, gr1, next)
  BY <1>1, <1>11, <1>12, <1>13, <1>14, <1>15, ZenonT(30) DEF Filling
<1> QED BY <1>16 DEF gr1

\* ... has a group closed, ...
LEMMA FillClose ==
  ASSUME NEW first \in Nat, NEW last \in Nat, NEW p \in Nat \ {0}, NEW s \in Nat \ {0},
         NEW share,
         share = [k \in 1 .. Tasks(first, last, p) |-> Task(first, last, p, k)],
         NEW gs, NEW gr, NEW start, Filling(first, last, p, s, share, gs, gr, start),
         gr # <<>>, Len(gr) = s \/ start >= last
  PROVE  Filling(first, last, p, s, share, Append(gs, gr), <<>>, start)
<1>0. gs \in Seq(Seq(Bounds)) /\ gr \in Seq(Bounds)
  BY DEF Filling
<1>1. PICK G \in Nat, g \in Nat : G = Len(gs) /\ g = Len(gr) /\ g > 0
  BY <1>0
<1>2. PICK a \in Nat, b \in Nat : a = G * s /\ b = (G + 1) * s /\ b = a + s
  BY ProductOrder
<1>3. PICK N \in Nat : /\ N = Len(share) /\ share \in Seq(Bounds)
                       /\ \A k \in Nat : k < N <=> first + k * p < last
  <2>1. /\ Len(share) \in Nat /\ share \in Seq(Bounds)
        /\ \A k \in Nat : k < Len(share) <=> first + k * p < last
    BY ShareSeq
  <2> QED BY <2>1, ZenonT(30)
<1>4. a + g <= N /\ g <= s /\ start = Least(first + (Least(a, N) + g) * p, last)
  BY <1>1, <1>2, <1>3, ZenonT(30) DEF Filling
<1>5. Least(a, N) = a
  BY <1>1, <1>4 DEF Least
<1>6. PICK m \in Nat : m = a + g /\ m * p \in Nat /\ start = Least(first + m * p, last)
  BY <1>4, <1>5, ProductOrder
<1>7. Least(b, N) = a + g
  <2>1. CASE g = s
    BY <1>2, <1>4, <2>1 DEF Least
  <2>2. CASE start >= last
    <3>1. ~(first + m * p < last)
      BY <1>6, <2>2 DEF Least
    <3>2. ~(m < N)
      BY <1>3, <3>1, ZenonT(30)
    <3> QED BY <1>2, <1>4, <1>6, <3>2 DEF Least
  <2> QED BY <1>1, <2>1, <2>2
<1>8. PICK t : t = SubSeq(share, a + 1, a + g)
  BY ZenonT(30)
<1>9. gr = t
  <2>1. share \in Seq(Bounds) /\ a + g <= Len(share)
    BY <1>3, <1>4, ZenonT(30)
  <2>2. Len(t) = g /\ t \in Seq(Bounds) /\ \A i \in 1 .. g : t[i] = share[a + i]
    <3>1. \A q \in Seq(Bounds) : a + g <= Len(q) =>
            /\ Len(SubSeq(q, a + 1, a + g)) = g
            /\ SubSeq(q, a + 1, a + g) \in Seq(Bounds)
            /\ \A i \in 1 .. g : SubSeq(q, a + 1, a + g)[i] = q[a + i]
      BY SubSeqFacts
    <3> QED BY <1>8, <2>1, <3>1, ZenonT(30)
  <2>4. \A i \in 1 .. g : gr[i] = share[a + i]
    BY <1>1, <1>2 DEF Filling
  <2>5. Len(t) = Len(gr) /\ \A i \in 1 .. Len(gr) : gr[i] = t[i]
    BY <1>1, <2>2, <2>4
  <2> QED BY <1>0, <2>2, <2>5, SameSequence
<1>10. PICK gs1 : gs1 = Append(gs, gr)
  BY ZenonT(30)
<1>11. /\ gs1 \in Seq(Seq(Bounds)) /\ Len(gs1) = G + 1
       /\ gs1[G + 1] = gr /\ \A h \in 1 .. G : gs1[h] = gs[h]
  BY <1>0, <1>1, <1>10
<1>12. ASSUME NEW h \in 1 .. Len(gs1)
       PROVE  /\ (h - 1) * s < N
              /\ gs1[h] = SubSeq(share, (h - 1) * s + 1, Least(h * s, N))
  <2>1. CASE h = G + 1
    <3>1. h - 1 = G
      BY <2>1
    <3>2. (h - 1) * s = a /\ h * s = b
      BY <1>2, <2>1, <3>1
    <3>3. a < N
      BY <1>1, <1>4
    <3>4. gs1[h] = SubSeq(share, a + 1, Least(b, N))
      BY <1>7, <1>8, <1>9, <1>11, <2>1, ZenonT(30)
    <3> QED BY <3>2, <3>3, <3>4, ZenonT(30)
  <2>2. CASE h # G + 1
    <3>1. h \in 1 .. G
      BY <1>11, <2>2
    <3> QED BY <1>1, <1>3, <1>11, <3>1, ZenonT(30) DEF Filling
  <2> QED BY <2>1, <2>2
<1>13. start = Least(first + (Least(Len(gs1) * s, N) + 0) * p, last)
  <2>1. Len(gs1) * s = b
    BY <1>2, <1>11
  <2>2. Least(b, N) + 0 = m
    BY <1>6, <1>7
  <2> QED BY <1>6, <2>1, <2>2
<1>14. <<>> \in Seq(Bounds) /\ Len(<<>>) = 0 /\ ~(0 > 0) /\ 0 <= s /\ 1 .. 0 = {}
  OBVIOUS
<1>15. /\ gs1 \in Seq(Seq(Bounds))
       /\ Len(<<>>) <= s /\ ~(Len(<<>>) > 0) /\ 1 .. Len(<<>>) = {}
       /\ start = Least(first + (Least(Len(gs1) * s, Len(share)) + Len(<<>>)) * p, last)
       /\ \A h \in 1 .. Len(gs1) :
            /\ (h - 1) * s < Len(share)
            /\ gs1[h] = SubSeq(share, (h - 1) * s + 1, Least(h * s, Len(share)))
  BY <1>3, <1>11, <1>12, <1>13, <1>14, ZenonT(30)
<1>16. Filling(first, last, p, s, share, gs1, <<>>, start)
  BY <1>14, <1>15, ZenonT(30) DEF Filling
<1> QED BY <1>10, <1>16

\* ... and is complete when its end is reached.
LEMMA FillEnd ==
  ASSUME NEW first \in Nat, NEW last \in Nat, NEW p \in Nat \ {0}, NEW s \in Nat \ {0},
         NEW share,
         share = [k \in 1 .. Tasks(first, last, p) |-> Task(first, last, p, k)],
         NEW gs, NEW start, Filling(first, last, p, s, share, gs, <<>>, start),
         start >= last
  PROVE  gs = GroupsOf(share, s)
<1>0. gs \in Seq(Seq(Bounds))
  BY DEF Filling
<1>1. PICK G \in Nat : G = Len(gs)
  BY <1>0
<1>2. PICK a \in Nat : a = G * s
  BY ProductOrder
<1>3. PICK N \in Nat : N = Len(share) /\ \A k \in Nat : k < N <=> first + k * p < last
  <2>1. Len(share) \in Nat /\ \A k \in Nat : k < Len(share) <=> first + k * p < last
    BY ShareSeq
  <2> QED BY <2>1, ZenonT(30)
<1>4. PICK m \in Nat : m = Least(a, N) /\ start = Least(first + m * p, last) /\ m * p \in Nat
  <2>1. Least(a, N) + 0 = Least(a, N) /\ Least(a, N) \in Nat
    BY DEF Least
  <2>2. start = Least(first + (Least(a, N) + Len(<<>>)) * p, last) /\ Len(<<>>) = 0
    BY <1>1, <1>2, <1>3 DEF Filling
  <2> QED BY <2>1, <2>2, ProductOrder
<1>5. N <= a
  <2>1. ~(first + m * p < last)
    BY <1>4 DEF Least
  <2>2. ~(m < N)
    BY <1>3, <2>1, ZenonT(30)
  <2> QED BY <1>4, <2>2 DEF Least
<1>6. PICK c \in Nat : c = (N + s - 1) \div s /\ \A k \in Nat : k < c <=> k * s < N
  BY RoundedUp, ZenonT(30)
<1>7. \A h \in 1 .. G : (h - 1) * s < N /\ gs[h] = SubSeq(share, (h - 1) * s + 1, Least(h * s, N))
  BY <1>1, <1>3, ZenonT(30) DEF Filling
<1>8. G = c
  <2>1. ~(G < c)
    BY <1>2, <1>5, <1>6
  <2>2. G > 0 => G - 1 < c
    <3>1. G > 0 => G \in 1 .. G /\ G - 1 \in Nat
      OBVIOUS
    <3> QED BY <1>6, <1>7, <3>1, ZenonT(30)
  <2> QED BY <2>1, <2>2
<1>9. gs = [h \in 1 .. G |-> gs[h]]
  BY <1>0, <1>1
<1>10. gs = [h \in 1 .. c |-> SubSeq(share, (h - 1) * s + 1, Least(h * s, N))]
  BY <1>7, <1>8, <1>9, ZenonT(30)
<1> QED BY <1>3, <1>6, <1>10 DEF GroupsOf

\* The share of the cluster that is at work.
First == IterStart(cluster_num, tot_iters, iters_per_task, num_clusters, size)
Last == IterEnd(cluster_num, tot_iters, iters_per_task, num_clusters, size)
Share == ShareOf(cluster_num, tot_iters, iters_per_task, num_clusters, size)

\* The clusters before cluster_num have made their shares, those after it
\* nothing, and it is somewhere in its own.
FillInv ==
  /\ tot_iters \in Nat /\ iters_per_task \in Nat \ {0}
  /\ num_clusters \in Nat \ {0} /\ size \in Nat \ {0}
  /\ pc \in {"partition", "fill", "done"}
  /\ cluster_num \in 0 .. num_clusters /\ (pc = "done" <=> cluster_num = num_clusters)
  /\ groups \in [0 .. num_clusters - 1 -> Seq(Seq(Bounds))]
  /\ pc # "fill" => group = <<>>
  /\ \A n \in 0 .. num_clusters - 1 :
       n > cluster_num \/ (n = cluster_num /\ pc # "fill") => groups[n] = <<>>
  /\ FillIsShare
  /\ pc = "fill" =>
       /\ per_cluster_iter_end = Last
       /\ Filling(First, Last, iters_per_task, size, Share, groups[cluster_num], group,
                  per_cluster_iter_start)

\* What is known of the share at work.
LEMMA AtWork ==
  ASSUME FillInv
  PROVE  /\ First \in Nat /\ Last \in Nat /\ Last <= tot_iters
         /\ First < tot_iters => First <= Last
         /\ Share = [k \in 1 .. Tasks(First, Last, iters_per_task) |->
                       Task(First, Last, iters_per_task, k)]
         /\ Share \in Seq(Bounds)
<1>1. cluster_num \in Nat /\ tot_iters \in Nat /\ iters_per_task \in Nat \ {0}
      /\ num_clusters \in Nat \ {0} /\ size \in Nat \ {0}
  BY DEF FillInv
<1>2. PICK per \in Nat :
        /\ First \in Nat /\ Last \in Nat /\ Last = Least(First + per, tot_iters)
        /\ Share = [k \in 1 .. Tasks(First, Last, iters_per_task) |->
                       Task(First, Last, iters_per_task, k)]
  <2> DEFINE per == PerClusterIters(tot_iters, iters_per_task, num_clusters, size)
  <2>1. per \in Nat
    BY <1>1, ShareFacts
  <2>2. First \in Nat /\ Last \in Nat
    BY <1>1, ShareFacts DEF First, Last
  <2>3. Last = Least(First + per, tot_iters)
    BY <1>1, ShareFacts DEF First, Last
  <2>4. Share = [k \in 1 .. Tasks(First, Last, iters_per_task) |->
                   Task(First, Last, iters_per_task, k)]
    BY DEF First, Last, Share, ShareOf, Tasks, Task
  <2> HIDE DEF per
  <2> QED BY <2>1, <2>2, <2>3, <2>4, ZenonT(30)
<1>3. Last <= tot_iters /\ (First < tot_iters => First <= Last)
  BY <1>1, <1>2 DEF Least
<1>4. Share \in Seq(Bounds)
  BY <1>1, <1>2, ShareSeq
<1> QED BY <1>2, <1>3, <1>4

\* The first cluster begins.
LEMMA FillInit == Init => FillInv
<1> SUFFICES ASSUME Init PROVE FillInv
  OBVIOUS
<1>1. /\ tot_iters \in Nat /\ iters_per_task \in Nat \ {0}
      /\ num_clusters \in Nat \ {0} /\ size \in Nat \ {0}
  BY FillAssumption DEF Init
<1>2. cluster_num \in 0 .. num_clusters /\ cluster_num # num_clusters /\ cluster_num = 0
  BY <1>1 DEF Init
<1>3. groups \in [0 .. num_clusters - 1 -> Seq(Seq(Bounds))]
  <2>1. <<>> \in Seq(Seq(Bounds))
    OBVIOUS
  <2> QED BY <2>1 DEF Init
<1>4. \A n \in 0 .. num_clusters - 1 : groups[n] = <<>>
  BY DEF Init
<1>5. FillIsShare
  BY <1>1, <1>2 DEF FillIsShare
<1> QED BY <1>1, <1>2, <1>3, <1>4, <1>5 DEF FillInv, Init

\* Every step keeps what has been made.
LEMMA FillStep == FillInv /\ [Next]_vars => FillInv'
<1> SUFFICES ASSUME FillInv, [Next]_vars PROVE FillInv'
  OBVIOUS
<1>0. /\ tot_iters \in Nat /\ iters_per_task \in Nat \ {0}
      /\ num_clusters \in Nat \ {0} /\ size \in Nat \ {0}
      /\ cluster_num \in 0 .. num_clusters
      /\ groups \in [0 .. num_clusters - 1 -> Seq(Seq(Bounds))]
      /\ First \in Nat /\ Last \in Nat /\ Last <= tot_iters
      /\ First < tot_iters => First <= Last
      /\ Share = [k \in 1 .. Tasks(First, Last, iters_per_task) |->
                    Task(First, Last, iters_per_task, k)]
      /\ Share \in Seq(Bounds)
  BY AtWork DEF FillInv
<1>1. ASSUME UNCHANGED <<inputs, cluster_num>> PROVE UNCHANGED <<First, Last, Share>>
  BY <1>1 DEF First, Last, Share, inputs
<1>2. ASSUME NextCluster, UNCHANGED <<inputs, group, groups>>,
             pc # "done", group = <<>>, groups[cluster_num] = GroupsOf(Share, size)
      PROVE  FillInv'
  <2>1. cluster_num \in 0 .. num_clusters - 1
    BY <1>0, <1>2 DEF FillInv
  <2>2. /\ cluster_num' = cluster_num + 1 /\ cluster_num' \in 0 .. num_clusters
        /\ pc' = IF cluster_num' = num_clusters THEN "done" ELSE "partition"
    BY <1>0, <1>2, <2>1 DEF NextCluster
  <2>3. \A n \in 0 .. num_clusters - 1 :
          /\ n < cluster_num' => n < cluster_num \/ n = cluster_num
          /\ n >= cluster_num' => n > cluster_num
    BY <1>0, <2>1, <2>2
  <2>4. UNCHANGED <<tot_iters, iters_per_task, num_clusters, size, group, groups>>
    BY <1>2 DEF inputs
  <2>5. FillIsShare'
    <3> SUFFICES ASSUME NEW n \in 0 .. num_clusters - 1, n < cluster_num'
                 PROVE  groups[n] = GroupsOf(ShareOf(n, tot_iters, iters_per_task,
                                                     num_clusters, size), size)
      BY <2>4 DEF FillIsShare
    <3>1. CASE n < cluster_num
      BY <3>1 DEF FillInv, FillIsShare
    <3>2. CASE n = cluster_num
      BY <1>2, <3>2 DEF Share
    <3> QED BY <2>3, <3>1, <3>2
  <2>6. \A n \in 0 .. num_clusters - 1 : n >= cluster_num' => groups'[n] = <<>>
    BY <2>3, <2>4 DEF FillInv
  <2>7. \A n \in 0 .. num_clusters - 1 :
          n > cluster_num' \/ (n = cluster_num' /\ pc' # "fill") => groups'[n] = <<>>
    BY <1>0, <2>2, <2>6
  <2>8. pc' \in {"partition", "fill", "done"} /\ pc' # "fill"
        /\ (pc' = "done" <=> cluster_num' = num_clusters)
    BY <2>2
  <2> QED BY <1>0, <1>2, <2>2, <2>4, <2>5, <2>7, <2>8 DEF FillInv
<1>3. CASE UNCHANGED vars \/ Done
  <2>1. UNCHANGED <<inputs, cluster_num>>
    BY <1>3 DEF vars, Done
  <2> QED BY <1>1, <1>3, <2>1 DEF vars, inputs, Done, FillInv, FillIsShare
<1>4. CASE Partition
  <2>0. pc = "partition" /\ UNCHANGED <<inputs, group, groups>> /\ group = <<>>
        /\ cluster_num \in 0 .. num_clusters - 1 /\ groups[cluster_num] = <<>>
    BY <1>0, <1>4 DEF Partition, FillInv
  <2>1. Filling(First, Last, iters_per_task, size, Share, <<>>, <<>>, Least(First, Last))
    BY <1>0, FillStart
  <2>2. CASE First >= tot_iters
    <3>1. NextCluster
      BY <1>4, <2>2 DEF Partition, First
    <3>2. Least(First, Last) >= Last
      BY <1>0, <2>2 DEF Least
    <3>3. GroupsOf(Share, size) = <<>>
      BY <1>0, <2>1, <3>2, FillEnd, ZenonT(30)
    <3> QED BY <1>2, <2>0, <3>1, <3>3
  <2>3. CASE ~(First >= tot_iters)
    <3>1. /\ pc' = "fill" /\ UNCHANGED cluster_num
          /\ per_cluster_iter_start' = First /\ per_cluster_iter_end' = Last
      BY <1>4, <2>3 DEF Partition, First, Last
    <3>2. Least(First, Last) = First
      BY <1>0, <2>3 DEF Least
    <3>3. UNCHANGED <<First, Last, Share>>
      BY <1>1, <2>0, <3>1
    <3>4. UNCHANGED <<tot_iters, iters_per_task, num_clusters, size, group, groups>>
      BY <2>0 DEF inputs
    <3>5. FillIsShare'
      BY <3>1, <3>4 DEF FillIsShare, FillInv
    <3>6. Filling(First, Last, iters_per_task, size, Share, groups[cluster_num], group,
                  per_cluster_iter_start)'
      BY <2>0, <2>1, <3>1, <3>2, <3>3, <3>4
    <3>7. \A n \in 0 .. num_clusters - 1 : n > cluster_num => groups[n] = <<>>
      BY DEF FillInv
    <3>8. cluster_num # num_clusters
      BY <1>0, <2>0
    <3> QED BY <1>0, <3>1, <3>3, <3>4, <3>5, <3>6, <3>7, <3>8 DEF FillInv
  <2> QED BY <2>2, <2>3
<1>5. CASE AddTask
  <2>1. PICK next : next = IF per_cluster_iter_start + iters_per_task > per_cluster_iter_end
                             THEN per_cluster_iter_end
                             ELSE per_cluster_iter_start + iters_per_task
    OBVIOUS
  <2>2. /\ pc = "fill" /\ Len(group) < size /\ per_cluster_iter_start < Last
        /\ per_cluster_iter_end = Last
        /\ per_cluster_iter_start' = next
        /\ group' = Append(group, <<per_cluster_iter_start, next>>)
        /\ UNCHANGED <<inputs, cluster_num, per_cluster_iter_end, groups, pc>>
    BY <1>5, <2>1 DEF AddTask, FillInv
  <2>3. Filling(First, Last, iters_per_task, size, Share, groups[cluster_num], group',
                per_cluster_iter_start')
    BY <1>0, <2>1, <2>2, FillAdd, ZenonT(30) DEF FillInv
  <2>4. UNCHANGED <<First, Last, Share>>
    BY <1>1, <2>2
  <2>5. UNCHANGED <<tot_iters, iters_per_task, num_clusters, size>>
    BY <2>2 DEF inputs
  <2> QED BY <1>0, <2>2, <2>3, <2>4, <2>5 DEF FillInv, FillIsShare
<1>6. CASE CloseGroup
  <2>1. /\ pc = "fill" /\ group # <<>> /\ (Len(group) = size \/ per_cluster_iter_start >= Last)
        /\ groups' = [groups EXCEPT ![cluster_num] = Append(@, group)] /\ group' = <<>>
        /\ UNCHANGED <<inputs, cluster_num, per_cluster_iter_start, per_cluster_iter_end, pc>>
        /\ per_cluster_iter_end = Last
    BY <1>6 DEF CloseGroup, FillInv
  <2>2. cluster_num \in 0 .. num_clusters - 1 /\ group \in Seq(Bounds)
    BY <1>0, <2>1 DEF FillInv, Filling
  <2>3. Filling(First, Last, iters_per_task, size, Share,
                Append(groups[cluster_num], group), <<>>, per_cluster_iter_start)
    BY <1>0, <2>1, FillClose, ZenonT(30) DEF FillInv
  <2>4. /\ groups'[cluster_num] = Append(groups[cluster_num], group)
        /\ groups' \in [0 .. num_clusters - 1 -> Seq(Seq(Bounds))]
        /\ \A n \in 0 .. num_clusters - 1 : n # cluster_num => groups'[n] = groups[n]
    BY <1>0, <2>1, <2>2
  <2>5. UNCHANGED <<First, Last, Share>>
    BY <1>1, <2>1
  <2>6. UNCHANGED <<tot_iters, iters_per_task, num_clusters, size>>
    BY <2>1 DEF inputs
  <2>7. FillIsShare'
    <3>1. \A n \in 0 .. num_clusters - 1 : n < cluster_num => n # cluster_num
      BY <1>0
    <3> QED BY <2>1, <2>4, <2>6, <3>1 DEF FillIsShare, FillInv
  <2>8. \A n \in 0 .. num_clusters - 1 : n > cluster_num => groups'[n] = <<>>
    <3>1. \A n \in 0 .. num_clusters - 1 : n > cluster_num => n # cluster_num
      BY <1>0
    <3> QED BY <2>4, <3>1 DEF FillInv
  <2> QED BY <1>0, <2>1, <2>3, <2>4, <2>5, <2>6, <2>7, <2>8, ZenonT(30) DEF FillInv
<1>7. CASE EndShare
  <2>1. /\ pc = "fill" /\ group = <<>> /\ per_cluster_iter_start >= Last /\ NextCluster
        /\ UNCHANGED <<inputs, group, groups>>
    BY <1>7 DEF EndShare, FillInv
  <2>2. groups[cluster_num] = GroupsOf(Share, size)
    BY <1>0, <2>1, FillEnd, ZenonT(30) DEF FillInv
  <2> QED BY <1>2, <2>1, <2>2
<1> QED BY <1>3, <1>4, <1>5, <1>6, <1>7 DEF Next

\* The loops of SW_TaskQueue_Loop_PARALLEL make the share that the closed form
\* of LoopPartition gives each cluster, in its groups and in its order.
THEOREM FillMakesShare == Spec => []FillIsShare
<1>1. FillInv => FillIsShare
  BY DEF FillInv
<1> QED BY <1>1, FillInit, FillStep, PTL DEF Spec

-----------------------------------------------------------------------------
(* The descriptors.                                                        *)

\* Groups cut from a share, and as many as fit.
LEMMA GroupsFit ==
  ASSUME NEW s \in Nat \ {0}, NEW P \in Nat, NEW share \in Seq(Bounds), NEW N \in Nat,
         N = Len(share), N <= P * s, NEW gs \in Seq(Seq(Bounds)),
         \A h \in 1 .. Len(gs) : /\ (h - 1) * s < N
                                 /\ gs[h] = SubSeq(share, (h - 1) * s + 1, Least(h * s, N))
  PROVE  /\ Len(gs) * s <= s * P
         /\ \A h \in DOMAIN gs : Len(gs[h]) \in 1 .. s
<1>1. PICK G \in Nat : G = Len(gs) /\ DOMAIN gs = 1 .. G
  OBVIOUS
<1>2. G <= P
  <2>1. CASE G > 0
    <3>1. G \in 1 .. G /\ G - 1 \in Nat
      BY <2>1
    <3>2. PICK k \in Nat : k = G - 1 /\ k * s < N
      <4>1. (G - 1) * s < N
        BY <1>1, <3>1
      <4> QED BY <3>1, <4>1, ZenonT(30)
    <3>3. PICK x \in Nat, y \in Nat : x = k * s /\ y = P * s
      BY ProductOrder
    <3>4. x < N /\ N <= y
      BY <3>2, <3>3, ZenonT(30)
    <3>5. k < P
      <4>1. x < y
        BY <3>4
      <4>2. k * s < P * s
        BY <3>3, <4>1, ZenonT(30)
      <4> QED BY <4>2, ProductOrder
    <3> QED BY <3>2, <3>5
  <2> QED BY <2>1
<1>3. Len(gs) * s <= s * P
  <2>1. G * s <= P * s
    BY <1>2, ProductOrder
  <2>2. P * s = s * P
    OBVIOUS
  <2> QED BY <1>1, <2>1, <2>2
<1>4. ASSUME NEW h \in 1 .. G PROVE Len(gs[h]) \in 1 .. s
  <2>1. PICK k \in Nat : k = h - 1 /\ h = k + 1
    OBVIOUS
  <2>2. PICK a \in Nat : a = k * s /\ h * s = a + s
    BY <2>1, ProductOrder
  <2>3. a < N /\ gs[h] = SubSeq(share, a + 1, Least(a + s, N))
    BY <1>1, <2>1, <2>2
  <2>4. PICK g \in 1 .. s : Least(a + s, N) = a + g /\ a + g <= N
    <3>1. CASE a + s < N
      BY <3>1 DEF Least
    <3>2. CASE ~(a + s < N)
      <4>1. Least(a + s, N) = N /\ N - a \in 1 .. s /\ N = a + (N - a) /\ a + (N - a) <= N
        BY <2>3, <3>2 DEF Least
      <4> QED BY <4>1, ZenonT(30)
    <3> QED BY <3>1, <3>2
  <2>5. Len(SubSeq(share, a + 1, a + g)) = g
    BY <2>4, SubSeqFacts
  <2> QED BY <2>3, <2>4, <2>5, ZenonT(30)
<1> QED BY <1>1, <1>3, <1>4

\* Nor has a share more tasks than fit.
LEMMA ShareFits ==
  ASSUME NEW n \in Nat, NEW tot \in Nat, NEW p \in Nat \ {0},
         NEW nc \in Nat \ {0}, NEW s \in Nat \ {0}
  PROVE  LET P == PerClusterTaskGroups(TaskGroupsTotal(TotTasks(tot, p), s), nc)
             share == ShareOf(n, tot, p, nc, s)
         IN  /\ P \in Nat /\ share \in Seq(Bounds) /\ Len(share) \in Nat
             /\ Len(share) <= P * s
<1> DEFINE P == PerClusterTaskGroups(TaskGroupsTotal(TotTasks(tot, p), s), nc)
           per == PerClusterIters(tot, p, nc, s)
           first == IterStart(n, tot, p, nc, s)
           last == IterEnd(n, tot, p, nc, s)
           share == ShareOf(n, tot, p, nc, s)
<1>1. P \in Nat /\ per = (P * s) * p /\ per \in Nat
  BY ShareFacts
<1>2. first \in Nat /\ last \in Nat
  BY ShareFacts
<1>3. last = Least(first + per, tot)
  BY ShareFacts
<1>4. share = [k \in 1 .. Tasks(first, last, p) |-> Task(first, last, p, k)]
  BY DEF ShareOf, Tasks, Task
<1> HIDE DEF P, per, first, last, share
<1>5. /\ share \in Seq(Bounds) /\ Len(share) \in Nat
      /\ \A m \in Nat : m < Len(share) <=> first + m * p < last
  BY <1>2, <1>4, ShareSeq
<1>6. PICK m \in Nat : m = P * s
  BY <1>1, ProductOrder
<1>7. ~(first + m * p < last)
  BY <1>1, <1>2, <1>3, <1>6 DEF Least
<1>8. Len(share) <= P * s
  BY <1>5, <1>6, <1>7
<1> QED BY <1>1, <1>5, <1>8 DEF P, share

\* The groups of a share are cut from it.
LEMMA CutGroups ==
  ASSUME NEW s \in Nat \ {0}, NEW share \in Seq(Bounds), NEW N \in Nat, N = Len(share),
         NEW gs \in Seq(Seq(Bounds)), gs = GroupsOf(share, s)
  PROVE  \A h \in 1 .. Len(gs) :
           /\ (h - 1) * s < N
           /\ gs[h] = SubSeq(share, (h - 1) * s + 1, Least(h * s, N))
<1>1. PICK c \in Nat : c = (N + s - 1) \div s /\ \A k \in Nat : k < c <=> k * s < N
  BY RoundedUp, ZenonT(30)
<1>2. gs = [h \in 1 .. c |-> SubSeq(share, (h - 1) * s + 1, Least(h * s, N))]
  BY <1>1 DEF GroupsOf
<1>3. Len(gs) = c
  BY <1>2
<1>4. \A h \in 1 .. c : gs[h] = SubSeq(share, (h - 1) * s + 1, Least(h * s, N))
  BY <1>2
<1>5. \A h \in 1 .. c : h - 1 \in Nat /\ h - 1 < c
  OBVIOUS
<1>6. \A h \in 1 .. c : (h - 1) * s < N
  BY <1>1, <1>5
<1> QED BY <1>3, <1>4, <1>6

\* A cluster never fills more descriptors than it has drawn from the pool, and
\* never a group beyond its size, however long the loop.
THEOREM DescriptorsEnough == Spec => []DescriptorsSuffice
<1>1. ASSUME FillInv PROVE DescriptorsSuffice
  <2>0. /\ tot_iters \in Nat /\ iters_per_task \in Nat \ {0}
        /\ num_clusters \in Nat \ {0} /\ size \in Nat \ {0} /\ cluster_num \in Nat
        /\ groups \in [0 .. num_clusters - 1 -> Seq(Seq(Bounds))]
    BY <1>1 DEF FillInv
  <2> SUFFICES ASSUME NEW n \in 0 .. num_clusters - 1
      PROVE  /\ Len(groups[n]) * size <=
                  size * PerClusterTaskGroups(
                           TaskGroupsTotal(TotTasks(tot_iters, iters_per_task), size),
                           num_clusters)
             /\ \A g \in DOMAIN groups[n] : Len(groups[n][g]) \in 1 .. size
    BY DEF DescriptorsSuffice
  <2>1. PICK P : P = PerClusterTaskGroups(
                       TaskGroupsTotal(TotTasks(tot_iters, iters_per_task), size), num_clusters)
    OBVIOUS
  <2>2. PICK share : share = ShareOf(n, tot_iters, iters_per_task, num_clusters, size)
    OBVIOUS
  <2>3. n \in Nat
    BY <2>0
  <2>4. P \in Nat /\ share \in Seq(Bounds) /\ Len(share) \in Nat /\ Len(share) <= P * size
    BY <2>0, <2>1, <2>2, <2>3, ShareFits, ZenonT(30)
  <2>5. groups[n] \in Seq(Seq(Bounds))
    BY <2>0
  <2>6. \A h \in 1 .. Len(groups[n]) :
          /\ (h - 1) * size < Len(share)
          /\ groups[n][h] = SubSeq(share, (h - 1) * size + 1, Least(h * size, Len(share)))
    <3>1. CASE n < cluster_num
      <4>1. groups[n] = GroupsOf(share, size)
        BY <1>1, <2>2, <3>1 DEF FillInv, FillIsShare
      <4> QED BY <2>0, <2>4, <2>5, <4>1, CutGroups, ZenonT(30)
    <3>2. CASE n = cluster_num /\ pc = "fill"
      <4>1. Filling(First, Last, iters_per_task, size, Share, groups[n], group,
                    per_cluster_iter_start) /\ share = Share
        BY <1>1, <2>2, <3>2 DEF FillInv, Share
      <4> QED BY <4>1, ZenonT(30) DEF Filling
    <3>3. CASE n > cluster_num \/ (n = cluster_num /\ pc # "fill")
      <4>1. groups[n] = <<>>
        BY <1>1, <3>3 DEF FillInv
      <4> QED BY <4>1
    <3> QED BY <2>0, <2>3, <3>1, <3>2, <3>3
  <2>7. /\ Len(groups[n]) * size <= size * P
        /\ \A h \in DOMAIN groups[n] : Len(groups[n][h]) \in 1 .. size
    BY <2>0, <2>4, <2>5, <2>6, GroupsFit, ZenonT(30)
  <2> QED BY <2>1, <2>7
<1> QED BY <1>1, FillInit, FillStep, PTL DEF Spec

-----------------------------------------------------------------------------
(* The iterations.                                                         *)

\* Where element j of a sequence of N is when it is cut into pieces of s.
LEMMA Where ==
  ASSUME NEW s \in Nat \ {0}, NEW N \in Nat, NEW j \in 1 .. N
  PROVE  \E k \in Nat, i \in 1 .. s :
           j = k * s + i /\ k * s < N /\ k * s + i <= Least(k * s + s, N)
<1>1. j - 1 \in Nat
  OBVIOUS
<1>2. PICK k \in Nat, r \in 0 .. s - 1 : j - 1 = s * k + r
  <2>1. /\ (j - 1) % s \in 0 .. s - 1 /\ (j - 1) \div s \in Nat
        /\ j - 1 = s * ((j - 1) \div s) + ((j - 1) % s)
    BY <1>1, DivMod, ZenonT(30)
  <2> QED BY <2>1, ZenonT(30)
<1>3. PICK a \in Nat : a = k * s /\ a = s * k
  BY ProductOrder
<1>4. /\ r + 1 \in 1 .. s /\ j = a + (r + 1) /\ a < N
      /\ a + (r + 1) <= Least(a + s, N)
  BY <1>2, <1>3 DEF Least
<1> QED BY <1>3, <1>4

\* The number in a share of the task in place h of group g, groups of s.
Place(g, h, s) == (g - 1) * s + h

\* A place belongs to one group.
LEMMA OnePlace ==
  ASSUME NEW s \in Nat \ {0}, NEW g \in Nat \ {0}, NEW k \in Nat \ {0},
         NEW h \in 1 .. s, NEW l \in 1 .. s, Place(g, h, s) = Place(k, l, s)
  PROVE  g = k /\ h = l
<1>1. PICK a \in Nat, b \in Nat : a = g - 1 /\ b = k - 1
  OBVIOUS
<1>2. PICK x \in Nat, y \in Nat : x = a * s /\ y = b * s
  BY ProductOrder
<1>3. x + h = y + l
  BY <1>1, <1>2 DEF Place
<1>4. (a < b => x + s <= y) /\ (b < a => y + s <= x)
  BY <1>2, ProductOrder
<1>5. a = b
  BY <1>3, <1>4
<1> QED BY <1>1, <1>2, <1>3, <1>5

InPlace(gs, share, N, s) ==
  /\ \A g \in DOMAIN gs : \A h \in DOMAIN gs[g] :
       /\ g \in Nat \ {0} /\ h \in 1 .. s
       /\ Place(g, h, s) \in 1 .. N /\ gs[g][h] = share[Place(g, h, s)]
  /\ \A j \in 1 .. N : \E g \in DOMAIN gs : \E h \in DOMAIN gs[g] : j = Place(g, h, s)

\* The groups of a share hold its tasks, each in its place.
LEMMA GroupedTasks ==
  ASSUME NEW s \in Nat \ {0}, NEW share \in Seq(Bounds), NEW N \in Nat, N = Len(share),
         NEW gs, gs = GroupsOf(share, s)
  PROVE  InPlace(gs, share, N, s)
<1>1. PICK c \in Nat : c = (N + s - 1) \div s /\ \A k \in Nat : k < c <=> k * s < N
  BY RoundedUp, ZenonT(30)
<1>2. gs = [h \in 1 .. c |-> SubSeq(share, (h - 1) * s + 1, Least(h * s, N))]
  BY <1>1 DEF GroupsOf
<1>0. \A h \in 1 .. c : gs[h] = SubSeq(share, (h - 1) * s + 1, Least(h * s, N))
  BY <1>2, ZenonT(30)
<1>3. ASSUME NEW k \in Nat, k < c
      PROVE  \E a \in Nat, g \in 1 .. s :
               /\ a = k * s /\ a + g <= N /\ Least(a + s, N) = a + g /\ k + 1 \in 1 .. c
               /\ DOMAIN gs[k + 1] = 1 .. g
               /\ \A i \in 1 .. g : gs[k + 1][i] = share[a + i]
  <2>1. PICK a \in Nat : a = k * s /\ (k + 1) * s = a + s
    BY ProductOrder
  <2>2. a < N
    BY <1>1, <1>3, <2>1
  <2>3. PICK g \in 1 .. s : Least(a + s, N) = a + g /\ a + g <= N
    <3>1. CASE a + s < N
      BY <3>1 DEF Least
    <3>2. CASE ~(a + s < N)
      <4>1. Least(a + s, N) = N /\ N - a \in 1 .. s /\ N = a + (N - a) /\ a + (N - a) <= N
        BY <2>2, <3>2 DEF Least
      <4> QED BY <4>1, ZenonT(30)
    <3> QED BY <3>1, <3>2
  <2>4. k + 1 \in 1 .. c /\ k + 1 - 1 = k
    BY <1>3
  <2>5. PICK h \in 1 .. c : h = k + 1 /\ h - 1 = k
    BY <2>4
  <2>6. gs[k + 1] = SubSeq(share, a + 1, a + g)
    <3>1. gs[h] = SubSeq(share, (h - 1) * s + 1, Least(h * s, N))
      BY <1>0, ZenonT(30)
    <3>2. (h - 1) * s = a /\ h * s = a + s
      BY <2>1, <2>5, ZenonT(30)
    <3>3. gs[h] = SubSeq(share, a + 1, Least(a + s, N))
      BY <3>1, <3>2, ZenonT(30)
    <3> QED BY <2>3, <2>5, <3>3, ZenonT(30)
  <2>7. /\ Len(SubSeq(share, a + 1, a + g)) = g
        /\ SubSeq(share, a + 1, a + g) \in Seq(Bounds)
        /\ \A i \in 1 .. g : SubSeq(share, a + 1, a + g)[i] = share[a + i]
    BY <2>3, SubSeqFacts
  <2>8. DOMAIN gs[k + 1] = 1 .. g /\ \A i \in 1 .. g : gs[k + 1][i] = share[a + i]
    BY <2>6, <2>7
  <2> QED BY <2>1, <2>3, <2>4, <2>8
<1>4. DOMAIN gs = 1 .. c
  BY <1>2
<1>5. ASSUME NEW g \in DOMAIN gs, NEW h \in DOMAIN gs[g]
      PROVE  /\ g \in Nat \ {0} /\ h \in 1 .. s
             /\ Place(g, h, s) \in 1 .. N /\ gs[g][h] = share[Place(g, h, s)]
  <2>1. PICK k \in Nat : k < c /\ g = k + 1 /\ g - 1 = k
    <3>1. g - 1 \in Nat /\ g - 1 < c /\ g = g - 1 + 1
      BY <1>4
    <3> QED BY <3>1, ZenonT(30)
  <2>2. PICK a \in Nat, n \in 1 .. s :
          /\ a = k * s /\ a + n <= N /\ DOMAIN gs[k + 1] = 1 .. n
          /\ \A l \in 1 .. n : gs[k + 1][l] = share[a + l]
    BY <1>3, <2>1, ZenonT(30)
  <2>3. DOMAIN gs[g] = 1 .. n /\ \A l \in 1 .. n : gs[g][l] = share[a + l]
    BY <2>1, <2>2, ZenonT(30)
  <2>4. h \in 1 .. n
    BY <2>3
  <2>5. h \in 1 .. s /\ a + h \in 1 .. N
    BY <2>2, <2>4
  <2>6. Place(g, h, s) = a + h
    BY <2>1, <2>2, ZenonT(30) DEF Place
  <2>7. g \in Nat \ {0}
    BY <2>1
  <2> QED BY <2>3, <2>4, <2>5, <2>6, <2>7, ZenonT(30)
<1>6. ASSUME NEW j \in 1 .. N
      PROVE  \E g \in DOMAIN gs : \E h \in DOMAIN gs[g] : j = Place(g, h, s)
  <2>1. PICK k \in Nat, h \in 1 .. s :
          j = k * s + h /\ k * s < N /\ k * s + h <= Least(k * s + s, N)
    BY Where, ZenonT(30)
  <2>2. k < c
    BY <1>1, <2>1
  <2>3. PICK a \in Nat, n \in 1 .. s :
          /\ a = k * s /\ Least(a + s, N) = a + n /\ k + 1 \in 1 .. c
          /\ DOMAIN gs[k + 1] = 1 .. n
    BY <1>3, <2>2, ZenonT(30)
  <2>4. a + h <= a + n
    BY <2>1, <2>3, ZenonT(30)
  <2>5. h \in 1 .. n
    BY <2>4
  <2>6. k + 1 - 1 = k
    OBVIOUS
  <2>7. j = Place(k + 1, h, s)
    BY <2>1, <2>6 DEF Place
  <2>8. k + 1 \in DOMAIN gs /\ h \in DOMAIN gs[k + 1]
    BY <1>4, <2>3, <2>5, ZenonT(30)
  <2> QED BY <2>7, <2>8
<1> QED BY <1>5, <1>6, ZenonT(30) DEF InPlace

\* The iteration i is in task j of the share from first to last.
Holds(first, last, p, j, i) == first + (j - 1) * p <= i /\ i < Least(first + j * p, last)

\* Every iteration of a share is in one of its tasks.
LEMMA InOneTask ==
  ASSUME NEW first \in Nat, NEW last \in Nat, NEW p \in Nat \ {0}, NEW i \in Nat
  PROVE  /\ first <= i /\ i < last =>
              \E j \in 1 .. Tasks(first, last, p) : Holds(first, last, p, j, i)
         /\ \A j \in 1 .. Tasks(first, last, p) :
              Holds(first, last, p, j, i) => first <= i /\ i < last
         /\ \A j, k \in 1 .. Tasks(first, last, p) :
              Holds(first, last, p, j, i) /\ Holds(first, last, p, k, i) => j = k
<1>0. PICK N \in Nat : /\ N = Tasks(first, last, p)
                       /\ \A m \in Nat : m < N <=> first + m * p < last
  <2>1. /\ Tasks(first, last, p) \in Nat
        /\ \A m \in Nat : m < Tasks(first, last, p) <=> first + m * p < last
    BY TasksFacts
  <2> QED BY <2>1, ZenonT(30)
<1>1. ASSUME NEW m \in Nat
      PROVE  m * p \in Nat /\ (Holds(first, last, p, m + 1, i)
               <=> first + m * p <= i /\ i < first + m * p + p /\ i < last)
  <2>1. PICK x \in Nat : x = m * p /\ (m + 1) * p = x + p /\ m + 1 - 1 = m
    BY ProductOrder
  <2>2. Holds(first, last, p, m + 1, i) <=> first + x <= i /\ i < Least(first + (x + p), last)
    BY <2>1 DEF Holds
  <2>3. i < Least(first + (x + p), last) <=> i < first + x + p /\ i < last
    BY DEF Least
  <2> QED BY <2>1, <2>2, <2>3
<1>2. \A j \in 1 .. N : \E m \in Nat : m < N /\ j = m + 1
  <2> TAKE j \in 1 .. N
  <2>1. j - 1 \in Nat /\ j - 1 < N /\ j = j - 1 + 1
    OBVIOUS
  <2> QED BY <2>1, ZenonT(30)
<1>3. ASSUME first <= i, i < last
      PROVE  \E j \in 1 .. N : Holds(first, last, p, j, i)
  <2>1. i - first \in Nat
    BY <1>3
  <2>2. PICK m \in Nat, r \in 0 .. p - 1 : i - first = p * m + r
    <3>1. /\ (i - first) % p \in 0 .. p - 1 /\ (i - first) \div p \in Nat
          /\ i - first = p * ((i - first) \div p) + ((i - first) % p)
      BY <2>1, DivMod, ZenonT(30)
    <3> QED BY <3>1, ZenonT(30)
  <2>3. PICK x \in Nat : x = m * p /\ x = p * m
    BY ProductOrder
  <2>4. first + x <= i /\ i < first + x + p /\ first + x < last
    BY <1>3, <2>2, <2>3
  <2>5. m < N
    BY <1>0, <2>3, <2>4
  <2>6. Holds(first, last, p, m + 1, i) /\ m + 1 \in 1 .. N
    BY <1>1, <1>3, <2>3, <2>4, <2>5
  <2> QED BY <2>6
<1>4. ASSUME NEW j \in 1 .. N, Holds(first, last, p, j, i)
      PROVE  first <= i /\ i < last
  <2>1. PICK m \in Nat : j = m + 1
    BY <1>2
  <2>2. m * p \in Nat /\ first + m * p <= i /\ i < last
    BY <1>1, <1>4, <2>1
  <2> QED BY <2>2
<1>5. ASSUME NEW m \in Nat, NEW n \in Nat, m < n,
             Holds(first, last, p, m + 1, i), Holds(first, last, p, n + 1, i)
      PROVE  FALSE
  <2>1. PICK x \in Nat, y \in Nat : x = m * p /\ y = n * p /\ x + p <= y
    BY <1>5, ProductOrder
  <2>2. i < first + x + p /\ first + y <= i
    BY <1>1, <1>5, <2>1
  <2> QED BY <2>1, <2>2
<1>6. ASSUME NEW j \in 1 .. N, NEW k \in 1 .. N,
             Holds(first, last, p, j, i), Holds(first, last, p, k, i)
      PROVE  j = k
  <2>1. PICK m \in Nat, n \in Nat : j = m + 1 /\ k = n + 1
    BY <1>2
  <2>2. ~(m < n) /\ ~(n < m)
    BY <1>5, <1>6, <2>1
  <2> QED BY <2>1, <2>2
<1> QED BY <1>0, <1>3, <1>4, <1>6

\* The end of share n when a share has per iterations.
EndOf(n, per, tot) == Least(n * per + per, tot)

\* Task j of share n is one, and the iteration i is in it.
TaskHolds(n, per, tot, p, j, i) ==
  /\ j \in 1 .. Tasks(n * per, EndOf(n, per, tot), p)
  /\ Holds(n * per, EndOf(n, per, tot), p, j, i)
OnlyTask(nc, per, tot, p, i) ==
  /\ i < nc * per => \E n \in 0 .. nc - 1 : \E j : TaskHolds(n, per, tot, p, j, i)
  /\ \A n \in 0 .. nc - 1 : \A j : TaskHolds(n, per, tot, p, j, i) => i < nc * per
  /\ \A m, n \in 0 .. nc - 1 : \A j, k :
       TaskHolds(m, per, tot, p, j, i) /\ TaskHolds(n, per, tot, p, k, i) => m = n /\ j = k

\* Every iteration below the last share's end is in one task of one share.
LEMMA InOneShare ==
  ASSUME NEW nc \in Nat \ {0}, NEW per \in Nat, NEW tot \in Nat, NEW p \in Nat \ {0},
         NEW i \in 0 .. tot - 1
  PROVE  OnlyTask(nc, per, tot, p, i)
<1>1. \A n \in 0 .. nc - 1 : /\ n \in Nat /\ n < nc /\ n * per \in Nat
                             /\ EndOf(n, per, tot) \in Nat
  <2> TAKE n \in 0 .. nc - 1
  <2>1. n \in Nat /\ n < nc
    OBVIOUS
  <2>2. PICK a \in Nat : a = n * per
    BY <2>1, ProductOrder
  <2>3. EndOf(n, per, tot) \in Nat
    BY <2>2 DEF EndOf, Least
  <2> QED BY <2>1, <2>2, <2>3
<1>2. ASSUME NEW n \in 0 .. nc - 1, NEW j \in 1 .. Tasks(n * per, EndOf(n, per, tot), p),
             Holds(n * per, EndOf(n, per, tot), p, j, i)
      PROVE  n * per <= i /\ i < n * per + per
  <2>1. PICK a \in Nat : a = n * per
    BY <1>1
  <2>2. PICK e \in Nat : e = EndOf(n, per, tot)
    BY <1>1
  <2>3. j \in 1 .. Tasks(a, e, p) /\ Holds(a, e, p, j, i)
    BY <1>2, <2>1, <2>2
  <2>4. a <= i /\ i < e
    BY <2>3, InOneTask
  <2>5. e = Least(a + per, tot)
    BY <2>1, <2>2 DEF EndOf
  <2> QED BY <2>1, <2>4, <2>5 DEF Least
<1>3. ASSUME i < nc * per
      PROVE  \E n \in 0 .. nc - 1 : \E j \in 1 .. Tasks(n * per, EndOf(n, per, tot), p) :
               Holds(n * per, EndOf(n, per, tot), p, j, i)
  <2>1. per \in Nat \ {0}
    BY <1>3
  <2>2. i \in Nat
    OBVIOUS
  <2>3. PICK n \in Nat, r \in 0 .. per - 1 : i = per * n + r
    <3>1. /\ i % per \in 0 .. per - 1 /\ i \div per \in Nat
          /\ i = per * (i \div per) + (i % per)
      BY <2>1, <2>2, DivMod, ZenonT(30)
    <3> QED BY <3>1, ZenonT(30)
  <2>4. PICK a \in Nat : a = n * per /\ a = per * n
    BY ProductOrder
  <2>5. a <= i /\ i < a + per
    BY <2>3, <2>4
  <2>6. n * per < nc * per
    BY <1>3, <2>4, <2>5
  <2>7. n < nc
    BY <2>6, ProductOrder
  <2>8. n \in 0 .. nc - 1
    BY <2>7
  <2>9. PICK e \in Nat : e = EndOf(n, per, tot) /\ e = Least(a + per, tot)
    BY <1>1, <2>4, <2>8 DEF EndOf
  <2>10. i < e
    BY <2>5, <2>9 DEF Least
  <2>11. \E j \in 1 .. Tasks(a, e, p) : Holds(a, e, p, j, i)
    BY <2>2, <2>5, <2>10, InOneTask, ZenonT(30)
  <2>12. \E j \in 1 .. Tasks(n * per, EndOf(n, per, tot), p) :
           Holds(n * per, EndOf(n, per, tot), p, j, i)
    BY <2>4, <2>9, <2>11
  <2> QED BY <2>8, <2>12
<1>4. ASSUME NEW n \in 0 .. nc - 1, NEW j \in 1 .. Tasks(n * per, EndOf(n, per, tot), p),
             Holds(n * per, EndOf(n, per, tot), p, j, i)
      PROVE  i < nc * per
  <2>1. i < n * per + per
    BY <1>2, <1>4
  <2>2. PICK a \in Nat, b \in Nat : a = n * per /\ b = nc * per /\ a + per <= b
    BY <1>1, ProductOrder
  <2> QED BY <2>1, <2>2
<1>5. ASSUME NEW m \in 0 .. nc - 1, NEW n \in 0 .. nc - 1, m < n,
             m * per <= i, i < m * per + per, n * per <= i, i < n * per + per
      PROVE  FALSE
  <2>1. PICK a \in Nat, b \in Nat : a = m * per /\ b = n * per /\ a + per <= b
    BY <1>1, <1>5, ProductOrder
  <2> QED BY <1>5, <2>1
<1>6. ASSUME NEW m \in 0 .. nc - 1, NEW n \in 0 .. nc - 1,
             NEW j \in 1 .. Tasks(m * per, EndOf(m, per, tot), p),
             NEW k \in 1 .. Tasks(n * per, EndOf(n, per, tot), p),
             Holds(m * per, EndOf(m, per, tot), p, j, i),
             Holds(n * per, EndOf(n, per, tot), p, k, i)
      PROVE  m = n /\ j = k
  <2>1. m * per <= i /\ i < m * per + per /\ n * per <= i /\ i < n * per + per
    BY <1>2, <1>6
  <2>2. ~(m < n) /\ ~(n < m)
    BY <1>5, <2>1
  <2>3. m = n
    BY <2>2
  <2>4. PICK a \in Nat, e \in Nat : a = m * per /\ e = EndOf(m, per, tot)
    BY <1>1, ZenonT(30)
  <2>5. j \in 1 .. Tasks(a, e, p) /\ k \in 1 .. Tasks(a, e, p)
        /\ Holds(a, e, p, j, i) /\ Holds(a, e, p, k, i) /\ i \in Nat
    BY <1>6, <2>3, <2>4
  <2>6. j = k
    BY <2>5, InOneTask
  <2> QED BY <2>3, <2>6
<1>7. i < nc * per => \E n \in 0 .. nc - 1 : \E j : TaskHolds(n, per, tot, p, j, i)
  BY <1>3, ZenonT(30) DEF TaskHolds
<1>8. \A n \in 0 .. nc - 1 : \A j : TaskHolds(n, per, tot, p, j, i) => i < nc * per
  BY <1>4, ZenonT(30) DEF TaskHolds
<1>9. \A m, n \in 0 .. nc - 1 : \A j, k :
        TaskHolds(m, per, tot, p, j, i) /\ TaskHolds(n, per, tot, p, k, i) => m = n /\ j = k
  BY <1>6, ZenonT(30) DEF TaskHolds
<1> QED BY <1>7, <1>8, <1>9, ZenonT(30) DEF OnlyTask

\* What is left over is less than a task.
LEMMA LeftOver ==
  ASSUME NEW tot \in Nat, NEW p \in Nat \ {0}, NEW nc \in Nat, NEW s \in Nat, NEW P \in Nat,
         tot \div p <= (nc * P) * s
  PROVE  tot - (tot % p) <= nc * ((P * s) * p)
<1>1. PICK T \in Nat, r \in Nat : T = tot \div p /\ r = tot % p /\ tot = p * T + r
  <2>1. /\ tot % p \in 0 .. p - 1 /\ tot \div p \in Nat
        /\ tot = p * (tot \div p) + (tot % p)
    BY DivMod, ZenonT(30)
  <2> QED BY <2>1
<1>2. PICK x \in Nat : x = (nc * P) * s
  BY ProductOrder
<1>3. T * p <= x * p
  BY <1>1, <1>2, ProductOrder
<1>4. PICK a \in Nat, b \in Nat : a = T * p /\ a = p * T /\ b = x * p
  BY ProductOrder
<1>5. x * p = nc * ((P * s) * p)
  BY <1>2
<1>6. tot - (tot % p) = a
  BY <1>1, <1>4
<1> QED BY <1>3, <1>4, <1>5, <1>6

\* What a share is, in the terms of the lemmas above.
PerGroups(tot, p, nc, s) == PerClusterTaskGroups(TaskGroupsTotal(TotTasks(tot, p), s), nc)
ShareCut(n, tot, p, nc, s, P, per, share) ==
  /\ P \in Nat /\ per \in Nat /\ per = (P * s) * p /\ tot \div p <= (nc * P) * s
  /\ share \in Seq(Bounds) /\ Len(share) \in Nat
  /\ Len(share) = Tasks(n * per, EndOf(n, per, tot), p)
  /\ \A j \in 1 .. Len(share) : share[j] = Task(n * per, EndOf(n, per, tot), p, j)

LEMMA ShareIs ==
  ASSUME NEW n \in Nat, NEW tot \in Nat, NEW p \in Nat \ {0},
         NEW nc \in Nat \ {0}, NEW s \in Nat \ {0}
  PROVE  ShareCut(n, tot, p, nc, s, PerGroups(tot, p, nc, s),
                  PerClusterIters(tot, p, nc, s), ShareOf(n, tot, p, nc, s))
<1> DEFINE P == PerGroups(tot, p, nc, s)
           per == PerClusterIters(tot, p, nc, s)
           first == IterStart(n, tot, p, nc, s)
           last == IterEnd(n, tot, p, nc, s)
           share == ShareOf(n, tot, p, nc, s)
<1>1. P \in Nat /\ per = (P * s) * p /\ per \in Nat
  BY ShareFacts DEF PerGroups
<1>2. tot \div p <= (nc * P) * s
  BY ShareFacts, ZenonT(30) DEF PerGroups
<1>3. first \in Nat /\ last \in Nat
  BY ShareFacts
<1>4. last = Least(first + per, tot)
  BY ShareFacts
<1>5. first = n * per
  BY DEF IterStart
<1>6. share = [k \in 1 .. Tasks(first, last, p) |-> Task(first, last, p, k)]
  BY DEF ShareOf, Tasks, Task
<1> HIDE DEF P, per, first, last, share
<1>7. last = EndOf(n, per, tot)
  BY <1>4, <1>5, ZenonT(30) DEF EndOf
<1>8. /\ share \in Seq(Bounds) /\ Len(share) = Tasks(first, last, p) /\ Len(share) \in Nat
      /\ \A k \in 1 .. Len(share) : share[k] = Task(first, last, p, k)
  BY <1>3, <1>6, ShareSeq
<1>9. /\ share \in Seq(Bounds) /\ Len(share) \in Nat
      /\ Len(share) = Tasks(n * per, EndOf(n, per, tot), p)
      /\ \A k \in 1 .. Len(share) : share[k] = Task(n * per, EndOf(n, per, tot), p, k)
  BY <1>5, <1>7, <1>8, ZenonT(30)
<1>10. ShareCut(n, tot, p, nc, s, P, per, share)
  BY <1>1, <1>2, <1>9, ZenonT(30) DEF ShareCut
<1> QED BY <1>10, ZenonT(30) DEF P, per, share

\* Task j of share n.
TaskOf(n, per, tot, p, j) == Task(n * per, EndOf(n, per, tot), p, j)

\* The groups gs hold the tasks of share n, each in its place.
HoldShare(gs, n, per, tot, p, s) ==
  /\ \A g \in DOMAIN gs : \A h \in DOMAIN gs[g] :
       /\ g \in Nat \ {0} /\ h \in 1 .. s
       /\ Place(g, h, s) \in 1 .. Tasks(n * per, EndOf(n, per, tot), p)
       /\ gs[g][h] = TaskOf(n, per, tot, p, Place(g, h, s))
  /\ \A j \in 1 .. Tasks(n * per, EndOf(n, per, tot), p) :
       \E g \in DOMAIN gs : \E h \in DOMAIN gs[g] : j = Place(g, h, s)

\* The groups a cluster has made hold the tasks of its share.
LEMMA ShareTasks ==
  ASSUME NEW n \in Nat, NEW tot \in Nat, NEW p \in Nat \ {0}, NEW nc \in Nat \ {0},
         NEW s \in Nat \ {0}, NEW gs, gs = GroupsOf(ShareOf(n, tot, p, nc, s), s)
  PROVE  HoldShare(gs, n, PerClusterIters(tot, p, nc, s), tot, p, s)
<1>1. PICK P, per, share :
        /\ P = PerGroups(tot, p, nc, s) /\ per = PerClusterIters(tot, p, nc, s)
        /\ share = ShareOf(n, tot, p, nc, s)
  OBVIOUS
<1>2. ShareCut(n, tot, p, nc, s, P, per, share)
  <2>1. ShareCut(n, tot, p, nc, s, PerGroups(tot, p, nc, s),
                  PerClusterIters(tot, p, nc, s), ShareOf(n, tot, p, nc, s))
    BY ShareIs
  <2> QED BY <1>1, <2>1, ZenonT(30)
<1>3. PICK N \in Nat : /\ N = Len(share) /\ N = Tasks(n * per, EndOf(n, per, tot), p)
                       /\ \A j \in 1 .. N : share[j] = TaskOf(n, per, tot, p, j)
  BY <1>2, ZenonT(30) DEF ShareCut, TaskOf
<1>4. InPlace(gs, share, N, s)
  <2>1. share \in Seq(Bounds) /\ gs = GroupsOf(share, s)
    BY <1>1, <1>2, ZenonT(30) DEF ShareCut
  <2> QED BY <1>3, <2>1, GroupedTasks, ZenonT(30)
<1>5. HoldShare(gs, n, per, tot, p, s)
  BY <1>3, <1>4, ZenonT(30) DEF HoldShare, InPlace
<1> QED BY <1>1, <1>5, ZenonT(30)

\* The descriptor d is in place h of group g of cluster n.
IsAt(d, n, g, h) == d = <<n, g, h>>

\* The iteration i is in the task k.
InTask(k, i) == k[1] <= i /\ i < k[2]

\* The descriptors in with, those that hold i, are one, or none and i is left over.
OnceOrLeft(with, i, tot, p) ==
  \/ \E d \in with : with = {d}
  \/ with = {} /\ i >= tot - (tot % p)

\* Every iteration is in exactly one descriptor, or among those left over.
LEMMA OnceEach ==
  ASSUME NEW tot \in Nat, NEW p \in Nat \ {0}, NEW nc \in Nat \ {0}, NEW s \in Nat \ {0},
         NEW gr, NEW with, NEW i \in 0 .. tot - 1,
         \A n \in 0 .. nc - 1 : gr[n] = GroupsOf(ShareOf(n, tot, p, nc, s), s),
         \A d : d \in with <=>
           \E n \in 0 .. nc - 1 : \E g \in DOMAIN gr[n] : \E h \in DOMAIN gr[n][g] :
             IsAt(d, n, g, h) /\ InTask(gr[n][g][h], i)
  PROVE  OnceOrLeft(with, i, tot, p)
<1>1. PICK P, per : P = PerGroups(tot, p, nc, s) /\ per = PerClusterIters(tot, p, nc, s)
  OBVIOUS
<1>2. P \in Nat /\ per \in Nat /\ per = (P * s) * p /\ tot \div p <= (nc * P) * s
  <2>1. 0 \in Nat
    OBVIOUS
  <2>2. ShareCut(0, tot, p, nc, s, PerGroups(tot, p, nc, s),
                 PerClusterIters(tot, p, nc, s), ShareOf(0, tot, p, nc, s))
    BY <2>1, ShareIs
  <2>3. ShareCut(0, tot, p, nc, s, P, per, ShareOf(0, tot, p, nc, s))
    BY <1>1, <2>2, ZenonT(30)
  <2> QED BY <2>3, ZenonT(30) DEF ShareCut
<1>3. \A n \in 0 .. nc - 1 : HoldShare(gr[n], n, per, tot, p, s)
  <2> TAKE n \in 0 .. nc - 1
  <2>1. n \in Nat
    OBVIOUS
  <2>2. gr[n] = GroupsOf(ShareOf(n, tot, p, nc, s), s)
    OBVIOUS
  <2>3. HoldShare(gr[n], n, PerClusterIters(tot, p, nc, s), tot, p, s)
    BY <2>1, <2>2, ShareTasks
  <2> QED BY <1>1, <2>3, ZenonT(30)
<1>4. OnlyTask(nc, per, tot, p, i)
  BY <1>2, InOneShare
<1>5. ASSUME NEW n \in 0 .. nc - 1, NEW g \in DOMAIN gr[n], NEW h \in DOMAIN gr[n][g]
      PROVE  /\ g \in Nat \ {0} /\ h \in 1 .. s
             /\ InTask(gr[n][g][h], i) <=> TaskHolds(n, per, tot, p, Place(g, h, s), i)
  <2>1. /\ g \in Nat \ {0} /\ h \in 1 .. s
        /\ Place(g, h, s) \in 1 .. Tasks(n * per, EndOf(n, per, tot), p)
        /\ gr[n][g][h] = TaskOf(n, per, tot, p, Place(g, h, s))
    BY <1>3, ZenonT(30) DEF HoldShare
  <2>2. InTask(TaskOf(n, per, tot, p, Place(g, h, s)), i)
          <=> Holds(n * per, EndOf(n, per, tot), p, Place(g, h, s), i)
    BY DEF InTask, TaskOf, Task, Holds
  <2> QED BY <2>1, <2>2, ZenonT(30) DEF TaskHolds
<1>6. ASSUME NEW d \in with, NEW e \in with PROVE d = e
  <2>1. PICK n, g, h :
          /\ n \in 0 .. nc - 1 /\ g \in DOMAIN gr[n] /\ h \in DOMAIN gr[n][g]
          /\ IsAt(d, n, g, h) /\ InTask(gr[n][g][h], i)
    BY ZenonT(30)
  <2>2. PICK m, k, l :
          /\ m \in 0 .. nc - 1 /\ k \in DOMAIN gr[m] /\ l \in DOMAIN gr[m][k]
          /\ IsAt(e, m, k, l) /\ InTask(gr[m][k][l], i)
    BY ZenonT(30)
  <2>3. /\ TaskHolds(n, per, tot, p, Place(g, h, s), i)
        /\ TaskHolds(m, per, tot, p, Place(k, l, s), i)
        /\ g \in Nat \ {0} /\ k \in Nat \ {0} /\ h \in 1 .. s /\ l \in 1 .. s
    BY <1>5, <2>1, <2>2, ZenonT(30)
  <2>4. n = m /\ Place(g, h, s) = Place(k, l, s)
    BY <1>4, <2>1, <2>2, <2>3, ZenonT(30) DEF OnlyTask
  <2>5. g = k /\ h = l
    BY <2>3, <2>4, OnePlace, ZenonT(30)
  <2> QED BY <2>1, <2>2, <2>4, <2>5, ZenonT(30) DEF IsAt
<1>7. CASE i < nc * per
  <2>1. PICK n, j : n \in 0 .. nc - 1 /\ TaskHolds(n, per, tot, p, j, i)
    BY <1>4, <1>7, ZenonT(30) DEF OnlyTask
  <2>2. PICK g, h : /\ g \in DOMAIN gr[n] /\ h \in DOMAIN gr[n][g]
                     /\ j = Place(g, h, s)
    <3>1. HoldShare(gr[n], n, per, tot, p, s)
      BY <1>3, <2>1, ZenonT(30)
    <3>2. j \in 1 .. Tasks(n * per, EndOf(n, per, tot), p)
      BY <2>1, ZenonT(30) DEF TaskHolds
    <3>3. \E g \in DOMAIN gr[n] : \E h \in DOMAIN gr[n][g] : j = Place(g, h, s)
      BY <3>1, <3>2, ZenonT(30) DEF HoldShare
    <3> QED BY <3>3, ZenonT(30)
  <2>3. InTask(gr[n][g][h], i)
    BY <1>5, <2>1, <2>2, ZenonT(30)
  <2>4. <<n, g, h>> \in with
    BY <2>1, <2>2, <2>3, ZenonT(30) DEF IsAt
  <2>5. with = {<<n, g, h>>}
    BY <1>6, <2>4, ZenonT(30)
  <2> QED BY <2>4, <2>5, ZenonT(30) DEF OnceOrLeft
<1>8. CASE ~(i < nc * per)
  <2>1. ASSUME NEW d \in with PROVE FALSE
    <3>1. PICK n, g, h :
            /\ n \in 0 .. nc - 1 /\ g \in DOMAIN gr[n] /\ h \in DOMAIN gr[n][g]
            /\ InTask(gr[n][g][h], i)
      BY ZenonT(30)
    <3>2. TaskHolds(n, per, tot, p, Place(g, h, s), i)
      BY <1>5, <3>1, ZenonT(30)
    <3> QED BY <1>4, <1>8, <3>1, <3>2, ZenonT(30) DEF OnlyTask
  <2>2. tot - (tot % p) <= nc * per
    BY <1>2, LeftOver, ZenonT(30)
  <2>3. nc * per \in Nat /\ tot % p \in Int /\ i \in Nat
    BY <1>2, ProductOrder, DivMod
  <2>4. i >= tot - (tot % p)
    BY <1>8, <2>2, <2>3
  <2>5. with = {}
    BY <2>1, ZenonT(30)
  <2> QED BY <2>4, <2>5, ZenonT(30) DEF OnceOrLeft
<1> QED BY <1>7, <1>8, ZenonT(30)

\* SW_TaskQueue_Loop_PARALLEL, all clusters together: for every loop, group
\* size and number of clusters each iteration is in exactly one of the
\* descriptors that all the clusters have filled, except a remainder of less
\* than one task's iterations at the end of the loop, which may be in none.
THEOREM IterationsInOneTask == Spec => []IterationsOnce
<1>1. ASSUME FillInv PROVE IterationsOnce
  <2> SUFFICES ASSUME pc = "done", NEW i \in 0 .. tot_iters - 1
      PROVE  OnceOrLeft({d \in Filled : /\ groups[d[1]][d[2]][d[3]][1] <= i
                                        /\ i < groups[d[1]][d[2]][d[3]][2]},
                        i, tot_iters, iters_per_task)
    BY ZenonT(30) DEF IterationsOnce, OnceOrLeft
  <2>1. PICK with : with = {d \in Filled : /\ groups[d[1]][d[2]][d[3]][1] <= i
                                           /\ i < groups[d[1]][d[2]][d[3]][2]}
    OBVIOUS
  <2>2. PICK tot \in Nat, p \in Nat \ {0}, nc \in Nat \ {0}, s \in Nat \ {0} :
          tot = tot_iters /\ p = iters_per_task /\ nc = num_clusters /\ s = size
    BY <1>1 DEF FillInv
  <2> PICK gr : gr = groups
    OBVIOUS
  <2>3. \A n \in 0 .. nc - 1 : gr[n] = GroupsOf(ShareOf(n, tot, p, nc, s), s)
    <3>1. cluster_num = num_clusters
      BY <1>1 DEF FillInv
    <3>2. \A n \in 0 .. nc - 1 : n < nc
      OBVIOUS
    <3> QED BY <1>1, <2>2, <3>1, <3>2, ZenonT(30) DEF FillInv, FillIsShare
  <2>4. DOMAIN gr = 0 .. nc - 1
    BY <1>1, <2>2 DEF FillInv
  <2>5. \A d : d \in Filled <=>
          \E n \in 0 .. nc - 1 : \E g \in DOMAIN gr[n] : \E h \in DOMAIN gr[n][g] :
            IsAt(d, n, g, h)
    <3>1. Filled = UNION {UNION {{<<n, g, h>> : h \in DOMAIN gr[n][g]} :
                                   g \in DOMAIN gr[n]} : n \in 0 .. nc - 1}
      BY <2>4 DEF Filled
    <3>2. \A n, d : d \in UNION {{<<n, g, h>> : h \in DOMAIN gr[n][g]} : g \in DOMAIN gr[n]}
            <=> \E g \in DOMAIN gr[n] : \E h \in DOMAIN gr[n][g] : IsAt(d, n, g, h)
      BY DEF IsAt
    <3> DEFINE Of(n) == UNION {{<<n, g, h>> : h \in DOMAIN gr[n][g]} : g \in DOMAIN gr[n]}
    <3>3. /\ Filled = UNION {Of(n) : n \in 0 .. nc - 1}
          /\ \A n, d : d \in Of(n) <=> \E g \in DOMAIN gr[n] : \E h \in DOMAIN gr[n][g] :
                                         IsAt(d, n, g, h)
      BY <3>1, <3>2, ZenonT(30)
    <3> HIDE DEF Of
    <3>4. \A d : d \in Filled <=> \E n \in 0 .. nc - 1 : d \in Of(n)
      BY <3>3
    <3> QED BY <3>3, <3>4, ZenonT(30)
  <2>6. \A d : d \in with <=>
          \E n \in 0 .. nc - 1 : \E g \in DOMAIN gr[n] : \E h \in DOMAIN gr[n][g] :
            IsAt(d, n, g, h) /\ InTask(gr[n][g][h], i)
    <3>1. \A n, g, h : /\ <<n, g, h>>[1] = n /\ <<n, g, h>>[2] = g /\ <<n, g, h>>[3] = h
      OBVIOUS
    <3>2. \A d : d \in with <=> d \in Filled /\ InTask(gr[d[1]][d[2]][d[3]], i)
      BY <2>1, ZenonT(30) DEF InTask
    <3>4. ASSUME NEW d \in with
          PROVE  \E n \in 0 .. nc - 1 : \E g \in DOMAIN gr[n] : \E h \in DOMAIN gr[n][g] :
                   IsAt(d, n, g, h) /\ InTask(gr[n][g][h], i)
      <4>1. d \in Filled /\ InTask(gr[d[1]][d[2]][d[3]], i)
        BY <3>2, ZenonT(30)
      <4>2. PICK n, g, h : /\ n \in 0 .. nc - 1 /\ g \in DOMAIN gr[n]
                           /\ h \in DOMAIN gr[n][g] /\ IsAt(d, n, g, h)
        BY <2>5, <4>1, ZenonT(30)
      <4>3. InTask(gr[n][g][h], i)
        <5>1. gr[d[1]][d[2]][d[3]] = gr[n][g][h]
          BY <3>1, <4>2 DEF IsAt
        <5> QED BY <4>1, <5>1
      <4> QED BY <4>2, <4>3, ZenonT(30)
    <3>5. ASSUME NEW n \in 0 .. nc - 1, NEW g \in DOMAIN gr[n], NEW h \in DOMAIN gr[n][g],
                 NEW d, IsAt(d, n, g, h), InTask(gr[n][g][h], i)
          PROVE  d \in with
      <4>1. gr[d[1]][d[2]][d[3]] = gr[n][g][h]
        BY <3>1, <3>5 DEF IsAt
      <4>2. d \in Filled
        BY <2>5, <3>5, ZenonT(30)
      <4>3. InTask(gr[d[1]][d[2]][d[3]], i)
        BY <3>5, <4>1
      <4> QED BY <3>2, <4>2, <4>3, ZenonT(30)
    <3> QED BY <3>4, <3>5, ZenonT(30)
  <2>7. i \in 0 .. tot - 1
    BY <2>2
  <2>8. OnceOrLeft(with, i, tot, p)
    BY <2>3, <2>6, <2>7, OnceEach, ZenonT(30)
  <2> QED BY <2>1, <2>2, <2>8, ZenonT(30)
<1> QED BY <1>1, FillInit, FillStep, PTL DEF Spec
=============================================================================
