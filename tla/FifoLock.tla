------------------------------ MODULE FifoLock ------------------------------
(***************************************************************************)
(* What a fair lock promises: threads are served one at a time, in the     *)
(* order in which they asked.                                              *)
(***************************************************************************)
EXTENDS Sequences

CONSTANT Thread

VARIABLES queue,    \* who asked and has not released, in the order of asking
          inside    \* who holds the lock

Init == queue = <<>> /\ inside = {}

Ask(t) ==
  /\ \A i \in DOMAIN queue : queue[i] # t
  /\ queue' = Append(queue, t)
  /\ UNCHANGED inside

Get(t) ==
  /\ inside = {} /\ queue # <<>> /\ Head(queue) = t
  /\ inside' = {t}
  /\ UNCHANGED queue

Free(t) ==
  /\ inside = {t} /\ queue # <<>> /\ Head(queue) = t
  /\ inside' = {}
  /\ queue' = Tail(queue)

Next == \E t \in Thread : Ask(t) \/ Get(t) \/ Free(t)

Spec == Init /\ [][Next]_<<queue, inside>>
=============================================================================
