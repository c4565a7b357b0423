---------------------------- MODULE PhaseBarrier ----------------------------
(***************************************************************************)
(* What a full-chip barrier promises, with none of its mechanism.          *)
(* include/rigel-tasks.h declares EnterFull as "Join a full-chip barrier": *)
(* a thread that joins stays until every thread of the chip has joined,    *)
(* and then all of them are let go at once.  A thread that was let go may  *)
(* join the next round while slower threads are still on their way out.    *)
(***************************************************************************)
CONSTANT Thread

VARIABLE stage   \* per thread: outside, held inside, or let go

Outside  == "outside"
Held     == "held"
LetGo    == "letgo"

Init == stage = [t \in Thread |-> Outside]

Join(t) ==
  /\ stage[t] = Outside
  /\ stage' = [stage EXCEPT ![t] = Held]

Release ==
  /\ \A t \in Thread : stage[t] = Held
  /\ stage' = [t \in Thread |-> LetGo]

Leave(t) ==
  /\ stage[t] = LetGo
  /\ stage' = [stage EXCEPT ![t] = Outside]

Next ==
  \/ \E t \in Thread : Join(t) \/ Leave(t)
  \/ Release

Spec == Init /\ [][Next]_stage
=============================================================================
