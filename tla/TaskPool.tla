------------------------------ MODULE TaskPool ------------------------------
(***************************************************************************)
(* What the task model promises its programs, with none of its mechanism:  *)
(* a task that was enqueued is dequeued by one core, and a core gets SYNC  *)
(* for an interval only when every task of the interval is finished.       *)
(***************************************************************************)
EXTENDS Integers

CONSTANTS Core, NoTask

VARIABLES waiting,   \* tasks enqueued and not yet dequeued
          busy,      \* the task each core is running
          closed,    \* how many intervals are over
          synced     \* for how many of them each core got SYNC

vars == <<waiting, busy, closed, synced>>

Init ==
  /\ waiting = {}
  /\ busy = [c \in Core |-> NoTask]
  /\ closed = 0
  /\ synced = [c \in Core |-> 0]

Enqueue ==
  /\ \E t \in waiting' : t \notin waiting /\ waiting' = waiting \cup {t}
  /\ UNCHANGED <<busy, closed, synced>>

Dequeue(c) ==
  /\ busy[c] = NoTask /\ synced[c] = closed
  /\ \E t \in waiting : /\ waiting' = waiting \ {t}
                        /\ busy' = [busy EXCEPT ![c] = t]
  /\ UNCHANGED <<closed, synced>>

Finish(c) ==
  /\ busy[c] # NoTask
  /\ busy' = [busy EXCEPT ![c] = NoTask]
  /\ UNCHANGED <<waiting, closed, synced>>

Close ==
  /\ waiting = {}
  /\ \A c \in Core : busy[c] = NoTask /\ synced[c] = closed
  /\ closed' = closed + 1
  /\ UNCHANGED <<waiting, busy, synced>>

Sync(c) ==
  /\ synced[c] < closed
  /\ synced' = [synced EXCEPT ![c] = @ + 1]
  /\ UNCHANGED <<waiting, busy, closed>>

Next ==
  \/ Enqueue \/ Close
  \/ \E c \in Core : Dequeue(c) \/ Finish(c) \/ Sync(c)

Spec == Init /\ [][Next]_vars
=============================================================================
