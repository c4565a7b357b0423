---------------------------- MODULE ReentrantLock ----------------------------
(***************************************************************************)
(* What a lock that may be taken again by its holder promises: one holder  *)
(* at a time, which lets go when it has released as often as it took.      *)
(***************************************************************************)
EXTENDS Integers

CONSTANT Thread

VARIABLES holders,   \* who holds the lock
          level      \* how often the holder has taken it

Init == holders = {} /\ level = 0

Take(t) == holders = {} /\ holders' = {t} /\ level' = 1

Again(t) == holders = {t} /\ holders' = {t} /\ level' = level + 1

Drop(t) ==
  /\ holders = {t}
  /\ level' = level - 1
  /\ holders' = IF level = 1 THEN {} ELSE {t}

Next == \E t \in Thread : Take(t) \/ Again(t) \/ Drop(t)

Spec == Init /\ [][Next]_<<holders, level>>
=============================================================================
