--------------------------- MODULE MCX86TaskModel ---------------------------
EXTENDS X86TaskModel

Interval(iters, per, inner, bar) ==
  [iters |-> iters, per |-> per, inner |-> inner, barrier |-> bar]

\* heat.c: every interval has as many tasks as the one before.
Heat == <<Interval(3, 2, 0, FALSE), Interval(3, 2, 0, FALSE)>>

\* cg.c: a barrier after the interval, here before one with more tasks, and
\* a loop with no iterations.
Cg == <<Interval(1, 1, 0, TRUE), Interval(3, 1, 0, TRUE), Interval(0, 1, 0, FALSE)>>

\* sobel.c: a task that enqueues the tasks of the inner loop.
Sobel == <<Interval(1, 1, 2, FALSE), Interval(2, 1, 0, FALSE)>>

Fitting == {Heat, Cg, Sobel}
=============================================================================
