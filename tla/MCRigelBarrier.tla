--------------------------- MODULE MCRigelBarrier ---------------------------
(* Two clusters of two threads; the word wraps after two rounds.           *)
EXTENDS RigelBarrier, TLC

MCThread == {"c0t0", "c0t1", "c1t0", "c1t1"}
MCCluster == {"c0", "c1"}
MCclusterOf == [t \in MCThread |-> IF t \in {"c0t0", "c0t1"} THEN "c0" ELSE "c1"]
=============================================================================
