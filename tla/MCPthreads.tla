----------------------------- MODULE MCPthreads -----------------------------
EXTENDS Pthreads

MCThread == 0 .. Threads - 1
=============================================================================
