SPECIFICATION FairSpec
CONSTANTS
  Clusters = 2
  PerCluster = 1
  SWTQ_TASK_GROUP_FETCH = 1
  TotIters = 3
  ItersPerTask = 1
  TASK_GROUP_SIZE = 1
  SWTQ_LOCAL_ENQUEUE_COUNT = 0
  SWTQ_DATAPAR_MODE = FALSE
  MaxPhase = 2
  TQ_SIZE = 8
  Cluster <- MCCluster
  Thread <- MCThread
  clusterOf <- MCclusterOf
  number <- MCnumber
  Task <- MCTask
  Nobody = Nobody
INVARIANTS
  LoopComplete
  ClusterCountExact
  RunAtMostOnce
PROPERTY Terminates
