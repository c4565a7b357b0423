SPECIFICATION Spec
CONSTANTS
  Clusters = 1
  PerCluster = 2
  SWTQ_TASK_GROUP_FETCH = 1
  TotIters = 1
  ItersPerTask = 1
  TASK_GROUP_SIZE = 1
  MaxPhase = 2
  TQ_SIZE = 8
  Thread0 = 0
  Cluster <- MCCluster
  Thread <- MCThread
  clusterOf <- MCclusterOf
  Task <- MCTask
  Nobody = Nobody
INVARIANT QuiescentAtSync
