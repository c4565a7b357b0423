SPECIFICATION FairSpec
CONSTANTS
  Thread <- MCThread
  Cluster <- MCCluster
  clusterOf <- MCclusterOf
  PerCluster = 2
  Word = 4
INVARIANT TypeOK
INVARIANT WakeupOnlyWhenAllArrived
INVARIANT CountersAgree
PROPERTY AbstractBarrier
PROPERTY AllInAllOut
