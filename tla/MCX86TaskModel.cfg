CONSTANTS
  Cores = 3
  Size = 5
  Programs <- Fitting
SPECIFICATION FairSpec
INVARIANTS TypeOK WaitCountExact CountExact
PROPERTIES TasksArePooled BarrierIsPhased Terminates
