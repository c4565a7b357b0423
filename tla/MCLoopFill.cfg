SPECIFICATION Spec
CONSTANTS
  MaxIters = 20
  MaxPerTask = 4
  ClusterCounts = {1, 2, 4}
  GroupSizes = {1, 2, 8}
INVARIANTS
  FillIsShare
  IterationsOnce
  DescriptorsSuffice
