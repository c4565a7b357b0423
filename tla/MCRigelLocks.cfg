SPECIFICATION FairSpec
CONSTANTS
  Threads = 2
  Thread <- MCThread
  Kinds = {"word", "plain", "newlib", "errorcheck", "recursive"}
  MaxDepth = 2
  Word = 4
INVARIANTS
  MutualExclusion
  NeverWaitsForItself
PROPERTIES
  Reentrant
  ComesFree
CHECK_DEADLOCK FALSE
