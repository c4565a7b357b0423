CONSTANTS
  Threads = 3
  Slots = 3
  Pools = {"syspool", "incoherent_pool"}
  PerRound = 2
  Rounds = 1
  Thread <- MCThread
  Word = 32
  Line = 2
  ArenaStart = 3
  ArenaEnd = 14
  Lens = {3}
SPECIFICATION Spec
INVARIANT RegionsApart
