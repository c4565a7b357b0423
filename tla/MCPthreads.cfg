CONSTANTS
  Threads = 3
  Slots = 4
  Pools = {"syspool"}
  PerRound = 3
  Rounds = 2
  Thread <- MCThread
  Word = 32
  Line = 2
  ArenaStart = 3
  ArenaEnd = 14
  Lens = {3, 4}
SPECIFICATION FairSpec
INVARIANTS TypeOK OnePthreadPerSlot JoinGetsValue OnceOnly RegionsApart
PROPERTY PthreadsEnd
CHECK_DEADLOCK FALSE
