SPECIFICATION FairSpec
CONSTANTS
  Thread = {t1, t2, t3}
  Word = 3
INVARIANTS
  MutualExclusion
  TicketsInOrder
PROPERTIES
  ServedInOrder
  TicketIsCalled
