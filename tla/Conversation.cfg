CONSTANTS
  m1 = m1
  m2 = m2
  m3 = m3
  m4 = m4
  s1 = s1
  s2 = s2
  Msgs <- MCMsgs
  Sessions <- MCSessions
  SessionOf <- MCSessionOf
  QueueMax = 2
  DedupeMax = 2
  MaxEntries = 5
  MaxDisposals = 1
  Limit = 3
  MaxSteps = 2
  MaxAttempts = 2
  MaxReceived = 4
SPECIFICATION MCSpec
INVARIANTS HandledInTurn RedeliveryFiltered HistoryKept
PROPERTIES EveryMessageLeaves RecentRemembered TurnEnds
CHECK_DEADLOCK FALSE
