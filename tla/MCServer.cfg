SPECIFICATION SpeakingSpec
CONSTANTS
  c1 = c1
  c2 = c2
  c3 = c3
  Clients <- ThreeClients
  OURSELVES = OURSELVES
  Backlog = 2
  MaxSignals = 2
INVARIANTS
  AnsweredIsKept
  OneMoreAtMost
PROPERTIES
  EveryClientSettled
  ShutdownCompletes
CHECK_DEADLOCK FALSE
