CONSTANTS
  Callers = {"i1", "i2"}
  Requests = {"r1", "r2"}
  MaxRequests = 1
  Window = 2
  MaxKeys = 1
  Lapsing = {"i1"}
  MaxFailures = 2
  FailWindow = 1
  BlockTime = 2
  MaxBatch = 2
  Bodies <- MCBodies
  KeyHour = 1
  Installs <- TwoPlugins
  Memories = {"m1", "m2"}
  Runs = {"u1", "u2"}
  Schedules = {"s1"}
  Alerts = {"a1"}
  TypeOf <- TypeOfMemory
  Crons = {"ok", "bad"}
  ValidCrons = {"ok"}
  MaxFrames = 2
  MaxEvents = 4
SPECIFICATION MCSpec
INVARIANTS  ConfigFollows PluginsAccounted TurnsTaken 
 
CHECK_DEADLOCK FALSE
