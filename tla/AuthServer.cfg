SPECIFICATION FairSpec
CONSTANTS
  Sessions = {s1, s2}
  ServerIds = {i1, i2}
  Workers = {w1, w2, w3}
  ConnectionPoolSize = 2
  MaxJobs = 1
  NoId = NoId
INVARIANTS
  RegistrationsTrue
PROPERTIES
  StopReachesWorkers
CHECK_DEADLOCK FALSE
