SPECIFICATION Spec
CONSTANTS
  c1 = c1
  c2 = c2
  Kinds = {"mqueue", "shm", "flock", "epoll"}
  MqCpus = {c1, c2}
  MqNames = {n1, n2}
  MqPriorities = {0, 1}
  MqMax = 2
  MqFdLimit = 2
  MqSendLimit = 3
  MqCalls <- MqCallSets
  ShmProcs = {p1, p2}
  ShmKeys = {k1}
  ShmSpaces = {1, 2}
  ShmSizes = {0, 1}
  ShmIdLimit = 2
  ShmAtLimit = 3
  ShmTop = 11
  FlPids = {1, 2}
  FlFiles = {f1}
  FlMax = 2
  FlLimit = 3
  EpFds = {3, 4}
  EpAsks <- Asks
  EvLimit = 2
  EvMax = 3
INVARIANTS
    MqDelivery
    
    ShmSound
    EpReports
PROPERTIES
    FlExcludes
CHECK_DEADLOCK FALSE
