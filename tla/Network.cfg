SPECIFICATION Spec
CONSTANTS
  Kinds = {"unix", "inet", "tcp"}
  UdsCpus = {c1, c2}
  UdsPaths = {p1}
  UdsLimit = 4
  UdsBuf = 2
  UdsBacklog = 1
  UdsWorkloads <- UdsWorks
  NsLimit = 4
  NsPortMax = 3
  NsEphemeral = 2
  NsWorkloads <- NsWorks
  TcMod = 8
  TcIsns = {0, 7}
  TcNetMax = 3
  TcBufMax = 4
  TcNetworks <- TcNets
INVARIANTS
    
    NsConnections
    
    TcNumbers

    
CHECK_DEADLOCK FALSE
