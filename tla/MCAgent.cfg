SPECIFICATION ASpec
CONSTANTS
  A = A
  B = B
  me = me
  seed = seed
  Keys = {A, B, seed}
  Servers = {A, B}
  ServerAt <- MCServerAt
  Values = {me}
  Hash <- MCHash
  AgentId = me
  Nowhere = Nowhere
  None = None
  Tables <- MCTables
  Seeds = {seed}
  Clusters <- MCClusters
  Unreachable = {A}
  MaxNews = 1
  MaxDrops = 1
  MaxPrints = 1
  MaxEvents = 1
  MaxLate = 1
INVARIANTS
  ATypeOK
  GetIsAnswered
PROPERTIES
  Settles
  RequestsTaken
  KeepsConnecting
CHECK_DEADLOCK FALSE
