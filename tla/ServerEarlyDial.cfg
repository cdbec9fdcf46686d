SPECIFICATION Spec
CONSTANTS
  a1 = a1
  a2 = a2
  c1 = c1
  p1 = p1
  p2 = p2
  r1 = r1
  u = u
  v = v
  w = w
  n1 = n1
  n2 = n2
  None = None
  Self = n1
  Threads <- MCThreads
  Emitters <- MCEmitters
  Messages <- AllMessages
  AgentSessions = {a1}
  ClientSessions = {}
  PeerSessions = {}
  NoFrame = None
  Nodes = {n1}
  Receivers = {"udp", "tcp"}
  Frames <- AllFrames
  Origin <- FrameOrigin
  Carrier <- Carriers
  RemoteSessions = {}
  Codes = {u, n1}
  CodeOf <- Apart
  HomeOf <- Elsewhere
  MaxArrivals = 1
  MaxFrames = 0
  Ending = {}
  Exchanges = {}
  EarlyDial = TRUE
PROPERTIES
  TellsAgents
CHECK_DEADLOCK FALSE
