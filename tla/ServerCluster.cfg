SPECIFICATION Safety
CONSTANTS
  a1 = a1
  a2 = a2
  c1 = c1
  p1 = p1
  p2 = p2
  r1 = r1
  u = u
  v = v
  w = w
  n1 = n1
  n2 = n2
  None = None
  Self = n1
  Threads <- MCThreads
  Emitters <- MCEmitters
  Messages <- AllMessages
  AgentSessions = {a1}
  ClientSessions = {}
  PeerSessions = {p1}
  NoFrame = None
  Nodes = {n1, n2}
  Receivers = {"udp", "tcp"}
  Frames <- AllFrames
  Origin <- FrameOrigin
  Carrier <- Carriers
  RemoteSessions = {}
  Codes = {u, n1, n2}
  CodeOf <- Apart
  HomeOf <- Elsewhere
  MaxArrivals = 1
  MaxFrames = 1
  Ending = {}
  Exchanges = {}
  EarlyDial = FALSE
PROPERTIES
  RouterContract
CHECK_DEADLOCK FALSE
