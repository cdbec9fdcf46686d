SPECIFICATION RSpec
CONSTANTS
  a1 = a1
  a2 = a2
  c1 = c1
  u = u
  None = None
  AgentSessions = {a1, a2}
  ClientSessions = {c1}
  PeerSessions = {}
  Threads = {}
  Emitters = {"PEER_SERVER"}
  Codes = {u}
  CodeOf <- MCCodeOf
  Messages <- MCMessages
INVARIANTS
  RTypeOK
  NoSendOnClosed
  FanoutServed
  NoOrphanChannel
  RInv
PROPERTIES
  BoardContract
CHECK_DEADLOCK FALSE
