SPECIFICATION PortsSpec
CONSTANTS
  Session = {s1, s2}
  Port = {p1, p2}
  AgentPort = p2
  AtlasID = TRUE
INVARIANTS PortsTypeOK ToldOnce PortsNeedAWorkspace
PROPERTIES WaitingEnds  OpenPortsAreTold
