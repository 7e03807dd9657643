SPECIFICATION Spec
CONSTANTS
  Conns = {c1, c2}
  Hosts = {h1, h3, h4}
  ConfirmHosts = {h1}
  TunnelHosts = {h3, h4}
  ParentHosts = {h4}
  NoHost = NoHost
  NoConn = NoConn
  MaxReq = 3
  Faults = {"send"}
SYMMETRY MCSymmetry
INVARIANTS
  TypeOK
  NotStranded
  IndexBehind
  Registered
  DirectTunnelKnown
PROPERTIES
  RightHost
  QueueSpec
