SPECIFICATION Spec
CONSTANTS
  Conns = {c1}
  Hosts = {h1}
  ConfirmHosts = {h1}
  TunnelHosts = {}
  ParentHosts = {}
  NoHost = NoHost
  NoConn = NoConn
  MaxReq = 2
  Faults = {}
INVARIANTS
  OnlyApproved
