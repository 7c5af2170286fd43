SPECIFICATION Spec
CONSTANTS
  Addrs = {"client", "server"}
  Ports = {0, 1, 2}
  Protocols = {TCP}
  TCP = TCP
  Vlans = {0}
  Interfaces = {1, 2}
  SeqNos = {0, 1, 2}
  None = None
  Key <- MCKey
  ClientSide = 1
  ServerSide = 2
  MaxLate = 1
INVARIANTS
  TypeOK
  ResetAfterHandshake
  ResetNotAhead
  MarkNamesClient
  ClosingIsTrue
VIEW ConnView
